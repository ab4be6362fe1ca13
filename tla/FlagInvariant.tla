--------------------------- MODULE FlagInvariant ---------------------------
(***************************************************************************)
(* The inductive invariant of FlagService: what an open transaction has    *)
(* written at each statement, what its row locks keep true of the          *)
(* committed tables until it commits, and what the tables always satisfy.  *)
(***************************************************************************)
EXTENDS FlagService

Open(r) == pc[r] \in InTx

\* How far the handler has come: the rows it has written when it executes its next statement.
Progress(r) ==
  /\ pc[r] \in {"idle", "done"} => seen[r] = Nil /\ target[r] = {} /\ tx[r] = NoTx
  /\ pc[r] = "readRules" => seen[r] # Nil /\ tx[r] = NoTx /\ input[r] \in EvaluateInput
  /\ Open(r) => seen[r] # Nil /\ input[r] \in MutationInput
  /\ pc[r] = "insertFlag" => input[r].op = "create" /\ tx[r].wrote = "none"
  /\ pc[r] \in {"deleteRules", "lockRules", "insertRules"} =>
       /\ input[r].rules \in RuleLists
       /\ \/ input[r].op = "create" /\ tx[r].wrote = "insert" /\ input[r].rules # {}
          \/ input[r].op = "update" /\ tx[r].wrote = "none"
  /\ pc[r] = "updateFlag" => input[r].op = "update" /\ tx[r].wrote = "none"
  /\ pc[r] = "deleteFlag" => input[r].op = "delete" /\ tx[r].wrote = "none" /\ tx[r].ins = {}
  /\ pc[r] = "cascade" => input[r].op = "delete" /\ tx[r].wrote = "delete" /\ tx[r].ins = {}
  /\ pc[r] \in {"audit", "commit"} =>
       \/ input[r].op = "create" /\ tx[r].wrote = "insert"
       \/ input[r].op = "update" /\ tx[r].wrote = "update"
       \/ input[r].op = "delete" /\ tx[r].wrote = "delete" /\ tx[r].ins = {}
  /\ pc[r] = "commit" =>
       tx[r].entries = <<[action |-> input[r].op, id |-> seen[r].id, actor |-> r]>>
  /\ pc[r] # "commit" => tx[r].entries = <<>>

\* The flag r holds in memory: its own new one, or one whose creator has committed; every
\* rule r deletes or inserts is of that flag.
OwnFlag(r) ==
  seen[r] # Nil =>
    /\ input[r].op = "create" =>
         /\ seen[r].id = r /\ seen[r].enabled = FALSE
         /\ target[r] = {} /\ tx[r].del = {}
    /\ input[r].op # "create" => pc[seen[r].id] = "done"
    /\ \A f \in flags : f.id = seen[r].id => f.key = seen[r].key
    /\ \A x \in target[r] \cup tx[r].del \cup tx[r].ins : x.flag = seen[r].id

\* A statement that may wait for the rows of others while r itself has deleted or inserted no
\* rule yet.
Unwritten(r) ==
  /\ pc[r] \in {"insertFlag", "deleteRules", "lockRules", "deleteFlag"} => tx[r].del = {}
  /\ pc[r] \in {"insertFlag", "deleteRules", "lockRules", "insertRules", "deleteFlag"} =>
       tx[r].ins = {}

\* What the locks of r guarantee until it commits.
Locked(r) ==
  /\ tx[r].wrote \in {"update", "delete"} => \E f \in flags : f.id = seen[r].id
  /\ tx[r].wrote = "insert" => FlagsWith(seen[r].key) = {}
  /\ (pc[r] \in {"audit", "commit"} /\ tx[r].wrote = "delete") => tx[r].del = RulesOf(seen[r].id)

\* No two open transactions have written the same flag, or inserted the same key.
Exclusive(r, s) ==
  r # s =>
    /\ (tx[r].wrote \in {"update", "delete"} /\ tx[s].wrote \in {"update", "delete"}) =>
         seen[r].id # seen[s].id
    /\ (tx[r].wrote = "insert" /\ tx[s].wrote = "insert") => seen[r].key # seen[s].key

\* The creator of whatever is committed has been answered; ids are unique.
Creators ==
  /\ \A f \in flags : pc[f.id] = "done"
  /\ \A i \in DOMAIN audit : pc[audit[i].id] = "done"
  /\ \A f, g \in flags : f.id = g.id => f = g

\* The inductive invariant of FlagService.
IInv ==
  /\ TypeOK
  /\ \A r \in Requests : Progress(r) /\ OwnFlag(r) /\ Locked(r)
  /\ \A r, s \in Requests : Exclusive(r, s)
  /\ Creators /\ UniqueKeys /\ NoOrphanRules /\ AuditIsHistory

\* Only who is done has answered or is in the log, once; "ok" tells that it is in the log, and no
\* answer but "error" goes with an entry besides.
Answered(r) ==
  /\ pc[r] # "done" => resp[r] = Nil
  /\ pc[r] \in InTx => r \notin Anonymous
  /\ resp[r] = "ok" => \E i \in DOMAIN audit : audit[i].actor = r
  /\ \A i \in DOMAIN audit : audit[i].actor = r =>
       /\ pc[r] = "done" /\ resp[r] \in {"ok", "error"} /\ r \notin Anonymous
       /\ \A j \in DOMAIN audit : audit[j].actor = r => i = j

\* The inductive invariant behind the answers and the deadlocks; it needs IInv.
AInv == \A r \in Requests : Unwritten(r) /\ Answered(r)

=============================================================================
