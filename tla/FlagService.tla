----------------------------- MODULE FlagService -----------------------------
(***************************************************************************)
(* The flags service (internal/flags/service.go) over its Postgres store   *)
(* (internal/flags/postgres.go), one SQL statement per step.               *)
(*                                                                         *)
(* Every mutation runs in one READ COMMITTED transaction: it reads the     *)
(* flag without locking it, writes the flag and its rules, writes one      *)
(* audit entry and commits.  Writes of an open transaction are kept in tx  *)
(* and reach the tables flags, rules and audit when it commits; what it    *)
(* wrote is also what it has locked.  EvaluateFlag uses no transaction.    *)
(*                                                                         *)
(* A request is handled once.  It is also its own actor, and the id of the *)
(* flag it creates (gen_random_uuid() never repeats).  A key stands for    *)
(* the pair (key, environment); the description of a flag is left out.     *)
(***************************************************************************)
EXTENDS FlagRules, SequencesExt

CONSTANTS
  Requests,   \* the GraphQL requests that reach the service
  Keys,       \* the (key, environment) pairs they name
  RuleLists,  \* the rule lists they carry, each a set of RuleSpec
  Anonymous,  \* the requests whose context holds no actor id
  Nil         \* Go's nil

CreateInput == [op : {"create"}, key : Keys, strategy : Strategies, rules : RuleLists]
UpdateInput == [op : {"update"}, key : Keys, enabled : BOOLEAN, rules : RuleLists \cup {Nil}]
DeleteInput == [op : {"delete"}, key : Keys]
EvaluateInput == [op : {"evaluate"}, key : Keys, userID : {"", "user"}]
MutationInput == CreateInput \cup UpdateInput \cup DeleteInput
Input == MutationInput \cup EvaluateInput

Flag == [id : Requests, key : Keys, enabled : BOOLEAN, strategy : Strategies]
Rule == [flag : Requests, by : Requests, type : RuleTypes, outcome : Outcomes]
Entry == [action : {"create", "update", "delete"}, id : Requests, actor : Requests]

ASSUME ConstantsAssumption ==
  /\ RuleLists \subseteq SUBSET RuleSpec
  /\ Anonymous \subseteq Requests
  /\ Nil \notin RuleLists \cup Flag /\ Nil \notin Outcomes \cup {"ok"}

\* What an open transaction has written: the flag row, rules, audit entries.
Tx == [wrote : {"none", "insert", "update", "delete"},
       del : SUBSET Rule, ins : SUBSET Rule, entries : {<<>>} \cup {<<e>> : e \in Entry}]
NoTx == [wrote |-> "none", del |-> {}, ins |-> {}, entries |-> <<>>]

VARIABLES
  flags, rules, audit,  \* the committed rows of feature_flags, flag_rules, audit_logs
  pc,      \* the statement each request executes next
  input,   \* what it was called with
  seen,    \* its *Flag: the row it read or built, with its own changes
  target,  \* the rules its DELETE found in its snapshot
  tx,      \* what its transaction has written
  resp     \* what it answered

db == <<flags, rules, audit>>
handler == <<pc, input, seen, target, tx, resp>>
vars == <<db, handler>>

Init ==
  /\ flags = {} /\ rules = {} /\ audit = <<>>
  /\ pc = [r \in Requests |-> "idle"]
  /\ input = [r \in Requests |-> Nil]
  /\ seen = [r \in Requests |-> Nil]
  /\ target = [r \in Requests |-> {}]
  /\ tx = [r \in Requests |-> NoTx]
  /\ resp = [r \in Requests |-> Nil]

InTx == {"insertFlag", "deleteRules", "lockRules", "insertRules", "updateFlag",
         "deleteFlag", "cascade", "audit", "commit"}

FlagsWith(key) == {f \in flags : f.key = key}
RulesOf(id) == {x \in rules : x.flag = id}

\* Mutant of Live: RowsAffected() is not looked at, and there is no foreign key.
RowAssumed(r) == TRUE

\* The row of the flag r works on is there for r: committed, or r's own insert.
Live(r) == tx[r].wrote = "insert" \/ \E f \in flags : f.id = seen[r].id

\* s holds a row lock that the statement r executes next has to wait for.
Blocks(s, r) ==
  LET sameFlag == seen[s] # Nil /\ seen[s].id = seen[r].id
  IN  \/ pc[r] = "insertFlag" /\ tx[s].wrote # "none" /\ seen[s].key = seen[r].key
      \/ pc[r] = "lockRules" /\ tx[s].del \cap target[r] # {}
      \/ pc[r] = "insertRules" /\ tx[s].wrote = "delete" /\ sameFlag
      \/ pc[r] \in {"updateFlag", "deleteFlag"} /\ tx[s].wrote \in {"update", "delete"} /\ sameFlag
      \/ pc[r] = "deleteFlag" /\ tx[s].ins # {} /\ sameFlag
      \/ pc[r] = "cascade" /\ tx[s].del \cap RulesOf(seen[r].id) # {}

WaitsFor(r) == {s \in Requests \ {r} : Blocks(s, r)}

\* r waits, directly or through others, for itself.
InWaitCycle(r) ==
  \A S \in SUBSET Requests :
    (WaitsFor(r) \subseteq S /\ \A s \in S : WaitsFor(s) \subseteq S) => r \in S

Goto(r, statement) == pc' = [pc EXCEPT ![r] = statement]

\* The handler returns: an open transaction is gone (defer tx.Rollback() or committed).
Finish(r, answer) ==
  /\ Goto(r, "done")
  /\ resp' = [resp EXCEPT ![r] = answer]
  /\ input' = [input EXCEPT ![r] = Nil]
  /\ seen' = [seen EXCEPT ![r] = Nil]
  /\ target' = [target EXCEPT ![r] = {}]
  /\ tx' = [tx EXCEPT ![r] = NoTx]

\* The handler goes on with the next statement, holding the flag in memory.
Continue(r, in, flag, statement) ==
  /\ Goto(r, statement)
  /\ input' = [input EXCEPT ![r] = in]
  /\ seen' = [seen EXCEPT ![r] = flag]
  /\ UNCHANGED <<target, tx, resp>>

\* Statement of r's transaction, executed once no other transaction blocks it.
Execute(r, statement) == pc[r] = statement /\ WaitsFor(r) = {}

-----------------------------------------------------------------------------
\* Mutant of PrepareAuditTx: the actor is not asked for.
PrepareTxOnly(r) == pc[r] = "idle"

PrepareAuditTx(r) == pc[r] = "idle" /\ r \notin Anonymous

MissingActor(r) ==
  /\ pc[r] = "idle" /\ r \in Anonymous
  /\ Finish(r, "missingActor")
  /\ UNCHANGED db

CreateFlag(r) ==
  /\ PrepareAuditTx(r)
  /\ \E in \in CreateInput :
       LET strategy == ResolveStrategyForCreate(in.strategy, in.rules)
       IN  \/ /\ FlagsWith(in.key) # {}
              /\ Finish(r, "duplicate")
           \/ /\ FlagsWith(in.key) = {} /\ strategy = Mismatch
              /\ Finish(r, "mismatch")
           \/ /\ FlagsWith(in.key) = {} /\ strategy # Mismatch
              /\ Continue(r, in, [id |-> r, key |-> in.key, enabled |-> FALSE,
                                  strategy |-> strategy], "insertFlag")
  /\ UNCHANGED db

\* Mutant of InsertFlag: no UNIQUE(key, environment).
InsertFlagAnyway(r) ==
  /\ Execute(r, "insertFlag")
  /\ tx' = [tx EXCEPT ![r].wrote = "insert"]
  /\ Goto(r, IF input[r].rules = {} THEN "audit" ELSE "deleteRules")
  /\ UNCHANGED <<db, input, seen, target, resp>>

\* The UNIQUE(key, environment) index has the last word; the service wraps its error.
InsertFlag(r) ==
  /\ Execute(r, "insertFlag")
  /\ \/ /\ FlagsWith(seen[r].key) # {}
        /\ Finish(r, "wrappedDuplicate")
     \/ /\ FlagsWith(seen[r].key) = {}
        /\ tx' = [tx EXCEPT ![r].wrote = "insert"]
        /\ Goto(r, IF input[r].rules = {} THEN "audit" ELSE "deleteRules")
        /\ UNCHANGED <<input, seen, target, resp>>
  /\ UNCHANGED db

UpdateFlag(r) ==
  /\ PrepareAuditTx(r)
  /\ \E in \in UpdateInput :
       \/ /\ FlagsWith(in.key) = {}
          /\ Finish(r, "notFound")
       \/ \E f \in FlagsWith(in.key) :
            IF in.rules = Nil
            THEN Continue(r, in, [f EXCEPT !.enabled = in.enabled], "updateFlag")
            ELSE LET strategy == ResolveStrategyForUpdate(f.strategy, in.rules)
                 IN  IF strategy = Mismatch
                     THEN Finish(r, "mismatch")
                     ELSE Continue(r, in, [f EXCEPT !.enabled = in.enabled,
                                                    !.strategy = strategy], "deleteRules")
  /\ UNCHANGED db

\* Mutants of UpdateRow: the update is tried until the row is there; an update that clears
\* the rules does so after the row is written, too.
UpdateRowRetrying(r) ==
  /\ Execute(r, "updateFlag") /\ Live(r)
  /\ tx' = [tx EXCEPT ![r].wrote = "update"]
  /\ Goto(r, "audit")
  /\ UNCHANGED <<db, input, seen, target, resp>>

UpdateRowThenRules(r) ==
  /\ Execute(r, "updateFlag") /\ Live(r)
  /\ tx' = [tx EXCEPT ![r].wrote = "update"]
  /\ Goto(r, IF input[r].rules = {} THEN "deleteRules" ELSE "audit")
  /\ UNCHANGED <<db, input, seen, target, resp>>

\* UPDATE ... WHERE id writes every column of the row r holds in memory.
UpdateRow(r) ==
  /\ Execute(r, "updateFlag")
  /\ \/ /\ ~Live(r)
        /\ Finish(r, "wrappedNotFound")
     \/ /\ Live(r)
        /\ tx' = [tx EXCEPT ![r].wrote = "update"]
        /\ Goto(r, "audit")
        /\ UNCHANGED <<input, seen, target, resp>>
  /\ UNCHANGED db

DeleteFlag(r) ==
  /\ PrepareAuditTx(r)
  /\ \E in \in DeleteInput :
       \/ /\ FlagsWith(in.key) = {}
          /\ Finish(r, "notFound")
       \/ \E f \in FlagsWith(in.key) : Continue(r, in, f, "deleteFlag")
  /\ UNCHANGED db

DeleteRow(r) ==
  /\ Execute(r, "deleteFlag")
  /\ \/ /\ ~Live(r)
        /\ Finish(r, "wrappedNotFound")
     \/ /\ Live(r)
        /\ tx' = [tx EXCEPT ![r].wrote = "delete"]
        /\ Goto(r, "cascade")
        /\ UNCHANGED <<input, seen, target, resp>>
  /\ UNCHANGED db

\* Mutant of CascadeRules: flag_rules.flag_id without ON DELETE CASCADE.
NoCascade(r) ==
  /\ Execute(r, "cascade")
  /\ Goto(r, "audit")
  /\ UNCHANGED <<db, input, seen, target, tx, resp>>

\* ON DELETE CASCADE of flag_rules.flag_id, run by the same DELETE statement.
CascadeRules(r) ==
  /\ Execute(r, "cascade")
  /\ tx' = [tx EXCEPT ![r].del = RulesOf(seen[r].id)]
  /\ Goto(r, "audit")
  /\ UNCHANGED <<db, input, seen, target, resp>>

-----------------------------------------------------------------------------
(* ReplaceRulesByFlagID in a transaction.  The DELETE works on the rows of  *)
(* its snapshot; one that another transaction is deleting is waited for,   *)
(* and rows committed meanwhile are not looked for.                        *)

DeleteRules(r) ==
  /\ Execute(r, "deleteRules")
  /\ target' = [target EXCEPT ![r] = RulesOf(seen[r].id)]
  /\ Goto(r, "lockRules")
  /\ UNCHANGED <<db, input, seen, tx, resp>>

LockRules(r) ==
  /\ Execute(r, "lockRules")
  /\ tx' = [tx EXCEPT ![r].del = target[r] \cap rules]
  /\ target' = [target EXCEPT ![r] = {}]
  /\ Goto(r, IF input[r].rules = {} THEN "updateFlag" ELSE "insertRules")
  /\ UNCHANGED <<db, input, seen, resp>>

\* Mutant of NewRules: the id generated for the rule is stored as that of its flag.
RulesOfRequest(r) ==
  {[flag |-> r, by |-> r, type |-> x.type, outcome |-> x.outcome] : x \in input[r].rules}

NewRules(r) ==
  {[flag |-> seen[r].id, by |-> r, type |-> x.type, outcome |-> x.outcome] : x \in input[r].rules}

\* The foreign key check locks the flag row FOR KEY SHARE and refuses a missing one.
InsertRules(r) ==
  /\ Execute(r, "insertRules")
  /\ \/ /\ ~Live(r)
        /\ Finish(r, "error")
     \/ /\ Live(r)
        /\ tx' = [tx EXCEPT ![r].ins = NewRules(r)]
        /\ Goto(r, IF input[r].op = "create" THEN "audit" ELSE "updateFlag")
        /\ UNCHANGED <<input, seen, target, resp>>
  /\ UNCHANGED db

-----------------------------------------------------------------------------
\* Mutant of AuditCreate: the ids of actor and entity are swapped.
AuditSwapped(r) ==
  /\ Execute(r, "audit")
  /\ tx' = [tx EXCEPT ![r].entries =
               <<[action |-> input[r].op, id |-> r, actor |-> seen[r].id]>>]
  /\ Goto(r, "commit")
  /\ UNCHANGED <<db, input, seen, target, resp>>

AuditCreate(r) ==
  /\ Execute(r, "audit")
  /\ tx' = [tx EXCEPT ![r].entries =
               <<[action |-> input[r].op, id |-> seen[r].id, actor |-> r]>>]
  /\ Goto(r, "commit")
  /\ UNCHANGED <<db, input, seen, target, resp>>

\* The transaction's writes become visible to everyone at once.
Apply(r) ==
  LET others == {f \in flags : f.id # seen[r].id}
  IN  /\ flags' = CASE tx[r].wrote = "none" -> flags
                    [] tx[r].wrote = "delete" -> others
                    [] OTHER -> others \cup {seen[r]}
      /\ rules' = (rules \ tx[r].del) \cup tx[r].ins
      /\ audit' = audit \o tx[r].entries

\* COMMIT takes effect; its acknowledgement may be lost (the handler then returns an error).
Commit(r) ==
  /\ Execute(r, "commit")
  /\ Apply(r)
  /\ \E answer \in {"ok", "error"} : Finish(r, answer)

\* A statement fails, the client goes away, the server is shut down or crashes.
Fail(r) ==
  /\ pc[r] # "done"
  /\ Finish(r, "error")
  /\ UNCHANGED db

\* Postgres aborts a statement that it finds waiting in a cycle.
AbortDeadlock(r) ==
  /\ pc[r] \in InTx /\ InWaitCycle(r)
  /\ Finish(r, "deadlock")
  /\ UNCHANGED db

-----------------------------------------------------------------------------
EvaluateFlag(r) ==
  /\ pc[r] = "idle"
  /\ \E in \in EvaluateInput :
       \/ /\ in.userID = ""
          /\ Finish(r, "invalidUser")
       \/ /\ in.userID # "" /\ \A f \in FlagsWith(in.key) : ~f.enabled
          /\ Finish(r, "false")
       \/ /\ in.userID # ""
          /\ \E f \in FlagsWith(in.key) : f.enabled /\ Continue(r, in, f, "readRules")
  /\ UNCHANGED db

\* Every answer that a flag with this strategy and these rules can give: ORDER BY id
\* puts the rules in the order of their random ids.
Verdicts(strategy, rows) ==
  {outcome \in Outcomes : \E order \in SetToSeqs(rows) : EvaluateRules(strategy, order) = outcome}

\* Mutant of ReadRules: a flag without rules is off for everyone.
ReadRulesClosed(r) ==
  /\ pc[r] = "readRules"
  /\ LET rows == RulesOf(seen[r].id)
     IN  \E answer \in IF rows = {} THEN {"false"} ELSE Verdicts(seen[r].strategy, rows) :
           Finish(r, answer)
  /\ UNCHANGED db

ReadRules(r) ==
  /\ pc[r] = "readRules"
  /\ \E answer \in Verdicts(seen[r].strategy, RulesOf(seen[r].id)) : Finish(r, answer)
  /\ UNCHANGED db

-----------------------------------------------------------------------------
Receive(r) == MissingActor(r) \/ CreateFlag(r) \/ UpdateFlag(r) \/ DeleteFlag(r) \/ EvaluateFlag(r)

Advance(r) ==
  \/ InsertFlag(r) \/ UpdateRow(r) \/ DeleteRow(r) \/ CascadeRules(r)
  \/ DeleteRules(r) \/ LockRules(r) \/ InsertRules(r)
  \/ AuditCreate(r) \/ Commit(r) \/ ReadRules(r) \/ AbortDeadlock(r)

\* Every request has been answered.
AllDone == (\A r \in Requests : pc[r] = "done") /\ UNCHANGED vars

Next == (\E r \in Requests : Receive(r) \/ Advance(r) \/ Fail(r)) \/ AllDone

Spec == Init /\ [][Next]_vars

\* The goroutine of a request and the backend that serves it keep running, and
\* Postgres looks for a cycle once a statement has waited for deadlock_timeout.
FairSpec == Spec /\ \A r \in Requests : WF_vars(Advance(r))

-----------------------------------------------------------------------------
Statements == {"idle", "readRules", "done"} \cup InTx
Answers == {Nil, "ok", "error", "deadlock", "missingActor", "duplicate", "wrappedDuplicate",
            "notFound", "wrappedNotFound", "mismatch", "invalidUser"} \cup Outcomes

\* Every variable has its type; no rule list, flag or answer of another shape is ever stored.
TypeOK ==
  /\ flags \subseteq Flag /\ rules \subseteq Rule /\ audit \in Seq(Entry)
  /\ pc \in [Requests -> Statements]
  /\ input \in [Requests -> Input \cup {Nil}]
  /\ seen \in [Requests -> Flag \cup {Nil}]
  /\ target \in [Requests -> SUBSET Rule]
  /\ tx \in [Requests -> Tx]
  /\ resp \in [Requests -> Answers]

\* The fail-closed audit of README.md "Fail-closed audit semantics", as what the log tells:
\* it is the exact history of the flags.  A flag exists iff the log has its creation and
\* not its deletion, nothing precedes the creation and nothing follows the deletion, so a
\* request that waited for a row lock while the flag was deleted neither brings the flag
\* back nor logs a change it did not make.
AuditIsHistory ==
  /\ \A id \in Requests :
       (\E f \in flags : f.id = id) <=>
         /\ \E i \in DOMAIN audit : audit[i].id = id /\ audit[i].action = "create"
         /\ \A i \in DOMAIN audit : audit[i].id = id => audit[i].action # "delete"
  /\ \A i, j \in DOMAIN audit : (i < j /\ audit[i].id = audit[j].id) =>
       audit[i].action # "delete" /\ audit[j].action # "create"
  /\ \A i \in DOMAIN audit : \E j \in 1..i : audit[j].id = audit[i].id /\ audit[j].action = "create"

\* A request that was told "ok" has exactly one entry in the log; one with an entry was told
\* "ok" or "error" (COMMIT took effect but its acknowledgement was lost); no other answer
\* leaves an entry behind, whatever had been written when it was given.
AnswerMatchesAudit ==
  \A r \in Requests :
    LET own == {i \in DOMAIN audit : audit[i].actor = r}
    IN  /\ Cardinality(own) <= 1
        /\ resp[r] = "ok" => own # {}
        /\ own # {} => resp[r] \in {"ok", "error"} /\ r \notin Anonymous

\* Whichever of two createFlag calls finds no flag first, (key, environment) stays unique.
UniqueKeys == \A f, g \in flags : f.key = g.key => f = g

\* No rule outlives its flag, although an updateFlag may be inserting rules while
\* deleteFlag removes the flag and cascades to the rules it can see.
NoOrphanRules == \A x \in rules : \E f \in flags : f.id = x.flag

\* The only lock cycle is between a deleteFlag (flag row, then rules) and an updateFlag
\* (rules, then flag row): a cycle never consists of updates and creations alone.
DeadlockNeedsDelete ==
  \A r \in Requests : InWaitCycle(r) =>
    \E s \in Requests : InWaitCycle(s) /\ pc[s] = "cascade"

\* Every request that was begun is answered, also when requests wait for one another.
EveryRequestAnswered == \A r \in Requests : pc[r] # "idle" ~> pc[r] = "done"

\* A committed change of the flags is one whole audited change: see AuditedFlags.
Audited == INSTANCE AuditedFlags WITH Ids <- Requests
ImplementsAuditedFlags == Audited!Spec

=============================================================================
