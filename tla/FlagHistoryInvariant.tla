------------------------ MODULE FlagHistoryInvariant ------------------------
(***************************************************************************)
(* The inductive invariant of FlagHistory: as long as a request has not    *)
(* been overtaken, what it read is what is committed, and what it has      *)
(* written so far goes together with that.                                 *)
(***************************************************************************)
EXTENDS FlagInvariant, FlagHistory

\* The rules a creation or an update brings are of the strategy it is about to store.
Chosen(r) ==
  (pc[r] \in InTx /\ input[r].op \in {"create", "update"} /\ input[r].rules # Nil) =>
    \A x \in input[r].rules : x.type = seen[r].strategy

\* At the flag row of an update and at the end of a creation or update, r has inserted the
\* rules it brings, and has deleted none if it brings no list.
Replaced(r) ==
  (pc[r] \in {"updateFlag", "audit", "commit"} /\ input[r].op \in {"create", "update"}) =>
    /\ input[r].rules = Nil => tx[r].del = {} /\ tx[r].ins = {}
    /\ input[r].rules # Nil => tx[r].ins = NewRules(r)

\* An update that nobody has overtaken works on the row and the rules that are committed.
UpToDate(r) ==
  (pc[r] \in InTx /\ input[r].op = "update" /\ r \notin overtaken) =>
    \E f \in flags :
      /\ f.id = seen[r].id
      /\ input[r].rules = Nil => f.strategy = seen[r].strategy
      /\ pc[r] = "lockRules" => target[r] = RulesOf(f.id)
      /\ (input[r].rules # Nil /\ pc[r] \in {"insertRules", "updateFlag", "audit", "commit"}) =>
           tx[r].del = RulesOf(f.id)

\* An evaluation that nobody has overtaken can only give an answer of some committed state;
\* nobody else has any to be compared with.
Admits(r) ==
  /\ pc[r] \in {"idle"} \cup InTx => admissible[r] = {}
  /\ (pc[r] = "readRules" /\ r \notin overtaken) =>
       Verdicts(seen[r].strategy, RulesOf(seen[r].id)) \subseteq admissible[r]
  /\ pc[r] = "done" => (IsTorn(r) => r \in overtaken)

\* The inductive invariant of FlagHistory; it needs those of FlagService.
HInv ==
  /\ admissible \in [Requests -> SUBSET Outcomes]
  /\ \A r \in Requests : Chosen(r) /\ Replaced(r) /\ UpToDate(r) /\ Admits(r)
  /\ FitUnlessOvertaken

\* What every step of FlagHistory keeps: the invariants of FlagService, and this one.
FInv == IInv /\ AInv /\ HInv

=============================================================================
