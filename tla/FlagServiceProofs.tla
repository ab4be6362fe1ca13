-------------------------- MODULE FlagServiceProofs --------------------------
(***************************************************************************)
(* Proofs about FlagService, for any number of requests, keys and rules:   *)
(* the types, the rows and the log that each step leaves behind, what the  *)
(* requests were answered, and which of them can be in a deadlock; then    *)
(* about FlagHistory: what a request relies on while no other has          *)
(* committed a change of the flag it read.                                 *)
(***************************************************************************)
EXTENDS FlagHistoryInvariant, FiniteSetTheorems, TLAPS

\* What a handler that returns leaves behind has the right types.
LEMMA FinishType ==
  ASSUME TypeOK, NEW r \in Requests, NEW answer \in Answers, Finish(r, answer)
  PROVE  /\ pc' \in [Requests -> Statements]
         /\ input' \in [Requests -> Input \cup {Nil}]
         /\ seen' \in [Requests -> Flag \cup {Nil}]
         /\ target' \in [Requests -> SUBSET Rule]
         /\ tx' \in [Requests -> Tx]
         /\ resp' \in [Requests -> Answers]
  <1>1. NoTx \in Tx  BY DEF NoTx, Tx
  <1>2. "done" \in Statements  BY DEF Statements
  <1> QED  BY <1>1, <1>2 DEF TypeOK, Finish, Goto

LEMMA ContinueType ==
  ASSUME TypeOK, NEW r \in Requests, NEW in \in Input, NEW f \in Flag,
         NEW statement \in Statements, Continue(r, in, f, statement)
  PROVE  /\ pc' \in [Requests -> Statements]
         /\ input' \in [Requests -> Input \cup {Nil}]
         /\ seen' \in [Requests -> Flag \cup {Nil}]
         /\ target' \in [Requests -> SUBSET Rule]
         /\ tx' \in [Requests -> Tx]
         /\ resp' \in [Requests -> Answers]
  BY DEF TypeOK, Continue, Goto

\* A rule list of a request asks for one of the strategies, or is refused.
LEMMA StrategyType ==
  ASSUME NEW current \in Strategies, NEW specs
  PROVE  /\ ResolveStrategyForCreate(current, specs) \in Strategies \cup {Mismatch}
         /\ ResolveStrategyForUpdate(current, specs) \in Strategies \cup {Mismatch}
  BY DEF ResolveStrategyForCreate, ResolveStrategyForUpdate, StrategyWith, RuleTypeToStrategy,
         Strategies, RuleTypes

LEMMA InitType == ASSUME Init PROVE TypeOK
  <1>1. NoTx \in Tx  BY DEF NoTx, Tx
  <1> QED  BY <1>1 DEF Init, TypeOK, Statements, Answers

\* Every step keeps the types.
LEMMA TypeStep ==
  ASSUME TypeOK, \A r \in Requests : Progress(r), [Next]_vars
  PROVE  TypeOK'
  <1> USE DEF db, Answers
  <1>1. CASE UNCHANGED vars
    BY <1>1 DEF vars, handler, TypeOK
  <1>2. ASSUME NEW r \in Requests, MissingActor(r) PROVE TypeOK'
    BY <1>2, FinishType DEF MissingActor, TypeOK
  <1>3. ASSUME NEW r \in Requests, CreateFlag(r) PROVE TypeOK'
    <2>1. PICK in \in CreateInput :
            LET strategy == ResolveStrategyForCreate(in.strategy, in.rules)
            IN  \/ \E answer \in Answers : Finish(r, answer)
                \/ strategy # Mismatch
                   /\ Continue(r, in, [id |-> r, key |-> in.key, enabled |-> FALSE,
                                       strategy |-> strategy], "insertFlag")
      BY <1>3 DEF CreateFlag
    <2>2. in \in Input /\ in.key \in Keys /\ in.strategy \in Strategies
      BY DEF Input, MutationInput, CreateInput
    <2>3. "insertFlag" \in Statements  BY DEF Statements, InTx
    <2>4. ResolveStrategyForCreate(in.strategy, in.rules) # Mismatch =>
            [id |-> r, key |-> in.key, enabled |-> FALSE,
             strategy |-> ResolveStrategyForCreate(in.strategy, in.rules)] \in Flag
      BY <2>2, StrategyType DEF Flag
    <2>5. /\ pc' \in [Requests -> Statements]
          /\ input' \in [Requests -> Input \cup {Nil}]
          /\ seen' \in [Requests -> Flag \cup {Nil}]
          /\ target' \in [Requests -> SUBSET Rule]
          /\ tx' \in [Requests -> Tx]
          /\ resp' \in [Requests -> Answers]
      BY <2>1, <2>2, <2>3, <2>4, FinishType, ContinueType
    <2> QED  BY <1>3, <2>5 DEF CreateFlag, TypeOK
  <1>4. ASSUME NEW r \in Requests, UpdateFlag(r) PROVE TypeOK'
    <2>1. PICK in \in UpdateInput :
            \/ \E answer \in Answers : Finish(r, answer)
            \/ \E f \in FlagsWith(in.key) :
                 \/ Continue(r, in, [f EXCEPT !.enabled = in.enabled], "updateFlag")
                 \/ LET strategy == ResolveStrategyForUpdate(f.strategy, in.rules)
                    IN  strategy # Mismatch
                        /\ Continue(r, in, [f EXCEPT !.enabled = in.enabled,
                                                     !.strategy = strategy], "deleteRules")
      BY <1>4, Zenon DEF UpdateFlag
    <2>2. in \in Input /\ in.enabled \in BOOLEAN
      BY DEF Input, MutationInput, UpdateInput
    <2>3. {"updateFlag", "deleteRules"} \subseteq Statements  BY DEF Statements, InTx
    <2>4. \A f \in FlagsWith(in.key) :
            /\ [f EXCEPT !.enabled = in.enabled] \in Flag
            /\ ResolveStrategyForUpdate(f.strategy, in.rules) # Mismatch =>
                 [f EXCEPT !.enabled = in.enabled,
                           !.strategy = ResolveStrategyForUpdate(f.strategy, in.rules)] \in Flag
      BY <2>2, StrategyType DEF FlagsWith, Flag, TypeOK
    <2>5. /\ pc' \in [Requests -> Statements]
          /\ input' \in [Requests -> Input \cup {Nil}]
          /\ seen' \in [Requests -> Flag \cup {Nil}]
          /\ target' \in [Requests -> SUBSET Rule]
          /\ tx' \in [Requests -> Tx]
          /\ resp' \in [Requests -> Answers]
      BY <2>1, <2>2, <2>3, <2>4, FinishType, ContinueType
    <2> QED  BY <1>4, <2>5 DEF UpdateFlag, TypeOK
  <1>5. ASSUME NEW r \in Requests, DeleteFlag(r) PROVE TypeOK'
    <2>1. PICK in \in DeleteInput :
            \/ \E answer \in Answers : Finish(r, answer)
            \/ \E f \in FlagsWith(in.key) : Continue(r, in, f, "deleteFlag")
      BY <1>5 DEF DeleteFlag
    <2>2. in \in Input /\ "deleteFlag" \in Statements /\ FlagsWith(in.key) \subseteq Flag
      BY DEF Input, MutationInput, Statements, InTx, FlagsWith, TypeOK
    <2>3. /\ pc' \in [Requests -> Statements]
          /\ input' \in [Requests -> Input \cup {Nil}]
          /\ seen' \in [Requests -> Flag \cup {Nil}]
          /\ target' \in [Requests -> SUBSET Rule]
          /\ tx' \in [Requests -> Tx]
          /\ resp' \in [Requests -> Answers]
      BY <2>1, <2>2, FinishType, ContinueType
    <2> QED  BY <1>5, <2>3 DEF DeleteFlag, TypeOK
  <1>6. ASSUME NEW r \in Requests, EvaluateFlag(r) PROVE TypeOK'
    <2>1. PICK in \in EvaluateInput :
            \/ \E answer \in Answers : Finish(r, answer)
            \/ \E f \in FlagsWith(in.key) : Continue(r, in, f, "readRules")
      BY <1>6 DEF EvaluateFlag, Outcomes
    <2>2. in \in Input /\ "readRules" \in Statements /\ FlagsWith(in.key) \subseteq Flag
      BY DEF Input, Statements, FlagsWith, TypeOK
    <2>3. /\ pc' \in [Requests -> Statements]
          /\ input' \in [Requests -> Input \cup {Nil}]
          /\ seen' \in [Requests -> Flag \cup {Nil}]
          /\ target' \in [Requests -> SUBSET Rule]
          /\ tx' \in [Requests -> Tx]
          /\ resp' \in [Requests -> Answers]
      BY <2>1, <2>2, FinishType, ContinueType
    <2> QED  BY <1>6, <2>3 DEF EvaluateFlag, TypeOK
  <1>7. ASSUME NEW r \in Requests, InsertFlag(r) \/ UpdateRow(r) \/ DeleteRow(r) PROVE TypeOK'
    <2>1. CASE \E answer \in Answers : Finish(r, answer)
      <3>1. UNCHANGED db  BY <1>7 DEF InsertFlag, UpdateRow, DeleteRow
      <3> QED  BY <2>1, <3>1, FinishType DEF TypeOK
    <2>2. CASE \E wrote \in {"insert", "update", "delete"} : tx' = [tx EXCEPT ![r].wrote = wrote]
      <3>1. PICK wrote \in {"insert", "update", "delete"} : tx' = [tx EXCEPT ![r].wrote = wrote]
        BY <2>2
      <3>2. [tx[r] EXCEPT !.wrote = wrote] \in Tx  BY DEF TypeOK, Tx
      <3>3. tx' \in [Requests -> Tx]  BY <3>1, <3>2 DEF TypeOK
      <3> QED
        BY <1>7, <2>2, <3>3, FinishType
        DEF InsertFlag, UpdateRow, DeleteRow, Goto, TypeOK, Statements, InTx
    <2> QED  BY <1>7, <2>1, <2>2 DEF InsertFlag, UpdateRow, DeleteRow
  <1>8. ASSUME NEW r \in Requests, CascadeRules(r) PROVE TypeOK'
    <2>1. RulesOf(seen[r].id) \in SUBSET Rule  BY DEF RulesOf, TypeOK
    <2>2. tx' \in [Requests -> Tx]  BY <1>8, <2>1 DEF CascadeRules, TypeOK, Tx
    <2> QED  BY <1>8, <2>2 DEF CascadeRules, Goto, TypeOK, Statements, InTx
  <1>9. ASSUME NEW r \in Requests, DeleteRules(r) PROVE TypeOK'
    <2>1. RulesOf(seen[r].id) \in SUBSET Rule  BY DEF RulesOf, TypeOK
    <2> QED  BY <1>9, <2>1 DEF DeleteRules, Goto, TypeOK, Statements, InTx
  <1>10. ASSUME NEW r \in Requests, LockRules(r) PROVE TypeOK'
    <2>1. target[r] \cap rules \in SUBSET Rule  BY DEF TypeOK
    <2>2. tx' \in [Requests -> Tx]  BY <1>10, <2>1 DEF LockRules, TypeOK, Tx
    <2> QED  BY <1>10, <2>2 DEF LockRules, Goto, TypeOK, Statements, InTx
  <1>11. ASSUME NEW r \in Requests, InsertRules(r) PROVE TypeOK'
    <2>1. CASE Finish(r, "error")
      BY <1>11, <2>1, FinishType DEF InsertRules, TypeOK
    <2>2. CASE tx' = [tx EXCEPT ![r].ins = NewRules(r)]
      <3>1. pc[r] = "insertRules"  BY <1>11 DEF InsertRules, Execute
      <3>2. input[r].rules \subseteq RuleSpec /\ seen[r] \in Flag
        BY <3>1, ConstantsAssumption DEF Progress, TypeOK, Open, InTx
      <3>3. NewRules(r) \in SUBSET Rule  BY <3>2 DEF NewRules, Rule, RuleSpec, Flag
      <3>4. [tx[r] EXCEPT !.ins = NewRules(r)] \in Tx  BY <3>3 DEF TypeOK, Tx
      <3>5. tx' \in [Requests -> Tx]  BY <2>2, <3>4 DEF TypeOK
      <3> QED
        BY <1>11, <2>2, <3>5, FinishType DEF InsertRules, Goto, TypeOK, Statements, InTx
    <2> QED  BY <1>11, <2>1, <2>2 DEF InsertRules
  <1>12. ASSUME NEW r \in Requests, AuditCreate(r) PROVE TypeOK'
    <2>1. pc[r] = "audit"  BY <1>12 DEF AuditCreate, Execute
    <2>2. input[r].op \in {"create", "update", "delete"} /\ seen[r] \in Flag
      BY <2>1 DEF Progress, TypeOK, Open, InTx
    <2> DEFINE e == [action |-> input[r].op, id |-> seen[r].id, actor |-> r]
    <2>3. e \in Entry  BY <2>2 DEF Entry, Flag
    <2> HIDE DEF e
    <2>4. [tx[r] EXCEPT !.entries = <<e>>] \in Tx  BY <2>3 DEF TypeOK, Tx
    <2>5. tx' = [tx EXCEPT ![r].entries = <<e>>]  BY <1>12 DEF AuditCreate, e
    <2>6. tx' \in [Requests -> Tx]  BY <2>4, <2>5 DEF TypeOK
    <2> QED  BY <1>12, <2>6 DEF AuditCreate, Goto, TypeOK, Statements, InTx
  <1>13. ASSUME NEW r \in Requests, Commit(r) PROVE TypeOK'
    <2>1. tx[r] \in Tx /\ pc[r] = "commit" /\ seen[r] \in Flag
      BY <1>13 DEF Commit, Execute, TypeOK, Progress, Open, InTx
    <2>2. tx[r].entries \in Seq(Entry)
      <3>1. tx[r].entries = <<>> \/ \E e \in Entry : tx[r].entries = <<e>>  BY <2>1 DEF Tx
      <3>2. ASSUME NEW e \in Entry PROVE <<e>> \in Seq(Entry)  OBVIOUS
      <3>3. <<>> \in Seq(Entry)  OBVIOUS
      <3> QED  BY <3>1, <3>2, <3>3, Zenon
    <2>3. flags' \subseteq Flag /\ rules' \subseteq Rule /\ audit' \in Seq(Entry)
      BY <1>13, <2>1, <2>2 DEF Commit, Apply, TypeOK, Tx
    <2>4. PICK answer \in Answers : Finish(r, answer)  BY <1>13 DEF Commit
    <2> QED  BY <2>3, <2>4, FinishType DEF TypeOK
  <1>14. ASSUME NEW r \in Requests, Fail(r) \/ AbortDeadlock(r) PROVE TypeOK'
    <2>1. PICK answer \in Answers : Finish(r, answer)  BY <1>14 DEF Fail, AbortDeadlock
    <2>2. UNCHANGED db  BY <1>14 DEF Fail, AbortDeadlock
    <2> QED  BY <2>1, <2>2, FinishType DEF TypeOK
  <1>15. ASSUME NEW r \in Requests, ReadRules(r) PROVE TypeOK'
    <2>1. PICK answer \in Answers : Finish(r, answer)  BY <1>15 DEF ReadRules, Verdicts
    <2>2. UNCHANGED db  BY <1>15 DEF ReadRules
    <2> QED  BY <2>1, <2>2, FinishType DEF TypeOK
  <1>16. CASE AllDone  BY <1>1, <1>16 DEF AllDone
  <1> QED
    BY <1>1, <1>2, <1>3, <1>4, <1>5, <1>6, <1>7, <1>8, <1>9, <1>10, <1>11, <1>12, <1>13,
       <1>14, <1>15, <1>16
    DEF Next, Receive, Advance

-----------------------------------------------------------------------------
\* The step concerns the handler of r only, and r has not answered before.
StepOf(r) ==
  /\ pc[r] # "done"
  /\ \A s \in Requests \ {r} :
       /\ pc'[s] = pc[s] /\ input'[s] = input[s] /\ seen'[s] = seen[s]
       /\ target'[s] = target[s] /\ tx'[s] = tx[s]

\* What r has written excludes what the others have written, and the other way round.
ExclusiveOf(r) == \A s \in Requests : Exclusive(r, s) /\ Exclusive(s, r)

\* A step that commits nothing keeps the invariant if it keeps what is said of its request.
LEMMA LocalStep ==
  ASSUME IInv, TypeOK', NEW r \in Requests, StepOf(r), UNCHANGED db,
         Progress(r)', OwnFlag(r)', Locked(r)', ExclusiveOf(r)'
  PROVE  IInv'
  <1>1. ASSUME NEW s \in Requests, s # r PROVE Progress(s)' /\ OwnFlag(s)' /\ Locked(s)'
    <2>1. Progress(s)'  BY <1>1 DEF IInv, StepOf, Progress, Open
    <2>2. OwnFlag(s)'
      <3>1. seen[s] # Nil => seen[s].id \in Requests  BY DEF IInv, TypeOK, Flag
      <3> QED  BY <1>1, <3>1 DEF IInv, TypeOK, StepOf, OwnFlag, db
    <2>3. Locked(s)'  BY <1>1 DEF IInv, StepOf, Locked, FlagsWith, RulesOf, db
    <2> QED  BY <2>1, <2>2, <2>3
  <1>2. ASSUME NEW s \in Requests, NEW t \in Requests PROVE Exclusive(s, t)'
    <2>1. CASE s = r \/ t = r  BY <2>1 DEF ExclusiveOf
    <2>2. CASE s # r /\ t # r
      <3>1. tx'[s] = tx[s] /\ tx'[t] = tx[t] /\ seen'[s] = seen[s] /\ seen'[t] = seen[t]
        BY <2>2 DEF StepOf
      <3>2. Exclusive(s, t)  BY DEF IInv
      <3> QED  BY <3>1, <3>2 DEF Exclusive
    <2> QED  BY <2>1, <2>2
  <1>3. Creators'
    <2>1. \A f \in flags : f.id \in Requests  BY DEF IInv, TypeOK, Flag
    <2>2. \A i \in DOMAIN audit : audit[i] \in Entry  BY DEF IInv, TypeOK
    <2>3. \A i \in DOMAIN audit : audit[i].id \in Requests  BY <2>2 DEF Entry
    <2> QED  BY <2>1, <2>3 DEF IInv, Creators, StepOf, db
  <1>4. (UniqueKeys /\ NoOrphanRules /\ AuditIsHistory)'
    BY DEF IInv, UniqueKeys, NoOrphanRules, AuditIsHistory, db
  <1> QED  BY <1>1, <1>2, <1>3, <1>4 DEF IInv

\* A request that gives up, or is refused, keeps the invariant.
LEMMA GiveUp ==
  ASSUME IInv, TypeOK', NEW r \in Requests, NEW answer, pc[r] # "done",
         Finish(r, answer), UNCHANGED db
  PROVE  IInv'
  <1>1. StepOf(r)  BY DEF IInv, TypeOK, Finish, Goto, StepOf
  <1>2. pc'[r] = "done" /\ seen'[r] = Nil /\ target'[r] = {} /\ tx'[r] = NoTx
    BY DEF IInv, TypeOK, Finish, Goto
  <1>3. Progress(r)'  BY <1>2 DEF Progress, Open, InTx, NoTx
  <1>4. OwnFlag(r)' /\ Locked(r)' /\ ExclusiveOf(r)'
    BY <1>2 DEF OwnFlag, Locked, ExclusiveOf, Exclusive, NoTx
  <1> QED  BY <1>1, <1>3, <1>4, LocalStep

\* A handler that goes on after its first read has written nothing; the flag it holds is
\* its own new one, or has the id and the key of a committed one.
LEMMA Begin ==
  ASSUME IInv, TypeOK', NEW r \in Requests, NEW in \in Input, NEW f \in Flag, NEW statement,
         pc[r] = "idle", Continue(r, in, f, statement), UNCHANGED db,
         \/ in \in EvaluateInput /\ statement = "readRules"
         \/ in \in CreateInput /\ statement = "insertFlag"
         \/ in \in UpdateInput /\ statement = "updateFlag"
         \/ in \in UpdateInput /\ statement = "deleteRules" /\ in.rules \in RuleLists
         \/ in \in DeleteInput /\ statement = "deleteFlag",
         \/ in \in CreateInput /\ f.id = r /\ f.enabled = FALSE
         \/ in \notin CreateInput /\ \E g \in flags : g.id = f.id /\ g.key = f.key
  PROVE  IInv'
  <1>1. seen[r] = Nil /\ target[r] = {} /\ tx[r] = NoTx  BY DEF IInv, Progress
  <1>2. /\ pc'[r] = statement /\ input'[r] = in /\ seen'[r] = f
        /\ target'[r] = {} /\ tx'[r] = NoTx
    BY <1>1 DEF Continue, Goto, IInv, TypeOK
  <1>3. StepOf(r)  BY DEF Continue, Goto, StepOf, IInv, TypeOK
  <1>4. f # Nil  BY ConstantsAssumption
  <1> DEFINE none == NoTx
  <1>n. none.wrote = "none" /\ none.del = {} /\ none.ins = {} /\ none.entries = <<>>
    BY DEF NoTx
  <1>5. Progress(r)'
    <2> HIDE DEF none
    <2>1. tx'[r] = none /\ none = NoTx  BY <1>2 DEF none
    <2>2. CASE in \in EvaluateInput /\ statement = "readRules"
      BY <1>2, <1>4, <1>n, <2>1, <2>2 DEF Progress, Open, InTx
    <2>3. CASE in \in CreateInput /\ statement = "insertFlag"
      BY <1>2, <1>4, <1>n, <2>1, <2>3 DEF Progress, Open, InTx, MutationInput, CreateInput
    <2>4. CASE in \in UpdateInput /\ statement = "updateFlag"
      BY <1>2, <1>4, <1>n, <2>1, <2>4 DEF Progress, Open, InTx, MutationInput, UpdateInput
    <2>5. CASE in \in UpdateInput /\ statement = "deleteRules" /\ in.rules \in RuleLists
      BY <1>2, <1>4, <1>n, <2>1, <2>5 DEF Progress, Open, InTx, MutationInput, UpdateInput
    <2>6. CASE in \in DeleteInput /\ statement = "deleteFlag"
      BY <1>2, <1>4, <1>n, <2>1, <2>6 DEF Progress, Open, InTx, MutationInput, DeleteInput
    <2> QED  BY <2>2, <2>3, <2>4, <2>5, <2>6
  <1>6. OwnFlag(r)'
    <2>1. in.op = "create" <=> in \in CreateInput
      BY DEF Input, MutationInput, CreateInput, UpdateInput, DeleteInput, EvaluateInput
    <2>2. CASE in \in CreateInput
      <3>1. \A g \in flags : g.id # r  BY DEF IInv, Creators
      <3>2. f.id = r /\ f.enabled = FALSE  BY <2>2
      <3> QED  BY <1>2, <1>n, <2>1, <2>2, <3>1, <3>2 DEF OwnFlag, db
    <2>3. CASE in \notin CreateInput
      <3>1. PICK g \in flags : g.id = f.id /\ g.key = f.key
        BY <2>3
      <3>2. pc'[f.id] = "done"
        <4>1. pc[g.id] = "done" /\ g.id \in Requests  BY DEF IInv, Creators, TypeOK, Flag
        <4> QED  BY <3>1, <4>1 DEF StepOf, Continue, Goto, IInv, TypeOK
      <3>3. \A h \in flags : h.id = f.id => h.key = f.key  BY <3>1 DEF IInv, Creators
      <3> QED  BY <1>2, <2>1, <2>3, <3>2, <3>3 DEF OwnFlag, NoTx, db
    <2> QED  BY <2>2, <2>3
  <1>7. Locked(r)' /\ ExclusiveOf(r)'
    BY <1>2 DEF Locked, ExclusiveOf, Exclusive, NoTx
  <1> QED  BY <1>3, <1>5, <1>6, <1>7, LocalStep

\* The first read of each operation keeps the invariant.
LEMMA ReceiveKeeps ==
  ASSUME IInv, TypeOK', NEW r \in Requests, Receive(r)
  PROVE  IInv'
  <1>0. pc[r] = "idle" /\ UNCHANGED db
    BY DEF Receive, MissingActor, CreateFlag, UpdateFlag, DeleteFlag, EvaluateFlag, PrepareAuditTx
  <1>1. CASE \E answer : Finish(r, answer)  BY <1>0, <1>1, GiveUp
  <1>2. CASE CreateFlag(r) /\ ~\E answer : Finish(r, answer)
    <2>1. PICK in \in CreateInput :
            LET strategy == ResolveStrategyForCreate(in.strategy, in.rules)
            IN  strategy # Mismatch
                /\ Continue(r, in, [id |-> r, key |-> in.key, enabled |-> FALSE,
                                    strategy |-> strategy], "insertFlag")
      BY <1>2 DEF CreateFlag
    <2> DEFINE f == [id |-> r, key |-> in.key, enabled |-> FALSE,
                     strategy |-> ResolveStrategyForCreate(in.strategy, in.rules)]
    <2>2. in \in Input /\ in.key \in Keys /\ in.strategy \in Strategies
      BY DEF Input, MutationInput, CreateInput
    <2>3. f \in Flag /\ f.id = r /\ f.enabled = FALSE  BY <2>1, <2>2, StrategyType DEF Flag
    <2>4. Continue(r, in, f, "insertFlag")  BY <2>1
    <2> HIDE DEF f
    <2> QED  BY <1>0, <2>2, <2>3, <2>4, Begin
  <1>3. CASE UpdateFlag(r) /\ ~\E answer : Finish(r, answer)
    <2>0. PICK in \in UpdateInput : \E g \in FlagsWith(in.key) :
            \/ Continue(r, in, [g EXCEPT !.enabled = in.enabled], "updateFlag")
            \/ LET strategy == ResolveStrategyForUpdate(g.strategy, in.rules)
               IN  in.rules # Nil /\ strategy # Mismatch
                   /\ Continue(r, in, [g EXCEPT !.enabled = in.enabled,
                                                !.strategy = strategy], "deleteRules")
      BY <1>3, Zenon DEF UpdateFlag
    <2>1. PICK g \in FlagsWith(in.key) :
            \/ Continue(r, in, [g EXCEPT !.enabled = in.enabled], "updateFlag")
            \/ LET strategy == ResolveStrategyForUpdate(g.strategy, in.rules)
               IN  in.rules # Nil /\ strategy # Mismatch
                   /\ Continue(r, in, [g EXCEPT !.enabled = in.enabled,
                                                !.strategy = strategy], "deleteRules")
      BY <2>0, Zenon
    <2>2. /\ in \in Input /\ in.enabled \in BOOLEAN /\ in \notin CreateInput
          /\ in.rules # Nil => in.rules \in RuleLists
      BY DEF Input, MutationInput, UpdateInput, CreateInput
    <2>3. g \in flags /\ g \in Flag  BY DEF FlagsWith, IInv, TypeOK
    <2>4. CASE Continue(r, in, [g EXCEPT !.enabled = in.enabled], "updateFlag")
      <3> DEFINE f == [g EXCEPT !.enabled = in.enabled]
      <3>1. f \in Flag /\ f.id = g.id /\ f.key = g.key  BY <2>2, <2>3 DEF Flag
      <3>2. Continue(r, in, f, "updateFlag")  BY <2>4
      <3> HIDE DEF f
      <3> QED  BY <1>0, <2>2, <2>3, <3>1, <3>2, Begin
    <2>5. CASE LET strategy == ResolveStrategyForUpdate(g.strategy, in.rules)
               IN  in.rules # Nil /\ strategy # Mismatch
                   /\ Continue(r, in, [g EXCEPT !.enabled = in.enabled,
                                                !.strategy = strategy], "deleteRules")
      <3> DEFINE strategy == ResolveStrategyForUpdate(g.strategy, in.rules)
                 f == [g EXCEPT !.enabled = in.enabled, !.strategy = strategy]
      <3>1. strategy \in Strategies  BY <2>3, <2>5, StrategyType DEF Flag
      <3>2. Continue(r, in, f, "deleteRules")  BY <2>5
      <3> HIDE DEF strategy
      <3>3. f \in Flag /\ f.id = g.id /\ f.key = g.key  BY <2>2, <2>3, <3>1 DEF Flag
      <3> HIDE DEF f
      <3> QED  BY <1>0, <2>2, <2>3, <2>5, <3>2, <3>3, Begin
    <2> QED  BY <2>1, <2>4, <2>5
  <1>4. CASE DeleteFlag(r) /\ ~\E answer : Finish(r, answer)
    <2>0. PICK in \in DeleteInput : \E f \in FlagsWith(in.key) : Continue(r, in, f, "deleteFlag")
      BY <1>4 DEF DeleteFlag
    <2>1. PICK f \in FlagsWith(in.key) : Continue(r, in, f, "deleteFlag")  BY <2>0
    <2>2. in \in Input /\ in \notin CreateInput
      BY DEF Input, MutationInput, DeleteInput, CreateInput
    <2>3. f \in flags /\ f \in Flag  BY DEF FlagsWith, IInv, TypeOK
    <2> QED  BY <1>0, <2>1, <2>2, <2>3, Begin
  <1>5. CASE EvaluateFlag(r) /\ ~\E answer : Finish(r, answer)
    <2>0. PICK in \in EvaluateInput : \E f \in FlagsWith(in.key) : Continue(r, in, f, "readRules")
      BY <1>5 DEF EvaluateFlag
    <2>1. PICK f \in FlagsWith(in.key) : Continue(r, in, f, "readRules")  BY <2>0
    <2>2. in \in Input /\ in \notin CreateInput
      BY DEF Input, EvaluateInput, CreateInput
    <2>3. f \in flags /\ f \in Flag  BY DEF FlagsWith, IInv, TypeOK
    <2> QED  BY <1>0, <2>1, <2>2, <2>3, Begin
  <1> QED  BY <1>1, <1>2, <1>3, <1>4, <1>5 DEF Receive, MissingActor

\* A statement that writes no flag row leaves the exclusion as it is.
LEMMA SameRow ==
  ASSUME IInv, NEW r \in Requests, StepOf(r), seen'[r] = seen[r], tx'[r].wrote = tx[r].wrote
  PROVE  ExclusiveOf(r)'
  <1> SUFFICES ASSUME NEW s \in Requests, s # r PROVE Exclusive(r, s)' /\ Exclusive(s, r)'
    BY DEF ExclusiveOf, Exclusive
  <1>1. Exclusive(r, s) /\ Exclusive(s, r)  BY DEF IInv
  <1>2. tx'[s] = tx[s] /\ seen'[s] = seen[s]  BY DEF StepOf
  <1> QED  BY <1>1, <1>2 DEF Exclusive

\* The statement that writes the flag row has waited for whoever could have written it too.
LEMMA NewRow ==
  ASSUME IInv, NEW r \in Requests, StepOf(r), seen'[r] = seen[r], seen[r] # Nil,
         WaitsFor(r) = {},
         \/ pc[r] = "insertFlag" /\ tx'[r].wrote = "insert"
         \/ pc[r] \in {"updateFlag", "deleteFlag"} /\ tx'[r].wrote \in {"update", "delete"}
  PROVE  ExclusiveOf(r)'
  <1> SUFFICES ASSUME NEW s \in Requests, s # r PROVE Exclusive(r, s)' /\ Exclusive(s, r)'
    BY DEF ExclusiveOf, Exclusive
  <1>1. tx'[s] = tx[s] /\ seen'[s] = seen[s]  BY DEF StepOf
  <1>2. ~Blocks(s, r)  BY DEF WaitsFor
  <1>3. tx[s].wrote # "none" => seen[s] # Nil
    <2>1. Progress(s) /\ pc[s] \in {"idle", "readRules", "done"} \cup InTx
      BY DEF IInv, TypeOK, Statements
    <2>2. NoTx.wrote = "none"  BY DEF NoTx
    <2> QED  BY <2>1, <2>2 DEF Progress, Open
  <1>4. CASE pc[r] = "insertFlag" /\ tx'[r].wrote = "insert"
    BY <1>1, <1>2, <1>4 DEF Blocks, Exclusive
  <1>5. CASE pc[r] \in {"updateFlag", "deleteFlag"} /\ tx'[r].wrote \in {"update", "delete"}
    BY <1>1, <1>2, <1>3, <1>5 DEF Blocks, Exclusive
  <1> QED  BY <1>4, <1>5

\* Every statement before COMMIT keeps the invariant.
LEMMA StatementKeeps ==
  ASSUME IInv, TypeOK', NEW r \in Requests,
         InsertFlag(r) \/ UpdateRow(r) \/ DeleteRow(r) \/ CascadeRules(r)
           \/ DeleteRules(r) \/ LockRules(r) \/ InsertRules(r) \/ AuditCreate(r)
  PROVE  IInv'
  <1> USE DEF Execute, Goto
  <1>1. CASE \E answer : Finish(r, answer) /\ UNCHANGED db /\ pc[r] # "done"
    BY <1>1, GiveUp
  <1>2. /\ UNCHANGED db /\ pc[r] # "done" /\ pc[r] \in InTx /\ WaitsFor(r) = {}
    BY DEF InsertFlag, UpdateRow, DeleteRow, CascadeRules, DeleteRules, LockRules, InsertRules,
           AuditCreate, InTx
  <1>3. seen[r] # Nil /\ seen[r] \in Flag /\ input[r] \in MutationInput /\ tx[r] \in Tx
    BY <1>2 DEF IInv, TypeOK, Progress, Open
  <1>4. Progress(r) /\ OwnFlag(r) /\ Locked(r)  BY DEF IInv
  <1>5. CASE InsertFlag(r) /\ ~\E answer : Finish(r, answer)
    <2>1. /\ FlagsWith(seen[r].key) = {} /\ pc[r] = "insertFlag"
          /\ pc'[r] = IF input[r].rules = {} THEN "audit" ELSE "deleteRules"
          /\ tx'[r] = [tx[r] EXCEPT !.wrote = "insert"]
          /\ input'[r] = input[r] /\ seen'[r] = seen[r] /\ target'[r] = target[r]
      BY <1>5 DEF InsertFlag, IInv, TypeOK
    <2>2. StepOf(r)  BY <1>5 DEF InsertFlag, StepOf, IInv, TypeOK
    <2>3. /\ tx'[r].wrote = "insert" /\ tx'[r].del = tx[r].del /\ tx'[r].ins = tx[r].ins
          /\ tx'[r].entries = tx[r].entries
      BY <1>3, <2>1 DEF Tx
    <2>4. input[r].op = "create" /\ input[r].rules \in RuleLists
      BY <1>3, <1>4, <2>1
      DEF Progress, MutationInput, CreateInput, UpdateInput, DeleteInput
    <2>5. Progress(r)'  BY <1>3, <1>4, <2>1, <2>3, <2>4 DEF Progress, Open, InTx
    <2>6. OwnFlag(r)'  BY <1>3, <1>4, <2>1, <2>3, <2>4, <1>2 DEF OwnFlag, db
    <2>7. Locked(r)'  BY <1>2, <2>1, <2>3 DEF Locked, FlagsWith, db
    <2>8. ExclusiveOf(r)'  BY <1>2, <1>3, <2>1, <2>2, <2>3, NewRow
    <2> QED  BY <1>2, <2>2, <2>5, <2>6, <2>7, <2>8, LocalStep
  <1>6. CASE (UpdateRow(r) \/ DeleteRow(r)) /\ ~\E answer : Finish(r, answer)
    <2>1. /\ Live(r)
          /\ \/ /\ pc[r] = "updateFlag" /\ pc'[r] = "audit"
                /\ tx'[r] = [tx[r] EXCEPT !.wrote = "update"]
             \/ /\ pc[r] = "deleteFlag" /\ pc'[r] = "cascade"
                /\ tx'[r] = [tx[r] EXCEPT !.wrote = "delete"]
          /\ input'[r] = input[r] /\ seen'[r] = seen[r] /\ target'[r] = target[r]
      BY <1>6 DEF UpdateRow, DeleteRow, IInv, TypeOK
    <2>2. StepOf(r)  BY <1>6 DEF UpdateRow, DeleteRow, StepOf, IInv, TypeOK
    <2>3. /\ tx'[r].wrote = IF pc[r] = "updateFlag" THEN "update" ELSE "delete"
          /\ tx'[r].del = tx[r].del /\ tx'[r].ins = tx[r].ins /\ tx'[r].entries = tx[r].entries
      BY <1>3, <2>1 DEF Tx
    <2>4. Progress(r)'  BY <1>3, <1>4, <2>1, <2>3 DEF Progress, Open, InTx
    <2>5. pc[seen[r].id] = "done" => pc'[seen[r].id] = "done"
      BY <1>2, <1>3, <2>2 DEF StepOf, Flag
    <2>6. OwnFlag(r)'  BY <1>2, <1>3, <1>4, <2>1, <2>3, <2>5 DEF OwnFlag, db
    <2>7. \E f \in flags : f.id = seen[r].id  BY <1>4, <2>1 DEF Live, Progress
    <2>8. Locked(r)'  BY <1>2, <2>1, <2>3, <2>7 DEF Locked, db
    <2>9. ExclusiveOf(r)'  BY <1>2, <1>3, <2>1, <2>2, <2>3, NewRow
    <2> QED  BY <1>2, <2>2, <2>4, <2>6, <2>8, <2>9, LocalStep
  <1>7. CASE CascadeRules(r)
    <2>1. /\ pc[r] = "cascade" /\ pc'[r] = "audit"
          /\ tx'[r] = [tx[r] EXCEPT !.del = RulesOf(seen[r].id)]
          /\ input'[r] = input[r] /\ seen'[r] = seen[r] /\ target'[r] = target[r]
      BY <1>7 DEF CascadeRules, IInv, TypeOK
    <2>2. StepOf(r)  BY <1>7 DEF CascadeRules, StepOf, IInv, TypeOK
    <2>3. /\ tx'[r].wrote = tx[r].wrote /\ tx'[r].del = RulesOf(seen[r].id)
          /\ tx'[r].ins = tx[r].ins /\ tx'[r].entries = tx[r].entries
      BY <1>3, <2>1 DEF Tx
    <2>4. Progress(r)'  BY <1>3, <1>4, <2>1, <2>3 DEF Progress, Open, InTx
    <2>5. pc[seen[r].id] = "done" => pc'[seen[r].id] = "done"
      BY <1>2, <1>3, <2>2 DEF StepOf, Flag
    <2>6. input[r].op = "delete"  BY <1>4, <2>1 DEF Progress
    <2>7. OwnFlag(r)'  BY <1>2, <1>3, <1>4, <2>1, <2>3, <2>5, <2>6 DEF OwnFlag, RulesOf, db
    <2>8. Locked(r)'  BY <1>2, <1>4, <2>1, <2>3 DEF Locked, FlagsWith, RulesOf, db
    <2>9. ExclusiveOf(r)'  BY <2>1, <2>2, <2>3, SameRow
    <2> QED  BY <1>2, <2>2, <2>4, <2>7, <2>8, <2>9, LocalStep
  <1>8. CASE DeleteRules(r)
    <2>1. /\ pc[r] = "deleteRules" /\ pc'[r] = "lockRules" /\ tx'[r] = tx[r]
          /\ target'[r] = RulesOf(seen[r].id)
          /\ input'[r] = input[r] /\ seen'[r] = seen[r]
      BY <1>8 DEF DeleteRules, IInv, TypeOK
    <2>2. StepOf(r)  BY <1>8 DEF DeleteRules, StepOf, IInv, TypeOK
    <2>3. Progress(r)'  BY <1>3, <1>4, <2>1 DEF Progress, Open, InTx
    <2>4. pc[seen[r].id] = "done" => pc'[seen[r].id] = "done"
      BY <1>2, <1>3, <2>2 DEF StepOf, Flag
    <2>5. input[r].op = "create" => RulesOf(seen[r].id) = {}
      <3> SUFFICES ASSUME input[r].op = "create", NEW x \in RulesOf(seen[r].id) PROVE FALSE
        OBVIOUS
      <3>1. x.flag = r /\ x \in rules  BY <1>3, <1>4 DEF OwnFlag, RulesOf
      <3>2. PICK f \in flags : f.id = r  BY <3>1 DEF IInv, NoOrphanRules
      <3>3. pc[r] = "done"  BY <3>2 DEF IInv, Creators
      <3> QED  BY <2>1, <3>3
    <2>6. OwnFlag(r)'  BY <1>2, <1>3, <1>4, <2>1, <2>4, <2>5 DEF OwnFlag, RulesOf, db
    <2>7. Locked(r)'  BY <1>2, <1>4, <2>1 DEF Locked, FlagsWith, RulesOf, db
    <2>8. ExclusiveOf(r)'  BY <2>1, <2>2, SameRow
    <2> QED  BY <1>2, <2>2, <2>3, <2>6, <2>7, <2>8, LocalStep
  <1>9. CASE LockRules(r)
    <2>1. /\ pc[r] = "lockRules" /\ tx'[r] = [tx[r] EXCEPT !.del = target[r] \cap rules]
          /\ pc'[r] = IF input[r].rules = {} THEN "updateFlag" ELSE "insertRules"
          /\ target'[r] = {} /\ input'[r] = input[r] /\ seen'[r] = seen[r]
      BY <1>9 DEF LockRules, IInv, TypeOK
    <2>2. StepOf(r)  BY <1>9 DEF LockRules, StepOf, IInv, TypeOK
    <2>3. /\ tx'[r].wrote = tx[r].wrote /\ tx'[r].del = target[r] \cap rules
          /\ tx'[r].ins = tx[r].ins /\ tx'[r].entries = tx[r].entries
      BY <1>3, <2>1 DEF Tx
    <2>4. Progress(r)'  BY <1>3, <1>4, <2>1, <2>3 DEF Progress, Open, InTx
    <2>5. pc[seen[r].id] = "done" => pc'[seen[r].id] = "done"
      BY <1>2, <1>3, <2>2 DEF StepOf, Flag
    <2>6. OwnFlag(r)'  BY <1>2, <1>3, <1>4, <2>1, <2>3, <2>5 DEF OwnFlag, db
    <2>7. Locked(r)'  BY <1>2, <1>4, <2>1, <2>3 DEF Locked, FlagsWith, RulesOf, db
    <2>8. ExclusiveOf(r)'  BY <2>1, <2>2, <2>3, SameRow
    <2> QED  BY <1>2, <2>2, <2>4, <2>6, <2>7, <2>8, LocalStep
  <1>10. CASE InsertRules(r) /\ ~\E answer : Finish(r, answer)
    <2>1. /\ pc[r] = "insertRules" /\ tx'[r] = [tx[r] EXCEPT !.ins = NewRules(r)]
          /\ pc'[r] = IF input[r].op = "create" THEN "audit" ELSE "updateFlag"
          /\ target'[r] = target[r] /\ input'[r] = input[r] /\ seen'[r] = seen[r]
      BY <1>10 DEF InsertRules, IInv, TypeOK
    <2>2. StepOf(r)  BY <1>10 DEF InsertRules, StepOf, IInv, TypeOK
    <2>3. /\ tx'[r].wrote = tx[r].wrote /\ tx'[r].del = tx[r].del
          /\ tx'[r].ins = NewRules(r) /\ tx'[r].entries = tx[r].entries
      BY <1>3, <2>1 DEF Tx
    <2>4. Progress(r)'  BY <1>3, <1>4, <2>1, <2>3 DEF Progress, Open, InTx
    <2>5. pc[seen[r].id] = "done" => pc'[seen[r].id] = "done"
      BY <1>2, <1>3, <2>2 DEF StepOf, Flag
    <2>6. \A x \in NewRules(r) : x.flag = seen[r].id  BY DEF NewRules
    <2>7. OwnFlag(r)'  BY <1>2, <1>3, <1>4, <2>1, <2>3, <2>5, <2>6 DEF OwnFlag, db
    <2>8. Locked(r)'
      BY <1>2, <1>4, <2>1, <2>3 DEF Locked, Progress, FlagsWith, RulesOf, db
    <2>9. ExclusiveOf(r)'  BY <2>1, <2>2, <2>3, SameRow
    <2> QED  BY <1>2, <2>2, <2>4, <2>7, <2>8, <2>9, LocalStep
  <1>11. CASE AuditCreate(r)
    <2> DEFINE entries == <<[action |-> input[r].op, id |-> seen[r].id, actor |-> r]>>
    <2>1. /\ pc[r] = "audit" /\ pc'[r] = "commit" /\ tx'[r] = [tx[r] EXCEPT !.entries = entries]
          /\ target'[r] = target[r] /\ input'[r] = input[r] /\ seen'[r] = seen[r]
      BY <1>11 DEF AuditCreate, IInv, TypeOK
    <2>2. StepOf(r)  BY <1>11 DEF AuditCreate, StepOf, IInv, TypeOK
    <2>3. /\ tx'[r].wrote = tx[r].wrote /\ tx'[r].del = tx[r].del
          /\ tx'[r].ins = tx[r].ins /\ tx'[r].entries = entries
      BY <1>3, <2>1 DEF Tx
    <2>4. Progress(r)'  BY <1>3, <1>4, <2>1, <2>3 DEF Progress, Open, InTx
    <2>5. pc[seen[r].id] = "done" => pc'[seen[r].id] = "done"
      BY <1>2, <1>3, <2>2 DEF StepOf, Flag
    <2>6. OwnFlag(r)'  BY <1>2, <1>3, <1>4, <2>1, <2>3, <2>5 DEF OwnFlag, db
    <2>7. Locked(r)'  BY <1>2, <1>4, <2>1, <2>3 DEF Locked, FlagsWith, RulesOf, db
    <2>8. ExclusiveOf(r)'  BY <2>1, <2>2, <2>3, SameRow
    <2> QED  BY <1>2, <2>2, <2>4, <2>6, <2>7, <2>8, LocalStep
  <1> QED
    BY <1>1, <1>2, <1>5, <1>6, <1>7, <1>8, <1>9, <1>10, <1>11

-----------------------------------------------------------------------------
\* What COMMIT does to the table of flags, for the three operations.
Others(f) == {g \in flags : g.id # f.id}

Replaces(f) == \E g \in flags : g.id = f.id /\ g.key = f.key /\ Others(f) = flags \ {g}

Creates(r) ==
  /\ input[r].op = "create" /\ tx[r].wrote = "insert" /\ tx[r].del = {}
  /\ seen[r].id = r /\ seen[r].enabled = FALSE
  /\ FlagsWith(seen[r].key) = {}
  /\ \A g \in flags : g.id # r
  /\ \A i \in DOMAIN audit : audit[i].id # r
  /\ flags' = flags \cup {seen[r]}

Updates(r) ==
  /\ input[r].op = "update" /\ tx[r].wrote = "update" /\ seen[r].id # r
  /\ Replaces(seen[r])
  /\ flags' = Others(seen[r]) \cup {seen[r]}

Deletes(r) ==
  /\ input[r].op = "delete" /\ tx[r].wrote = "delete" /\ seen[r].id # r
  /\ tx[r].del = RulesOf(seen[r].id) /\ tx[r].ins = {}
  /\ Replaces(seen[r])
  /\ flags' = Others(seen[r])

LEMMA CommitEffect ==
  ASSUME IInv, NEW r \in Requests, Commit(r)
  PROVE  /\ seen[r] \in Flag /\ pc[r] = "commit" /\ pc'[r] = "done" /\ StepOf(r)
         /\ audit' = Append(audit, [action |-> input[r].op, id |-> seen[r].id, actor |-> r])
         /\ rules' = (rules \ tx[r].del) \cup tx[r].ins
         /\ \A x \in tx[r].del \cup tx[r].ins : x.flag = seen[r].id
         /\ Creates(r) \/ Updates(r) \/ Deletes(r)
  <1>1. pc[r] = "commit" /\ seen[r] \in Flag /\ seen[r] # Nil
    BY DEF Commit, Execute, IInv, Progress, Open, InTx, TypeOK
  <1>2. Progress(r) /\ OwnFlag(r) /\ Locked(r)  BY DEF IInv
  <1>3. pc'[r] = "done" /\ StepOf(r)
    BY <1>1 DEF Commit, Finish, Goto, StepOf, IInv, TypeOK
  <1>4. audit' = Append(audit, [action |-> input[r].op, id |-> seen[r].id, actor |-> r])
    <2> DEFINE e == [action |-> input[r].op, id |-> seen[r].id, actor |-> r]
    <2>1. tx[r].entries = <<e>>  BY <1>1, <1>2 DEF Progress
    <2>2. audit' = audit \o <<e>>  BY <2>1 DEF Commit, Apply
    <2>3. audit \in Seq(Entry) /\ e \in Entry
      <3>1. audit' \in Seq(Entry) \/ input[r].op \in {"create", "update", "delete"}
        BY <1>1, <1>2 DEF Progress
      <3> QED  BY <1>1, <1>2, <3>1 DEF IInv, TypeOK, Entry, Flag, Progress
    <2> HIDE DEF e
    <2>4. audit \o <<e>> = Append(audit, e)  BY <2>3
    <2> QED  BY <2>2, <2>4 DEF e
  <1>5. rules' = (rules \ tx[r].del) \cup tx[r].ins  BY DEF Commit, Apply
  <1>6. \A x \in tx[r].del \cup tx[r].ins : x.flag = seen[r].id  BY <1>1, <1>2 DEF OwnFlag
  <1>7. tx[r].wrote \in {"update", "delete"} => Replaces(seen[r])
    <2> SUFFICES ASSUME tx[r].wrote \in {"update", "delete"} PROVE Replaces(seen[r])
      OBVIOUS
    <2>1. PICK g \in flags : g.id = seen[r].id  BY <1>2 DEF Locked
    <2>2. g.key = seen[r].key  BY <1>1, <1>2, <2>1 DEF OwnFlag
    <2>3. Others(seen[r]) = flags \ {g}  BY <2>1 DEF IInv, Creators, Others
    <2> QED  BY <2>1, <2>2, <2>3 DEF Replaces
  <1>8. flags' = CASE tx[r].wrote = "none" -> flags
                   [] tx[r].wrote = "delete" -> Others(seen[r])
                   [] OTHER -> Others(seen[r]) \cup {seen[r]}
    BY DEF Commit, Apply, Others
  <1>9. CASE input[r].op = "create" /\ tx[r].wrote = "insert"
    <2>1. seen[r].id = r /\ seen[r].enabled = FALSE /\ tx[r].del = {}  BY <1>1, <1>2, <1>9 DEF OwnFlag
    <2>2. \A g \in flags : g.id # r  BY <1>1 DEF IInv, Creators
    <2>3. \A i \in DOMAIN audit : audit[i].id # r  BY <1>1 DEF IInv, Creators
    <2>4. flags' = flags \cup {seen[r]}  BY <1>8, <1>9, <2>1, <2>2 DEF Others
    <2>5. FlagsWith(seen[r].key) = {}  BY <1>2, <1>9 DEF Locked
    <2> QED  BY <1>1, <1>3, <1>4, <1>5, <1>6, <1>9, <2>1, <2>2, <2>3, <2>4, <2>5 DEF Creates
  <1>10. CASE input[r].op # "create"
    <2>1. seen[r].id # r  BY <1>1, <1>2, <1>10 DEF OwnFlag
    <2>2. \/ input[r].op = "update" /\ tx[r].wrote = "update"
          \/ input[r].op = "delete" /\ tx[r].wrote = "delete" /\ tx[r].ins = {}
      BY <1>1, <1>2, <1>10 DEF Progress
    <2>3. tx[r].wrote = "delete" => tx[r].del = RulesOf(seen[r].id)  BY <1>1, <1>2 DEF Locked
    <2>4. flags' = IF tx[r].wrote = "delete" THEN Others(seen[r]) ELSE Others(seen[r]) \cup {seen[r]}
      BY <1>8, <2>2
    <2> QED  BY <1>1, <1>3, <1>4, <1>5, <1>6, <1>7, <1>10, <2>1, <2>2, <2>3, <2>4 DEF Updates, Deletes
  <1> QED  BY <1>1, <1>2, <1>9, <1>10 DEF Progress

\* A commit keeps what the other open transactions rely on.
LEMMA CommitKeepsOthers ==
  ASSUME IInv, NEW r \in Requests, Commit(r), NEW s \in Requests, s # r
  PROVE  Progress(s)' /\ OwnFlag(s)' /\ Locked(s)'
  <1> DEFINE f == seen[r]
  <1>1. /\ f \in Flag /\ pc[r] = "commit" /\ pc'[r] = "done" /\ StepOf(r)
        /\ rules' = (rules \ tx[r].del) \cup tx[r].ins
        /\ \A x \in tx[r].del \cup tx[r].ins : x.flag = f.id
        /\ Creates(r) \/ Updates(r) \/ Deletes(r)
    BY CommitEffect
  <1>2. \/ /\ tx[r].wrote = "insert" /\ f.id = r /\ flags' = flags \cup {f}
        \/ /\ tx[r].wrote \in {"update", "delete"} /\ f.id # r
           /\ \E g \in flags : g.id = f.id /\ g.key = f.key
           /\ flags' = Others(f) \/ flags' = Others(f) \cup {f}
    BY <1>1 DEF Creates, Updates, Deletes, Replaces
  <1>3. pc'[s] = pc[s] /\ input'[s] = input[s] /\ seen'[s] = seen[s] /\ target'[s] = target[s] /\ tx'[s] = tx[s]
    BY <1>1 DEF StepOf
  <1>4. Progress(s) /\ OwnFlag(s) /\ Locked(s) /\ Exclusive(r, s)  BY DEF IInv
  <1>5. tx[s].wrote # "none" => seen[s] # Nil
    <2>1. pc[s] \in {"idle", "readRules", "done"} \cup InTx  BY DEF IInv, TypeOK, Statements
    <2>2. NoTx.wrote = "none"  BY DEF NoTx
    <2> QED  BY <1>4, <2>1, <2>2 DEF Progress, Open
  <1>6. seen[s] # Nil => seen[s].id \in Requests  BY DEF IInv, TypeOK, Flag
  <1>7. (seen[s] # Nil /\ f.id = r) => seen[s].id # r
    BY <1>1, <1>4 DEF OwnFlag
  <1> HIDE DEF f
  <1>8. Progress(s)'  BY <1>3, <1>4 DEF Progress, Open
  <1>9. OwnFlag(s)'
    <2> SUFFICES ASSUME seen[s] # Nil PROVE OwnFlag(s)'  BY <1>3 DEF OwnFlag
    <2>1. input[s].op # "create" => pc'[seen[s].id] = "done"
      BY <1>1, <1>4, <1>6 DEF OwnFlag, StepOf
    <2>2. ASSUME NEW g \in flags', g.id = seen[s].id PROVE g.key = seen[s].key
      <3>1. CASE g \in flags  BY <1>4, <2>2, <3>1 DEF OwnFlag
      <3>2. CASE g = f  BY <1>2, <1>4, <1>7, <2>2, <3>2 DEF OwnFlag
      <3> QED  BY <1>2, <3>1, <3>2 DEF Others
    <2> QED  BY <1>3, <1>4, <2>1, <2>2 DEF OwnFlag
  <1>10. Locked(s)'
    <2>1. ASSUME tx[s].wrote \in {"update", "delete"} PROVE \E g \in flags' : g.id = seen[s].id
      <3>1. PICK g \in flags : g.id = seen[s].id  BY <1>4, <2>1 DEF Locked
      <3>2. tx[r].wrote \in {"update", "delete"} => g.id # f.id
        BY <1>4, <2>1, <3>1 DEF Exclusive, f
      <3> QED  BY <1>2, <3>1, <3>2 DEF Others
    <2>2. ASSUME tx[s].wrote = "insert" PROVE FlagsWith(seen[s].key)' = {}
      <3>1. FlagsWith(seen[s].key) = {}  BY <1>4, <2>2 DEF Locked
      <3>2. f.key # seen[s].key
        BY <1>2, <1>4, <2>2, <3>1 DEF Exclusive, FlagsWith, f
      <3> QED  BY <1>2, <1>3, <3>1, <3>2 DEF FlagsWith, Others
    <2>3. ASSUME pc[s] \in {"audit", "commit"}, tx[s].wrote = "delete"
          PROVE  tx[s].del = RulesOf(seen[s].id)'
      <3>1. tx[s].del = RulesOf(seen[s].id)  BY <1>4, <2>3 DEF Locked
      <3>2. seen[s].id # f.id
        BY <1>2, <1>4, <1>5, <1>7, <2>3 DEF Exclusive, f
      <3> QED  BY <1>1, <1>3, <3>1, <3>2 DEF RulesOf
    <2> QED  BY <1>3, <2>1, <2>2, <2>3 DEF Locked
  <1> QED  BY <1>8, <1>9, <1>10

\* A commit keeps the log the exact history of the flags.
LEMMA CommitKeepsHistory ==
  ASSUME IInv, NEW r \in Requests, Commit(r)
  PROVE  AuditIsHistory'
  <1> DEFINE f == seen[r]
             op == input[r].op
             e == [action |-> op, id |-> f.id, actor |-> r]
             n == Len(audit)
  <1>1. audit' = Append(audit, e) /\ f \in Flag /\ (Creates(r) \/ Updates(r) \/ Deletes(r))  BY CommitEffect
  <1>2. \/ /\ op = "create" /\ flags' = flags \cup {f}
           /\ \A g \in flags : g.id # f.id
           /\ \A i \in DOMAIN audit : audit[i].id # f.id
        \/ /\ op = "update" /\ flags' = Others(f) \cup {f} /\ \E g \in flags : g.id = f.id
        \/ /\ op = "delete" /\ flags' = Others(f) /\ \E g \in flags : g.id = f.id
    BY <1>1 DEF Creates, Updates, Deletes, Replaces
  <1>3. audit \in Seq(Entry) /\ e.action = op /\ e.id = f.id /\ f.id \in Requests
    BY <1>1 DEF IInv, TypeOK, Flag
  <1> HIDE DEF e, f, op
  <1>4. /\ n \in Nat /\ DOMAIN audit = 1..n /\ DOMAIN audit' = 1..(n+1)
        /\ \A i \in 1..n : audit'[i] = audit[i]
        /\ audit'[n+1] = e
    BY <1>1, <1>3
  <1> HIDE DEF n
  <1>5. AuditIsHistory  BY DEF IInv
  <1>6. op # "create" =>
          /\ \E i \in 1..n : audit[i].id = f.id /\ audit[i].action = "create"
          /\ \A i \in 1..n : audit[i].id = f.id => audit[i].action # "delete"
    BY <1>2, <1>3, <1>4, <1>5 DEF AuditIsHistory
  <1>7. ASSUME NEW id \in Requests
        PROVE  (\E g \in flags' : g.id = id) <=>
                 /\ \E i \in DOMAIN audit' : audit'[i].id = id /\ audit'[i].action = "create"
                 /\ \A i \in DOMAIN audit' : audit'[i].id = id => audit'[i].action # "delete"
    <2>1. (\E g \in flags : g.id = id) <=>
            /\ \E i \in 1..n : audit[i].id = id /\ audit[i].action = "create"
            /\ \A i \in 1..n : audit[i].id = id => audit[i].action # "delete"
      BY <1>4, <1>5 DEF AuditIsHistory
    <2>2. CASE id # f.id
      <3>1. (\E g \in flags' : g.id = id) <=> (\E g \in flags : g.id = id)
        BY <1>2, <2>2 DEF Others
      <3>2. (\E i \in 1..(n+1) : audit'[i].id = id /\ audit'[i].action = "create") <=>
            (\E i \in 1..n : audit[i].id = id /\ audit[i].action = "create")
        BY <1>3, <1>4, <2>2
      <3>3. (\A i \in 1..(n+1) : audit'[i].id = id => audit'[i].action # "delete") <=>
            (\A i \in 1..n : audit[i].id = id => audit[i].action # "delete")
        BY <1>3, <1>4, <2>2
      <3> QED  BY <1>4, <2>1, <3>1, <3>2, <3>3
    <2>3. CASE id = f.id /\ op = "create"
      <3>1. \E g \in flags' : g.id = id  BY <1>2, <2>3
      <3>2. audit'[n+1].id = id /\ audit'[n+1].action = "create" /\ n+1 \in 1..(n+1)
        BY <1>3, <1>4, <2>3
      <3>3. \A i \in 1..(n+1) : audit'[i].id = id => audit'[i].action # "delete"
        BY <1>2, <1>3, <1>4, <2>3
      <3> QED  BY <1>4, <3>1, <3>2, <3>3
    <2>4. CASE id = f.id /\ op = "update"
      <3>1. \E g \in flags' : g.id = id  BY <1>2, <2>4
      <3>2. \E i \in 1..(n+1) : audit'[i].id = id /\ audit'[i].action = "create"
        BY <1>4, <1>6, <2>4
      <3>3. \A i \in 1..(n+1) : audit'[i].id = id => audit'[i].action # "delete"
        BY <1>3, <1>4, <1>6, <2>4
      <3> QED  BY <1>4, <3>1, <3>2, <3>3
    <2>5. CASE id = f.id /\ op = "delete"
      <3>1. ~\E g \in flags' : g.id = id  BY <1>2, <2>5 DEF Others
      <3>2. audit'[n+1].id = id /\ audit'[n+1].action = "delete" /\ n+1 \in 1..(n+1)
        BY <1>3, <1>4, <2>5
      <3> QED  BY <1>4, <3>1, <3>2
    <2> QED  BY <1>2, <2>2, <2>3, <2>4, <2>5
  <1>8. ASSUME NEW i \in DOMAIN audit', NEW j \in DOMAIN audit', i < j, audit'[i].id = audit'[j].id
        PROVE  audit'[i].action # "delete" /\ audit'[j].action # "create"
    <2>1. i \in 1..n  BY <1>4, <1>8
    <2>2. CASE j \in 1..n  BY <1>4, <1>5, <1>8, <2>1, <2>2 DEF AuditIsHistory
    <2>3. CASE j = n+1  BY <1>2, <1>3, <1>4, <1>6, <1>8, <2>1, <2>3
    <2> QED  BY <1>4, <2>2, <2>3
  <1>9. ASSUME NEW i \in DOMAIN audit'
        PROVE  \E j \in 1..i : audit'[j].id = audit'[i].id /\ audit'[j].action = "create"
    <2>1. CASE i \in 1..n
      <3>1. PICK j \in 1..i : audit[j].id = audit[i].id /\ audit[j].action = "create"
        BY <1>4, <1>5, <2>1 DEF AuditIsHistory
      <3> QED  BY <1>4, <2>1, <3>1
    <2>2. CASE i = n+1 /\ op = "create"  BY <1>3, <1>4, <2>2
    <2>3. CASE i = n+1 /\ op # "create"
      <3>1. PICK j \in 1..n : audit[j].id = f.id /\ audit[j].action = "create"  BY <1>6, <2>3
      <3> QED  BY <1>3, <1>4, <2>3, <3>1
    <2> QED  BY <1>4, <2>1, <2>2, <2>3
  <1> QED  BY <1>7, <1>8, <1>9 DEF AuditIsHistory

\* A commit keeps the invariant.
LEMMA CommitKeeps ==
  ASSUME IInv, TypeOK', NEW r \in Requests, Commit(r)
  PROVE  IInv'
  <1> DEFINE f == seen[r]
  <1>1. /\ f \in Flag /\ pc'[r] = "done" /\ StepOf(r)
        /\ audit' = Append(audit, [action |-> input[r].op, id |-> f.id, actor |-> r])
        /\ rules' = (rules \ tx[r].del) \cup tx[r].ins
        /\ \A x \in tx[r].del \cup tx[r].ins : x.flag = f.id
        /\ Creates(r) \/ Updates(r) \/ Deletes(r)
    BY CommitEffect
  <1>2. seen'[r] = Nil /\ target'[r] = {} /\ tx'[r] = NoTx
    BY DEF IInv, TypeOK, Commit, Finish
  <1>3. (Progress(r) /\ OwnFlag(r) /\ Locked(r) /\ ExclusiveOf(r))'
    BY <1>1, <1>2 DEF Progress, Open, InTx, OwnFlag, Locked, ExclusiveOf, Exclusive, NoTx
  <1>4. \A s \in Requests : (Progress(s) /\ OwnFlag(s) /\ Locked(s))'
    BY <1>3, CommitKeepsOthers
  <1>5. ASSUME NEW s \in Requests, NEW t \in Requests PROVE Exclusive(s, t)'
    <2>1. CASE s = r \/ t = r  BY <1>3, <2>1 DEF ExclusiveOf
    <2>2. CASE s # r /\ t # r
      <3>1. tx'[s] = tx[s] /\ tx'[t] = tx[t] /\ seen'[s] = seen[s] /\ seen'[t] = seen[t]
        BY <1>1, <2>2 DEF StepOf
      <3>2. Exclusive(s, t)  BY DEF IInv
      <3> QED  BY <3>1, <3>2 DEF Exclusive
    <2> QED  BY <2>1, <2>2
  <1>6. /\ \A g \in flags : g.id \in Requests /\ pc[g.id] = "done"
        /\ \A g, h \in flags : g.id = h.id => g = h
        /\ UniqueKeys /\ NoOrphanRules
    BY DEF IInv, TypeOK, Flag, Creators
  <1>7. \A q \in Requests : pc[q] = "done" => pc'[q] = "done"  BY <1>1 DEF StepOf
  <1>8. f.id \in Requests /\ pc'[f.id] = "done"
    <2>1. f.id = r \/ pc[f.id] = "done"
      BY <1>1, <1>6 DEF Creates, Updates, Deletes, Replaces
    <2> QED  BY <1>1, <1>7, <2>1 DEF Flag
  <1>9. flags' \subseteq flags \cup {f}
    BY <1>1 DEF Creates, Updates, Deletes, Others
  <1>10. \A g \in flags' : g.id = f.id => g = f
    BY <1>1 DEF Creates, Updates, Deletes, Others
  <1>11. Creators'
    <2>1. \A g \in flags' : pc'[g.id] = "done"  BY <1>6, <1>7, <1>8, <1>9
    <2>2. \A g, h \in flags' : g.id = h.id => g = h  BY <1>6, <1>9, <1>10
    <2>3. ASSUME NEW i \in DOMAIN audit' PROVE pc'[audit'[i].id] = "done"
      <3>1. audit \in Seq(Entry)  BY DEF IInv, TypeOK
      <3>2. CASE i \in DOMAIN audit
        <4>1. audit'[i] = audit[i] /\ audit[i] \in Entry  BY <1>1, <3>1, <3>2
        <4>2. audit[i].id \in Requests /\ pc[audit[i].id] = "done"
          BY <3>2, <4>1 DEF IInv, Creators, Entry
        <4> QED  BY <1>7, <4>1, <4>2
      <3>3. CASE i = Len(audit) + 1  BY <1>1, <1>8, <3>1, <3>3
      <3> QED  BY <1>1, <3>1, <3>2, <3>3
    <2> QED  BY <2>1, <2>2, <2>3 DEF Creators
  <1>12. UniqueKeys'
    <2>1. CASE Creates(r)  BY <1>6, <2>1 DEF Creates, FlagsWith, UniqueKeys
    <2>2. CASE Updates(r)
      <3>1. PICK g \in flags : g.key = f.key /\ Others(f) = flags \ {g}  BY <2>2 DEF Updates, Replaces
      <3>2. \A h \in Others(f) : h \in flags /\ h.key # f.key  BY <1>6, <3>1 DEF UniqueKeys
      <3>3. flags' = Others(f) \cup {f}  BY <2>2 DEF Updates
      <3> QED  BY <1>6, <3>2, <3>3 DEF UniqueKeys
    <2>3. CASE Deletes(r)  BY <1>6, <2>3 DEF Deletes, Others, UniqueKeys
    <2> QED  BY <1>1, <2>1, <2>2, <2>3
  <1>13. NoOrphanRules'
    <2> SUFFICES ASSUME NEW x \in rules' PROVE \E g \in flags' : g.id = x.flag  BY DEF NoOrphanRules
    <2>1. (Creates(r) \/ Updates(r)) => f \in flags' /\ Others(f) \subseteq flags'
      BY <1>1 DEF Creates, Updates, Others
    <2>2. CASE x.flag = f.id
      <3>1. ~Deletes(r)  BY <1>1, <2>2 DEF Deletes, RulesOf
      <3> QED  BY <1>1, <2>1, <2>2, <3>1
    <2>3. CASE x.flag # f.id
      <3>1. PICK g \in flags : g.id = x.flag  BY <1>1, <1>6, <2>3 DEF NoOrphanRules
      <3>2. g \in Others(f)  BY <2>3, <3>1 DEF Others
      <3> QED  BY <1>1, <2>1, <3>1, <3>2 DEF Deletes
    <2> QED  BY <2>2, <2>3
  <1> QED  BY <1>4, <1>5, <1>11, <1>12, <1>13, CommitKeepsHistory DEF IInv

-----------------------------------------------------------------------------
\* Initially nothing is stored and no request has begun.
LEMMA InitInvariant == ASSUME Init PROVE IInv
  <1>1. TypeOK  BY InitType
  <1>2. flags = {} /\ rules = {} /\ audit = <<>>  BY DEF Init
  <1>3. ASSUME NEW r \in Requests
        PROVE  pc[r] = "idle" /\ seen[r] = Nil /\ target[r] = {} /\ tx[r] = NoTx
    BY DEF Init
  <1>4. ASSUME NEW r \in Requests PROVE Progress(r) /\ OwnFlag(r) /\ Locked(r)
    <2>1. Progress(r)  BY <1>3 DEF Progress, Open, InTx, NoTx
    <2>2. OwnFlag(r) /\ Locked(r)  BY <1>3 DEF OwnFlag, Locked, NoTx
    <2> QED  BY <2>1, <2>2
  <1>5. ASSUME NEW r \in Requests, NEW s \in Requests PROVE Exclusive(r, s)
    BY <1>3 DEF Exclusive, NoTx
  <1>6. Creators /\ UniqueKeys /\ NoOrphanRules /\ AuditIsHistory
    BY <1>2 DEF Creators, UniqueKeys, NoOrphanRules, AuditIsHistory
  <1> QED  BY <1>1, <1>4, <1>5, <1>6 DEF IInv

\* Every step keeps the invariant.
LEMMA NextKeeps ==
  ASSUME IInv, [Next]_vars
  PROVE  IInv'
  <1>1. TypeOK'  BY TypeStep DEF IInv
  <1>2. CASE UNCHANGED vars
    BY <1>2 DEF IInv, vars, db, handler, TypeOK, Progress, Open, OwnFlag, Locked, Exclusive, Creators,
                UniqueKeys, NoOrphanRules, AuditIsHistory, FlagsWith, RulesOf
  <1>3. ASSUME NEW r \in Requests, Receive(r) PROVE IInv'  BY <1>1, <1>3, ReceiveKeeps
  <1>4. ASSUME NEW r \in Requests, Commit(r) PROVE IInv'  BY <1>1, <1>4, CommitKeeps
  <1>5. ASSUME NEW r \in Requests, ReadRules(r) PROVE IInv'
    <2>1. PICK answer : Finish(r, answer) /\ pc[r] # "done" /\ UNCHANGED db  BY <1>5 DEF ReadRules
    <2> QED  BY <1>1, <2>1, GiveUp
  <1>6. ASSUME NEW r \in Requests, AbortDeadlock(r) \/ Fail(r) PROVE IInv'
    <2>1. PICK answer : Finish(r, answer) /\ pc[r] # "done" /\ UNCHANGED db
      BY <1>6 DEF AbortDeadlock, Fail, InTx
    <2> QED  BY <1>1, <2>1, GiveUp
  <1>7. CASE AllDone  BY <1>2, <1>7 DEF AllDone
  <1> QED  BY <1>1, <1>2, <1>3, <1>4, <1>5, <1>6, <1>7, StatementKeeps DEF Next, Advance

\* The invariant holds in every reachable state, for any number of requests, keys and rules.
THEOREM Invariance == Spec => []IInv
  <1>1. Init => IInv  BY InitInvariant
  <1>2. IInv /\ [Next]_vars => IInv'  BY NextKeeps
  <1> QED  BY <1>1, <1>2, PTL DEF Spec

\* No row, request or answer of another shape is ever reached.
THEOREM TypeCorrect == Spec => []TypeOK
  <1>1. IInv => TypeOK  BY DEF IInv
  <1> QED  BY <1>1, Invariance, PTL

\* The committed flags are at every moment what the audit log says happened to them.
THEOREM HistoryCorrect == Spec => []AuditIsHistory
  <1>1. IInv => AuditIsHistory  BY DEF IInv
  <1> QED  BY <1>1, Invariance, PTL

\* (key, environment) identifies a flag, however many requests create it at once.
THEOREM KeysUnique == Spec => []UniqueKeys
  <1>1. IInv => UniqueKeys  BY DEF IInv
  <1> QED  BY <1>1, Invariance, PTL

\* No rule is left without its flag, however updates and deletions interleave.
THEOREM NoOrphans == Spec => []NoOrphanRules
  <1>1. IInv => NoOrphanRules  BY DEF IInv
  <1> QED  BY <1>1, Invariance, PTL

-----------------------------------------------------------------------------
\* A step of r that stores nothing keeps what is said of the answers, if it does so for r.
LEMMA AnswerLocal ==
  ASSUME AInv, NEW r \in Requests, UNCHANGED audit,
         \A s \in Requests \ {r} : pc'[s] = pc[s] /\ tx'[s] = tx[s] /\ resp'[s] = resp[s],
         Unwritten(r)', Answered(r)'
  PROVE  AInv'
  <1>1. ASSUME NEW s \in Requests, s # r PROVE Unwritten(s)' /\ Answered(s)'
    <2>1. Unwritten(s) /\ Answered(s)  BY DEF AInv
    <2> QED  BY <1>1, <2>1 DEF Unwritten, Answered
  <1> QED  BY <1>1 DEF AInv

\* Who gives any answer but "ok" without a COMMIT is not in the log.
LEMMA AnswerGivenUp ==
  ASSUME IInv, AInv, NEW r \in Requests, NEW answer, answer # "ok", pc[r] # "done",
         Finish(r, answer), UNCHANGED db
  PROVE  AInv'
  <1>1. /\ pc'[r] = "done" /\ resp'[r] = answer /\ tx'[r] = NoTx
        /\ \A s \in Requests \ {r} : pc'[s] = pc[s] /\ tx'[s] = tx[s] /\ resp'[s] = resp[s]
    BY DEF IInv, TypeOK, Finish, Goto
  <1>2. Answered(r)  BY DEF AInv
  <1>3. Answered(r)'  BY <1>1, <1>2 DEF Answered, InTx, db
  <1>4. Unwritten(r)'  BY <1>1 DEF Unwritten
  <1> QED  BY <1>1, <1>3, <1>4, AnswerLocal DEF db

\* Who goes on without an answer is still not in the log.
LEMMA AnswerPending ==
  ASSUME AInv, NEW r \in Requests, pc[r] # "done", pc'[r] # "done", UNCHANGED <<db, resp>>,
         pc'[r] \in InTx => r \notin Anonymous,
         \A s \in Requests \ {r} : pc'[s] = pc[s] /\ tx'[s] = tx[s],
         Unwritten(r)'
  PROVE  AInv'
  <1>1. Answered(r)  BY DEF AInv
  <1>2. Answered(r)'  BY <1>1 DEF Answered, db
  <1> QED  BY <1>2, AnswerLocal DEF db

LEMMA AnswerReceived ==
  ASSUME IInv, AInv, NEW r \in Requests, Receive(r)
  PROVE  AInv'
  <1>1. pc[r] = "idle" /\ UNCHANGED db
    BY DEF Receive, MissingActor, CreateFlag, UpdateFlag, DeleteFlag, EvaluateFlag, PrepareAuditTx
  <1>2. tx[r] = NoTx /\ pc \in [Requests -> Statements]  BY <1>1 DEF IInv, Progress, TypeOK
  <1>3. \/ \E answer : answer # "ok" /\ Finish(r, answer)
        \/ \E in, f, statement :
             /\ Continue(r, in, f, statement) /\ statement # "done"
             /\ statement \in InTx => r \notin Anonymous
    <2>1. CASE MissingActor(r)
      <3>1. Finish(r, "missingActor")  BY <2>1 DEF MissingActor
      <3> QED  BY <3>1
    <2>2. CASE CreateFlag(r)
      <3>1. \/ Finish(r, "duplicate") \/ Finish(r, "mismatch")
            \/ r \notin Anonymous /\ \E in, f : Continue(r, in, f, "insertFlag")
        BY <2>2 DEF CreateFlag, PrepareAuditTx
      <3> QED  BY <3>1 DEF InTx
    <2>3. CASE UpdateFlag(r)
      <3>1. \/ Finish(r, "notFound") \/ Finish(r, "mismatch")
            \/ r \notin Anonymous
               /\ \E in, f, statement : /\ statement \in {"updateFlag", "deleteRules"}
                                        /\ Continue(r, in, f, statement)
        <4>1. r \notin Anonymous  BY <2>3 DEF UpdateFlag, PrepareAuditTx
        <4>2. \/ Finish(r, "notFound") \/ Finish(r, "mismatch")
              \/ \E in, f : Continue(r, in, f, "updateFlag")
              \/ \E in, f : Continue(r, in, f, "deleteRules")
          BY <2>3, Zenon DEF UpdateFlag
        <4> QED  BY <4>1, <4>2
      <3> QED  BY <3>1 DEF InTx
    <2>4. CASE DeleteFlag(r)
      <3>1. \/ Finish(r, "notFound")
            \/ r \notin Anonymous /\ \E in, f : Continue(r, in, f, "deleteFlag")
        BY <2>4 DEF DeleteFlag, PrepareAuditTx
      <3> QED  BY <3>1 DEF InTx
    <2>5. CASE EvaluateFlag(r)
      <3>1. \/ Finish(r, "invalidUser") \/ Finish(r, "false")
            \/ \E in, f : Continue(r, in, f, "readRules")
        BY <2>5 DEF EvaluateFlag
      <3> QED  BY <3>1 DEF InTx
    <2> QED  BY <2>1, <2>2, <2>3, <2>4, <2>5 DEF Receive
  <1>4. CASE \E answer : answer # "ok" /\ Finish(r, answer)
    BY <1>1, <1>4, AnswerGivenUp
  <1>5. ASSUME NEW in, NEW f, NEW statement, Continue(r, in, f, statement), statement # "done",
               statement \in InTx => r \notin Anonymous
        PROVE  AInv'
    <2>1. /\ pc'[r] = statement /\ UNCHANGED <<tx, resp>>
          /\ \A s \in Requests \ {r} : pc'[s] = pc[s]
      BY <1>2, <1>5 DEF Continue, Goto
    <2>2. Unwritten(r)'  BY <1>2, <2>1 DEF Unwritten, NoTx
    <2> QED  BY <1>1, <1>5, <2>1, <2>2, AnswerPending
  <1> QED  BY <1>3, <1>4, <1>5

\* A statement of an open transaction.
LEMMA AnswerStatement ==
  ASSUME IInv, AInv, NEW r \in Requests,
         \/ InsertFlag(r) \/ UpdateRow(r) \/ DeleteRow(r) \/ CascadeRules(r)
         \/ DeleteRules(r) \/ LockRules(r) \/ InsertRules(r) \/ AuditCreate(r)
  PROVE  AInv'
  <1>1. /\ pc[r] \in {"insertFlag", "updateFlag", "deleteFlag", "cascade", "deleteRules",
                      "lockRules", "insertRules", "audit"}
        /\ UNCHANGED db
    BY DEF InsertFlag, UpdateRow, DeleteRow, CascadeRules, DeleteRules, LockRules, InsertRules,
           AuditCreate, Execute
  <1>2. /\ pc \in [Requests -> Statements] /\ tx \in [Requests -> Tx]
        /\ Unwritten(r) /\ Answered(r) /\ Progress(r)
    BY DEF IInv, AInv, TypeOK
  <1>3. r \notin Anonymous  BY <1>1, <1>2 DEF Answered, InTx
  <1>4. CASE \E answer \in {"wrappedDuplicate", "wrappedNotFound", "error"} : Finish(r, answer)
    BY <1>1, <1>4, AnswerGivenUp
  <1>5. ASSUME NEW statement, statement # "done", UNCHANGED resp, Goto(r, statement),
               \A s \in Requests \ {r} : tx'[s] = tx[s],
               Unwritten(r)'
        PROVE  AInv'
    <2>1. /\ pc'[r] # "done"
          /\ \A s \in Requests \ {r} : pc'[s] = pc[s] /\ tx'[s] = tx[s]
      BY <1>2, <1>5 DEF Goto
    <2> QED  BY <1>1, <1>3, <1>5, <2>1, AnswerPending
  <1>6. ASSUME NEW statement \in InTx, UNCHANGED resp, Goto(r, statement),
               NEW wrote, tx' = [tx EXCEPT ![r].wrote = wrote],
               \/ pc[r] = "insertFlag"
               \/ pc[r] \in {"updateFlag", "deleteFlag"} /\ statement \in {"audit", "cascade"}
        PROVE  AInv'
    <2>1. tx'[r].del = tx[r].del /\ tx'[r].ins = tx[r].ins
      BY <1>2, <1>6 DEF Tx
    <2>2. pc'[r] = statement  BY <1>2, <1>6 DEF Goto
    <2>3. Unwritten(r)'  BY <1>2, <1>6, <2>1, <2>2 DEF Unwritten
    <2>4. \A s \in Requests \ {r} : tx'[s] = tx[s]  BY <1>2, <1>6
    <2>5. statement # "done"  BY DEF InTx
    <2> QED  BY <1>5, <1>6, <2>3, <2>4, <2>5
  <1>7. CASE InsertFlag(r)
    <2>1. \/ Finish(r, "wrappedDuplicate")
          \/ /\ tx' = [tx EXCEPT ![r].wrote = "insert"] /\ UNCHANGED resp
             /\ Goto(r, IF input[r].rules = {} THEN "audit" ELSE "deleteRules")
      BY <1>7 DEF InsertFlag
    <2>2. pc[r] = "insertFlag"  BY <1>7 DEF InsertFlag, Execute
    <2>3. (IF input[r].rules = {} THEN "audit" ELSE "deleteRules") \in InTx  BY DEF InTx
    <2> QED  BY <1>4, <1>6, <2>1, <2>2, <2>3
  <1>8. CASE UpdateRow(r)
    <2>1. \/ Finish(r, "wrappedNotFound")
          \/ tx' = [tx EXCEPT ![r].wrote = "update"] /\ UNCHANGED resp /\ Goto(r, "audit")
      BY <1>8 DEF UpdateRow
    <2>2. pc[r] = "updateFlag" /\ "audit" \in InTx  BY <1>8 DEF UpdateRow, Execute, InTx
    <2> QED  BY <1>4, <1>6, <2>1, <2>2
  <1>9. CASE DeleteRow(r)
    <2>1. \/ Finish(r, "wrappedNotFound")
          \/ tx' = [tx EXCEPT ![r].wrote = "delete"] /\ UNCHANGED resp /\ Goto(r, "cascade")
      BY <1>9 DEF DeleteRow
    <2>2. pc[r] = "deleteFlag" /\ "cascade" \in InTx  BY <1>9 DEF DeleteRow, Execute, InTx
    <2> QED  BY <1>4, <1>6, <2>1, <2>2
  <1>10. CASE CascadeRules(r) \/ AuditCreate(r)
    <2>1. PICK statement \in {"audit", "commit"} :
            /\ Goto(r, statement) /\ UNCHANGED resp
            /\ \A s \in Requests \ {r} : tx'[s] = tx[s]
      BY <1>2, <1>10 DEF CascadeRules, AuditCreate
    <2>2. pc'[r] = statement  BY <1>2, <2>1 DEF Goto
    <2>3. Unwritten(r)'  BY <2>2 DEF Unwritten
    <2> QED  BY <1>5, <2>1, <2>3
  <1>11. CASE DeleteRules(r)
    <2>1. Goto(r, "lockRules") /\ UNCHANGED <<tx, resp>> /\ pc[r] = "deleteRules"
      BY <1>11 DEF DeleteRules, Execute
    <2>2. pc'[r] = "lockRules"  BY <1>2, <2>1 DEF Goto
    <2>3. Unwritten(r)'  BY <1>2, <2>1, <2>2 DEF Unwritten
    <2> QED  BY <1>5, <2>1, <2>3
  <1>12. CASE LockRules(r)
    <2>1. PICK statement \in {"updateFlag", "insertRules"} : Goto(r, statement)
      BY <1>12 DEF LockRules
    <2>2. /\ UNCHANGED resp /\ pc[r] = "lockRules"
          /\ tx' = [tx EXCEPT ![r].del = target[r] \cap rules]
      BY <1>12 DEF LockRules, Execute
    <2>3. pc'[r] = statement  BY <1>2, <2>1 DEF Goto
    <2>4. tx'[r].ins = tx[r].ins /\ \A s \in Requests \ {r} : tx'[s] = tx[s]
      BY <1>2, <2>2 DEF Tx
    <2>5. Unwritten(r)'  BY <1>2, <2>2, <2>3, <2>4 DEF Unwritten
    <2> QED  BY <1>5, <2>1, <2>2, <2>4, <2>5
  <1>13. CASE InsertRules(r)
    <2>1. \/ Finish(r, "error")
          \/ /\ \E statement \in {"audit", "updateFlag"} : Goto(r, statement)
             /\ UNCHANGED resp /\ tx' = [tx EXCEPT ![r].ins = NewRules(r)]
      BY <1>13 DEF InsertRules
    <2>2. ASSUME NEW statement \in {"audit", "updateFlag"}, Goto(r, statement), UNCHANGED resp,
                 tx' = [tx EXCEPT ![r].ins = NewRules(r)]
          PROVE  AInv'
      <3>1. pc'[r] = statement  BY <1>2, <2>2 DEF Goto
      <3>2. \A s \in Requests \ {r} : tx'[s] = tx[s]  BY <1>2, <2>2
      <3>3. Unwritten(r)'  BY <3>1 DEF Unwritten
      <3> QED  BY <1>5, <2>2, <3>2, <3>3
    <2> QED  BY <1>4, <2>1, <2>2
  <1> QED  BY <1>7, <1>8, <1>9, <1>10, <1>11, <1>12, <1>13

\* A COMMIT writes the one entry of its request, and only then may it answer "ok".
LEMMA AnswerCommitted ==
  ASSUME IInv, AInv, NEW r \in Requests, Commit(r)
  PROVE  AInv'
  <1> DEFINE e == [action |-> input[r].op, id |-> seen[r].id, actor |-> r]
  <1>1. pc[r] = "commit" /\ pc'[r] = "done" /\ audit' = Append(audit, e) /\ StepOf(r)
    BY CommitEffect
  <1>2. resp'[r] \in {"ok", "error"} /\ \A s \in Requests \ {r} : resp'[s] = resp[s]
    BY DEF Commit, Finish, IInv, TypeOK
  <1>3. audit \in Seq(Entry) /\ Len(audit) \in Nat /\ DOMAIN audit = 1..Len(audit)
    BY DEF IInv, TypeOK
  <1>4. e.actor = r  OBVIOUS
  <1> HIDE DEF e
  <1>5. /\ DOMAIN audit' = 1..Len(audit) + 1
        /\ audit'[Len(audit) + 1] = e
        /\ \A i \in DOMAIN audit : i \in DOMAIN audit' /\ audit'[i] = audit[i]
        /\ \A i \in DOMAIN audit' : i \in DOMAIN audit \/ i = Len(audit) + 1
    BY <1>1, <1>3
  <1>6. Answered(r)  BY DEF AInv
  <1>7. r \notin Anonymous /\ \A i \in DOMAIN audit : audit[i].actor # r
    BY <1>1, <1>6 DEF Answered, InTx
  <1>8. Answered(r)' /\ Unwritten(r)'
    <2>1. Len(audit) + 1 \in DOMAIN audit'  BY <1>3, <1>5
    <2>2. \A i \in DOMAIN audit' : audit'[i].actor = r => i = Len(audit) + 1
      BY <1>5, <1>7
    <2> QED  BY <1>1, <1>2, <1>4, <1>5, <1>7, <2>1, <2>2 DEF Answered, Unwritten, InTx
  <1>9. ASSUME NEW s \in Requests, s # r PROVE Answered(s)' /\ Unwritten(s)'
    <2>1. pc'[s] = pc[s] /\ tx'[s] = tx[s] /\ resp'[s] = resp[s]
      BY <1>1, <1>2, <1>9 DEF StepOf
    <2>2. Answered(s) /\ Unwritten(s)  BY DEF AInv
    <2>3. Unwritten(s)'  BY <2>1, <2>2 DEF Unwritten
    <2>4. \A i \in DOMAIN audit' : audit'[i].actor = s => i \in DOMAIN audit /\ audit[i].actor = s
      BY <1>4, <1>5, <1>9
    <2>5. Answered(s)'  BY <1>5, <2>1, <2>2, <2>4 DEF Answered
    <2> QED  BY <2>3, <2>5
  <1> QED  BY <1>8, <1>9 DEF AInv

\* The invariant of the answers and of what is not yet written.
THEOREM AnswerInvariance == Spec => []AInv
  <1>1. Init => AInv
    <2> SUFFICES ASSUME Init, NEW r \in Requests PROVE Unwritten(r) /\ Answered(r)
      BY DEF AInv
    <2>1. pc[r] = "idle" /\ resp[r] = Nil /\ audit = <<>>  BY DEF Init
    <2> QED  BY <2>1, ConstantsAssumption DEF Unwritten, Answered, InTx
  <1>2. IInv /\ AInv /\ [Next]_vars => AInv'
    <2> SUFFICES ASSUME IInv, AInv, [Next]_vars PROVE AInv'
      OBVIOUS
    <2>1. CASE UNCHANGED vars
      BY <2>1 DEF AInv, Unwritten, Answered, vars, db, handler
    <2>2. ASSUME NEW r \in Requests, ReadRules(r) \/ AbortDeadlock(r) \/ Fail(r) PROVE AInv'
      <3>1. PICK answer : answer # "ok" /\ Finish(r, answer)
        BY <2>2 DEF ReadRules, AbortDeadlock, Fail, Verdicts, Outcomes
      <3>2. pc[r] # "done" /\ UNCHANGED db  BY <2>2 DEF ReadRules, AbortDeadlock, Fail, InTx
      <3> QED  BY <3>1, <3>2, AnswerGivenUp
    <2>3. AllDone => UNCHANGED vars  BY DEF AllDone
    <2> QED
      BY <2>1, <2>2, <2>3, AnswerReceived, AnswerStatement, AnswerCommitted DEF Next, Advance
  <1> QED  BY <1>1, <1>2, Invariance, PTL DEF Spec

\* Whatever fails and whenever: "ok" is answered only for a change that the log tells, and a
\* change that the log tells is answered "ok", or "error" if the acknowledgement was lost.
THEOREM AnswersMatchAudit == Spec => []AnswerMatchesAudit
  <1>1. ASSUME AInv PROVE AnswerMatchesAudit
    <2> SUFFICES ASSUME NEW r \in Requests
                 PROVE  LET own == {i \in DOMAIN audit : audit[i].actor = r}
                        IN  /\ Cardinality(own) <= 1
                            /\ resp[r] = "ok" => own # {}
                            /\ own # {} => resp[r] \in {"ok", "error"} /\ r \notin Anonymous
      BY DEF AnswerMatchesAudit
    <2> DEFINE own == {i \in DOMAIN audit : audit[i].actor = r}
    <2>1. Answered(r)  BY <1>1 DEF AInv
    <2>2. own = {} \/ \E i : own = {i}  BY <2>1 DEF Answered
    <2>3. Cardinality(own) <= 1
      <3> HIDE DEF own
      <3>1. own = {} => Cardinality(own) = 0  BY FS_EmptySet
      <3>2. \A i : own = {i} => Cardinality(own) = 1  BY FS_Singleton
      <3> QED  BY <2>2, <3>1, <3>2
    <2> QED  BY <2>1, <2>3 DEF Answered
  <1> QED  BY <1>1, AnswerInvariance, PTL

-----------------------------------------------------------------------------
\* Whom r waits for, directly or through others.
Awaited(r) ==
  {t \in Requests : \A S \in SUBSET Requests :
     (WaitsFor(r) \subseteq S /\ \A s \in S : WaitsFor(s) \subseteq S) => t \in S}

LEMMA AwaitedClosed ==
  ASSUME NEW r \in Requests
  PROVE  /\ WaitsFor(r) \subseteq Awaited(r)
         /\ \A s \in Awaited(r) : WaitsFor(s) \subseteq Awaited(r)
  <1>1. \A s \in Requests : WaitsFor(s) \subseteq Requests  BY DEF WaitsFor
  <1>2. WaitsFor(r) \subseteq Awaited(r)  BY <1>1 DEF Awaited
  <1>3. ASSUME NEW s \in Awaited(r), NEW t \in WaitsFor(s) PROVE t \in Awaited(r)
    <2>1. s \in Requests /\ t \in Requests  BY <1>1 DEF Awaited
    <2>2. ASSUME NEW S \in SUBSET Requests, WaitsFor(r) \subseteq S,
                 \A q \in S : WaitsFor(q) \subseteq S
          PROVE  t \in S
      <3>1. s \in S  BY <2>2 DEF Awaited
      <3> QED  BY <2>2, <3>1
    <2> QED  BY <2>1, <2>2 DEF Awaited
  <1> QED  BY <1>2, <1>3

\* In a cycle, r waits for one that waits in a cycle too, and someone waits for r.
LEMMA CycleNeighbours ==
  ASSUME NEW r \in Requests, InWaitCycle(r)
  PROVE  /\ \E s \in WaitsFor(r) : InWaitCycle(s)
         /\ \E t \in Requests : r \in WaitsFor(t)
  <1>1. \A s \in Requests : WaitsFor(s) \subseteq Requests \ {s}  BY DEF WaitsFor
  <1>2. \E s \in WaitsFor(r) : r \in Awaited(s)
    <2> SUFFICES ASSUME \A s \in WaitsFor(r) : r \notin Awaited(s) PROVE FALSE
      OBVIOUS
    <2> DEFINE S == {t \in Requests : \E s \in WaitsFor(r) : t = s \/ t \in Awaited(s)}
    <2>1. WaitsFor(r) \subseteq S  BY <1>1
    <2>2. \A t \in S : WaitsFor(t) \subseteq S
      <3> SUFFICES ASSUME NEW t \in S, NEW q \in WaitsFor(t) PROVE q \in S
        OBVIOUS
      <3>1. PICK s \in WaitsFor(r) : t = s \/ t \in Awaited(s)  OBVIOUS
      <3>2. s \in Requests /\ q \in Requests  BY <1>1, <3>1
      <3>3. q \in Awaited(s)  BY <3>1, <3>2, AwaitedClosed
      <3> QED  BY <3>1, <3>2, <3>3
    <2>3. r \notin S  BY <1>1
    <2>4. S \in SUBSET Requests  OBVIOUS
    <2> HIDE DEF S
    <2> QED  BY <2>1, <2>2, <2>3, <2>4 DEF InWaitCycle
  <1>3. PICK s \in WaitsFor(r) : r \in Awaited(s)  BY <1>2
  <1>4. InWaitCycle(s)
    <2> SUFFICES ASSUME NEW S \in SUBSET Requests, WaitsFor(s) \subseteq S,
                        \A q \in S : WaitsFor(q) \subseteq S
                 PROVE  s \in S
      BY DEF InWaitCycle
    <2>1. r \in S  BY <1>3 DEF Awaited
    <2> QED  BY <1>3, <2>1
  <1>5. \E t \in Requests : r \in WaitsFor(t)
    <2> SUFFICES ASSUME \A t \in Requests : r \notin WaitsFor(t) PROVE FALSE
      OBVIOUS
    <2> DEFINE S == Requests \ {r}
    <2>1. S \in SUBSET Requests /\ r \notin S  OBVIOUS
    <2>2. WaitsFor(r) \subseteq S /\ \A t \in S : WaitsFor(t) \subseteq S  BY <1>1
    <2> HIDE DEF S
    <2> QED  BY <2>1, <2>2 DEF InWaitCycle
  <1> QED  BY <1>3, <1>4, <1>5

\* What a request that waits in a cycle has written: who waits there deletes the flag's rows
\* of rules, or it has come past the rules of its update, or it waits for nobody who waits.
LEMMA CycleWaits ==
  ASSUME IInv, AInv, NEW r \in Requests, InWaitCycle(r)
  PROVE  /\ pc[r] \in {"lockRules", "insertRules", "updateFlag", "deleteFlag", "cascade"}
         /\ pc[r] # "cascade" => tx[r].wrote \notin {"update", "delete"}
         /\ tx[r].del # {} => pc[r] \in {"insertRules", "updateFlag", "cascade"}
         /\ tx[r].ins # {} => pc[r] \in {"updateFlag"}
  <1>1. PICK s \in WaitsFor(r) : TRUE  BY CycleNeighbours
  <1>2. pc[r] \in {"insertFlag", "lockRules", "insertRules", "updateFlag", "deleteFlag", "cascade"}
    BY <1>1 DEF WaitsFor, Blocks
  <1>3. Progress(r) /\ Unwritten(r)  BY DEF IInv, AInv
  <1>4. PICK t \in Requests : Blocks(r, t)  BY CycleNeighbours DEF WaitsFor
  <1>5. tx[r].wrote # "none" \/ tx[r].del # {} \/ tx[r].ins # {}
    BY <1>4 DEF Blocks
  <1>6. pc[r] # "insertFlag"  BY <1>3, <1>5 DEF Progress, Unwritten
  <1>7. pc[r] # "cascade" => tx[r].wrote \notin {"update", "delete"}
    BY <1>2, <1>3 DEF Progress
  <1>8. pc[r] = "cascade" => tx[r].ins = {}  BY <1>3 DEF Progress
  <1> QED  BY <1>2, <1>3, <1>6, <1>7, <1>8 DEF Unwritten

\* Requests that only create and update never wait for one another in a circle: in every
\* deadlock a deletion is about to cascade to the rules of the flag it has deleted.
THEOREM DeadlocksNeedDeletion == Spec => []DeadlockNeedsDelete
  <1>1. ASSUME IInv, AInv, NEW r \in Requests, InWaitCycle(r),
               \A s \in Requests : InWaitCycle(s) => pc[s] # "cascade"
        PROVE  FALSE
    <2>1. ASSUME NEW q \in Requests, InWaitCycle(q)
          PROVE  pc[q] \notin {"insertRules", "updateFlag"}
      <3>1. PICK s \in WaitsFor(q) : InWaitCycle(s)  BY <2>1, CycleNeighbours
      <3>2. s \in Requests /\ Blocks(s, q)  BY <3>1 DEF WaitsFor
      <3>3. tx[s].wrote \notin {"update", "delete"}  BY <1>1, <3>1, <3>2, CycleWaits
      <3> QED  BY <3>2, <3>3 DEF Blocks
    <2>2. PICK s \in WaitsFor(r) : InWaitCycle(s)  BY <1>1, CycleNeighbours
    <2>3. s \in Requests /\ Blocks(s, r)  BY <2>2 DEF WaitsFor
    <2>4. tx[s].wrote \notin {"update", "delete"} /\ tx[s].del = {} /\ tx[s].ins = {}
      BY <1>1, <2>1, <2>2, <2>3, CycleWaits
    <2>5. pc[r] \in {"lockRules", "deleteFlag"}  BY <1>1, <2>1, CycleWaits
    <2> QED  BY <2>3, <2>4, <2>5 DEF Blocks
  <1>2. IInv /\ AInv => DeadlockNeedsDelete  BY <1>1 DEF DeadlockNeedsDelete
  <1> QED  BY <1>2, Invariance, AnswerInvariance, PTL

-----------------------------------------------------------------------------
(* FlagService implements AuditedFlags: a COMMIT is one audited change of one flag, and    *)
(* every other step leaves the tables as they are.                                        *)

\* The entry a committing request logs is well-formed.
LEMMA CommitEntry ==
  ASSUME IInv, NEW r \in Requests, Commit(r)
  PROVE  \E actor \in Requests :
           audit' = Append(audit, [action |-> input[r].op, id |-> seen[r].id, actor |-> actor])
  BY CommitEffect

\* Two flags of the same identity differ in their enabled and strategy columns only.
LEMMA SameIdentity ==
  ASSUME NEW f \in Flag, NEW g \in Flag, g.id = f.id, g.key = f.key
  PROVE  f = [g EXCEPT !.enabled = f.enabled, !.strategy = f.strategy]
  BY DEF Flag

\* The COMMIT of a creation, of an update and of a deletion is the abstract change.
LEMMA CommitImplements ==
  ASSUME IInv, NEW r \in Requests, Commit(r)
  PROVE  Audited!Next
  <1> DEFINE f == seen[r]
  <1>1. /\ f \in Flag
        /\ rules' = (rules \ tx[r].del) \cup tx[r].ins
        /\ \A x \in tx[r].del \cup tx[r].ins : x.flag = f.id
        /\ Creates(r) \/ Updates(r) \/ Deletes(r)
    BY CommitEffect
  <1>2. f.id \in Requests /\ f.key \in Keys /\ f.enabled \in BOOLEAN /\ f.strategy \in Audited!Strategies
    BY <1>1 DEF Flag, Audited!Strategies, Strategies, Audited!RuleTypes, RuleTypes
  <1>3. CASE Creates(r)
    <2>1. /\ f.id = r /\ tx[r].del = {} /\ input[r].op = "create" /\ flags' = flags \cup {f}
          /\ \A g \in flags : g.key # f.key
          /\ \A i \in DOMAIN audit : audit[i].id # r
      BY <1>3 DEF Creates, FlagsWith
    <2>2. f = [id |-> r, key |-> f.key, enabled |-> FALSE, strategy |-> f.strategy]
      BY <1>1, <1>3 DEF Creates, Flag
    <2>3. flags' = (flags \ {}) \cup
                     {[id |-> r, key |-> f.key, enabled |-> FALSE, strategy |-> f.strategy]}
      BY <2>1, <2>2
    <2>4. /\ rules' = (rules \ {}) \cup (rules' \ rules)
          /\ \A x \in {} \cup (rules' \ rules) : x.flag = r
      BY <1>1, <2>1
    <2> HIDE DEF f
    <2>5. Audited!Create(r, f.key, f.strategy)
      BY <2>1, <2>3, <2>4, CommitEntry DEF Audited!Create, Audited!Change, f
    <2> QED  BY <1>2, <2>5 DEF Audited!Next
  <1>4. CASE Updates(r)
    <2>1. PICK g \in flags : g.id = f.id /\ g.key = f.key /\ Others(f) = flags \ {g}
      BY <1>4 DEF Updates, Replaces
    <2>2. g \in Flag  BY DEF IInv, TypeOK
    <2>3. f = [g EXCEPT !.enabled = f.enabled, !.strategy = f.strategy]
      BY <1>1, <2>1, <2>2, SameIdentity
    <2>4. input[r].op = "update" /\ flags' = (flags \ {g}) \cup {f}
      BY <1>4, <2>1 DEF Updates
    <2>5. flags' = (flags \ {g}) \cup {[g EXCEPT !.enabled = f.enabled, !.strategy = f.strategy]}
      BY <2>3, <2>4
    <2>6. /\ rules' = (rules \ (rules \ rules')) \cup (rules' \ rules)
          /\ \A x \in (rules \ rules') \cup (rules' \ rules) : x.flag = g.id
      BY <1>1, <2>1
    <2> HIDE DEF f
    <2>7. Audited!Update(g, f.enabled, f.strategy)
      BY <2>1, <2>4, <2>5, <2>6, CommitEntry DEF Audited!Update, Audited!Change, f
    <2> QED  BY <1>2, <2>1, <2>7 DEF Audited!Next
  <1>5. CASE Deletes(r)
    <2>1. PICK g \in flags : g.id = f.id /\ Others(f) = flags \ {g}
      BY <1>5 DEF Deletes, Replaces
    <2>2. /\ input[r].op = "delete" /\ flags' = (flags \ {g}) \cup {}
          /\ tx[r].del = {x \in rules : x.flag = g.id} /\ tx[r].ins = {}
      BY <1>5, <2>1 DEF Deletes, RulesOf
    <2>3. /\ rules' = (rules \ {x \in rules : x.flag = g.id}) \cup {}
          /\ \A x \in {x \in rules : x.flag = g.id} \cup {} : x.flag = g.id
      BY <1>1, <2>2
    <2> HIDE DEF f
    <2>4. Audited!Delete(g)
      BY <2>1, <2>2, <2>3, CommitEntry DEF Audited!Delete, Audited!Change, f
    <2> QED  BY <2>4 DEF Audited!Next
  <1> QED  BY <1>1, <1>3, <1>4, <1>5

\* Every step but a COMMIT leaves the tables alone.
LEMMA OnlyCommits ==
  ASSUME [Next]_vars, \A r \in Requests : ~Commit(r)
  PROVE  UNCHANGED db
  <1>1. ASSUME NEW r \in Requests, Receive(r) PROVE UNCHANGED db
    BY <1>1 DEF Receive, MissingActor, CreateFlag, UpdateFlag, DeleteFlag, EvaluateFlag
  <1>2. ASSUME NEW r \in Requests, Advance(r) PROVE UNCHANGED db
    BY <1>2 DEF Advance, InsertFlag, UpdateRow, DeleteRow, CascadeRules, DeleteRules, LockRules,
                InsertRules, AuditCreate, ReadRules, AbortDeadlock
  <1>3. ASSUME NEW r \in Requests, Fail(r) PROVE UNCHANGED db  BY <1>3 DEF Fail
  <1>4. CASE UNCHANGED vars  BY <1>4 DEF vars
  <1> QED  BY <1>1, <1>2, <1>3, <1>4 DEF Next, AllDone

\* Every step of the service is an audited change of one flag or leaves the tables alone.
LEMMA StepImplements ==
  ASSUME IInv, [Next]_vars
  PROVE  [Audited!Next]_(Audited!vars)
  <1>1. ASSUME NEW r \in Requests, Commit(r) PROVE Audited!Next  BY <1>1, CommitImplements
  <1>2. CASE UNCHANGED db  BY <1>2 DEF db, Audited!vars
  <1> QED  BY <1>1, <1>2, OnlyCommits

\* The service keeps the fail-closed promise of AuditedFlags: there is no change of a flag or
\* of its rules without the audit entry that tells it, and no entry without its change.
THEOREM Refinement == Spec => ImplementsAuditedFlags
  <1>1. Init => Audited!Init  BY DEF Init, Audited!Init
  <1>2. IInv /\ [Next]_vars => [Audited!Next]_(Audited!vars)  BY StepImplements
  <1> QED  BY <1>1, <1>2, Invariance, PTL DEF Spec, ImplementsAuditedFlags, Audited!Spec

-----------------------------------------------------------------------------
\* The operations of the calls, and the lists of the two that may carry one.
LEMMA CallKinds ==
  ASSUME NEW in \in Input
  PROVE  /\ in \in EvaluateInput => in.op = "evaluate"
         /\ in \in MutationInput => in.op \in {"create", "update", "delete"}
         /\ in.op = "create" => in.rules \in RuleLists
         /\ Nil \notin RuleLists
  BY ConstantsAssumption
  DEF Input, EvaluateInput, MutationInput, CreateInput, UpdateInput, DeleteInput

\* A list that is accepted has the type of the strategy that is stored.
LEMMA ListFits ==
  ASSUME NEW current, NEW list \in RuleLists
  PROVE  /\ ResolveStrategyForCreate(current, list) # Mismatch =>
              \A x \in list : x.type = ResolveStrategyForCreate(current, list)
         /\ ResolveStrategyForUpdate(current, list) # Mismatch =>
              \A x \in list : x.type = ResolveStrategyForUpdate(current, list)
  <1>1. list \subseteq RuleSpec  BY ConstantsAssumption
  <1>2. StrategyWith(current, list) # Mismatch /\ list # {} =>
          \A x \in list : x.type = StrategyWith(current, list)
    <2> SUFFICES ASSUME StrategyWith(current, list) # Mismatch, NEW x \in list
                 PROVE  x.type = StrategyWith(current, list)
      OBVIOUS
    <2>1. SameType(list) /\ StrategyWith(current, list) = RuleTypeToStrategy(list)
      BY DEF StrategyWith
    <2>2. x.type \in {"percentage", "attribute"}  BY <1>1 DEF RuleSpec, RuleTypes
    <2> QED  BY <2>1, <2>2 DEF SameType, RuleTypeToStrategy
  <1> QED  BY <1>2 DEF ResolveStrategyForCreate, ResolveStrategyForUpdate

LEMMA AnswerTypes ==
  ASSUME NEW flagRows, NEW ruleRows, NEW key
  PROVE  AnswersIn(flagRows, ruleRows, key) \subseteq Outcomes
  <1>1. \A strategy, rows : Verdicts(strategy, rows) \subseteq Outcomes  BY DEF Verdicts
  <1>2. "false" \in Outcomes  BY DEF Outcomes
  <1> QED  BY <1>1, <1>2 DEF AnswersIn

LEMMA AdmissibleStep ==
  ASSUME HInv, HNext
  PROVE  /\ admissible' \in [Requests -> SUBSET Outcomes]
         /\ \A r \in Requests :
              /\ pc'[r] # "readRules" => admissible'[r] = admissible[r]
              /\ pc'[r] = "readRules" =>
                   admissible'[r] = admissible[r] \cup AnswersIn(flags', rules', seen'[r].key)
  <1>1. admissible' = [r \in Requests |->
          IF pc'[r] = "readRules"
          THEN admissible[r] \cup AnswersIn(flags', rules', seen'[r].key)
          ELSE admissible[r]]
    BY DEF HNext
  <1>2. \A r \in Requests : AnswersIn(flags', rules', seen'[r].key) \subseteq Outcomes
    BY AnswerTypes
  <1> QED  BY <1>1, <1>2 DEF HInv

-----------------------------------------------------------------------------
\* A step of r that commits nothing overtakes nobody; it keeps the invariant if it keeps what
\* is said of r.
LEMMA HistoryLocal ==
  ASSUME IInv, HInv, HNext, NEW r \in Requests, StepOf(r), UNCHANGED db,
         \A s \in Requests \ {r} : resp'[s] = resp[s],
         Chosen(r)', Replaced(r)',
         overtaken' = overtaken => UpToDate(r)' /\ Admits(r)'
  PROVE  HInv'
  <1>1. overtaken' = overtaken /\ tainted' = tainted
    <2>1. \A s : ~Commits(s)  BY DEF Commits, db
    <2>2. \A s, t \in Requests : ~Overtakes(s, t)  BY <2>1 DEF Overtakes
    <2>3. overtaken' = overtaken  BY <2>2 DEF HNext
    <2>4. {seen[s].id : s \in {t \in overtaken : Commits(t)}} = {}  BY <2>1
    <2> QED  BY <2>3, <2>4 DEF HNext
  <1>2. ASSUME NEW s \in Requests, s # r
        PROVE  Chosen(s)' /\ Replaced(s)' /\ UpToDate(s)' /\ Admits(s)'
    <2>1. Chosen(s) /\ Replaced(s) /\ UpToDate(s) /\ Admits(s)  BY DEF HInv
    <2>2. /\ pc'[s] = pc[s] /\ input'[s] = input[s] /\ seen'[s] = seen[s]
          /\ target'[s] = target[s] /\ tx'[s] = tx[s] /\ resp'[s] = resp[s]
      BY <1>2 DEF StepOf
    <2>3. Chosen(s)'  BY <2>1, <2>2 DEF Chosen
    <2>4. Replaced(s)'  BY <2>1, <2>2 DEF Replaced, NewRules
    <2>5. UpToDate(s)'  BY <1>1, <2>1, <2>2 DEF UpToDate, RulesOf, db
    <2>6. admissible[s] \subseteq admissible'[s]
          /\ (pc[s] # "readRules" => admissible'[s] = admissible[s])
      BY <2>2, AdmissibleStep
    <2>7. RulesOf(seen[s].id)' = RulesOf(seen[s].id)  BY <2>2 DEF RulesOf, db
    <2>8. pc'[s] \in {"idle"} \cup InTx => admissible'[s] = {}
      BY <2>1, <2>2, <2>6 DEF Admits, InTx
    <2>9. (pc'[s] = "readRules" /\ s \notin overtaken') =>
            Verdicts(seen'[s].strategy, RulesOf(seen[s].id)') \subseteq admissible'[s]
      BY <1>1, <2>1, <2>2, <2>6, <2>7 DEF Admits
    <2>10. pc'[s] = "done" => (IsTorn(s)' => s \in overtaken')
      BY <1>1, <2>1, <2>2, <2>6 DEF Admits, IsTorn
    <2>11. Admits(s)'  BY <2>8, <2>9, <2>10 DEF Admits
    <2> QED  BY <2>3, <2>4, <2>5, <2>11
  <1>3. FitUnlessOvertaken'
    BY <1>1 DEF HInv, FitUnlessOvertaken, RulesFitStrategy, RulesOf, db
  <1> QED  BY <1>1, <1>2, <1>3, AdmissibleStep DEF HInv

\* A handler that ends without a COMMIT has answered what it could, or nothing at all.
LEMMA HistoryEnds ==
  ASSUME IInv, HInv, HNext, NEW r \in Requests, NEW answer, pc[r] # "done",
         Finish(r, answer), UNCHANGED db,
         pc[r] = "readRules" => \/ answer \notin Outcomes
                                \/ answer \in Verdicts(seen[r].strategy, RulesOf(seen[r].id))
  PROVE  HInv'
  <1>1. StepOf(r)  BY DEF IInv, TypeOK, Finish, Goto, StepOf
  <1>2. /\ pc'[r] = "done" /\ resp'[r] = answer
        /\ \A s \in Requests \ {r} : resp'[s] = resp[s]
    BY DEF IInv, TypeOK, Finish, Goto
  <1>3. Chosen(r)' /\ Replaced(r)' /\ UpToDate(r)'
    BY <1>2 DEF Chosen, Replaced, UpToDate, InTx
  <1>4. ASSUME overtaken' = overtaken PROVE Admits(r)'
    <2>1. admissible'[r] = admissible[r] /\ Admits(r)
      BY <1>2, AdmissibleStep DEF HInv
    <2>2. pc[r] \in {"idle", "readRules"} \cup InTx  BY DEF IInv, TypeOK, Statements
    <2>3. IsTorn(r)' => r \in overtaken
      BY <1>2, <2>1, <2>2 DEF Admits, IsTorn
    <2> QED  BY <1>2, <1>4, <2>3 DEF Admits, InTx
  <1> QED  BY <1>1, <1>2, <1>3, <1>4, HistoryLocal

\* A statement of an open transaction after which it goes on.
LEMMA HistoryGoesOn ==
  ASSUME IInv, HInv, HNext, NEW r \in Requests, StepOf(r), UNCHANGED <<db, input, seen, resp>>,
         pc[r] \in InTx, pc'[r] \in InTx,
         Replaced(r)', overtaken' = overtaken => UpToDate(r)'
  PROVE  HInv'
  <1>1. Chosen(r) /\ Admits(r)  BY DEF HInv
  <1>2. Chosen(r)'  BY <1>1 DEF Chosen
  <1>3. Admits(r)'
    <2>1. pc'[r] # "readRules" /\ pc'[r] # "done"  BY DEF InTx
    <2> QED  BY <1>1, <2>1, AdmissibleStep DEF Admits
  <1> QED  BY <1>2, <1>3, HistoryLocal

\* The first read.
LEMMA HistoryBegins ==
  ASSUME IInv, HInv, HNext, NEW r \in Requests, pc[r] = "idle", UNCHANGED db,
         NEW in \in Input, NEW f, NEW statement, Continue(r, in, f, statement),
         \/ /\ in.op = "create" /\ statement = "insertFlag"
            /\ \A x \in in.rules : x.type = f.strategy
         \/ /\ in.op = "update" /\ in.rules = Nil /\ statement = "updateFlag"
            /\ \E g \in flags : g.id = f.id /\ g.strategy = f.strategy
         \/ /\ in.op = "update" /\ in.rules # Nil /\ statement = "deleteRules"
            /\ \A x \in in.rules : x.type = f.strategy
            /\ \E g \in flags : g.id = f.id
         \/ in.op = "delete" /\ statement = "deleteFlag"
         \/ /\ in.op = "evaluate" /\ statement = "readRules"
            /\ f \in FlagsWith(f.key) /\ f.enabled
  PROVE  HInv'
  <1>1. /\ pc'[r] = statement /\ input'[r] = in /\ seen'[r] = f /\ tx'[r] = NoTx
        /\ UNCHANGED resp /\ StepOf(r)
    BY DEF IInv, TypeOK, Progress, Continue, Goto, StepOf
  <1>2. Chosen(r)'  BY <1>1 DEF Chosen, InTx
  <1>3. Replaced(r)'  BY <1>1 DEF Replaced, NoTx
  <1>4. UpToDate(r)'  BY <1>1 DEF UpToDate, InTx, db
  <1>5. Admits(r)'
    <2>1. Admits(r)  BY DEF HInv
    <2>2. CASE statement # "readRules"
      <3>1. admissible'[r] = admissible[r]  BY <1>1, <2>2, AdmissibleStep
      <3> QED  BY <1>1, <2>1, <2>2, <3>1 DEF Admits
    <2>3. CASE statement = "readRules"
      <3>1. f \in {g \in flags' : g.key = f.key /\ g.enabled}  BY <2>3 DEF FlagsWith, db
      <3>2. Verdicts(f.strategy, {x \in rules' : x.flag = f.id}) \subseteq AnswersIn(flags', rules', f.key)
        BY <3>1 DEF AnswersIn
      <3>3. AnswersIn(flags', rules', f.key) \subseteq admissible'[r]
        BY <1>1, <2>3, AdmissibleStep
      <3>4. Verdicts(seen'[r].strategy, {x \in rules' : x.flag = seen'[r].id}) \subseteq admissible'[r]
        BY <1>1, <3>2, <3>3
      <3> QED  BY <1>1, <2>3, <3>4 DEF Admits, RulesOf, InTx
    <2> QED  BY <2>2, <2>3
  <1> QED  BY <1>1, <1>2, <1>3, <1>4, <1>5, HistoryLocal

LEMMA HistoryReceives ==
  ASSUME IInv, HInv, HNext, NEW r \in Requests, Receive(r)
  PROVE  HInv'
  <1>1. pc[r] = "idle" /\ UNCHANGED db
    BY DEF Receive, MissingActor, CreateFlag, UpdateFlag, DeleteFlag, EvaluateFlag, PrepareAuditTx
  <1>2. ASSUME \E answer : Finish(r, answer) PROVE HInv'
    BY <1>1, <1>2, HistoryEnds
  <1>3. CASE MissingActor(r)  BY <1>2, <1>3 DEF MissingActor
  <1>4. CASE CreateFlag(r)
    <2>1. PICK in \in CreateInput :
            \/ \E answer : Finish(r, answer)
            \/ /\ ResolveStrategyForCreate(in.strategy, in.rules) # Mismatch
               /\ Continue(r, in, [id |-> r, key |-> in.key, enabled |-> FALSE,
                           strategy |-> ResolveStrategyForCreate(in.strategy, in.rules)],
                           "insertFlag")
      BY <1>4 DEF CreateFlag
    <2>2. in \in Input /\ in.op = "create" /\ in.rules \in RuleLists
      BY DEF CreateInput, MutationInput, Input
    <2>3. ResolveStrategyForCreate(in.strategy, in.rules) # Mismatch =>
            \A x \in in.rules : x.type = ResolveStrategyForCreate(in.strategy, in.rules)
      BY <2>2, ListFits
    <2>4. CASE /\ ResolveStrategyForCreate(in.strategy, in.rules) # Mismatch
               /\ Continue(r, in, [id |-> r, key |-> in.key, enabled |-> FALSE,
                           strategy |-> ResolveStrategyForCreate(in.strategy, in.rules)],
                           "insertFlag")
      <3> DEFINE f == [id |-> r, key |-> in.key, enabled |-> FALSE,
                       strategy |-> ResolveStrategyForCreate(in.strategy, in.rules)]
      <3>1. \A x \in in.rules : x.type = f.strategy  BY <2>3, <2>4
      <3>2. Continue(r, in, f, "insertFlag")  BY <2>4
      <3> HIDE DEF f
      <3> QED  BY <1>1, <2>2, <3>1, <3>2, HistoryBegins
    <2> QED  BY <1>2, <2>1, <2>4
  <1>5. CASE UpdateFlag(r)
    <2>1. PICK in \in UpdateInput :
            \/ \E answer : Finish(r, answer)
            \/ \E f \in FlagsWith(in.key) :
                 \/ /\ in.rules = Nil
                    /\ Continue(r, in, [f EXCEPT !.enabled = in.enabled], "updateFlag")
                 \/ /\ in.rules # Nil
                    /\ ResolveStrategyForUpdate(f.strategy, in.rules) # Mismatch
                    /\ Continue(r, in, [f EXCEPT !.enabled = in.enabled, !.strategy =
                                          ResolveStrategyForUpdate(f.strategy, in.rules)],
                                "deleteRules")
      BY <1>5, Zenon DEF UpdateFlag
    <2>2. in \in Input /\ in.op = "update" /\ in.rules \in RuleLists \cup {Nil}
      BY DEF UpdateInput, MutationInput, Input
    <2>3. ASSUME NEW f \in FlagsWith(in.key), in.rules = Nil,
                 Continue(r, in, [f EXCEPT !.enabled = in.enabled], "updateFlag")
          PROVE  HInv'
      <3> DEFINE g == [f EXCEPT !.enabled = in.enabled]
      <3>1. f \in flags /\ f \in Flag  BY DEF FlagsWith, IInv, TypeOK
      <3>2. g.id = f.id /\ g.strategy = f.strategy  BY <3>1 DEF Flag
      <3>3. Continue(r, in, g, "updateFlag")  BY <2>3
      <3> HIDE DEF g
      <3> QED  BY <1>1, <2>2, <2>3, <3>1, <3>2, <3>3, HistoryBegins
    <2>4. ASSUME NEW f \in FlagsWith(in.key), in.rules # Nil,
                 ResolveStrategyForUpdate(f.strategy, in.rules) # Mismatch,
                 Continue(r, in, [f EXCEPT !.enabled = in.enabled, !.strategy =
                                    ResolveStrategyForUpdate(f.strategy, in.rules)],
                          "deleteRules")
          PROVE  HInv'
      <3> DEFINE g == [f EXCEPT !.enabled = in.enabled,
                                !.strategy = ResolveStrategyForUpdate(f.strategy, in.rules)]
      <3>1. f \in flags /\ f \in Flag  BY DEF FlagsWith, IInv, TypeOK
      <3>2. g.id = f.id /\ g.strategy = ResolveStrategyForUpdate(f.strategy, in.rules)
        BY <3>1 DEF Flag
      <3>3. \A x \in in.rules : x.type = ResolveStrategyForUpdate(f.strategy, in.rules)
        BY <2>2, <2>4, ListFits
      <3>4. Continue(r, in, g, "deleteRules")  BY <2>4
      <3> HIDE DEF g
      <3> QED  BY <1>1, <2>2, <2>4, <3>1, <3>2, <3>3, <3>4, HistoryBegins
    <2> QED  BY <1>2, <2>1, <2>3, <2>4
  <1>6. CASE DeleteFlag(r)
    <2>1. PICK in \in DeleteInput :
            (\E answer : Finish(r, answer)) \/ \E f : Continue(r, in, f, "deleteFlag")
      BY <1>6 DEF DeleteFlag
    <2>2. in \in Input /\ in.op = "delete"  BY DEF DeleteInput, MutationInput, Input
    <2> QED  BY <1>1, <1>2, <2>1, <2>2, HistoryBegins
  <1>7. CASE EvaluateFlag(r)
    <2>1. PICK in \in EvaluateInput :
            \/ \E answer : Finish(r, answer)
            \/ \E f \in FlagsWith(in.key) : f.enabled /\ Continue(r, in, f, "readRules")
      BY <1>7 DEF EvaluateFlag
    <2>2. in \in Input /\ in.op = "evaluate"  BY DEF EvaluateInput, Input
    <2>3. \A f \in FlagsWith(in.key) : f \in FlagsWith(f.key)  BY DEF FlagsWith
    <2> QED  BY <1>1, <1>2, <2>1, <2>2, <2>3, HistoryBegins
  <1> QED  BY <1>3, <1>4, <1>5, <1>6, <1>7 DEF Receive

\* A statement of an open transaction.
LEMMA HistoryStatement ==
  ASSUME IInv, AInv, HInv, HNext, NEW r \in Requests,
         \/ InsertFlag(r) \/ UpdateRow(r) \/ DeleteRow(r) \/ CascadeRules(r)
         \/ DeleteRules(r) \/ LockRules(r) \/ InsertRules(r) \/ AuditCreate(r)
  PROVE  HInv'
  <1>1. /\ pc[r] \in {"insertFlag", "updateFlag", "deleteFlag", "cascade", "deleteRules",
                      "lockRules", "insertRules", "audit"}
        /\ UNCHANGED db
    BY DEF InsertFlag, UpdateRow, DeleteRow, CascadeRules, DeleteRules, LockRules, InsertRules,
           AuditCreate, Execute
  <1>2. /\ pc \in [Requests -> Statements] /\ tx \in [Requests -> Tx]
        /\ input \in [Requests -> Input \cup {Nil}] /\ seen \in [Requests -> Flag \cup {Nil}]
        /\ target \in [Requests -> SUBSET Rule]
        /\ Progress(r) /\ Unwritten(r) /\ Replaced(r) /\ UpToDate(r)
    BY DEF IInv, AInv, HInv, TypeOK
  <1>3. /\ input[r] \in Input /\ input[r].op \in {"create", "update", "delete"}
        /\ input[r].op = "create" => input[r].rules \in RuleLists
        /\ Nil \notin RuleLists
    <2>1. input[r] \in MutationInput  BY <1>1, <1>2 DEF Progress, Open, InTx
    <2>2. input[r] \in Input  BY <2>1 DEF Input
    <2> QED  BY <2>1, <2>2, CallKinds
  <1>4. CASE \E answer : Finish(r, answer)
    <2>1. pc[r] # "done" /\ pc[r] # "readRules"  BY <1>1
    <2> QED  BY <1>1, <1>4, <2>1, HistoryEnds
  <1>5. ASSUME UNCHANGED <<input, seen, resp>>, pc'[r] \in InTx,
               \A s \in Requests \ {r} : pc'[s] = pc[s] /\ target'[s] = target[s] /\ tx'[s] = tx[s],
               Replaced(r)', overtaken' = overtaken => UpToDate(r)'
        PROVE  HInv'
    <2>1. StepOf(r)  BY <1>1, <1>5 DEF StepOf
    <2>2. pc[r] \in InTx  BY <1>1 DEF InTx
    <2> QED  BY <1>1, <1>5, <2>1, <2>2, HistoryGoesOn
  <1>6. ASSUME UNCHANGED <<input, seen, resp>>, input[r].op = "delete", pc'[r] \in InTx,
               \A s \in Requests \ {r} : pc'[s] = pc[s] /\ target'[s] = target[s] /\ tx'[s] = tx[s]
        PROVE  HInv'
    BY <1>5, <1>6 DEF Replaced, UpToDate
  <1>7. CASE InsertFlag(r)
    <2>1. CASE /\ tx' = [tx EXCEPT ![r].wrote = "insert"] /\ UNCHANGED <<input, seen, target, resp>>
               /\ Goto(r, IF input[r].rules = {} THEN "audit" ELSE "deleteRules")
      <3>1. /\ pc'[r] = IF input[r].rules = {} THEN "audit" ELSE "deleteRules"
            /\ tx'[r].del = tx[r].del /\ tx'[r].ins = tx[r].ins
            /\ \A s \in Requests \ {r} : pc'[s] = pc[s] /\ tx'[s] = tx[s]
        BY <1>2, <2>1 DEF Goto, Tx
      <3>2. input[r].op = "create" /\ tx[r].ins = {}
        BY <1>2, <1>7 DEF InsertFlag, Execute, Progress, Unwritten
      <3>3. Replaced(r)'  BY <1>3, <2>1, <3>1, <3>2 DEF Replaced, NewRules
      <3>4. UpToDate(r)'  BY <2>1, <3>2 DEF UpToDate
      <3>5. pc'[r] \in InTx  BY <3>1 DEF InTx
      <3> QED  BY <1>5, <2>1, <3>1, <3>3, <3>4, <3>5
    <2> QED  BY <1>4, <1>7, <2>1 DEF InsertFlag
  <1>8. CASE UpdateRow(r)
    <2>1. CASE /\ tx' = [tx EXCEPT ![r].wrote = "update"] /\ UNCHANGED <<input, seen, target, resp>>
               /\ Goto(r, "audit")
      <3>1. /\ pc[r] = "updateFlag" /\ pc'[r] = "audit"
            /\ tx'[r].del = tx[r].del /\ tx'[r].ins = tx[r].ins
            /\ \A s \in Requests \ {r} : pc'[s] = pc[s] /\ tx'[s] = tx[s]
        BY <1>2, <1>8, <2>1 DEF UpdateRow, Execute, Goto, Tx
      <3>2. Replaced(r)'  BY <1>2, <2>1, <3>1 DEF Replaced, NewRules
      <3>3. overtaken' = overtaken => UpToDate(r)'
        BY <1>1, <1>2, <2>1, <3>1 DEF UpToDate, RulesOf, db, InTx
      <3>4. pc'[r] \in InTx  BY <3>1 DEF InTx
      <3> QED  BY <1>5, <2>1, <3>1, <3>2, <3>3, <3>4
    <2> QED  BY <1>4, <1>8, <2>1 DEF UpdateRow
  <1>9. CASE DeleteRow(r)
    <2>1. input[r].op = "delete"  BY <1>2, <1>9 DEF DeleteRow, Execute, Progress
    <2>2. CASE /\ tx' = [tx EXCEPT ![r].wrote = "delete"] /\ UNCHANGED <<input, seen, target, resp>>
               /\ Goto(r, "cascade")
      <3>1. /\ pc'[r] \in InTx
            /\ \A s \in Requests \ {r} : pc'[s] = pc[s] /\ tx'[s] = tx[s]
        BY <1>2, <2>2 DEF Goto, InTx
      <3> QED  BY <1>6, <2>1, <2>2, <3>1
    <2> QED  BY <1>4, <1>9, <2>2 DEF DeleteRow
  <1>10. CASE CascadeRules(r)
    <2>1. input[r].op = "delete"  BY <1>2, <1>10 DEF CascadeRules, Execute, Progress
    <2>2. /\ pc'[r] \in InTx /\ UNCHANGED <<input, seen, target, resp>>
          /\ \A s \in Requests \ {r} : pc'[s] = pc[s] /\ tx'[s] = tx[s]
      BY <1>2, <1>10 DEF CascadeRules, Goto, InTx
    <2> QED  BY <1>6, <2>1, <2>2
  <1>11. CASE DeleteRules(r)
    <2>1. /\ pc'[r] = "lockRules" /\ target'[r] = RulesOf(seen[r].id)
          /\ UNCHANGED <<input, seen, tx, resp>>
          /\ \A s \in Requests \ {r} : pc'[s] = pc[s] /\ target'[s] = target[s]
      BY <1>2, <1>11 DEF DeleteRules, Goto
    <2>2. Replaced(r)'  BY <2>1 DEF Replaced
    <2>3. overtaken' = overtaken => UpToDate(r)'
      <3> SUFFICES ASSUME overtaken' = overtaken, input[r].op = "update", r \notin overtaken
                   PROVE  UpToDate(r)'
        BY <2>1 DEF UpToDate
      <3>1. pc[r] \in InTx  BY <1>11 DEF DeleteRules, Execute, InTx
      <3>2. PICK f \in flags : /\ f.id = seen[r].id
                               /\ input[r].rules = Nil => f.strategy = seen[r].strategy
        BY <1>2, <3>1 DEF UpToDate
      <3>3. RulesOf(f.id)' = RulesOf(f.id)  BY <1>1 DEF RulesOf, db
      <3> QED  BY <1>1, <2>1, <3>2, <3>3 DEF UpToDate, RulesOf, db
    <2>4. pc'[r] \in InTx  BY <2>1 DEF InTx
    <2> QED  BY <1>5, <2>1, <2>2, <2>3, <2>4
  <1>12. CASE LockRules(r)
    <2>1. /\ pc[r] = "lockRules"
          /\ pc'[r] = IF input[r].rules = {} THEN "updateFlag" ELSE "insertRules"
          /\ tx'[r].del = target[r] \cap rules /\ tx'[r].ins = tx[r].ins
          /\ UNCHANGED <<input, seen, resp>>
          /\ \A s \in Requests \ {r} : pc'[s] = pc[s] /\ target'[s] = target[s] /\ tx'[s] = tx[s]
      BY <1>2, <1>12 DEF LockRules, Execute, Goto, Tx
    <2>2. input[r].rules \in RuleLists /\ tx[r].ins = {}
      BY <1>2, <2>1 DEF Progress, Unwritten
    <2>3. Replaced(r)'  BY <1>3, <2>1, <2>2 DEF Replaced, NewRules
    <2>4. overtaken' = overtaken => UpToDate(r)'
      <3> SUFFICES ASSUME overtaken' = overtaken, input[r].op = "update", r \notin overtaken
                   PROVE  UpToDate(r)'
        BY <2>1 DEF UpToDate
      <3>1. pc[r] \in InTx  BY <2>1 DEF InTx
      <3>2. PICK f \in flags : f.id = seen[r].id /\ target[r] = RulesOf(f.id)
        BY <1>2, <2>1, <3>1 DEF UpToDate
      <3>3. target[r] \cap rules = RulesOf(f.id)  BY <3>2 DEF RulesOf
      <3>4. tx'[r].del = {x \in rules' : x.flag = f.id}  BY <1>1, <2>1, <3>3 DEF RulesOf, db
      <3>5. f \in flags' /\ f.id = seen'[r].id /\ input'[r].rules # Nil /\ pc'[r] # "lockRules"
        BY <1>1, <1>3, <2>1, <2>2, <3>2 DEF db
      <3> QED  BY <3>4, <3>5 DEF UpToDate, RulesOf
    <2>5. pc'[r] \in InTx  BY <2>1 DEF InTx
    <2> QED  BY <1>5, <2>1, <2>3, <2>4, <2>5
  <1>13. CASE InsertRules(r)
    <2>1. CASE /\ tx' = [tx EXCEPT ![r].ins = NewRules(r)] /\ UNCHANGED <<input, seen, target, resp>>
               /\ Goto(r, IF input[r].op = "create" THEN "audit" ELSE "updateFlag")
      <3>1. /\ pc[r] = "insertRules" /\ pc'[r] \in {"audit", "updateFlag"}
            /\ tx'[r].del = tx[r].del /\ tx'[r].ins = NewRules(r)
            /\ \A s \in Requests \ {r} : pc'[s] = pc[s] /\ tx'[s] = tx[s]
        BY <1>2, <1>13, <2>1 DEF InsertRules, Execute, Goto, Tx
      <3>2. input[r].rules # Nil  BY <1>2, <1>3, <3>1 DEF Progress
      <3>3. Replaced(r)'  BY <2>1, <3>1, <3>2 DEF Replaced, NewRules
      <3>4. overtaken' = overtaken => UpToDate(r)'
        BY <1>1, <1>2, <2>1, <3>1, <3>2 DEF UpToDate, RulesOf, db, InTx
      <3>5. pc'[r] \in InTx  BY <3>1 DEF InTx
      <3> QED  BY <1>5, <2>1, <3>1, <3>3, <3>4, <3>5
    <2> QED  BY <1>4, <1>13, <2>1 DEF InsertRules
  <1>14. CASE AuditCreate(r)
    <2>1. /\ pc[r] = "audit" /\ pc'[r] = "commit"
          /\ tx'[r].del = tx[r].del /\ tx'[r].ins = tx[r].ins
          /\ UNCHANGED <<input, seen, target, resp>>
          /\ \A s \in Requests \ {r} : pc'[s] = pc[s] /\ tx'[s] = tx[s]
      BY <1>2, <1>14 DEF AuditCreate, Execute, Goto, Tx
    <2>2. Replaced(r)'  BY <1>2, <2>1 DEF Replaced, NewRules
    <2>3. overtaken' = overtaken => UpToDate(r)'
      BY <1>1, <1>2, <2>1 DEF UpToDate, RulesOf, db, InTx
    <2>4. pc'[r] \in InTx  BY <2>1 DEF InTx
    <2> QED  BY <1>5, <2>1, <2>2, <2>3, <2>4
  <1> QED  BY <1>7, <1>8, <1>9, <1>10, <1>11, <1>12, <1>13, <1>14

-----------------------------------------------------------------------------
\* Who commits a change of a flag that r has read has also read it under the same key.
LEMMA SameFlagSameKey ==
  ASSUME IInv, NEW s \in Requests, Commit(s), NEW r \in Requests,
         seen[r] # Nil, input[r].op # "create", seen[r].id = seen[s].id
  PROVE  seen[r].key = seen[s].key
  <1>1. pc[s] = "commit" /\ (Creates(s) \/ Updates(s) \/ Deletes(s))  BY CommitEffect
  <1>2. pc[seen[r].id] = "done"  BY DEF IInv, OwnFlag
  <1>3. ~Creates(s)  BY <1>1, <1>2 DEF Creates
  <1>4. PICK g \in flags : g.id = seen[s].id /\ g.key = seen[s].key
    BY <1>1, <1>3 DEF Updates, Deletes, Replaces
  <1>5. g.key = seen[r].key  BY <1>4 DEF IInv, OwnFlag
  <1> QED  BY <1>4, <1>5

\* A commit leaves the rows and the rules of every other flag alone.
LEMMA CommitLeaves ==
  ASSUME IInv, NEW s \in Requests, Commit(s), NEW id, id # seen[s].id
  PROVE  /\ \A f : f.id = id => (f \in flags' <=> f \in flags)
         /\ {x \in rules' : x.flag = id} = RulesOf(id)
  <1>1. /\ rules' = (rules \ tx[s].del) \cup tx[s].ins
        /\ \A x \in tx[s].del \cup tx[s].ins : x.flag = seen[s].id
        /\ Creates(s) \/ Updates(s) \/ Deletes(s)
    BY CommitEffect
  <1>2. {x \in rules' : x.flag = id} = RulesOf(id)  BY <1>1 DEF RulesOf
  <1>3. \A f : f.id = id => (f \in flags' <=> f \in flags)
    BY <1>1 DEF Creates, Updates, Deletes, Others
  <1> QED  BY <1>2, <1>3

\* A commit of a request that nobody has overtaken: the flag gets the rules that it brings, or
\* keeps those that it has, and they fit its strategy.
LEMMA CommitFits ==
  ASSUME IInv, HInv, NEW s \in Requests, Commit(s), ~Deletes(s),
         s \notin overtaken, seen[s].id \notin tainted
  PROVE  \A x \in rules' : x.flag = seen[s].id => x.type = seen[s].strategy
  <1>1. /\ pc[s] = "commit"
        /\ rules' = (rules \ tx[s].del) \cup tx[s].ins
        /\ Creates(s) \/ Updates(s)
    BY CommitEffect
  <1>2. Chosen(s) /\ Replaced(s) /\ UpToDate(s) /\ Progress(s)  BY DEF HInv, IInv
  <1>3. input[s] \in Input /\ input[s].op \in {"create", "update"}
    BY <1>1, <1>2 DEF Progress, Open, InTx, Input, Creates, Updates
  <1>4. \A x \in NewRules(s) : input[s].rules # Nil => x.type = seen[s].strategy
    BY <1>1, <1>2, <1>3 DEF NewRules, Chosen, InTx
  <1>5. CASE Creates(s)
    <2>1. input[s].rules # Nil  BY <1>3, <1>5, CallKinds DEF Creates
    <2>2. tx[s].ins = NewRules(s)  BY <1>1, <1>2, <1>3, <2>1 DEF Replaced
    <2>3. \A x \in rules : x.flag # seen[s].id
      <3>1. \A g \in flags : g.id # seen[s].id  BY <1>5 DEF Creates
      <3> QED  BY <3>1 DEF IInv, NoOrphanRules
    <2> QED  BY <1>1, <1>4, <2>1, <2>2, <2>3
  <1>6. CASE Updates(s)
    <2>1. PICK f \in flags :
            /\ f.id = seen[s].id
            /\ input[s].rules = Nil => f.strategy = seen[s].strategy
            /\ input[s].rules # Nil => tx[s].del = RulesOf(f.id)
      BY <1>1, <1>2, <1>6 DEF UpToDate, Updates, InTx
    <2>2. CASE input[s].rules = Nil
      <3>1. rules' = rules  BY <1>1, <1>2, <1>3, <2>2 DEF Replaced
      <3>2. RulesFitStrategy(f)  BY <2>1 DEF HInv, FitUnlessOvertaken
      <3> QED  BY <2>1, <2>2, <3>1, <3>2 DEF RulesFitStrategy, RulesOf
    <2>3. CASE input[s].rules # Nil
      <3>1. tx[s].ins = NewRules(s)  BY <1>1, <1>2, <1>3, <2>3 DEF Replaced
      <3> QED  BY <1>1, <1>4, <2>1, <2>3, <3>1 DEF RulesOf
    <2> QED  BY <2>2, <2>3
  <1> QED  BY <1>1, <1>5, <1>6

LEMMA HistoryCommits ==
  ASSUME IInv, HInv, HNext, NEW s \in Requests, Commit(s)
  PROVE  HInv'
  <1>1. /\ seen[s] \in Flag /\ pc[s] = "commit" /\ pc'[s] = "done" /\ StepOf(s)
        /\ audit' = Append(audit, [action |-> input[s].op, id |-> seen[s].id, actor |-> s])
        /\ Creates(s) \/ Updates(s) \/ Deletes(s)
    BY CommitEffect
  <1>2. Commits(s)
    <2>1. audit \in Seq(Entry)  BY DEF IInv, TypeOK
    <2>2. audit' # audit  BY <1>1, <2>1
    <2> QED  BY <1>1, <2>2 DEF Commits
  <1>3. /\ \A r \in Requests : Overtakes(s, r) => r \in overtaken'
        /\ overtaken \subseteq overtaken' /\ tainted \subseteq tainted'
        /\ s \in overtaken => seen[s].id \in tainted'
    BY <1>2 DEF HNext
  <1>4. \A r \in Requests \ {s} : resp'[r] = resp[r]  BY DEF Commit, Finish, IInv, TypeOK
  <1>5. ASSUME NEW r \in Requests, r # s
        PROVE  Chosen(r)' /\ Replaced(r)' /\ UpToDate(r)' /\ Admits(r)'
    <2>1. Chosen(r) /\ Replaced(r) /\ UpToDate(r) /\ Admits(r) /\ Progress(r)
      BY DEF HInv, IInv
    <2>2. /\ pc'[r] = pc[r] /\ input'[r] = input[r] /\ seen'[r] = seen[r]
          /\ target'[r] = target[r] /\ tx'[r] = tx[r] /\ resp'[r] = resp[r]
      BY <1>1, <1>4, <1>5 DEF StepOf
    <2>3. Chosen(r)' /\ Replaced(r)'  BY <2>1, <2>2 DEF Chosen, Replaced, NewRules
    <2>4. UpToDate(r)'
      <3> SUFFICES ASSUME pc[r] \in InTx, input[r].op = "update", r \notin overtaken'
                   PROVE  UpToDate(r)'
        BY <2>2 DEF UpToDate
      <3>1. seen[r] # Nil /\ pc[r] # "readRules"  BY <2>1 DEF Progress, Open, InTx
      <3>2. seen[r].key # seen[s].key  BY <1>2, <1>3, <1>5, <3>1 DEF Overtakes
      <3>3. seen[r].id # seen[s].id  BY <3>1, <3>2, SameFlagSameKey
      <3>4. PICK f \in flags :
              /\ f.id = seen[r].id
              /\ input[r].rules = Nil => f.strategy = seen[r].strategy
              /\ pc[r] = "lockRules" => target[r] = RulesOf(f.id)
              /\ (input[r].rules # Nil /\ pc[r] \in {"insertRules", "updateFlag", "audit", "commit"}) =>
                   tx[r].del = RulesOf(f.id)
        BY <1>3, <2>1 DEF UpToDate
      <3>5. f \in flags' /\ {x \in rules' : x.flag = f.id} = RulesOf(f.id)
        BY <3>3, <3>4, CommitLeaves
      <3> QED  BY <2>2, <3>4, <3>5 DEF UpToDate, RulesOf
    <2>5. Admits(r)'
      <3>1. pc[r] # "readRules" => admissible'[r] = admissible[r]  BY <2>2, AdmissibleStep
      <3>2. ASSUME pc[r] = "readRules", r \notin overtaken'
            PROVE  Verdicts(seen[r].strategy, {x \in rules' : x.flag = seen[r].id})
                     \subseteq admissible'[r]
        <4>1. seen[r] # Nil /\ input[r].op # "create"
          BY <2>1, <3>2, CallKinds DEF Progress, Input
        <4>2. seen[r].key # seen[s].key \/ rules' = rules
          BY <1>2, <1>3, <1>5, <3>2, <4>1 DEF Overtakes
        <4>3. {x \in rules' : x.flag = seen[r].id} = RulesOf(seen[r].id)
          <5>1. CASE rules' = rules  BY <5>1 DEF RulesOf
          <5>2. CASE seen[r].key # seen[s].key
            <6>1. seen[r].id # seen[s].id  BY <4>1, <5>2, SameFlagSameKey
            <6> QED  BY <6>1, CommitLeaves
          <5> QED  BY <4>2, <5>1, <5>2
        <4>4. admissible[r] \subseteq admissible'[r]  BY <2>2, <3>2, AdmissibleStep
        <4> QED  BY <1>3, <2>1, <3>2, <4>3, <4>4 DEF Admits
      <3>3. pc[r] = "done" => (IsTorn(r)' => r \in overtaken')
        BY <1>3, <2>1, <2>2, <3>1 DEF Admits, IsTorn
      <3>4. pc[r] \in {"idle"} \cup InTx => admissible'[r] = {}
        BY <2>1, <3>1 DEF Admits, InTx
      <3> QED  BY <2>2, <3>2, <3>3, <3>4 DEF Admits, RulesOf
    <2> QED  BY <2>3, <2>4, <2>5
  <1>6. Chosen(s)' /\ Replaced(s)' /\ UpToDate(s)' /\ Admits(s)'
    <2>1. admissible[s] = {}  BY <1>1 DEF HInv, Admits, InTx
    <2>2. admissible'[s] = {}  BY <1>1, <2>1, AdmissibleStep
    <2> QED  BY <1>1, <2>2 DEF Chosen, Replaced, UpToDate, Admits, IsTorn, InTx
  <1>7. FitUnlessOvertaken'
    <2> SUFFICES ASSUME NEW f \in flags', f.id \notin tainted'
                 PROVE  \A x \in rules' : x.flag = f.id => x.type = f.strategy
      BY DEF FitUnlessOvertaken, RulesFitStrategy, RulesOf
    <2>1. CASE f.id = seen[s].id
      <3>1. f = seen[s] /\ ~Deletes(s)
        BY <1>1, <2>1 DEF Creates, Updates, Deletes, Others
      <3>2. s \notin overtaken /\ seen[s].id \notin tainted  BY <1>3, <2>1
      <3> QED  BY <3>1, <3>2, CommitFits
    <2>2. CASE f.id # seen[s].id
      <3>1. f \in flags /\ {x \in rules' : x.flag = f.id} = RulesOf(f.id)
        BY <2>2, CommitLeaves
      <3>2. RulesFitStrategy(f)  BY <1>3, <3>1 DEF HInv, FitUnlessOvertaken
      <3> QED  BY <3>1, <3>2 DEF RulesFitStrategy
    <2> QED  BY <2>1, <2>2
  <1> QED  BY <1>5, <1>6, <1>7, AdmissibleStep DEF HInv

LEMMA HistoryStep == IInv /\ AInv /\ HInv /\ [HNext]_hvars => HInv'
  <1> SUFFICES ASSUME IInv, AInv, HInv, [HNext]_hvars PROVE HInv'
    OBVIOUS
  <1>1. ASSUME UNCHANGED hvars PROVE HInv'
    <2>1. UNCHANGED <<flags, rules, pc, input, seen, target, tx, resp>>
          /\ UNCHANGED <<overtaken, tainted, admissible>>
      BY <1>1 DEF hvars, vars, db, handler
    <2>2. ASSUME NEW r \in Requests
          PROVE  Chosen(r)' /\ Replaced(r)' /\ UpToDate(r)' /\ Admits(r)'
      <3>1. Chosen(r) /\ Replaced(r) /\ UpToDate(r) /\ Admits(r)  BY DEF HInv
      <3>2. Chosen(r)' /\ Replaced(r)'  BY <2>1, <3>1 DEF Chosen, Replaced, NewRules
      <3>3. UpToDate(r)'  BY <2>1, <3>1 DEF UpToDate, RulesOf
      <3>4. Admits(r)'  BY <2>1, <3>1 DEF Admits, IsTorn, RulesOf
      <3> QED  BY <3>2, <3>3, <3>4
    <2>3. FitUnlessOvertaken'
      BY <2>1 DEF HInv, FitUnlessOvertaken, RulesFitStrategy, RulesOf
    <2> QED  BY <2>1, <2>2, <2>3 DEF HInv
  <1>2. ASSUME HNext, NEW r \in Requests, Receive(r) PROVE HInv'  BY <1>2, HistoryReceives
  <1>3. ASSUME HNext, NEW r \in Requests, Commit(r) PROVE HInv'  BY <1>3, HistoryCommits
  <1>4. ASSUME HNext, NEW r \in Requests, ReadRules(r) PROVE HInv'
    <2>1. /\ pc[r] = "readRules" /\ UNCHANGED db
          /\ \E answer \in Verdicts(seen[r].strategy, RulesOf(seen[r].id)) : Finish(r, answer)
      BY <1>4 DEF ReadRules
    <2> QED  BY <1>4, <2>1, HistoryEnds
  <1>5. ASSUME HNext, NEW r \in Requests, AbortDeadlock(r) \/ Fail(r) PROVE HInv'
    <2>1. PICK answer \in {"error", "deadlock"} : Finish(r, answer)
      BY <1>5 DEF AbortDeadlock, Fail
    <2>2. pc[r] # "done" /\ UNCHANGED db /\ answer \notin Outcomes
      BY <1>5 DEF AbortDeadlock, Fail, InTx, Outcomes
    <2> QED  BY <1>5, <2>1, <2>2, HistoryEnds
  <1>6. ASSUME HNext, AllDone PROVE HInv'
    <2>1. UNCHANGED vars /\ \A r \in Requests : pc'[r] = "done"
      BY <1>6 DEF AllDone, vars, handler
    <2>2. \A s : ~Commits(s)  BY <2>1 DEF vars, db, Commits
    <2>3. overtaken' = overtaken
      <3>1. \A s, t \in Requests : ~Overtakes(s, t)  BY <2>2 DEF Overtakes
      <3> QED  BY <1>6, <3>1 DEF HNext
    <2>4. tainted' = tainted
      <3>1. {seen[s].id : s \in {t \in overtaken : Commits(t)}} = {}  BY <2>2
      <3> QED  BY <1>6, <3>1 DEF HNext
    <2>5. admissible' = admissible
      <3>1. \A r \in Requests : admissible'[r] = admissible[r]  BY <1>6, <2>1, AdmissibleStep
      <3> QED  BY <1>6, <3>1, AdmissibleStep DEF HInv
    <2> QED  BY <1>1, <2>1, <2>3, <2>4, <2>5 DEF hvars
  <1> QED  BY <1>1, <1>2, <1>3, <1>4, <1>5, <1>6, HistoryStatement DEF HNext, Next, Advance

-----------------------------------------------------------------------------
\* What FlagHistory adds restricts no step, so that what holds of FlagService holds here.
THEOREM HistoryInvariance == HSpec => []FInv
  <1>1. HInit => Init /\ HInv
    <2> SUFFICES ASSUME HInit PROVE Init /\ HInv
      OBVIOUS
    <2>1. Init /\ flags = {} /\ admissible = [r \in Requests |-> {}]  BY DEF HInit, Init
    <2>2. \A r \in Requests : pc[r] = "idle"  BY <2>1 DEF Init
    <2>3. \A r \in Requests : Chosen(r) /\ Replaced(r) /\ UpToDate(r) /\ Admits(r)
      BY <2>1, <2>2 DEF Chosen, Replaced, UpToDate, Admits, InTx
    <2> QED  BY <2>1, <2>3 DEF HInv, FitUnlessOvertaken
  <1>2. [HNext]_hvars => [Next]_vars  BY DEF HNext, hvars
  <1>3. HSpec => Spec  BY <1>1, <1>2, PTL DEF HSpec, Spec
  <1> QED  BY <1>1, <1>3, Invariance, AnswerInvariance, HistoryStep, PTL DEF HSpec, FInv

\* One strategy per flag and rules of that type only (docs/progress.md:34), for any number of
\* requests and flags: nothing but a commit on top of a read gone out of date breaks it.
THEOREM RulesFit == HSpec => []FitUnlessOvertaken
  <1>1. FInv => FitUnlessOvertaken  BY DEF FInv, HInv
  <1> QED  BY <1>1, HistoryInvariance, PTL

\* An evaluation answers what some committed state since its first read answers, unless a
\* commit has changed the rules of the flag in between.
THEOREM EvaluationTornOnlyByRules == HSpec => []TornOnlyByRules
  <1>1. FInv => TornOnlyByRules
    <2> SUFFICES ASSUME IInv, AInv, HInv, NEW r \in Requests, IsTorn(r) PROVE r \in overtaken
      BY DEF TornOnlyByRules, FInv
    <2>1. resp[r] # Nil  BY ConstantsAssumption DEF IsTorn
    <2>2. pc[r] = "done"  BY <2>1 DEF AInv, Answered
    <2> QED  BY <2>2 DEF HInv, Admits
  <1> QED  BY <1>1, HistoryInvariance, PTL

\* What the two promises of updateFlag (internal/flags/service.go:132 and the test
\* internal/flags/service_test.go:1364) come to: an update that nobody has overtaken gives the
\* flag the rules of the input and no others, or leaves rules and strategy as they were.
THEOREM UpdatesKeepPromises ==
  HSpec => [][\A r \in Requests :
                (Commits(r) /\ input[r].op = "update" /\ r \notin overtaken) =>
                   IF input[r].rules = Nil
                   THEN /\ rules' = rules
                        /\ \A f \in flags, g \in flags' : f.id = g.id => f.strategy = g.strategy
                   ELSE {x \in rules' : x.flag = seen[r].id} = NewRules(r)]_hvars
  <1> DEFINE Promise(r) ==
        IF input[r].rules = Nil
        THEN /\ rules' = rules
             /\ \A f \in flags, g \in flags' : f.id = g.id => f.strategy = g.strategy
        ELSE {x \in rules' : x.flag = seen[r].id} = NewRules(r)
  <1>1. ASSUME IInv, HInv, HNext, NEW r \in Requests, Commits(r), input[r].op = "update",
               r \notin overtaken
        PROVE  Promise(r)
    <2>1. Commit(r)
      <3>1. Next /\ audit' # audit /\ pc[r] = "commit" /\ pc'[r] = "done"
        BY <1>1 DEF HNext, Commits
      <3>2. PICK s \in Requests : Commit(s)  BY <3>1, OnlyCommits DEF db
      <3>3. s # r => pc'[r] = pc[r]  BY <1>1, <3>2, CommitEffect DEF StepOf
      <3> QED  BY <3>1, <3>2, <3>3
    <2>2. /\ pc[r] = "commit"
          /\ rules' = (rules \ tx[r].del) \cup tx[r].ins
          /\ \A x \in tx[r].del \cup tx[r].ins : x.flag = seen[r].id
          /\ Creates(r) \/ Updates(r) \/ Deletes(r)
      BY <1>1, <2>1, CommitEffect
    <2>3. Updates(r)  BY <1>1, <2>2 DEF Creates, Deletes
    <2>4. Replaced(r) /\ UpToDate(r)  BY <1>1 DEF HInv
    <2>5. PICK f \in flags :
            /\ f.id = seen[r].id
            /\ input[r].rules = Nil => f.strategy = seen[r].strategy
            /\ input[r].rules # Nil => tx[r].del = RulesOf(f.id)
      BY <1>1, <2>3, <2>2, <2>4 DEF UpToDate, InTx
    <2>6. CASE input[r].rules = Nil
      <3>1. rules' = rules  BY <1>1, <2>2, <2>4, <2>6 DEF Replaced
      <3>2. \A g, h \in flags : g.id = h.id => g = h  BY <1>1 DEF IInv, Creators
      <3>3. ASSUME NEW g \in flags, NEW h \in flags', g.id = h.id PROVE g.strategy = h.strategy
        <4>1. h \in flags \/ h = seen[r]  BY <2>3 DEF Updates, Others
        <4> QED  BY <2>5, <2>6, <3>2, <3>3, <4>1
      <3> QED  BY <2>6, <3>1, <3>3
    <2>7. CASE input[r].rules # Nil
      <3>1. tx[r].ins = NewRules(r)  BY <1>1, <2>2, <2>4, <2>7 DEF Replaced
      <3> QED  BY <2>2, <2>5, <2>7, <3>1 DEF RulesOf
    <2> QED  BY <2>6, <2>7
  <1> HIDE DEF Promise
  <1>2. FInv /\ [HNext]_hvars =>
          [\A r \in Requests :
             (Commits(r) /\ input[r].op = "update" /\ r \notin overtaken) => Promise(r)]_hvars
    BY <1>1 DEF FInv
  <1> QED  BY <1>2, HistoryInvariance, PTL DEF HSpec, Promise

=============================================================================
