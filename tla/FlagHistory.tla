----------------------------- MODULE FlagHistory -----------------------------
(***************************************************************************)
(* FlagService with history variables, for the properties that relate an   *)
(* answer or a commit to what other requests committed in the meantime.    *)
(* The history variables restrict no step.                                 *)
(***************************************************************************)
EXTENDS FlagService

VARIABLES
  overtaken,   \* requests whose first read is out of date: see Overtakes
  tainted,     \* ids of the flags that an overtaken request has written
  admissible   \* per evaluation, what the states committed since it began answer

hvars == <<vars, overtaken, tainted, admissible>>

\* What an evaluation that reads all it needs from one committed state answers.
AnswersIn(flagRows, ruleRows, key) ==
  LET enabled == {f \in flagRows : f.key = key /\ f.enabled}
  IN  IF enabled = {} THEN {"false"}
      ELSE UNION {Verdicts(f.strategy, {x \in ruleRows : x.flag = f.id}) : f \in enabled}

\* The transaction of s commits in this step.
Commits(s) == pc[s] = "commit" /\ pc'[s] = "done" /\ audit' # audit

\* s commits a change of the flag that r has read: any change matters to a mutation,
\* and only a change of the rules to an evaluation, which reads the rest at once.
Overtakes(s, r) ==
  /\ Commits(s) /\ r # s /\ seen[r] # Nil /\ seen[s].key = seen[r].key
  /\ pc[r] = "readRules" => rules' # rules

HInit == Init /\ overtaken = {} /\ tainted = {} /\ admissible = [r \in Requests |-> {}]

HNext ==
  /\ Next
  /\ overtaken' = overtaken \cup {r \in Requests : \E s \in Requests : Overtakes(s, r)}
  /\ tainted' = tainted \cup {seen[s].id : s \in {t \in overtaken : Commits(t)}}
  /\ admissible' = [r \in Requests |->
       IF pc'[r] = "readRules"
       THEN admissible[r] \cup AnswersIn(flags', rules', seen'[r].key)
       ELSE admissible[r]]

HSpec == HInit /\ [][HNext]_hvars

-----------------------------------------------------------------------------
RulesFitStrategy(f) == \A x \in RulesOf(f.id) : x.type = f.strategy

\* docs/progress.md:34, one strategy per flag and rules of that type only: it can be
\* broken by nothing but a commit of a request whose read had gone out of date.
FitUnlessOvertaken == \A f \in flags : f.id \notin tainted => RulesFitStrategy(f)

IsTorn(r) == admissible[r] # {} /\ resp[r] \in Outcomes /\ resp[r] \notin admissible[r]

\* The two reads of EvaluateFlag give the answer of one state, also when the flag is
\* toggled in between, unless a commit changed the rules in between.
TornOnlyByRules == \A r \in Requests : IsTorn(r) => r \in overtaken

\* An updateFlag without rules "preserves rollout" (the name of the test in
\* internal/flags/service_test.go:1364): the strategy of a flag that has rules is what it was.
NilRulesPreserveStrategy ==
  [][\A r \in Requests : (Commits(r) /\ input[r].op = "update" /\ input[r].rules = Nil) =>
       \A f \in flags, g \in flags' :
         f.id = g.id /\ RulesOf(f.id) # {} => f.strategy = g.strategy]_hvars

\* "If Rules is present, replaces all rules" (internal/flags/service.go:132): once the
\* update has committed, the flag has the rules of the input and no others.
UpdateReplacesAllRules ==
  [][\A r \in Requests : (Commits(r) /\ input[r].op = "update" /\ input[r].rules # Nil) =>
       {x \in rules' : x.flag = seen[r].id} = NewRules(r)]_hvars

=============================================================================
