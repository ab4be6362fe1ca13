------------------------------ MODULE FlagRules ------------------------------
(***************************************************************************)
(* The pure part of the flags service (internal/flags/service.go): which   *)
(* rollout strategy a set of rules asks for, when an input is refused, and *)
(* what a list of rules answers.                                           *)
(*                                                                         *)
(* A rule is its type and its outcome: what evaluatePercentageRule or      *)
(* evaluateAttributeRule returns for the user being evaluated. Module      *)
(* RuleEvaluation derives the outcome from the value stored with the rule. *)
(***************************************************************************)
EXTENDS Naturals, Sequences, FiniteSets

RuleTypes == {"percentage", "attribute"}
Strategies == {"none"} \cup RuleTypes

\* (bool, error) of one rule or of a whole evaluation; "invalid" is *InvalidRuleError.
Outcomes == {"true", "false", "invalid"}

\* A rule of a request. Type and outcome are all that the service looks at.
RuleSpec == [type : RuleTypes, outcome : Outcomes]

\* The refusal of a rule list: *RulesStrategyMismatchError.
Mismatch == "mismatch"

SameType(rules) == \A a, b \in rules : a.type = b.type

\* validateRulesSameType followed by ruleTypeToStrategy, for rules of one type.
RuleTypeToStrategy(rules) ==
  IF \E r \in rules : r.type = "percentage" THEN "percentage" ELSE "attribute"

\* Mutant of StrategyWith: validateRulesSameType is not called.
StrategyUnvalidated(current, rules) ==
  IF current \notin {"none", RuleTypeToStrategy(rules)} THEN Mismatch ELSE RuleTypeToStrategy(rules)

\* The strategy a flag whose strategy is "current" has once it carries these rules.
StrategyWith(current, rules) ==
  IF ~SameType(rules) \/ current \notin {"none", RuleTypeToStrategy(rules)}
  THEN Mismatch
  ELSE RuleTypeToStrategy(rules)

\* createFlag: without rules the input's strategy is taken as it is.
ResolveStrategyForCreate(strategy, rules) ==
  IF rules = {} THEN strategy ELSE StrategyWith(strategy, rules)

\* updateFlag with a rule list: an empty one clears the strategy.
ResolveStrategyForUpdate(current, rules) ==
  IF rules = {} THEN "none" ELSE StrategyWith(current, rules)

-----------------------------------------------------------------------------
\* The outcome of the rule that a loop over rules stops at, the first of those positions.
OutcomeOfFirst(rules, positions) ==
  rules[CHOOSE i \in positions : \A j \in positions : i <= j].outcome

\* The first percentage rule decides alone.
EvaluatePercentageRules(rules) ==
  LET own == {i \in DOMAIN rules : rules[i].type = "percentage"}
  IN  IF own = {} THEN "true" ELSE OutcomeOfFirst(rules, own)

\* Mutant of EvaluateAttributeRules: the first rule decides alone, as a percentage does.
FirstAttributeRuleDecides(rules) ==
  LET own == {i \in DOMAIN rules : rules[i].type = "attribute"}
  IN  IF own = {} THEN "false" ELSE OutcomeOfFirst(rules, own)

\* The first attribute rule that matches or is malformed decides.
EvaluateAttributeRules(rules) ==
  LET decisive == {i \in DOMAIN rules : rules[i].type = "attribute" /\ rules[i].outcome # "false"}
  IN  IF decisive = {} THEN "false" ELSE OutcomeOfFirst(rules, decisive)

EvaluateRulesByStrategy(strategy, rules) ==
  CASE strategy = "percentage" -> EvaluatePercentageRules(rules)
    [] strategy = "attribute"  -> EvaluateAttributeRules(rules)
    [] OTHER                   -> "true"

\* EvaluateFlagInEnvironment once both reads are done: no rules means everyone.
EvaluateRules(strategy, rules) ==
  IF rules = <<>> THEN "true" ELSE EvaluateRulesByStrategy(strategy, rules)

=============================================================================
