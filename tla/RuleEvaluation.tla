--------------------------- MODULE RuleEvaluation ---------------------------
(***************************************************************************)
(* How the value stored with a rule decides for a user                     *)
(* (internal/flags/service.go from evaluatePercentageRules on, and         *)
(* attribute.go).  The state is one enabled flag: its strategy and its     *)
(* rules in the order in which GetRulesByFlagID returns them.  Steps are   *)
(* the changes of the rules after which the answers are compared.          *)
(*                                                                         *)
(* The library functions the code calls are constants: the FNV hash, and   *)
(* what strconv.Atoi and json.Unmarshal make of a stored text.  A string   *)
(* that is compared is a sequence of segments, <<>> being the empty one,   *)
(* so that suffixes can be told.                                           *)
(***************************************************************************)
EXTENDS FlagRules, SequencesExt

CONSTANTS
  Users,         \* the evaluation contexts: a userID and an email or Nil
  HashToBucket,  \* the bucket of each userID
  StoredRules,   \* the rules that may be stored: a type and a text
  Atoi,          \* the number a text stands for, or Malformed
  Unmarshal,     \* the attributeCondition a text stands for, or Malformed
  MaxRules,      \* bound on the number of rules of the flag
  Malformed,     \* a parse error
  Nil            \* Go's nil

ASSUME EvaluationAssumption ==
  /\ \A u \in Users :
       /\ u.userID \in Seq(STRING) \ {<<>>} /\ HashToBucket[u.userID] \in 0..99
       /\ u.email # Nil => u.email \in Seq(STRING)
  /\ \A v \in StoredRules :
       /\ v.type \in RuleTypes
       /\ v.type = "attribute" /\ Unmarshal[v.value] # Malformed =>
            Unmarshal[v.value].value \in Seq(STRING)
  /\ MaxRules \in Nat /\ Malformed \notin 0..100

VARIABLES strategy, rules

vars == <<strategy, rules>>

-----------------------------------------------------------------------------
Bool(b) == IF b THEN "true" ELSE "false"

\* Mutant of EvaluatePercentageRule: 100 taken to be out of range.
HundredRefused(bucket, percentage) ==
  IF percentage = Malformed \/ percentage \notin 0..99 THEN "invalid" ELSE Bool(bucket < percentage)

EvaluatePercentageRule(bucket, percentage) ==
  IF percentage = Malformed \/ percentage \notin 0..100
  THEN "invalid"
  ELSE Bool(bucket < percentage)

AttributeValue(attribute, user) ==
  CASE attribute \in {"userId", "user_id"} -> user.userID
    [] attribute = "email" /\ user.email # Nil -> user.email
    [] OTHER -> <<>>

\* Mutant of EvaluateSuffix: strings.HasPrefix.
EvaluatePrefix(attrVal, suffix) ==
  IF suffix = <<>> THEN "invalid" ELSE Bool(attrVal # <<>> /\ IsPrefix(suffix, attrVal))

EvaluateSuffix(attrVal, suffix) ==
  IF suffix = <<>> THEN "invalid" ELSE Bool(attrVal # <<>> /\ IsSuffix(suffix, attrVal))

EvaluateIn(attrVal, values) ==
  IF values = {} THEN "invalid" ELSE Bool(attrVal \in values)

EvaluateAttributeRule(user, condition) ==
  IF condition = Malformed THEN "invalid"
  ELSE LET attrVal == AttributeValue(condition.attribute, user)
       IN  CASE condition.op = "suffix" -> EvaluateSuffix(attrVal, condition.value)
             [] condition.op = "in" -> EvaluateIn(attrVal, condition.values)
             [] condition.op = "eq" -> Bool(attrVal = condition.value)
             [] OTHER -> "invalid"

Outcome(user, rule) ==
  IF rule.type = "percentage"
  THEN EvaluatePercentageRule(HashToBucket[user.userID], Atoi[rule.value])
  ELSE EvaluateAttributeRule(user, Unmarshal[rule.value])

\* EvaluateFlagInEnvironment for an enabled flag with these rules.
Answer(user, strat, stored) ==
  EvaluateRules(strat, [i \in DOMAIN stored |->
                          [type |-> stored[i].type, outcome |-> Outcome(user, stored[i])]])

-----------------------------------------------------------------------------
\* The flags that createFlag can leave behind.
Init ==
  /\ rules \in UNION {[1..n -> StoredRules] : n \in 0..MaxRules}
  /\ \E asked \in Strategies : strategy = ResolveStrategyForCreate(asked, ToSet(rules))
  /\ strategy # Mismatch

\* A list as it is read back, ordered by the random ids of its new rows.
Orders(list) == {[i \in DOMAIN list |-> list[order[i]]] : order \in Bijection(DOMAIN list, DOMAIN list)}

\* updateFlag with a list of rules: all rows are deleted, and the list inserted.
UpdateRules(list) ==
  /\ strategy' = ResolveStrategyForUpdate(strategy, ToSet(list)) /\ strategy' # Mismatch
  /\ rules' \in Orders(list)

\* The changes of rules that the properties tell apart: with the rules the flag has,
Resave == UpdateRules(rules)

\* with a higher percentage in the place of another,
RaisePercentage ==
  \E i \in DOMAIN rules, v \in StoredRules :
    /\ rules[i].type = "percentage" /\ v.type = "percentage"
    /\ {Atoi[rules[i].value], Atoi[v.value]} \subseteq 0..100
    /\ Atoi[rules[i].value] < Atoi[v.value]
    /\ UpdateRules([rules EXCEPT ![i] = v])

\* and with one rule more.
AddRule == \E v \in StoredRules : Len(rules) < MaxRules /\ UpdateRules(Append(rules, v))

Next == Resave \/ RaisePercentage \/ AddRule

Spec == Init /\ [][Next]_vars

-----------------------------------------------------------------------------
\* A rule that can be evaluated, whoever the user is.
Sound(rule) ==
  LET condition == Unmarshal[rule.value]
  IN  IF rule.type = "percentage" THEN Atoi[rule.value] \in 0..100
      ELSE /\ condition # Malformed
           /\ \/ condition.op = "eq"
              \/ condition.op = "suffix" /\ condition.value # <<>>
              \/ condition.op = "in" /\ condition.values # {}

WellFormed(list) == \A i \in DOMAIN list : Sound(list[i])

\* What docs/progress.md:34 says a rule that can be evaluated does: percentage: the user's bucket
\* is below the percentage; attribute: the attribute has the suffix, is in the list, or is equal.
Admits(user, rule) ==
  LET condition == Unmarshal[rule.value]
      attrVal == AttributeValue(condition.attribute, user)
  IN  CASE rule.type = "percentage" ->
             HashToBucket[user.userID] \in {b \in 0..99 : b + 1 <= Atoi[rule.value]}
        [] rule.type = "attribute" /\ condition.op = "suffix" -> condition.value \in Suffixes(attrVal)
        [] rule.type = "attribute" /\ condition.op = "in" -> attrVal \in condition.values
        [] OTHER -> attrVal = condition.value

\* What an answer says, whatever order the rules are in: an error, that some rule cannot be
\* evaluated; true, that some rule admits the user, or there is none; false, that a percentage
\* does not admit the user, or that every attribute rule was looked at and none does.
AnswerIsReference ==
  \A user \in Users :
    LET word == Answer(user, strategy, rules)
        Says(i) == Sound(rules[i]) /\ Admits(user, rules[i])
        Denies(i) == Sound(rules[i]) /\ ~Admits(user, rules[i])
    IN  /\ word = "invalid" => ~WellFormed(rules)
        /\ word = "true" => rules = <<>> \/ \E i \in DOMAIN rules : Says(i)
        /\ word = "false" =>
             /\ rules # <<>>
             /\ strategy = "percentage" => \E i \in DOMAIN rules : Denies(i)
             /\ strategy = "attribute" => \A i \in DOMAIN rules : Denies(i)

\* README.md:159 "stable results", as far as it holds in any new order of the rules: a user whom
\* every percentage lets in stays in when one is raised, and a user whom the attribute rules let
\* in is never answered false for one rule more, but may get the error of a malformed one.
GrowingKeepsUsers ==
  [][\A user \in Users :
       LET before == Answer(user, strategy, rules)
           after == Answer(user, strategy', rules')
       IN  /\ (RaisePercentage /\ \A i \in DOMAIN rules : Outcome(user, rules[i]) = "true") =>
                after = "true"
           /\ (AddRule /\ strategy = "attribute" /\ rules # <<>> /\ before = "true") =>
                after = "true" \/ (after = "invalid" /\ ~WellFormed(rules'))]_vars

\* Without a malformed rule the order of the attribute rules does not matter.
AttributeOrderIrrelevant ==
  [][(Resave /\ strategy = "attribute" /\ WellFormed(rules)) =>
       \A user \in Users : Answer(user, strategy, rules) = Answer(user, strategy', rules')]_vars

\* README.md:159 "Feature rollout uses hashing -> stable results": saving the rules of a
\* flag again does not change who is let in.
ResaveKeepsAnswers ==
  [][Resave => \A user \in Users :
       Answer(user, strategy, rules) = Answer(user, strategy', rules')]_vars

=============================================================================
