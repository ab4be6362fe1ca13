--------------------------- MODULE BucketingProofs ---------------------------
(***************************************************************************)
(* Proofs about MCBucketing, for any users, rules and weights: what a list *)
(* of rules answers, and which buckets the variants of an experiment get.  *)
(***************************************************************************)
EXTENDS MCBucketing, VariantWeightsProofs

\* The rules are of the type that the strategy says.
Fits ==
  /\ rules \in Seq(StoredRules) /\ strategy \in Strategies
  /\ \A i \in DOMAIN rules : rules[i].type = strategy

BInv ==
  /\ Fits
  /\ weights # Nil => weights \in Seq(Int) /\ Len(weights) <= MaxVariants

LEMMA StrategyFits ==
  ASSUME NEW current \in Strategies, NEW set \in SUBSET StoredRules, set # {},
         StrategyWith(current, set) # Mismatch
  PROVE  /\ StrategyWith(current, set) \in RuleTypes
         /\ \A v \in set : v.type = StrategyWith(current, set)
         /\ current # "none" => StrategyWith(current, set) = current
  <1>1. \A v \in set : v.type \in RuleTypes  BY EvaluationAssumption
  <1> QED  BY <1>1 DEF StrategyWith, SameType, RuleTypeToStrategy, RuleTypes

LEMMA InitFits == BInit => BInv
  <1> SUFFICES ASSUME BInit PROVE BInv
    OBVIOUS
  <1>1. CASE Init /\ weights = Nil
    <2>1. PICK n \in 0..MaxRules : rules \in [1..n -> StoredRules]
      BY <1>1, EvaluationAssumption DEF Init
    <2>0. n \in Nat  BY EvaluationAssumption
    <2>2. rules \in Seq(StoredRules) /\ DOMAIN rules = 1..n  BY <2>0, <2>1
    <2>3. PICK asked \in Strategies : strategy = ResolveStrategyForCreate(asked, ToSet(rules))
      BY <1>1 DEF Init
    <2>4. strategy # Mismatch  BY <1>1 DEF Init
    <2>5. ToSet(rules) \in SUBSET StoredRules /\ \A i \in DOMAIN rules : rules[i] \in ToSet(rules)
      BY <2>2 DEF ToSet
    <2>6. CASE ToSet(rules) = {}  BY <1>1, <2>2, <2>3, <2>5, <2>6 DEF ResolveStrategyForCreate, BInv, Fits
    <2>7. CASE ToSet(rules) # {}
      <3>1. strategy \in RuleTypes /\ \A v \in ToSet(rules) : v.type = strategy
        BY <2>3, <2>4, <2>5, <2>7, StrategyFits DEF ResolveStrategyForCreate
      <3> QED  BY <1>1, <2>2, <2>5, <3>1 DEF BInv, Fits, Strategies
    <2> QED  BY <2>6, <2>7
  <1>2. CASE /\ rules = <<>> /\ strategy = "none"
             /\ weights \in UNION {[1..n -> Weights] : n \in 0..MaxVariants}
    <2>1. Fits  BY <1>2 DEF Fits, Strategies
    <2>2. PICK n \in 0..MaxVariants : weights \in [1..n -> Weights]  BY <1>2
    <2>3. n \in Nat /\ n <= MaxVariants /\ weights \in [1..n -> Int]
      <3>1. MaxVariants \in Nat /\ Weights \subseteq Int  BY BoundAssumption
      <3>2. n \in Nat /\ n <= MaxVariants  BY <3>1
      <3>3. weights \in [1..n -> Int]  BY <2>2, <3>1
      <3> QED  BY <3>2, <3>3
    <2>4. weights \in Seq(Int) /\ Len(weights) = n  BY <2>3
    <2> QED  BY <2>1, <2>3, <2>4 DEF BInv
  <1> QED  BY <1>1, <1>2 DEF BInit

\* In a new order a list has the rules that it had.
LEMMA Reordered ==
  ASSUME NEW list \in Seq(StoredRules), NEW got \in Orders(list)
  PROVE  /\ got \in Seq(StoredRules) /\ DOMAIN got = DOMAIN list
         /\ \A i \in DOMAIN got : \E j \in DOMAIN list : got[i] = list[j]
         /\ \A j \in DOMAIN list : \E i \in DOMAIN got : got[i] = list[j]
  <1>1. DOMAIN list = 1..Len(list) /\ Len(list) \in Nat  OBVIOUS
  <1>2. PICK order \in Bijection(DOMAIN list, DOMAIN list) : got = [i \in DOMAIN list |-> list[order[i]]]
    BY DEF Orders
  <1>3. /\ order \in [DOMAIN list -> DOMAIN list]
        /\ \A j \in DOMAIN list : \E i \in DOMAIN list : order[i] = j
    BY <1>2 DEF Bijection, Injection, Surjection, IsInjective
  <1> QED  BY <1>1, <1>2, <1>3

LEMMA UpdateFits ==
  ASSUME BInv, NEW list \in Seq(StoredRules), UpdateRules(list)
  PROVE  Fits'
  <1>1. /\ rules' \in Seq(StoredRules) /\ DOMAIN rules' = DOMAIN list
        /\ \A i \in DOMAIN rules' : \E j \in DOMAIN list : rules'[i] = list[j]
    BY Reordered DEF UpdateRules
  <1>2. /\ ToSet(list) \in SUBSET StoredRules /\ \A j \in DOMAIN list : list[j] \in ToSet(list)
        /\ (ToSet(list) = {} => DOMAIN list = {})
    BY DEF ToSet
  <1>3. strategy' = ResolveStrategyForUpdate(strategy, ToSet(list)) /\ strategy' # Mismatch
    BY DEF UpdateRules
  <1>4. CASE ToSet(list) = {}  BY <1>1, <1>2, <1>3, <1>4 DEF ResolveStrategyForUpdate, Fits, Strategies
  <1>5. CASE ToSet(list) # {}
    <2>1. strategy' \in RuleTypes /\ \A v \in ToSet(list) : v.type = strategy'
      BY <1>2, <1>3, <1>5, StrategyFits DEF ResolveStrategyForUpdate, BInv, Fits
    <2> QED  BY <1>1, <1>2, <2>1 DEF Fits, Strategies
  <1> QED  BY <1>4, <1>5

\* The lists that the steps save.
LEMMA Saved ==
  ASSUME BInv, Next
  PROVE  \E list \in Seq(StoredRules) : UpdateRules(list)
  <1>1. rules \in Seq(StoredRules)  BY DEF BInv, Fits
  <1>2. CASE Resave  BY <1>1, <1>2 DEF Resave
  <1>3. CASE RaisePercentage
    <2>1. PICK i \in DOMAIN rules, v \in StoredRules : UpdateRules([rules EXCEPT ![i] = v])
      BY <1>3 DEF RaisePercentage
    <2>2. [rules EXCEPT ![i] = v] \in Seq(StoredRules)  BY <1>1
    <2> QED  BY <2>1, <2>2
  <1>4. CASE AddRule
    <2>1. PICK v \in StoredRules : UpdateRules(Append(rules, v))  BY <1>4 DEF AddRule
    <2>2. Append(rules, v) \in Seq(StoredRules)  BY <1>1
    <2> QED  BY <2>1, <2>2
  <1> QED  BY <1>2, <1>3, <1>4 DEF Next

LEMMA StepFits == BInv /\ [BNext]_bvars => BInv'
  <1> SUFFICES ASSUME BInv, [BNext]_bvars PROVE BInv'
    OBVIOUS
  <1>1. weights' = weights  BY DEF BNext, bvars
  <1>2. CASE UNCHANGED bvars  BY <1>2 DEF bvars, vars, BInv, Fits
  <1>3. CASE Next  BY <1>1, <1>3, Saved, UpdateFits DEF BInv
  <1> QED  BY <1>2, <1>3 DEF BNext

-----------------------------------------------------------------------------
LEMMA OutcomeKinds ==
  ASSUME NEW user, NEW v \in StoredRules
  PROVE  Outcome(user, v) \in {"true", "false", "invalid"}
  BY DEF Outcome, EvaluatePercentageRule, EvaluateAttributeRule, EvaluateSuffix, EvaluateIn, Bool

\* The first of some positions is one of them.
LEMMA FirstOf ==
  ASSUME NEW list, NEW positions \in SUBSET Nat, positions # {}
  PROVE  \E k \in positions : /\ \A j \in positions : k <= j
                              /\ OutcomeOfFirst(list, positions) = list[k].outcome
  <1>1. \E m \in positions : \A n \in positions : m <= n  BY Least
  <1> QED  BY <1>1 DEF OutcomeOfFirst

\* The first attribute rule that is not "false" decides.
LEMMA AttributeAnswer ==
  ASSUME NEW user, NEW stored \in Seq(StoredRules), stored # <<>>,
         \A i \in DOMAIN stored : stored[i].type = "attribute"
  PROVE  \/ /\ \A i \in DOMAIN stored : Outcome(user, stored[i]) = "false"
            /\ Answer(user, "attribute", stored) = "false"
         \/ \E k \in DOMAIN stored :
              /\ Outcome(user, stored[k]) # "false"
              /\ \A i \in DOMAIN stored : i < k => Outcome(user, stored[i]) = "false"
              /\ Answer(user, "attribute", stored) = Outcome(user, stored[k])
  <1> DEFINE list == [i \in DOMAIN stored |-> [type |-> stored[i].type,
                                              outcome |-> Outcome(user, stored[i])]]
             decisive == {i \in DOMAIN list : list[i].type = "attribute" /\ list[i].outcome # "false"}
  <1>1. /\ DOMAIN stored = 1..Len(stored) /\ Len(stored) \in Nat /\ Len(stored) # 0
        /\ DOMAIN list = DOMAIN stored
        /\ \A i \in DOMAIN stored : list[i].type = "attribute" /\ list[i].outcome = Outcome(user, stored[i])
    OBVIOUS
  <1>2. Answer(user, "attribute", stored) = EvaluateRules("attribute", list)  BY DEF Answer
  <1> HIDE DEF list
  <1>3. list # <<>>  BY <1>1
  <1>4. EvaluateRules("attribute", list) = EvaluateAttributeRules(list)
    BY <1>3 DEF EvaluateRules, EvaluateRulesByStrategy
  <1>5. EvaluateAttributeRules(list) = IF decisive = {} THEN "false" ELSE OutcomeOfFirst(list, decisive)
    BY DEF EvaluateAttributeRules
  <1>6. \A i \in DOMAIN stored : i \in decisive <=> Outcome(user, stored[i]) # "false"  BY <1>1
  <1>7. decisive \in SUBSET Nat /\ decisive \subseteq DOMAIN stored  BY <1>1
  <1> HIDE DEF decisive
  <1>8. CASE decisive = {}  BY <1>2, <1>4, <1>5, <1>6, <1>8
  <1>9. CASE decisive # {}
    <2>1. PICK k \in decisive : /\ \A j \in decisive : k <= j
                                /\ OutcomeOfFirst(list, decisive) = list[k].outcome
      BY <1>7, <1>9, FirstOf
    <2>2. \A i \in DOMAIN stored : i < k => i \notin decisive  BY <1>1, <1>7, <2>1
    <2> QED  BY <1>1, <1>2, <1>4, <1>5, <1>6, <1>7, <1>9, <2>1, <2>2
  <1> QED  BY <1>8, <1>9

\* The first percentage rule decides.
LEMMA PercentageAnswer ==
  ASSUME NEW user, NEW stored \in Seq(StoredRules), stored # <<>>,
         \A i \in DOMAIN stored : stored[i].type = "percentage"
  PROVE  1 \in DOMAIN stored /\ Answer(user, "percentage", stored) = Outcome(user, stored[1])
  <1> DEFINE list == [i \in DOMAIN stored |-> [type |-> stored[i].type,
                                              outcome |-> Outcome(user, stored[i])]]
             own == {i \in DOMAIN list : list[i].type = "percentage"}
  <1>1. /\ DOMAIN stored = 1..Len(stored) /\ Len(stored) \in Nat /\ Len(stored) # 0
        /\ DOMAIN list = DOMAIN stored
        /\ \A i \in DOMAIN stored : list[i].type = "percentage" /\ list[i].outcome = Outcome(user, stored[i])
    OBVIOUS
  <1>2. Answer(user, "percentage", stored) = EvaluateRules("percentage", list)  BY DEF Answer
  <1> HIDE DEF list
  <1>3. list # <<>>  BY <1>1
  <1>4. EvaluateRules("percentage", list) = EvaluatePercentageRules(list)
    BY <1>3 DEF EvaluateRules, EvaluateRulesByStrategy
  <1>5. EvaluatePercentageRules(list) = IF own = {} THEN "true" ELSE OutcomeOfFirst(list, own)
    BY DEF EvaluatePercentageRules
  <1>6. own = 1..Len(stored) /\ own \in SUBSET Nat /\ 1 \in own  BY <1>1
  <1> HIDE DEF own
  <1>7. PICK k \in own : (\A j \in own : k <= j) /\ OutcomeOfFirst(list, own) = list[k].outcome
    BY <1>6, FirstOf
  <1>8. k = 1  BY <1>6, <1>7
  <1> QED  BY <1>1, <1>2, <1>4, <1>5, <1>6, <1>7, <1>8

\* strings.HasSuffix, as the model library says it, is membership in the suffixes.
LEMMA SuffixIs ==
  ASSUME NEW s \in Seq(STRING), NEW t \in Seq(STRING), s # <<>>
  PROVE  (t # <<>> /\ IsSuffix(s, t)) <=> s \in Suffixes(t)
  <1>0. Len(s) \in Nat /\ Len(t) \in Nat /\ Len(s) # 0  OBVIOUS
  <1>1. /\ Reverse(s) = [i \in 1..Len(s) |-> s[Len(s) - i + 1]]
        /\ Reverse(t) = [i \in 1..Len(t) |-> t[Len(t) - i + 1]]
    BY DEF Reverse
  <1>2. /\ Reverse(s) \in Seq(STRING) /\ Reverse(t) \in Seq(STRING)
        /\ Len(Reverse(s)) = Len(s) /\ Len(Reverse(t)) = Len(t)
    BY <1>0, <1>1
  <1>3. IsSuffix(s, t) <=> /\ Len(s) <= Len(t)
                           /\ \A i \in 1..Len(s) : s[Len(s) - i + 1] = t[Len(t) - i + 1]
    <2>1. IsSuffix(s, t) <=> /\ Len(s) <= Len(t)
                             /\ SubSeq(Reverse(s), 1, Len(s)) = SubSeq(Reverse(t), 1, Len(s))
      BY <1>2 DEF IsSuffix, IsPrefix
    <2>2. ASSUME Len(s) <= Len(t)
          PROVE  /\ SubSeq(Reverse(s), 1, Len(s)) = [i \in 1..Len(s) |-> s[Len(s) - i + 1]]
                 /\ SubSeq(Reverse(t), 1, Len(s)) = [i \in 1..Len(s) |-> t[Len(t) - i + 1]]
      BY <1>0, <1>1, <1>2, <2>2
    <2> QED  BY <2>1, <2>2
  <1>4. ASSUME t # <<>>, IsSuffix(s, t) PROVE s \in Suffixes(t)
    <2> DEFINE l == Len(t) - Len(s) + 1
    <2>1. l \in 1..Len(t) /\ Len(s) = Len(t) - l + 1  BY <1>0, <1>3, <1>4
    <2>2. SubSeq(t, l, Len(t)) \in Seq(STRING) /\ Len(SubSeq(t, l, Len(t))) = Len(s)
      BY <1>0, <2>1
    <2>3. \A j \in 1..Len(s) : s[j] = SubSeq(t, l, Len(t))[j]
      <3> SUFFICES ASSUME NEW j \in 1..Len(s) PROVE s[j] = SubSeq(t, l, Len(t))[j]
        OBVIOUS
      <3>1. SubSeq(t, l, Len(t))[j] = t[l + j - 1]  BY <1>0, <2>1
      <3>2. Len(s) - j + 1 \in 1..Len(s)  BY <1>0
      <3>3. s[Len(s) - (Len(s) - j + 1) + 1] = t[Len(t) - (Len(s) - j + 1) + 1]
        BY <1>3, <1>4, <3>2
      <3>4. Len(s) - (Len(s) - j + 1) + 1 = j /\ Len(t) - (Len(s) - j + 1) + 1 = l + j - 1
        BY <1>0
      <3> QED  BY <3>1, <3>3, <3>4
    <2>4. s = SubSeq(t, l, Len(t))  BY <2>2, <2>3
    <2> QED  BY <2>1, <2>4 DEF Suffixes
  <1>5. ASSUME s \in Suffixes(t) PROVE t # <<>> /\ IsSuffix(s, t)
    <2>1. PICK l \in 1..Len(t) : s = SubSeq(t, l, Len(t))  BY <1>5 DEF Suffixes
    <2>2. Len(s) = Len(t) - l + 1 /\ Len(s) <= Len(t) /\ Len(t) # 0  BY <1>0, <2>1
    <2>3. ASSUME NEW i \in 1..Len(s) PROVE s[Len(s) - i + 1] = t[Len(t) - i + 1]
      <3>1. Len(s) - i + 1 \in 1..Len(s)  BY <1>0
      <3>2. s[Len(s) - i + 1] = t[l + (Len(s) - i + 1) - 1]  BY <1>0, <2>1, <2>2, <3>1
      <3>3. l + (Len(s) - i + 1) - 1 = Len(t) - i + 1  BY <1>0, <2>2
      <3> QED  BY <3>2, <3>3
    <2> QED  BY <1>3, <2>2, <2>3
  <1> QED  BY <1>4, <1>5

-----------------------------------------------------------------------------
\* A rule that can be evaluated admits whom its reference admits, and any other is an error.
LEMMA RuleIsReference ==
  ASSUME NEW user \in Users, NEW v \in StoredRules
  PROVE  Outcome(user, v) = IF Sound(v) THEN Bool(Admits(user, v)) ELSE "invalid"
  <1>1. CASE v.type = "percentage"
    <2> DEFINE b == HashToBucket[user.userID]
               p == Atoi[v.value]
    <2>1. Outcome(user, v) = EvaluatePercentageRule(b, p) /\ (Sound(v) <=> p \in 0..100)
      BY <1>1 DEF Outcome, Sound
    <2>2. b \in 0..99 /\ Malformed \notin 0..100  BY EvaluationAssumption
    <2>3. Admits(user, v) <=> b \in {x \in 0..99 : x + 1 <= p}
      BY <1>1 DEF Admits
    <2> HIDE DEF b, p
    <2>4. p \in 0..100 => (b < p <=> b \in {x \in 0..99 : x + 1 <= p})  BY <2>2
    <2> QED  BY <2>1, <2>2, <2>3, <2>4 DEF EvaluatePercentageRule, Bool
  <1>2. CASE v.type = "attribute"
    <2> DEFINE c == Unmarshal[v.value]
               val == AttributeValue(c.attribute, user)
    <2>1. /\ Outcome(user, v) = EvaluateAttributeRule(user, c)
          /\ Sound(v) <=> /\ c # Malformed
                          /\ \/ c.op = "eq" \/ (c.op = "suffix" /\ c.value # <<>>)
                             \/ (c.op = "in" /\ c.values # {})
      BY <1>2 DEF Outcome, Sound
    <2>2. CASE c = Malformed  BY <2>1, <2>2 DEF EvaluateAttributeRule
    <2>3. c # Malformed => c.value \in Seq(STRING)  BY <1>2, EvaluationAssumption
    <2>4. val \in Seq(STRING)
      <3>1. user.userID \in Seq(STRING) /\ (user.email # Nil => user.email \in Seq(STRING))
        BY EvaluationAssumption
      <3>2. val = user.userID \/ (user.email # Nil /\ val = user.email) \/ val = <<>>
        BY DEF AttributeValue
      <3>3. <<>> \in Seq(STRING)  OBVIOUS
      <3> QED  BY <3>1, <3>2, <3>3
    <2>5. CASE c # Malformed /\ c.op = "suffix"
      <3>1. Outcome(user, v) = EvaluateSuffix(val, c.value)
        BY <2>1, <2>5 DEF EvaluateAttributeRule
      <3>2. Sound(v) <=> c.value # <<>>  BY <2>1, <2>5
      <3>3. Admits(user, v) <=> c.value \in Suffixes(val)  BY <1>2, <2>5 DEF Admits
      <3>4. Outcome(user, v) = IF c.value = <<>> THEN "invalid"
                               ELSE Bool(val # <<>> /\ IsSuffix(c.value, val))
        BY <3>1 DEF EvaluateSuffix
      <3>5. c.value # <<>> => (c.value \in Suffixes(val) <=> (val # <<>> /\ IsSuffix(c.value, val)))
        BY <2>3, <2>4, <2>5, SuffixIs
      <3> HIDE DEF c, val
      <3> QED  BY <3>2, <3>3, <3>4, <3>5 DEF Bool
    <2>6. CASE c # Malformed /\ c.op = "in"
      <3>1. Outcome(user, v) = EvaluateIn(val, c.values)
        BY <2>1, <2>6 DEF EvaluateAttributeRule
      <3>2. Admits(user, v) <=> val \in c.values  BY <1>2, <2>6 DEF Admits
      <3> QED  BY <2>1, <2>6, <3>1, <3>2 DEF EvaluateIn, Bool
    <2>7. CASE c # Malformed /\ c.op = "eq"
      <3>1. Outcome(user, v) = Bool(val = c.value)
        BY <2>1, <2>7 DEF EvaluateAttributeRule
      <3>2. Admits(user, v) <=> val = c.value  BY <1>2, <2>7 DEF Admits
      <3> QED  BY <2>1, <2>7, <3>1, <3>2 DEF Bool
    <2>8. CASE c # Malformed /\ c.op \notin {"suffix", "in", "eq"}
      BY <2>1, <2>8 DEF EvaluateAttributeRule
    <2> QED  BY <2>2, <2>5, <2>6, <2>7, <2>8
  <1> QED  BY <1>1, <1>2, EvaluationAssumption DEF RuleTypes

\* What a user is answered by attribute rules that can be evaluated: some rule admits them.
LEMMA AttributeReference ==
  ASSUME NEW user \in Users, NEW stored \in Seq(StoredRules), stored # <<>>,
         \A i \in DOMAIN stored : stored[i].type = "attribute" /\ Sound(stored[i])
  PROVE  Answer(user, "attribute", stored) = Bool(\E i \in DOMAIN stored : Admits(user, stored[i]))
  <1>1. \A i \in DOMAIN stored : Outcome(user, stored[i]) = Bool(Admits(user, stored[i]))
    BY RuleIsReference
  <1> QED  BY <1>1, AttributeAnswer DEF Bool

\* The strategy of a list of rules is their type.
LEMMA RulesFit ==
  ASSUME BInv, rules # <<>>
  PROVE  /\ rules \in Seq(StoredRules) /\ strategy \in RuleTypes
         /\ \A i \in DOMAIN rules : rules[i] \in StoredRules /\ rules[i].type = strategy
  <1>1. /\ rules \in Seq(StoredRules) /\ 1 \in DOMAIN rules
        /\ \A i \in DOMAIN rules : rules[i] \in StoredRules /\ rules[i].type = strategy
    BY DEF BInv, Fits
  <1>2. rules[1] \in StoredRules /\ rules[1].type = strategy  BY <1>1
  <1> QED  BY <1>1, <1>2, EvaluationAssumption

\* Whatever the order of the rules and wherever the loop over them stops, an answer says what is
\* so: true only of a user whom some rule admits, false only of one whom the percentage that was
\* looked at, or every attribute rule, does not, and an error only if some rule is malformed.
THEOREM AnswersAreReference == BSpec => []AnswerIsReference
  <1>1. ASSUME BInv, NEW user \in Users
        PROVE  LET word == Answer(user, strategy, rules)
                   Says(i) == Sound(rules[i]) /\ Admits(user, rules[i])
                   Denies(i) == Sound(rules[i]) /\ ~Admits(user, rules[i])
               IN  /\ word = "invalid" => ~WellFormed(rules)
                   /\ word = "true" => rules = <<>> \/ \E i \in DOMAIN rules : Says(i)
                   /\ word = "false" =>
                        /\ rules # <<>>
                        /\ strategy = "percentage" => \E i \in DOMAIN rules : Denies(i)
                        /\ strategy = "attribute" => \A i \in DOMAIN rules : Denies(i)
    <2>1. CASE rules = <<>>
      <3>1. [i \in DOMAIN rules |-> [type |-> rules[i].type, outcome |-> Outcome(user, rules[i])]] = <<>>
        BY <2>1
      <3>2. Answer(user, strategy, rules) = "true"  BY <3>1 DEF Answer, EvaluateRules
      <3> QED  BY <2>1, <3>2
    <2>2. CASE rules # <<>>
      <3>1. /\ rules \in Seq(StoredRules) /\ strategy \in RuleTypes
            /\ \A i \in DOMAIN rules : rules[i] \in StoredRules /\ rules[i].type = strategy
        BY <1>1, <2>2, RulesFit
      <3>2. \A i \in DOMAIN rules :
              Outcome(user, rules[i]) = IF Sound(rules[i]) THEN Bool(Admits(user, rules[i])) ELSE "invalid"
        BY <3>1, RuleIsReference
      <3>3. CASE strategy = "attribute"
        BY <2>2, <3>1, <3>2, <3>3, AttributeAnswer DEF WellFormed, Bool
      <3>4. CASE strategy = "percentage"
        BY <2>2, <3>1, <3>2, <3>4, PercentageAnswer DEF WellFormed, Bool
      <3> QED  BY <3>1, <3>3, <3>4 DEF RuleTypes
    <2> QED  BY <2>1, <2>2
  <1>2. BInv => AnswerIsReference  BY <1>1 DEF AnswerIsReference
  <1> QED  BY <1>2, InitFits, StepFits, PTL DEF BSpec

\* A user whom every percentage of a flag lets in is still let in when one of them is raised,
\* whichever comes first in the new order.
LEMMA RaisedStaysIn ==
  ASSUME BInv, BInv', NEW user \in Users, RaisePercentage,
         \A i \in DOMAIN rules : Outcome(user, rules[i]) = "true"
  PROVE  Answer(user, strategy', rules') = "true"
  <1>1. PICK i \in DOMAIN rules, v \in StoredRules :
          /\ rules[i].type = "percentage" /\ v.type = "percentage"
          /\ {Atoi[rules[i].value], Atoi[v.value]} \subseteq 0..100
          /\ Atoi[rules[i].value] < Atoi[v.value]
          /\ UpdateRules([rules EXCEPT ![i] = v])
    BY DEF RaisePercentage
  <1> DEFINE list == [rules EXCEPT ![i] = v]
  <1>2. rules \in Seq(StoredRules) /\ rules # <<>> /\ \A j \in DOMAIN rules : rules[j].type = "percentage"
    BY <1>1 DEF BInv, Fits
  <1>3. /\ list \in Seq(StoredRules) /\ DOMAIN list = DOMAIN rules /\ list[i] = v
        /\ \A j \in DOMAIN rules : j # i => list[j] = rules[j]
    BY <1>2
  <1>4. Outcome(user, v) = "true"
    <2>1. /\ Outcome(user, rules[i]) = Bool(HashToBucket[user.userID] < Atoi[rules[i].value])
          /\ Outcome(user, v) = Bool(HashToBucket[user.userID] < Atoi[v.value])
      BY <1>1, EvaluationAssumption DEF Outcome, EvaluatePercentageRule
    <2>2. HashToBucket[user.userID] < Atoi[rules[i].value]  BY <2>1 DEF Bool
    <2>3. Atoi[v.value] \in Int /\ Atoi[rules[i].value] \in Int  BY <1>1
    <2>4. HashToBucket[user.userID] \in 0..99  BY EvaluationAssumption
    <2>5. HashToBucket[user.userID] \in Int  BY <2>4
    <2>6. HashToBucket[user.userID] < Atoi[v.value]  BY <1>1, <2>2, <2>3, <2>5
    <2> QED  BY <2>1, <2>6 DEF Bool
  <1>5. \A j \in DOMAIN list : Outcome(user, list[j]) = "true"  BY <1>3, <1>4
  <1>6. UpdateRules(list)  BY <1>1
  <1> HIDE DEF list
  <1>7. /\ rules' \in Seq(StoredRules) /\ DOMAIN rules' = DOMAIN rules
        /\ \A j \in DOMAIN rules' : \E k \in DOMAIN list : rules'[j] = list[k]
    BY <1>3, <1>6, Reordered DEF UpdateRules
  <1>8. rules' # <<>> /\ \A j \in DOMAIN rules' : Outcome(user, rules'[j]) = "true"
    BY <1>2, <1>5, <1>7
  <1>9. strategy' = "percentage" /\ \A j \in DOMAIN rules' : rules'[j].type = "percentage"
    <2>1. \A j \in DOMAIN list : list[j].type = "percentage"  BY <1>1, <1>2, <1>3
    <2>2. /\ \A j \in DOMAIN rules' : rules'[j].type = "percentage"
          /\ \E j \in DOMAIN rules' : rules'[j].type = strategy'
      BY <1>1, <1>7, <2>1 DEF BInv, Fits
    <2> QED  BY <2>2
  <1> QED  BY <1>7, <1>8, <1>9, PercentageAnswer

\* A user whom an attribute rule of a flag admits is not answered false with one rule more.
LEMMA AddedStaysIn ==
  ASSUME BInv, BInv', NEW user \in Users, AddRule, strategy = "attribute", rules # <<>>,
         Answer(user, strategy, rules) = "true"
  PROVE  \/ Answer(user, strategy', rules') = "true"
         \/ Answer(user, strategy', rules') = "invalid" /\ ~WellFormed(rules')
  <1>1. PICK v \in StoredRules : UpdateRules(Append(rules, v))  BY DEF AddRule
  <1> DEFINE list == Append(rules, v)
  <1>2. rules \in Seq(StoredRules) /\ \A i \in DOMAIN rules : rules[i].type = "attribute"
    BY DEF BInv, Fits
  <1>3. /\ list \in Seq(StoredRules) /\ DOMAIN rules \subseteq DOMAIN list
        /\ \A i \in DOMAIN rules : list[i] = rules[i]
    BY <1>2
  <1>4. UpdateRules(list)  BY <1>1
  <1> HIDE DEF list
  <1>5. /\ rules' \in Seq(StoredRules) /\ DOMAIN rules' = DOMAIN list
        /\ \A j \in DOMAIN list : \E i \in DOMAIN rules' : rules'[i] = list[j]
    BY <1>3, <1>4, Reordered DEF UpdateRules
  <1>6. PICK k \in DOMAIN rules : Outcome(user, rules[k]) = "true"
    BY <1>2, AttributeAnswer
  <1>7. PICK m \in DOMAIN rules' : rules'[m] = rules[k]  BY <1>3, <1>5
  <1>8. rules' # <<>> /\ strategy' = "attribute" /\ \A i \in DOMAIN rules' : rules'[i].type = "attribute"
    <2>1. \A i \in DOMAIN rules' : rules'[i].type = strategy'  BY DEF BInv, Fits
    <2>2. rules'[m].type = "attribute"  BY <1>2, <1>7
    <2>3. rules' # <<>>  BY <1>7
    <2> QED  BY <1>7, <2>1, <2>2, <2>3
  <1>9. CASE Answer(user, "attribute", rules') = "false"
    BY <1>5, <1>6, <1>7, <1>8, <1>9, AttributeAnswer
  <1>10. PICK n \in DOMAIN rules' : Answer(user, "attribute", rules') = Outcome(user, rules'[n])
    BY <1>5, <1>6, <1>7, <1>8, AttributeAnswer
  <1>11. rules'[n] \in StoredRules  BY <1>5
  <1>12. Outcome(user, rules'[n]) = "invalid" => ~WellFormed(rules')
    BY <1>11, RuleIsReference DEF WellFormed, Bool
  <1> QED  BY <1>8, <1>9, <1>10, <1>11, <1>12, OutcomeKinds

\* A flag that admits more keeps its users in whatever order its rules come back: where every
\* percentage let a user in, one that is raised does not put them out, and where an attribute
\* rule did, one more can at most be a malformed one, whose error is what they get.
THEOREM UsersStayIn == BSpec => GrowingKeepsUsers
  <1>1. BInv /\ BInv' /\ [BNext]_bvars =>
          [\A user \in Users :
             LET before == Answer(user, strategy, rules)
                 after == Answer(user, strategy', rules')
             IN  /\ (RaisePercentage /\ \A i \in DOMAIN rules : Outcome(user, rules[i]) = "true") =>
                      after = "true"
                 /\ (AddRule /\ strategy = "attribute" /\ rules # <<>> /\ before = "true") =>
                      after = "true" \/ (after = "invalid" /\ ~WellFormed(rules'))]_vars
    BY RaisedStaysIn, AddedStaysIn
  <1> QED  BY <1>1, InitFits, StepFits, PTL DEF BSpec, GrowingKeepsUsers

\* Whatever order the new ids of saved rules put them in, attribute rules none of which is
\* malformed answer the same.
THEOREM OrderIrrelevant == BSpec => AttributeOrderIrrelevant
  <1>1. ASSUME BInv, BInv', Resave, strategy = "attribute", NEW user \in Users, WellFormed(rules)
        PROVE  Answer(user, strategy, rules) = Answer(user, strategy', rules')
    <2>1. /\ rules \in Seq(StoredRules)
          /\ \A i \in DOMAIN rules : rules[i].type = "attribute" /\ Sound(rules[i])
      BY <1>1 DEF BInv, Fits, WellFormed
    <2>2. /\ rules' \in Seq(StoredRules) /\ DOMAIN rules' = DOMAIN rules
          /\ \A i \in DOMAIN rules' : \E j \in DOMAIN rules : rules'[i] = rules[j]
          /\ \A j \in DOMAIN rules : \E i \in DOMAIN rules' : rules'[i] = rules[j]
      BY <1>1, <2>1, Reordered DEF Resave, UpdateRules
    <2>3. CASE rules = <<>>
      <3>1. rules' = <<>>  BY <2>2, <2>3
      <3>2. \A r \in {rules, rules'} :
              [i \in DOMAIN r |-> [type |-> r[i].type, outcome |-> Outcome(user, r[i])]] = <<>>
        BY <2>3, <3>1
      <3> QED  BY <3>2 DEF Answer, EvaluateRules
    <2>4. CASE rules # <<>>
      <3>0. PICK k \in DOMAIN rules' : TRUE
        <4>1. 1 \in DOMAIN rules  BY <2>1, <2>4
        <4> QED  BY <2>2, <4>1
      <3>1. /\ rules' # <<>>
            /\ \A i \in DOMAIN rules' : rules'[i].type = "attribute" /\ Sound(rules'[i])
        <4>1. ASSUME NEW i \in DOMAIN rules' PROVE rules'[i].type = "attribute" /\ Sound(rules'[i])
          <5>1. PICK j \in DOMAIN rules : rules'[i] = rules[j]  BY <2>2
          <5> QED  BY <2>1, <5>1
        <4>2. rules' # <<>>  BY <3>0
        <4> QED  BY <4>1, <4>2
      <3>2. strategy' = "attribute"
        <4>1. rules'[k].type = strategy'  BY <1>1, <3>0 DEF BInv, Fits
        <4> QED  BY <3>0, <3>1, <4>1
      <3>3. (\E i \in DOMAIN rules : Admits(user, rules[i]))
              <=> (\E i \in DOMAIN rules' : Admits(user, rules'[i]))
        BY <2>2
      <3>4. Answer(user, "attribute", rules) = Bool(\E i \in DOMAIN rules : Admits(user, rules[i]))
        BY <2>1, <2>4, AttributeReference
      <3>5. Answer(user, "attribute", rules') = Bool(\E i \in DOMAIN rules' : Admits(user, rules'[i]))
        BY <2>2, <3>1, AttributeReference
      <3> QED  BY <1>1, <3>2, <3>3, <3>4, <3>5 DEF Bool
    <2> QED  BY <2>3, <2>4
  <1>2. BInv /\ BInv' /\ [BNext]_bvars =>
          [(Resave /\ strategy = "attribute" /\ WellFormed(rules)) =>
             \A user \in Users : Answer(user, strategy, rules) = Answer(user, strategy', rules')]_vars
    BY <1>1
  <1> QED  BY <1>2, InitFits, StepFits, PTL DEF BSpec, AttributeOrderIrrelevant

-----------------------------------------------------------------------------
\* In every experiment that can be stored, each variant gets exactly the buckets of its range: as
\* many as its weight, and none for a weight of 0.
THEOREM SharesExact == BSpec => []SharesAreExact
  <1>1. ASSUME BInv, Stored, NEW i \in DOMAIN weights
        PROVE  {b \in Buckets : AssignVariantByWeight(b, weights) = i}
                 = {b \in Buckets : Cumulative(weights)[i - 1] <= b /\ b < Cumulative(weights)[i]}
    <2>1. weights \in Seq(Int) /\ ValidWeights(weights)  BY <1>1 DEF BInv, Stored
    <2> QED  BY <2>1, AssignShare
  <1>2. BInv => SharesAreExact  BY <1>1 DEF SharesAreExact
  <1> QED  BY <1>2, InitFits, StepFits, PTL DEF BSpec

\* The weights that are stored sum to 100 although the check adds ints that wrap, for lists of
\* at most MaxVariants weights, and every list that sums to 100 can be stored.
THEOREM StoredSums == BSpec => []StoredSumsTo100
  <1>1. ASSUME BInv, weights # Nil
        PROVE  Stored <=> Total(weights) = 100 /\ \A i \in DOMAIN weights : weights[i] >= 0
    <2>1. weights \in Seq(Int) /\ Len(weights) <= MaxVariants /\ Len(weights) \in Nat
      BY <1>1 DEF BInv
    <2>2. Len(weights) * ColumnMax <= MaxVariants * ColumnMax
      BY <2>1, BoundAssumption, WidthAssumption
    <2>3. Len(weights) * ColumnMax \in Int /\ MaxVariants * ColumnMax \in Int
      BY <2>1, BoundAssumption, WidthAssumption
    <2>4. Len(weights) * ColumnMax < IntModulus
      BY <2>2, <2>3, BoundAssumption, WidthAssumption
    <2> QED  BY <1>1, <2>1, <2>4, StoredTotal DEF Stored
  <1>2. BInv => StoredSumsTo100  BY <1>1 DEF StoredSumsTo100
  <1> QED  BY <1>2, InitFits, StepFits, PTL DEF BSpec

=============================================================================
