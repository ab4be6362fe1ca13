SPECIFICATION FairSpec
CONSTANTS
  r1 = r1
  r2 = r2
  r3 = r3
  r4 = r4
  k1 = k1
  Nil = Nil
  Requests = {r1, r2, r3, r4}
  Keys = {k1}
  RuleLists <- OneRuleList
  Anonymous = {r4}
INVARIANTS
  AnswerMatchesAudit
PROPERTIES
  EveryRequestAnswered
