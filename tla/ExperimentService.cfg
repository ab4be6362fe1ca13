SPECIFICATION FairSpec
CONSTANTS
  r1 = r1
  r2 = r2
  r3 = r3
  r4 = r4
  k1 = k1
  u1 = u1
  u2 = u2
  nobody = nobody
  Nil = Nil
  IntModulus = 1024
  ColumnMax = 255
  Requests = {r1, r2, r3}
  Keys = {k1}
  WeightLists <- MCWeightLists
  Users = {u1}
  Strangers = {nobody}
  HashToBucket <- MCHashToBucket
  Anonymous = {r3}
INVARIANTS
  Consistent
  AssignmentIsRepeatable
  ShownIsStored
  ExperimentsWhole
  AnswerMatchesAudit
PROPERTIES
  EveryRequestAnswered
  ImplementsStickyExperiments
