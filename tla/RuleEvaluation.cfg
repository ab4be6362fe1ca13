SPECIFICATION BSpec
CONSTANTS
  Nil = Nil
  Malformed = Malformed
  Users <- MCUsers
  HashToBucket <- MCHashToBucket
  StoredRules <- MCStoredRules
  Atoi <- MCAtoi
  Unmarshal <- MCUnmarshal
  MaxRules = 3
  IntModulus = 1024
  ColumnMax = 255
  Weights <- MCWeights
  MaxVariants = 4
INVARIANTS
  AnswerIsReference
  SharesAreExact
  StoredSumsTo100
PROPERTIES
  GrowingKeepsUsers
  AttributeOrderIrrelevant
