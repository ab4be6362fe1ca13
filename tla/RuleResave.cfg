SPECIFICATION Spec
CONSTANTS
  Nil = Nil
  Malformed = Malformed
  Users <- MCUsers
  HashToBucket <- MCHashToBucket
  StoredRules <- MCStoredRules
  Atoi <- MCAtoi
  Unmarshal <- MCUnmarshal
  MaxRules = 2
PROPERTIES
  ResaveKeepsAnswers
