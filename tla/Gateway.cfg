SPECIFICATION FairSpec
CONSTANTS
  r1 = r1
  r2 = r2
  r3 = r3
  Requests = {r1, r2, r3}
  UserIds = {"ann", "bob", "cid"}
  SeedUsers <- MCSeedUsers
  SeedFlags <- MCSeedFlags
  Calls <- MCCalls
  Expiry = 1
  ComplexityLimit = 6
  RequestTicks = 1
  MaxClock = 2
  Null = Null
  Nil = Nil
  Huge = Huge
  Error = Error
  Gone = Gone
INVARIANTS
  AnswerTellsChanges
PROPERTIES
  Entitled
  ChangedIsWhatWasSent
  EveryRequestAnswered
