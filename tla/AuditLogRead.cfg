SPECIFICATION Spec
CONSTANTS
  Writers = {w1, w2, w3}
  Content <- MCContent
  Queries <- MCQueries
  DefaultListLimit = 1
  MaxListLimit = 2
  MaxClock = 2
  TicksPerSecond = 2
  Malformed = Malformed
  Nil = Nil
INVARIANTS
  NoEntrySkipped
  QuietReadIsExact
