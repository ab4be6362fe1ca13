SPECIFICATION FairSpec
CONSTANTS
  p1 = p1
  p2 = p2
  Processes = {p1, p2}
  Requests = {r1}
  Addrs = {a1, a2}
  MaxStarts <- MCMaxStarts
  Nil = Nil
INVARIANTS
  SchemaInOrder
  SomeoneGetsThrough
  CutOnlyByForce
PROPERTIES
  InitializedNeverFails
  SignalledProcessEnds
