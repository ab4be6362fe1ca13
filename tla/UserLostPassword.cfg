SPECIFICATION HSpec
CONSTANTS
  r1 = r1
  r2 = r2
  r3 = r3
  r4 = r4
  s1 = s1
  s2 = s2
  e1 = e1
  e2 = e2
  e3 = e3
  p1 = p1
  p2 = p2
  Nil = Nil
  Requests = {r1, r2, r3}
  Seeded = {s1, s2}
  SeedRow <- MCSeedRow
  Emails = {e1, e2, e3}
  Roles = {"admin", "viewer"}
  Passwords = {p1, p2}
  Calls <- FieldCalls
  Anonymous = {}
PROPERTIES
  EmptyPasswordKeepsHash
