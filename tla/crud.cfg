\* Creations, reads and deletions of one reused id by three clients, no fault.
SPECIFICATION Spec
CONSTANTS
  r1 = r1  r2 = r2  r3 = r3
  u1 = u1  u2 = u2  g1 = g1  g2 = g2  g3 = g3  g4 = g4
  c1 = c1  c2 = c2  s1 = s1  s2 = s2  p1 = p1  p2 = p2
  None = None
  Req = {r1, r2, r3}
  Id = {u1}
  UserId = {u1}
  Cat = {c1}
  ServiceSpec = {s1}
  OrigSpec <- OneSpec
  Provider = {p1}
  Kinds = {"create", "get", "delete"}
  Faults = {}
  Lingering = {"create", "delete", "deferred"}
  Exclusive = FALSE
  Refusals <- SomeRefusals
  PolicyFailures = {0}
  MaxTries = 3
  MaxLate = 0
INVARIANT NoStaleRecord
PROPERTIES ImplementsProtocol Answered
