\* A deletion the SPRM executes but does not answer.
SPECIFICATION Spec
CONSTANTS
  r1 = r1  r2 = r2  r3 = r3
  u1 = u1  u2 = u2  g1 = g1  g2 = g2  g3 = g3  g4 = g4
  c1 = c1  c2 = c2  s1 = s1  s2 = s2  p1 = p1  p2 = p2
  None = None
  Req = {r1}
  Id = {u1}
  UserId = {u1}
  Cat = {c1}
  ServiceSpec = {s1}
  OrigSpec <- OneSpec
  Provider = {p1}
  Kinds = {"create", "delete"}
  Faults = {"loss"}
  Lingering = {"create", "delete", "deferred"}
  Exclusive = TRUE
  Refusals <- NoRefusals
  PolicyFailures = {}
  MaxTries = 2
  MaxLate = 1
PROPERTY DeletionCompletes
