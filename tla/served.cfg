\* Racing rehydrations, a process that stops in the middle of calls that are executed
\* later, and a failing database; nothing is deleted.
SPECIFICATION Spec
CONSTANTS
  r1 = r1  r2 = r2  r3 = r3
  u1 = u1  u2 = u2  g1 = g1  g2 = g2  g3 = g3  g4 = g4
  c1 = c1  c2 = c2  s1 = s1  s2 = s2  p1 = p1  p2 = p2
  None = None
  Req = {r1, r2}
  Id = {g1, g2, g3, g4}
  UserId = {}
  Cat = {c1}
  ServiceSpec = {s1}
  OrigSpec <- OneSpec
  Provider = {p1}
  Kinds = {"create", "get", "rehydrate"}
  Faults = {"crash", "db"}
  Lingering = {"create", "delete", "deferred"}
  Exclusive = FALSE
  Refusals <- FewRefusals
  PolicyFailures = {500}
  MaxTries = 2
  MaxLate = 2
SYMMETRY Symmetry
PROPERTY AlwaysServed
