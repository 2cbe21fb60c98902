\* Rehydrations of exclusive clients that are cut off: disconnects, stops in the middle
\* of a call, a failing database; deletions so cut off may be executed later.
SPECIFICATION Spec
CONSTANTS
  r1 = r1  r2 = r2  r3 = r3
  u1 = u1  u2 = u2  g1 = g1  g2 = g2  g3 = g3  g4 = g4
  c1 = c1  c2 = c2  s1 = s1  s2 = s2  p1 = p1  p2 = p2
  None = None
  Req = {r1, r2}
  Id = {u1, g1}
  UserId = {u1}
  Cat = {c1}
  ServiceSpec = {s1, s2}
  OrigSpec <- OneSpec
  Provider = {p1, p2}
  Kinds = {"create", "delete", "rehydrate"}
  Faults = {"cancel", "crash", "db"}
  Lingering = {"delete", "deferred"}
  Exclusive = TRUE
  Refusals <- FewRefusals
  PolicyFailures = {}
  MaxTries = 2
  MaxLate = 1
SYMMETRY Symmetry
INVARIANTS TypeOK NoUntracked RecordMatchesInstance OriginalSpec
PROPERTIES CreatedIsRecorded KeepsToProtocol
