SPECIFICATION QuerySpec
CONSTANTS
  RequestId = {r1, r2, r3}
  Addr = {a1}
  VkHash = {v1, v2}
  Version = {n1, Empty}
  Mode = {m1, m2}
  v1 = v1
  v2 = v2
  n1 = n1
  m1 = m1
  m2 = m2
  a1 = a1
  Bodies <- MCBodies
  Error = {0}
  Queries <- MCQueries
  Empty = Empty
  Nil = Nil
  MaxClock = 1
SYMMETRY Symmetry
INVARIANTS QueryTypeOK PagesAreSlices PagesPartition
