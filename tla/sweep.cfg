SPECIFICATION SweepSpec
CONSTANTS
  RequestId = {r1, r2, r3}
  Addr = {a1}
  VkHash = {v1}
  Version = {n1}
  Mode = {m1}
  v1 = v1
  n1 = n1
  m1 = m1
  Bodies <- MCBodies
  Error = {0}
  Queries <- MCQueries
  Empty = Empty
  Nil = Nil
  MaxClock = 2
SYMMETRY Symmetry
INVARIANTS SweepComplete SweptOnce
