SPECIFICATION FairPollingSpec
CONSTANTS
  RequestId = {r1, r2}
  Addr = {a1, a2}
  VkHash = {v1}
  Version = {n1}
  Mode = {m1}
  v1 = v1
  n1 = n1
  m1 = m1
  a1 = a1
  a2 = a2
  p1 = p1
  Bodies <- MCBodies
  Error = {0}
  Queries = {}
  Empty = Empty
  Nil = Nil
  MaxClock = 2
  Prover = {p1, p2}
  AddrOf <- MCAddrOf
  PollLimit = 2
  PollDeadline = FALSE
  MaxFaults = 2
PROPERTY AssignedIsConcluded
