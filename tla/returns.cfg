SPECIFICATION FairSpec
CONSTANTS
  Call = {c1, c2, c3}
  NoCall = NoCall
  RequestId = {r1}
  ProofUrl = {u1, u2}
  VkHash = {vk}
  Uri = {p1}
  Addr = {a1}
  Error = {0}
  PublicValues = {}
  Foreign = Foreign
  Nil = Nil
  Methods = {"request_proof", "fulfill_proof", "create_program", "get_program", "get_filtered_proof_requests"}
  MaxClock = 0
PROPERTY EveryCallReturns
