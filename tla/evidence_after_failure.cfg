SPECIFICATION Spec
CONSTANTS
  Call = {c1, c2}
  NoCall = NoCall
  RequestId = {r1}
  ProofUrl = {u1}
  VkHash = {vk}
  Uri = {p1}
  Addr = {a1}
  Error = {0}
  PublicValues = {}
  Foreign = Foreign
  Nil = Nil
  Methods = {"request_proof", "fulfill_proof", "fail_fulfillment"}
  MaxClock = 0
SYMMETRY Symmetry
INVARIANT EvidenceOnlyWhenFulfilled
