SPECIFICATION Spec
CONSTANTS
  Call = {c1, c2, c3}
  NoCall = NoCall
  RequestId = {r1, r2}
  ProofUrl = {u1, u2, u3}
  VkHash = {vk}
  Uri = {p1}
  Addr = {a1}
  Error = {0}
  PublicValues = {}
  Foreign = Foreign
  Nil = Nil
  Methods = {"request_proof", "fulfill_proof", "fail_fulfillment", "get_proof_request_status", "get_proof_request_details"}
  MaxClock = 0
SYMMETRY Symmetry
INVARIANTS ProofAvailable ToldProofsStayDownloadable AckedRequestsKnown
