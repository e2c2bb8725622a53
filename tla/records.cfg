SPECIFICATION Spec
CONSTANTS
  Call = {c1, c2}
  NoCall = NoCall
  RequestId = {r1}
  ProofUrl = {u1, u2}
  VkHash = {vk}
  Uri = {p1, p2}
  Addr = {a1, a2}
  Error = {0, 3}
  PublicValues = {h1}
  Foreign = Foreign
  Nil = Nil
  Methods = {"request_proof", "fulfill_proof", "fail_fulfillment", "create_program"}
  MaxClock = 2
SYMMETRY Symmetry
INVARIANTS TypeOK GuardsMatchProgress NoCircularWait LookupStaysCurrent RecordsAgree EvidenceConsistent TimestampsOrdered
PROPERTIES EntriesEvolve ImplementsLedger ImplementsQueries
