CONSTANTS
  n1 = n1
  n2 = n2
  n3 = n3
  n4 = n4
  outsider = outsider
  h1 = h1
  h2 = h2
  None = None
  Nodes <- MCNodes
  Authorized <- MCAuthorized
  Hashes = {h1}
  Envelopes <- FaultyEnvelopes
  Threads = {t1}
  Faulty = {"record_proposal", "record_vote", "has_approval", "write_approval"}
  MayCrash = TRUE
SPECIFICATION Spec
INVARIANTS TypeOK AuthenticApprovals ApprovalCarriesQuorum
PROPERTIES ImplementsLedger
CHECK_DEADLOCK FALSE
