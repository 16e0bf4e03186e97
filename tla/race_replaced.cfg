CONSTANTS
  n1 = n1
  n2 = n2
  n3 = n3
  n4 = n4
  outsider = outsider
  h1 = h1
  h2 = h2
  None = None
  Nodes <- MCNodes
  Authorized <- MCAuthorized
  Hashes = {h1}
  Envelopes <- SteadfastEnvelopes
  Threads = {t1, t2}
  Faulty = {}
  MayCrash = FALSE
SPECIFICATION Spec
INVARIANT ApprovalCarriesQuorum
CHECK_DEADLOCK FALSE
