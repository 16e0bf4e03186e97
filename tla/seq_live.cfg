CONSTANTS
  n1 = n1
  n2 = n2
  n3 = n3
  n4 = n4
  outsider = outsider
  h1 = h1
  h2 = h2
  None = None
  Nodes <- MCNodes
  Authorized <- MCAuthorized
  Hashes = {h1, h2}
  Envelopes <- LiveEnvelopes
  Threads = {t1}
  Faulty = {}
  MayCrash = FALSE
SPECIFICATION FairSpec
INVARIANTS EveryHeardVoteCounts ApprovalNamesRecordedProposer NoStrandedVotes
PROPERTIES QuorumEventuallyApproved ReturnedIsStored VotesDurableBeforeApproval
CHECK_DEADLOCK FALSE
