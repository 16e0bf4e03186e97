CONSTANTS
  a = a
  b = b
  c = c
  d = d
  propose = propose
  voteB = voteB
  voteC = voteC
  Nodes = {a, b, c, d}
  Messages = {propose, voteB, voteC}
  Sender <- MCSender
  TTL = 2
  Deployments <- MCDeployments
  Torn = Torn
  None = None
  Proposal = propose
SPECIFICATION FairSpec
INVARIANTS
  TypeOK
  OncePerConnection
  ReplayRebuildsQuorum
  TornLineCostsOne
  OthersMakeTheQuorum
  ApprovedMeansSupported
  FloodArrives
PROPERTY FloodReachesAll
CHECK_DEADLOCK FALSE
