CONSTANTS
  a = a
  b = b
  c = c
  d = d
  propose = propose
  voteB = voteB
  voteC = voteC
  Nodes = {a, b, c, d}
  Messages = {propose, voteB, voteC}
  Sender <- MCSender
  TTL = 2
  Deployments <- ThreeNodes
  Torn = Torn
  None = None
  Proposal = propose
SPECIFICATION Spec
INVARIANT SomeBridgeApproves
CHECK_DEADLOCK FALSE
