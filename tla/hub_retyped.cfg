CONSTANTS
  main = main
  dev = dev
  tag = tag
  c0 = c0
  c1 = c1
  c2 = c2
  c3 = c3
  c4 = c4
  c5 = c5
  c6 = c6
  NotAnInteger = NotAnInteger
  NotAList = NotAList
  Blank = Blank
  Zero = Zero
  NoBlob = NoBlob
  Missing = Missing
  Refs <- MCRefs
  Commits <- MCCommits
  AllowedRefs <- MCAllowedRefs
  Ancestors <- MCAncestors
  Parameters <- MCParameters
  Source <- MCSource
  Start <- MCStart
  State <- RetypedState
  Pushes <- RaisePushes
  Approvable <- RaiseOnly
  Environments <- FourEnvironments
  Ballots <- TwoBallots
  Pushers = {p1}
  AllowDeletes = FALSE
  AllowNonFastForward = FALSE
SPECIFICATION Spec
PROPERTY ProtectedChangesApproved
CHECK_DEADLOCK FALSE
