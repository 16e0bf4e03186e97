CONSTANTS
  main = main
  dev = dev
  tag = tag
  c0 = c0
  c1 = c1
  c2 = c2
  c3 = c3
  c4 = c4
  c5 = c5
  c6 = c6
  NotAnInteger = NotAnInteger
  NotAList = NotAList
  Blank = Blank
  Zero = Zero
  NoBlob = NoBlob
  Missing = Missing
  Refs <- MCRefs
  Commits <- MCCommits
  AllowedRefs <- MCAllowedRefs
  Ancestors <- MCAncestors
  Parameters <- MCParameters
  Source <- MCSource
  Start <- MCStart
  State <- MCState
  Pushes <- MCPushes
  Approvable <- RaiseBranch
  Environments <- Environments2
  Ballots <- MCBallots
  Pushers = {p1, p2}
  AllowDeletes = FALSE
  AllowNonFastForward = FALSE
SPECIFICATION Spec
SYMMETRY Symmetric
INVARIANTS
  TypeOK
  TipsClean
PROPERTIES
  ProtectedChangesApproved
  HistoryOnlyGrows
  LandsOnce
CHECK_DEADLOCK FALSE
