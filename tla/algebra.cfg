CONSTANTS
  NotAnInteger = NotAnInteger
  NotAList = NotAList
  Blank = Blank
  m1 = m1
  m2 = m2
  Pending = Pending
  Mutations <- MCMutations
  Tables <- MCTables
  Environments <- MCEnvironments
SPECIFICATION Spec
INVARIANT AcceptsExactlySoundApprovals
CHECK_DEADLOCK FALSE
