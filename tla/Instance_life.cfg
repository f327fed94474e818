SPECIFICATION Spec
CONSTANTS
  old = old
  new = new
  Proc = {old, new}
  Free = Free
  Files <- MCFiles
  MaxBoots = 3
  MaxFaults = 1
  MaxCrashes = 1
  MaxWork = 2
CHECK_DEADLOCK FALSE
INVARIANTS ServesMigrated DrainedBeforeExit LocksInOrder
PROPERTIES ExecutedInOrder StartEnds StopEnds
