CONSTANTS
  NoLoop = NoLoop
  Loops = {l1}
  IsWindows = FALSE
  StopsOutside = FALSE
  MaxHandles = 0
  MaxCalls = 2
  MaxRuns = 1
  MaxLocks = 0
SPECIFICATION Spec
INVARIANT HeldAlive
\* The request ends.
CHECK_DEADLOCK FALSE
