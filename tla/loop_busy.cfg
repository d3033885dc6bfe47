CONSTANTS
  NoLoop = NoLoop
  Loops = {l1}
  IsWindows = FALSE
  StopsOutside = TRUE
  MaxHandles = 1
  MaxCalls = 1
  MaxRuns = 1
  MaxLocks = 0
SPECIFICATION Spec
INVARIANT FreedClosed
\* The request ends.
CHECK_DEADLOCK FALSE
