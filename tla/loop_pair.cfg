CONSTANTS
  NoLoop = NoLoop
  Loops = {l1, l2}
  IsWindows = TRUE
  StopsOutside = FALSE
  MaxHandles = 1
  MaxCalls = 1
  MaxRuns = 1
  MaxLocks = 1
SPECIFICATION FairSpec
INVARIANT TypeOK
INVARIANT ClearedAtEnd
PROPERTY NoCallAfterClear
PROPERTY SoleLoopKept
PROPERTY RunKeepsLoop
PROPERTY CallsReturn
PROPERTY ClearsWithLastLoop
\* The request ends.
CHECK_DEADLOCK FALSE
