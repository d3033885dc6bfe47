CONSTANTS
  NoHandle = NoHandle
  Handles = {h1, h2}
  Kinds = {"async", "timer", "idle", "signal", "poll", "fs_poll", "fs_event"}
  ClosesTwice = TRUE
  MaxClosures = 2
  MaxPins = 2
SPECIFICATION Spec
SYMMETRY HandleSymmetry
INVARIANT ActiveHandleAlive
INVARIANT NoUseAfterDestroy
PROPERTY ClosedOnce
PROPERTY LendingSpec
\* The program may close everything and end.
CHECK_DEADLOCK FALSE
