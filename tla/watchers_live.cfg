CONSTANTS
  NoHandle = NoHandle
  Handles = {h1, h2}
  Kinds = {"async", "check", "signal"}
  ClosesTwice = FALSE
  MaxClosures = 2
  MaxPins = 1
SPECIFICATION FairSpec
INVARIANT PinnedWhileActive
INVARIANT AsyncReclaimed
PROPERTY CloseCallbackRuns
PROPERTY CloseCompletes
\* The program may close everything and end.
CHECK_DEADLOCK FALSE
