CONSTANTS
  NoHandle = NoHandle
  NoRequest = NoRequest
  Handles = {h1, h2, h3}
  Requests = {}
  Containers = {c1, c2}
  Kinds = {"pipe"}
  ClosesTwice = FALSE
  Tidy = TRUE
  MaxStdio = 2
  MaxClosures = 2
  MaxPins = 1
SPECIFICATION Spec
SYMMETRY ProcessSymmetry
INVARIANT NoUseAfterDestroy
INVARIANT ChildStreamsAlive
INVARIANT SpentOnce
PROPERTY LendingSpec
\* The program may close everything and end.
CHECK_DEADLOCK FALSE
