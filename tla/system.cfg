CONSTANTS
  NoHandle = NoHandle
  NoRequest = NoRequest
  NoFile = NoFile
  Handles = {h1}
  Requests = {r1, r2}
  Files = {f1}
  Callers = {"open", "close", "read", "fsync", "fstat"}
  Kinds = {"tcp", "udp"}
  ClosesTwice = TRUE
  Tidy = TRUE
  MaxClosures = 4
  MaxPins = 1
SPECIFICATION Spec
SYMMETRY SystemSymmetry
INVARIANT NoUseAfterDestroy
INVARIANT RequestAlive
INVARIANT RequestReclaimed
INVARIANT KeptForCallback
INVARIANT ClosedUnlisted
PROPERTY LendingSpec
\* The program may close everything and end.
CHECK_DEADLOCK FALSE
