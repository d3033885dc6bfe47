CONSTANTS
  NoHandle = NoHandle
  NoRequest = NoRequest
  NoFile = NoFile
  Handles = {h1}
  Requests = {r1, r2}
  Files = {}
  Callers = {}
  Kinds = {"udp"}
  ClosesTwice = FALSE
  Tidy = FALSE
  MaxClosures = 4
  MaxPins = 1
SPECIFICATION Spec
SYMMETRY SystemSymmetry
INVARIANT SenderAlive
CHECK_DEADLOCK FALSE
