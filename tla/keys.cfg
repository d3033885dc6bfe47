CONSTANTS
  Keys = {k1, k2}
  Libs = {}
  Files = {}
  NoFile = NoFile
  Numbers = {0, 1}
  Reserved = {0}
  Engine = Engine
  Nobody = Nobody
SPECIFICATION Spec
INVARIANT RefusalHarmless
\* The program may give up everything and end.
CHECK_DEADLOCK FALSE
