CONSTANTS
  Keys = {k1, k2, k3}
  Libs = {l1, l2}
  Files = {f1, f2}
  NoFile = NoFile
  Numbers = {0, 1, 2}
  Reserved = {0}
  Engine = Engine
  Nobody = Nobody
SPECIFICATION Spec
SYMMETRY TypesSymmetry
INVARIANT TypeOK
INVARIANT KeysKept
INVARIANT LoadedWhileOpen
\* The program may give up everything and end.
CHECK_DEADLOCK FALSE
