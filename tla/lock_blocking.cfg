CONSTANTS
  Locks = {l1}
  Clients = {c1, c2}
  Disciplined = {l1}
  Trusts = {"wrlock", "mutex_lock"}
  MaxReaders = 2
  MaxPermits = 1
SPECIFICATION Spec
SYMMETRY LockSymmetry
INVARIANT MutualExclusion
\* Every lock may be gone at the end.
CHECK_DEADLOCK FALSE
