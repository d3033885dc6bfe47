CONSTANTS
  Locks = {l1, l2}
  Clients = {c1, c2, c3}
  Disciplined = {l2}
  Trusts = {}
  MaxReaders = 3
  MaxPermits = 1
SPECIFICATION Spec
INVARIANT TypeOK
INVARIANT CounterMatchesNative
INVARIANT DestroyedFree
INVARIANT ClearedWithLastLock
INVARIANT ReliedOnHeld
PROPERTY SharedExclusiveSpec
\* Every lock may be gone at the end.
CHECK_DEADLOCK FALSE
