------------------------------- MODULE MCLock -------------------------------
EXTENDS UVLock, TLC

LockSymmetry == Permutations(Locks) \cup Permutations(Clients)
==============================================================================
