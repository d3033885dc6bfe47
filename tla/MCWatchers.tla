----------------------------- MODULE MCWatchers -----------------------------
EXTENDS UVWatchers, TLC

HandleSymmetry == Permutations(Handles)
==============================================================================
