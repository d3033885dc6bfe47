----------------------------- MODULE MCProcess -----------------------------
EXTENDS UVProcess, TLC

ProcessSymmetry == Permutations(Handles) \cup Permutations(Containers)
==============================================================================
