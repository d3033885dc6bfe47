------------------------------ MODULE MCSystem ------------------------------
EXTENDS UVSystem, TLC

SystemSymmetry == Permutations(Requests)
==============================================================================
