------------------------------ MODULE MCTypes ------------------------------
EXTENDS UVTypes, TLC

TypesSymmetry == Permutations(Keys) \cup Permutations(Libs) \cup Permutations(Files)
==============================================================================
