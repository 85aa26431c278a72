------------------------------- MODULE MCEditor -------------------------------
EXTENDS Editor, TLC
Symmetry == Permutations(Slots) \cup Permutations(Paths) \cup Permutations(Stamps)
=============================================================================
