---------------------------- MODULE MCStateFiles ----------------------------
EXTENDS StateFiles, TLC

CONSTANTS p1, p2, e1, e2

Symmetry == Permutations(Process) \cup Permutations(Entry)
=============================================================================
