---------------------------- MODULE MCLoginFiles ----------------------------
EXTENDS LoginFiles, TLC

CONSTANTS p1, p2, t1, t2, a1, a2, s1, s2

MCAccountOf == (t1 :> a1) @@ (t2 :> a2)
MCOwner == (s1 :> t1) @@ (s2 :> t1)
Symmetry == Permutations(Process) \cup Permutations(Share)
=============================================================================
