-------------------------- MODULE MCDaemonControl --------------------------
(* Two or three processes of one user that start the daemon, and one that asks. *)
EXTENDS DaemonControl, TLC

Symmetry == Permutations(Proc) \cup Permutations(Token)
=============================================================================
