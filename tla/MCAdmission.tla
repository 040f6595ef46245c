---------------------------- MODULE MCAdmission -----------------------------
EXTENDS Admission, TLC

CONSTANTS a1, a2, a3, b1, p1, p2

\* Three connections of one peer and one of another.
MCIpOf == (a1 :> p1) @@ (a2 :> p1) @@ (a3 :> p1) @@ (b1 :> p2)
=============================================================================
