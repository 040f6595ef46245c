----------------------------- MODULE MCLanPush ------------------------------
EXTENDS LanPush, TLC

CONSTANTS c1, c2, n1, v1, v2, i1, i2, i3, i4

Push1(v, r) == [name |-> n1, ver |-> v, resumable |-> r]

\* Two contents of different sizes: a source that turns from one into the other
\* while it is sent runs past, or ends short of, its declared size.
MCSize == (v1 :> 2) @@ (v2 :> 1)
\* One sender, which offers either version, resumable or not.
SerialOffers == c1 :> {Push1(v1, TRUE), Push1(v2, FALSE)}
\* Two senders whose resumable pushes never share a partial.
DisjointOffers == (c1 :> {Push1(v1, TRUE)}) @@ (c2 :> {Push1(v2, TRUE), Push1(v1, FALSE)})
\* Two senders of the same content under the same name.
SharedOffers == (c1 :> {Push1(v1, TRUE)}) @@ (c2 :> {Push1(v1, TRUE)})
InodeSymmetry == Permutations({i1, i2, i3, i4})
=============================================================================
