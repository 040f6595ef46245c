----------------------------- MODULE MCDownload -----------------------------
EXTENDS Download, TLC

CONSTANTS p1, p2, d1, d2, v1, v2, v3

\* Two contents of one size and one of another: a source that turns from one into
\* another has the wrong blocks, runs past, or ends short of, the declared size.
MCSize == (v1 :> 2) @@ (v2 :> 1) @@ (v3 :> 2)
\* Each downloader has a directory of its own.
OwnDirs == (p1 :> d1) @@ (p2 :> d2)
\* Both download into one.
OneDir == (p1 :> d1) @@ (p2 :> d1)
=============================================================================
