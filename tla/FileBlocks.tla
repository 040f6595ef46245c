----------------------------- MODULE FileBlocks ------------------------------
(***************************************************************************)
(* The contents of the files of a transfer.  A file is a sequence of       *)
(* blocks.  A version is a content (what a SHA-256 identifies); block i of *)
(* version v is written v at position i, so a file is whole when every     *)
(* position holds the same version, and a digest over the blocks a side    *)
(* has hashed is the question whether they all were of that version.       *)
(***************************************************************************)
EXTENDS Integers

CONSTANTS
  Version,          \* file contents
  MaxSize,          \* the longest file, in blocks
  SizeOf,           \* SizeOf[v]: the size of version v, in blocks
  Hole              \* a position never written, which reads as zeros

ASSUME SizeAssumption == MaxSize \in Nat /\ SizeOf \in [Version -> 0..MaxSize]
ASSUME HoleAssumption == Hole \notin Version

File == [size : 0..MaxSize, data : [1..MaxSize -> Version \cup {Hole}]]

NoFile == [size |-> 0, data |-> [p \in 1..MaxSize |-> Hole]]

\* write(2) at position p: the file grows when p is past its end.
WriteAt(f, p, v) ==
  [size |-> IF p > f.size THEN p ELSE f.size, data |-> [f.data EXCEPT ![p] = v]]

\* ftruncate(2) to n blocks.
CutTo(f, n) ==
  [size |-> n, data |-> [p \in 1..MaxSize |-> IF p <= n THEN f.data[p] ELSE Hole]]

\* The first n positions of f are those of version v.
HasPrefix(f, n, v) == \A p \in 1..n : f.data[p] = v

IsWhole(f, v) == f.size = SizeOf[v] /\ HasPrefix(f, f.size, v)

\* What a stream that was held to its declared size leaves: no hole, and the
\* size of some version.
IsComplete(f) ==
  /\ \E v \in Version : f.size = SizeOf[v]
  /\ \A p \in 1..f.size : f.data[p] # Hole
=============================================================================
