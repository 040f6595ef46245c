--------------------------- MODULE AtomicDelivery ---------------------------
(***************************************************************************)
(* What a receiver promises of its destination directory                   *)
(* (lanshare/receive.go, the comment of Receive: "writes the file          *)
(* atomically into DestDir"): under every name there is nothing, or one    *)
(* complete file.  A file appears in one step, is never edited in place,   *)
(* and is replaced only when the receiver was told it may overwrite.       *)
(***************************************************************************)
CONSTANTS
  Name,      \* the file names of the destination directory
  Complete,  \* the contents that are a whole file
  Absent     \* no file of that name

VARIABLES
  files,     \* what a reader of the directory finds under each name
  replace    \* whether the receiver may replace an existing file

vars == <<files, replace>>

Init ==
  /\ files = [n \in Name |-> Absent]
  /\ replace \in BOOLEAN

Publish(n) ==
  /\ files[n] = Absent \/ replace
  /\ \E content \in Complete : files' = [files EXCEPT ![n] = content]
  /\ UNCHANGED replace

\* The user moves a delivered file away or deletes it.
Take(n) ==
  /\ files' = [files EXCEPT ![n] = Absent]
  /\ UNCHANGED replace

SetMode ==
  /\ replace' \in BOOLEAN
  /\ UNCHANGED files

Next ==
  \/ \E n \in Name : Publish(n) \/ Take(n)
  \/ SetMode

Spec == Init /\ [][Next]_vars
=============================================================================
