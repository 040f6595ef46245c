---------------------------- MODULE AtomicStore ----------------------------
(***************************************************************************)
(* What a file of local state promises when it is saved through a temporary*)
(* of its own: every process that updates it works on one version as it    *)
(* was, and replaces the whole file by the whole result, once, or leaves   *)
(* it alone.  Nothing keeps two updates from starting at one version.      *)
(***************************************************************************)
CONSTANTS
  Process,
  NoFile,      \* there is no file
  None,        \* a process has no update in hand
  Updates(_)   \* Updates(v): the versions an update can make of v

VARIABLES
  value,   \* the version at the path
  result   \* result[p]: the version p is about to put there

Init ==
  /\ value = NoFile
  /\ result = [p \in Process |-> None]

Update(p) ==
  /\ result[p] = None
  /\ \E v \in Updates(value) : result' = [result EXCEPT ![p] = v]
  /\ UNCHANGED value

Commit(p) ==
  /\ result[p] # None
  /\ value' = result[p]
  /\ result' = [result EXCEPT ![p] = None]

Abort(p) ==
  /\ result[p] # None
  /\ result' = [result EXCEPT ![p] = None]
  /\ UNCHANGED value

Next == \E p \in Process : Update(p) \/ Commit(p) \/ Abort(p)

Spec == Init /\ [][Next]_<<value, result>>
=============================================================================
