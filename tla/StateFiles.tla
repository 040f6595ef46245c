----------------------------- MODULE StateFiles -----------------------------
(***************************************************************************)
(* The small JSON files a device keeps: the manifests and indexes of       *)
(* cache.go, the identity, settings, activity log and trust list of lanid, *)
(* and config.go's configuration.  Every program of the device (command    *)
(* line, desktop, daemon) reads and rewrites them, with no lock between    *)
(* processes.  They are written in one of three ways: through a temporary  *)
(* of the writer's own, through one fixed temporary, or in place.          *)
(*                                                                         *)
(* One of the files is modelled at a time: they have nothing in common.    *)
(* A file is a set of entries.  A process makes one call at a time, each   *)
(* open, write and rename is a step, and a process may die between two.    *)
(***************************************************************************)
EXTENDS Naturals, FiniteSets

CONSTANTS
  Process,
  Entry,       \* what a call puts into a file
  Store,       \* the files looked at
  NoInode,
  MaxInode,    \* a bound: inodes 1..MaxInode are enough for every name and writer
  MaxFaults    \* a bound on failed calls to the file system and dying processes

ASSUME StoreAssumption == Store \subseteq
  {"source_manifest", "list_index", "manifest", "update_check", "identity",
   "settings", "activity", "trust", "config"}
ASSUME InodeAssumption ==
  /\ NoInode \notin Nat /\ MaxInode \in Nat
  /\ IsFiniteSet(Process) /\ MaxInode > Cardinality(Process) + 1

VARIABLES
  store,    \* the file in question
  disk,     \* disk[i]: what inode i holds
  name,     \* the inodes under the file's name and under its fixed temporary's
  proc,     \* proc[p]: the call process p is in
  faults,   \* faults so far
  may,      \* what the file may hold if no two calls have overlapped
  overlap   \* two calls have

vars == <<store, disk, name, proc, faults, may, overlap>>

Unique == {"source_manifest", "list_index", "manifest", "update_check", "identity"}
InPlace == {"config"}

\* Contents: none, nothing yet or no valid JSON, or a set of entries.
Missing == [kind |-> "missing"]
Empty == [kind |-> "empty"]
Torn == [kind |-> "torn"]
Whole(entries) == [kind |-> "whole", entries |-> entries]

Idle == [pc |-> "idle"]

At(i) == IF i = NoInode THEN Missing ELSE disk[i]
Content == At(name.file)

-----------------------------------------------------------------------------
(* The calls: what each makes of the entries it has read.                  *)

AddSourceRegistryEntry(entries, e) == entries \cup {e}
AddCacheEntry(entries, e) == entries \cup {e}
RemoveCacheEntry(entries, e) == entries \ {e}
ActivityAppend(entries, e) == entries \cup {e}
SetReceive(entries, e) == entries \cup {e}

\* The first save of an identity; a call that finds one saves nothing.
loadOrCreateIdentity(entries, e) == {e}

\* SaveListIndex, SaveUpdateCheckCache, SetScanInterval, SaveSignedTrust
Replace(entries, e) == {e}

\* The files a call reads first.  (SaveSignedTrust reads its own only to compare
\* the server's key with the pinned one; all lists here are under one key.)
Reads == {"source_manifest", "manifest", "identity", "activity", "config"}

Apply(call, entries, e) ==
  CASE call = "add" /\ store = "source_manifest" -> AddSourceRegistryEntry(entries, e)
    [] call = "add" /\ store = "manifest" -> AddCacheEntry(entries, e)
    [] call = "remove" -> RemoveCacheEntry(entries, e)
    [] call = "add" /\ store = "activity" -> ActivityAppend(entries, e)
    [] call = "add" /\ store = "config" -> SetReceive(entries, e)
    [] call = "create" -> loadOrCreateIdentity(entries, e)
    [] OTHER -> Replace(entries, e)

\* What a load makes of the file: no file counts as an empty one; one that does not
\* parse does too for the activity log, and is no identity.
Lenient == store \in {"activity", "identity"}
Readable(content) == content.kind \in {"missing", "whole"} \/ Lenient
Entries(content) == IF content.kind = "whole" THEN content.entries ELSE {}

\* A whole version after a call that ended well, were it the only one.
After(content, call, e) ==
  IF call = "clear" THEN Missing
  ELSE IF store \in Reads /\ ~Readable(content) THEN content
  ELSE IF call = "create" /\ content.kind = "whole" THEN content
  ELSE Whole(Apply(call, Entries(content), e))

-----------------------------------------------------------------------------
(* Steps of a call.                                                        *)

Goto(p, at) == proc' = [proc EXCEPT ![p].pc = at]
Busy == {p \in Process : proc[p].pc # "idle"}

\* A call ends, and reports success or an error; the error of a rename or chmod at
\* its end leaves open whether the file was replaced.
Returns(p) ==
  /\ proc' = [proc EXCEPT ![p] = Idle]
  /\ may' = {After(c, proc[p].call, proc[p].entry) : c \in may}

Fails(p) ==
  /\ proc' = [proc EXCEPT ![p] = Idle]
  /\ may' = may \cup {After(c, proc[p].call, proc[p].entry) : c \in may}
                \cup (IF store \in InPlace THEN {Empty, Torn} ELSE {})

Init ==
  /\ store \in Store
  /\ disk = [i \in 1..MaxInode |-> Empty]
  /\ name = [file |-> NoInode, tmp |-> NoInode]
  /\ proc = [p \in Process |-> Idle]
  /\ faults = 0
  /\ may = {Missing}
  /\ overlap = FALSE

\* A call begins.  It is alone, or from now on all bets on the result are off until
\* every call has ended.
Begin(p, call, e) ==
  /\ proc[p] = Idle
  /\ proc' = [proc EXCEPT ![p] =
       [pc |-> IF call = "clear" THEN "clear" ELSE IF store \in Reads THEN "read" ELSE "open",
        call |-> call, entry |-> e, inode |-> NoInode,
        entries |-> IF store \in Reads THEN {} ELSE Apply(call, {}, e)]]
  /\ overlap' = (Busy # {})
  /\ may' = IF Busy = {} /\ overlap THEN {Content} ELSE may
  /\ UNCHANGED <<store, disk, name, faults>>

UpdateSourceRegistry(p, e) == store = "source_manifest" /\ Begin(p, "add", e)
SaveListIndex(p, e) == store = "list_index" /\ Begin(p, "replace", e)
UpdateCacheManifest(p, e) ==
  store = "manifest" /\ \E call \in {"add", "remove"} : Begin(p, call, e)
SaveUpdateCheckCache(p, e) == store = "update_check" /\ Begin(p, "replace", e)
Identity(p, e) == store = "identity" /\ Begin(p, "create", e)
SetScanInterval(p, e) == store = "settings" /\ Begin(p, "replace", e)
LogActivity(p, e) == store = "activity" /\ Begin(p, "add", e)
ActivityClear(p, e) == store = "activity" /\ Begin(p, "clear", e)
SaveSignedTrust(p, e) == store = "trust" /\ Begin(p, "replace", e)
ResetTrust(p, e) == store = "trust" /\ Begin(p, "clear", e)
UpdateConfig(p, e) == store = "config" /\ Begin(p, "add", e)

Call(p, e) ==
  \/ UpdateSourceRegistry(p, e) \/ SaveListIndex(p, e) \/ UpdateCacheManifest(p, e)
  \/ SaveUpdateCheckCache(p, e) \/ Identity(p, e) \/ SetScanInterval(p, e)
  \/ LogActivity(p, e) \/ ActivityClear(p, e)
  \/ SaveSignedTrust(p, e) \/ ResetTrust(p, e) \/ UpdateConfig(p, e)

\* os.ReadFile and the change to what was read.  A file that does not parse is an
\* error; an identity that is there is returned.
Read(p) ==
  /\ proc[p].pc = "read"
  /\ IF ~Readable(Content) THEN Fails(p)
     ELSE IF store = "identity" /\ Content.kind = "whole" THEN Returns(p)
     ELSE /\ proc' = [proc EXCEPT ![p].pc = "open",
                        ![p].entries = Apply(proc[p].call, Entries(Content), proc[p].entry)]
          /\ UNCHANGED may
  /\ UNCHANGED <<store, disk, name, faults, overlap>>

InUse == {name.file, name.tmp} \cup {proc[p].inode : p \in Busy}
Fresh == CHOOSE i \in 1..MaxInode : i \notin InUse

\* Open for writing: os.CreateTemp makes a file nobody else knows; os.WriteFile
\* truncates the one of that name, or makes one.
OpenAs(p, i, names) ==
  /\ disk' = [disk EXCEPT ![i] = Empty]
  /\ name' = names
  /\ proc' = [proc EXCEPT ![p].pc = "write", ![p].inode = i]
  /\ UNCHANGED <<store, faults, may, overlap>>

\* A mutant of CreateTemp: the temporary has a fixed name.
CreateTempFixed(p) ==
  /\ store \in Unique
  /\ proc[p].pc = "open"
  /\ LET i == IF name.tmp = NoInode THEN Fresh ELSE name.tmp
     IN OpenAs(p, i, [name EXCEPT !.tmp = i])

CreateTemp(p) ==
  /\ store \in Unique
  /\ proc[p].pc = "open"
  /\ OpenAs(p, Fresh, name)

OpenTmp(p) ==
  /\ store \notin Unique \cup InPlace
  /\ proc[p].pc = "open"
  /\ LET i == IF name.tmp = NoInode THEN Fresh ELSE name.tmp
     IN OpenAs(p, i, [name EXCEPT !.tmp = i])

OpenFile(p) ==
  /\ store \in InPlace
  /\ proc[p].pc = "open"
  /\ LET i == IF name.file = NoInode THEN Fresh ELSE name.file
     IN OpenAs(p, i, [name EXCEPT !.file = i])

\* The whole text is written.  Into a file another process has written to since it
\* was opened, it may leave a tail of the other's text.
Write(p) ==
  /\ proc[p].pc = "write"
  /\ \E content \in {Whole(proc[p].entries)}
                      \cup (IF disk[proc[p].inode] = Empty THEN {} ELSE {Torn}) :
       disk' = [disk EXCEPT ![proc[p].inode] = content]
  /\ IF store \in InPlace THEN Returns(p) ELSE Goto(p, "rename") /\ UNCHANGED may
  /\ UNCHANGED <<store, name, faults, overlap>>

\* A mutant of WriteFails: the rename is tried all the same.
WriteFailsUnnoticed(p) ==
  /\ faults < MaxFaults
  /\ proc[p].pc = "write"
  /\ disk' = [disk EXCEPT ![proc[p].inode] = Torn]
  /\ faults' = faults + 1
  /\ Goto(p, "rename")
  /\ UNCHANGED <<store, name, may, overlap>>

\* The disk is full, or the file cannot be opened.
WriteFails(p) ==
  /\ faults < MaxFaults
  /\ \/ proc[p].pc = "open" /\ UNCHANGED disk
     \/ /\ proc[p].pc = "write"
        /\ disk' = [disk EXCEPT ![proc[p].inode] = Torn]
  /\ faults' = faults + 1
  /\ Fails(p)
  /\ UNCHANGED <<store, name, overlap>>

\* os.Rename of the writer's own temporary, or of whatever has the fixed name now.
Rename(p) ==
  /\ proc[p].pc = "rename"
  /\ IF store \in Unique
     THEN /\ name' = [name EXCEPT !.file = proc[p].inode]
          /\ Returns(p)
     ELSE IF name.tmp # NoInode
     THEN /\ name' = [file |-> name.tmp, tmp |-> NoInode]
          /\ Returns(p)
     ELSE UNCHANGED name /\ Fails(p)
  /\ UNCHANGED <<store, disk, faults, overlap>>

\* The rename, or the chmod after it, fails.
RenameFails(p) ==
  /\ faults < MaxFaults
  /\ proc[p].pc = "rename"
  /\ faults' = faults + 1
  /\ Fails(p)
  /\ UNCHANGED <<store, disk, name, overlap>>

\* os.Remove
Clear(p) ==
  /\ proc[p].pc = "clear"
  /\ name' = [name EXCEPT !.file = NoInode]
  /\ Returns(p)
  /\ UNCHANGED <<store, disk, faults, overlap>>

\* The process dies; another of that name may start.
Crash(p) ==
  /\ faults < MaxFaults
  /\ proc[p].pc # "idle"
  /\ faults' = faults + 1
  /\ Fails(p)
  /\ UNCHANGED <<store, disk, name, overlap>>

Next == \E p \in Process :
  \/ \E e \in Entry : Call(p, e)
  \/ Read(p)
  \/ CreateTemp(p) \/ OpenTmp(p) \/ OpenFile(p)
  \/ Write(p) \/ WriteFails(p) \/ Rename(p) \/ RenameFails(p)
  \/ Clear(p) \/ Crash(p)

Spec == Init /\ [][Next]_vars

-----------------------------------------------------------------------------
(* Properties.                                                             *)

\* A file that is saved through the writer's own temporary is replaced as a whole,
\* by an update of one of its versions, whatever other processes do at the same time
\* and wherever one of them dies: AtomicStore.
MadeFrom(content) ==
  UNION {{Whole(AddCacheEntry(Entries(content), e)), Whole(RemoveCacheEntry(Entries(content), e)),
          Whole(Replace(Entries(content), e))} : e \in Entry}

Atomic == INSTANCE AtomicStore WITH
  NoFile <- Missing, None <- Idle, Updates <- MadeFrom,
  value <- IF store \in Unique THEN Content ELSE Missing,
  result <- [p \in Process |->
    IF store \in Unique /\ proc[p].pc \in {"open", "write", "rename"}
    THEN Whole(proc[p].entries) ELSE Idle]

SavesAreAtomic == Atomic!Spec

\* As long as no two calls overlap, every call that reported success is in the file,
\* in order, through all failed calls and dying processes; what one of those was
\* doing is there as a whole or not at all, except in a file written in place, where
\* it may have destroyed everything.
Durable == Busy = {} /\ ~overlap => Content \in may
=============================================================================
