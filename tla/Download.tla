------------------------------ MODULE Download -------------------------------
(***************************************************************************)
(* A broadcast and its downloads (lanshare/broadcast.go): one call of      *)
(* Broadcast offers one file; each p in Puller calls Download, again after *)
(* every failure, and resumes from the partial its last attempt left.      *)
(*                                                                         *)
(* What the broadcaster declares it reads from the source at two moments:  *)
(* the size (os.Stat) and the digest (fileSHA).  What it streams it reads  *)
(* at a third.  A new call of Broadcast has a new certificate, so its      *)
(* downloads share no partial with those of an earlier one.                *)
(***************************************************************************)
EXTENDS Integers, FiniteSets, FileBlocks

CONSTANTS
  Puller,           \* calls of Download, one connection each at a time
  NoPuller,         \* no connection in the accept loop's hands
  Dir,              \* destination directories
  DirOf,            \* DirOf[p]: the one p downloads into
  Original,         \* what the source may hold when Broadcast is called
  Inode,            \* files of the downloaders' file systems
  NoInode,          \* no such directory entry
  MaxSlots,         \* cap(sem): handlers at a time
  MaxDisturbances   \* bound on the faults and user interventions

ASSUME DirAssumption == DirOf \in [Puller -> Dir]
ASSUME FiniteAssumption == IsFiniteSet(Puller)
ASSUME OriginalAssumption == Original \in SUBSET Version
ASSUME SlotAssumption == MaxSlots \in Nat \ {0} /\ MaxDisturbances \in Nat
ASSUME NamesAssumption ==
  /\ NoPuller \notin Puller
  /\ NoInode \notin Inode
  /\ NoInode \notin File
  /\ Version \cap {"none", "accept", "refuse", "eof", "done"} = {}

VARIABLES
  loop,        \* where Broadcast is
  cancelled,   \* its context was cancelled
  hand,        \* the connection it has accepted and has no slot for yet
  slots,       \* handlers counted by sem
  source,      \* the version now in the offered file
  size, sha,   \* what Broadcast declares: the size, and the version hashed
  hpc,         \* where handleDownload is
  sent,        \* its position in the source
  overwrite,   \* DownloadOptions.Overwrite
  dest,        \* dest[d]: the file under the final name in d
  part,        \* part[d]: the partial of this offering in d
  disk,        \* disk[i]: the contents of a file
  ppc,         \* where Download is
  offset,      \* where it asked the broadcaster to resume
  received,    \* blocks it counts, the resumed ones included
  fd,          \* the file it writes
  good,        \* every block it has hashed is of the hashed version
  open,        \* its connection is up
  wire,        \* the frame on its way to it
  disturbances \* faults and interventions so far

loopVars == <<loop, cancelled, hand, slots>>
offerVars == <<size, sha, overwrite>>
dirVars == <<dest, part, disk>>
pullVars == <<offset, received, fd, good>>

vars == <<loopVars, source, offerVars, hpc, sent, dirVars, ppc, pullVars,
          open, wire, disturbances>>

None == "none"
EOF == "eof"
Part(p) == part[DirOf[p]]
Idle(p) == ppc[p] = "idle"

\* resumeOffset: the size of a partial that is a strict prefix, otherwise 0.
ResumeOffset(p) ==
  LET held == IF Part(p) = NoInode THEN 0 ELSE disk[Part(p)].size
  IN  IF 0 < held /\ held < size THEN held ELSE 0

\* An inode no directory entry and no open file refers to.
Fresh(i) ==
  /\ \A d \in Dir : dest[d] # i /\ part[d] # i
  /\ \A p \in Puller : fd[p] # i

\* The file system forgets what has no name and is not open.
Reclaim == disk' = [i \in Inode |-> IF Fresh(i)' THEN NoFile ELSE disk[i]]

\* A new file gets one of them; which one makes no difference.
NewInode(i) == Fresh(i) /\ i = CHOOSE j \in Inode : Fresh(j)

Disturb ==
  /\ disturbances < MaxDisturbances
  /\ disturbances' = disturbances + 1

Init ==
  /\ loop = "off" /\ cancelled = FALSE
  /\ hand = NoPuller /\ slots = 0
  /\ source \in Original
  /\ size = 0 /\ sha = source
  /\ hpc = [p \in Puller |-> "none"]
  /\ sent = [p \in Puller |-> 0]
  /\ overwrite \in BOOLEAN
  /\ dest = [d \in Dir |-> NoInode]
  /\ part = [d \in Dir |-> NoInode]
  /\ disk = [i \in Inode |-> NoFile]
  /\ ppc = [p \in Puller |-> "idle"]
  /\ offset = [p \in Puller |-> 0]
  /\ received = [p \in Puller |-> 0]
  /\ fd = [p \in Puller |-> NoInode]
  /\ good = [p \in Puller |-> TRUE]
  /\ open = [p \in Puller |-> FALSE]
  /\ wire = [p \in Puller |-> None]
  /\ disturbances = 0

-----------------------------------------------------------------------------
(* Broadcast.                                                              *)

StatSource ==
  /\ loop = "off"
  /\ loop' = "hash"
  /\ size' = SizeOf[source]
  /\ UNCHANGED <<cancelled, hand, slots, source, sha, overwrite, hpc, sent, dirVars,
                 ppc, pullVars, open, wire, disturbances>>

\* fileSHA, and the listener opens.
HashSource ==
  /\ loop = "hash"
  /\ loop' = "accept"
  /\ sha' = source
  /\ UNCHANGED <<cancelled, hand, slots, source, size, overwrite, hpc, sent,
                 dirVars, ppc, pullVars, open, wire, disturbances>>

Accept(p) ==
  /\ loop = "accept"
  /\ hpc[p] = "queued"
  /\ loop' = "slot"
  /\ hand' = p
  /\ hpc' = [hpc EXCEPT ![p] = "hand"]
  /\ UNCHANGED <<cancelled, slots, source, offerVars, sent, dirVars, ppc, pullVars,
                 open, wire, disturbances>>

\* The throttle or the per-address cap (Admission has both) closes the connection.
TurnAway(p) ==
  /\ Disturb
  /\ loop = "accept"
  /\ hpc[p] = "queued"
  /\ hpc' = [hpc EXCEPT ![p] = "none"]
  /\ open' = [open EXCEPT ![p] = FALSE]
  /\ UNCHANGED <<loopVars, source, offerVars, sent, dirVars, ppc, pullVars, wire>>

\* sem <- struct{}{} blocks the accept loop while every slot is taken.
TakeSlot ==
  /\ loop = "slot"
  /\ slots < MaxSlots
  /\ slots' = slots + 1
  /\ loop' = "accept"
  /\ hand' = NoPuller
  /\ hpc' = [hpc EXCEPT ![hand] = "request"]
  /\ UNCHANGED <<cancelled, source, offerVars, sent, dirVars, ppc, pullVars, open,
                 wire, disturbances>>

Cancel ==
  /\ Disturb
  /\ ~cancelled
  /\ loop \in {"hash", "accept", "slot"}
  /\ cancelled' = TRUE
  /\ UNCHANGED <<loop, hand, slots, source, offerVars, hpc, sent, dirVars, ppc,
                 pullVars, open, wire>>

\* Accept fails on the listener the cancel closed: Broadcast returns, and the
\* connections it had not accepted are reset.
AcceptFails ==
  /\ loop = "accept"
  /\ cancelled
  /\ loop' = "returned"
  /\ hpc' = [p \in Puller |-> IF hpc[p] = "queued" THEN "none" ELSE hpc[p]]
  /\ open' = [p \in Puller |-> open[p] /\ hpc[p] # "queued"]
  /\ UNCHANGED <<cancelled, hand, slots, source, offerVars, sent, dirVars, ppc,
                 pullVars, wire, disturbances>>

\* Somebody writes to the offered file.
SourceChanges ==
  /\ Disturb
  /\ source' \in Version \ {source}
  /\ UNCHANGED <<loopVars, offerVars, hpc, sent, dirVars, ppc, pullVars, open,
                 wire>>

-----------------------------------------------------------------------------
(* handleDownload.                                                         *)

\* The downloader is let in: the source is opened, positioned at its offset,
\* and the accept goes out.
Serve(p) ==
  /\ hpc[p] = "request"
  /\ open[p]
  /\ hpc' = [hpc EXCEPT ![p] = "stream"]
  /\ sent' = [sent EXCEPT ![p] = offset[p]]
  /\ wire' = [wire EXCEPT ![p] = "accept"]
  /\ UNCHANGED <<loopVars, source, offerVars, dirVars, ppc, pullVars, open,
                 disturbances>>

\* handleDownload returns, which closes the connection; what was sent before
\* can still be read.
Return(p) ==
  /\ hpc' = [hpc EXCEPT ![p] = "leave"]
  /\ sent' = [sent EXCEPT ![p] = 0]
  /\ open' = [open EXCEPT ![p] = FALSE]
  /\ UNCHANGED <<loopVars, source, offerVars, dirVars, ppc, pullVars>>

\* TLS, identity, access control or opening the source says no.
Refuse(p) ==
  /\ Disturb
  /\ hpc[p] = "request"
  /\ wire' = [wire EXCEPT ![p] = IF open[p] THEN "refuse" ELSE None]
  /\ Return(p)

StreamBlock(p) ==
  /\ hpc[p] = "stream"
  /\ open[p] /\ wire[p] = None
  /\ sent[p] < SizeOf[source]
  /\ wire' = [wire EXCEPT ![p] = source]
  /\ sent' = [sent EXCEPT ![p] = @ + 1]
  /\ UNCHANGED <<loopVars, source, offerVars, hpc, dirVars, ppc, pullVars, open,
                 disturbances>>

StreamEof(p) ==
  /\ hpc[p] = "stream"
  /\ open[p] /\ wire[p] = None
  /\ sent[p] >= SizeOf[source]
  /\ wire' = [wire EXCEPT ![p] = EOF]
  /\ hpc' = [hpc EXCEPT ![p] = "finish"]
  /\ UNCHANGED <<loopVars, source, offerVars, sent, dirVars, ppc, pullVars, open,
                 disturbances>>

\* The done message carries the digest of the start, not of what was streamed.
SendDone(p) ==
  /\ hpc[p] = "finish"
  /\ open[p] /\ wire[p] = None
  /\ wire' = [wire EXCEPT ![p] = "done"]
  /\ Return(p)
  /\ UNCHANGED disturbances

\* The top of streamBody's loop, or the handshake, sees the cancelled context.
StopServing(p) ==
  /\ cancelled
  /\ hpc[p] \in {"request", "stream"}
  /\ Return(p)
  /\ UNCHANGED <<wire, disturbances>>

\* The downloader is gone.
ServeFails(p) ==
  /\ hpc[p] \in {"request", "stream", "finish"}
  /\ ~open[p]
  /\ Return(p)
  /\ UNCHANGED <<wire, disturbances>>

\* The write deadline of 60 s passes.
WriteTimesOut(p) ==
  /\ Disturb
  /\ hpc[p] \in {"stream", "finish"}
  /\ wire[p] # None
  /\ Return(p)
  /\ UNCHANGED wire

\* A mutant of FreeSlot: the slot is not given back.
FreeSlotLost(p) ==
  /\ hpc[p] = "leave"
  /\ hpc' = [hpc EXCEPT ![p] = "none"]
  /\ UNCHANGED <<loopVars, source, offerVars, sent, dirVars, ppc, pullVars, open,
                 wire, disturbances>>

\* The deferred <-sem.
FreeSlot(p) ==
  /\ hpc[p] = "leave"
  /\ hpc' = [hpc EXCEPT ![p] = "none"]
  /\ slots' = slots - 1
  /\ UNCHANGED <<loop, cancelled, hand, source, offerVars, sent, dirVars, ppc,
                 pullVars, open, wire, disturbances>>

-----------------------------------------------------------------------------
(* Download.                                                               *)

Goto(p, at) == ppc' = [ppc EXCEPT ![p] = at]

\* Download returns: its file and its connection are closed.
End(p) ==
  /\ Goto(p, "idle")
  /\ offset' = [offset EXCEPT ![p] = 0]
  /\ received' = [received EXCEPT ![p] = 0]
  /\ fd' = [fd EXCEPT ![p] = NoInode]
  /\ good' = [good EXCEPT ![p] = TRUE]
  /\ open' = [open EXCEPT ![p] = FALSE]
  /\ wire' = [wire EXCEPT ![p] = None]
  /\ UNCHANGED <<loopVars, source, offerVars, hpc, sent>>
  /\ Reclaim

\* The final name is free, or may be replaced; resumeOffset; and the connection
\* with the request that carries it.
Start(p) ==
  /\ Idle(p)
  /\ loop \in {"accept", "slot"} /\ ~cancelled
  /\ hpc[p] = "none"
  /\ dest[DirOf[p]] = NoInode \/ overwrite
  /\ offset' = [offset EXCEPT ![p] = ResumeOffset(p)]
  /\ open' = [open EXCEPT ![p] = TRUE]
  /\ hpc' = [hpc EXCEPT ![p] = "queued"]
  /\ Goto(p, "wait")
  /\ UNCHANGED <<loopVars, source, offerVars, sent, dirVars, received, fd, good,
                 wire, disturbances>>

SeeAccept(p) ==
  /\ ppc[p] = "wait"
  /\ wire[p] = "accept"
  /\ wire' = [wire EXCEPT ![p] = None]
  /\ Goto(p, "open")
  /\ UNCHANGED <<loopVars, source, offerVars, hpc, sent, dirVars, pullVars, open,
                 disturbances>>

SeeRefuse(p) ==
  /\ ppc[p] = "wait"
  /\ wire[p] = "refuse"
  /\ UNCHANGED <<dest, part, disturbances>>
  /\ End(p)

\* O_CREATE|O_TRUNC: whatever the name refers to is emptied.
OpenFresh(p) ==
  LET d == DirOf[p] IN
  /\ ppc[p] = "open"
  /\ offset[p] = 0
  /\ \E i \in Inode :
       /\ IF part[d] = NoInode THEN NewInode(i) ELSE i = part[d]
       /\ part' = [part EXCEPT ![d] = i]
       /\ disk' = [disk EXCEPT ![i] = NoFile]
       /\ fd' = [fd EXCEPT ![p] = i]
  /\ Goto(p, "read")
  /\ UNCHANGED <<loopVars, source, offerVars, hpc, sent, dest, offset, received,
                 good, open, wire, disturbances>>

\* Open without O_CREATE, and re-hash the blocks already held.
OpenResume(p) ==
  /\ ppc[p] = "open"
  /\ offset[p] > 0
  /\ Part(p) # NoInode
  /\ disk[Part(p)].size >= offset[p]
  /\ fd' = [fd EXCEPT ![p] = Part(p)]
  /\ good' = [good EXCEPT ![p] = HasPrefix(disk[Part(p)], offset[p], sha)]
  /\ Goto(p, "truncate")
  /\ UNCHANGED <<loopVars, source, offerVars, hpc, sent, dirVars, offset, received,
                 open, wire, disturbances>>

\* The partial is gone, or is now shorter than the offset that was asked for.
OpenResumeFails(p) ==
  /\ ppc[p] = "open"
  /\ offset[p] > 0
  /\ Part(p) # NoInode => disk[Part(p)].size < offset[p]
  /\ UNCHANGED <<dest, part, disturbances>>
  /\ End(p)

TruncatePartial(p) ==
  /\ ppc[p] = "truncate"
  /\ disk' = [disk EXCEPT ![fd[p]] = CutTo(@, offset[p])]
  /\ received' = [received EXCEPT ![p] = offset[p]]
  /\ Goto(p, "read")
  /\ UNCHANGED <<loopVars, source, offerVars, hpc, sent, dest, part, offset, fd,
                 good, open, wire, disturbances>>

\* A data frame inside the declared size is written and hashed.
TakeBlock(p) ==
  /\ ppc[p] = "read"
  /\ wire[p] \in Version
  /\ received[p] < size
  /\ disk' = [disk EXCEPT ![fd[p]] = WriteAt(@, received[p] + 1, wire[p])]
  /\ received' = [received EXCEPT ![p] = @ + 1]
  /\ good' = [good EXCEPT ![p] = @ /\ wire[p] = sha]
  /\ wire' = [wire EXCEPT ![p] = None]
  /\ UNCHANGED <<loopVars, source, offerVars, hpc, sent, dest, part, ppc, offset,
                 fd, open, disturbances>>

\* discard: a frame past the declared size costs the partial its name.
ExceedsSize(p) ==
  /\ ppc[p] = "read"
  /\ wire[p] \in Version
  /\ received[p] = size
  /\ part' = [part EXCEPT ![DirOf[p]] = NoInode]
  /\ UNCHANGED <<dest, disturbances>>
  /\ End(p)

\* A stream that ends short of the declared size keeps its partial.
EndsShort(p) ==
  /\ ppc[p] = "read"
  /\ wire[p] = EOF
  /\ received[p] # size
  /\ UNCHANGED <<dest, part, disturbances>>
  /\ End(p)

TakeEof(p) ==
  /\ ppc[p] = "read"
  /\ wire[p] = EOF
  /\ received[p] = size
  /\ wire' = [wire EXCEPT ![p] = None]
  /\ Goto(p, "await")
  /\ UNCHANGED <<loopVars, source, offerVars, hpc, sent, dirVars, pullVars, open,
                 disturbances>>

\* A mutant of Verified: the resumed prefix is not hashed.
VerifiedSize(p) == received[p] = SizeOf[sha]

\* The digest over everything received is the declared one.
Verified(p) == good[p] /\ received[p] = SizeOf[sha]

SeeDone(p) ==
  /\ ppc[p] = "await"
  /\ wire[p] = "done"
  /\ Verified(p)
  /\ wire' = [wire EXCEPT ![p] = None]
  /\ Goto(p, "place")
  /\ UNCHANGED <<loopVars, source, offerVars, hpc, sent, dirVars, pullVars, open,
                 disturbances>>

\* A mismatch costs the partial its name, so that the retry is clean.
SeeMismatch(p) ==
  /\ ppc[p] = "await"
  /\ wire[p] = "done"
  /\ ~Verified(p)
  /\ part' = [part EXCEPT ![DirOf[p]] = NoInode]
  /\ UNCHANGED <<dest, disturbances>>
  /\ End(p)

\* A mutant of ReadFails: a connection closed before the accept is not noticed.
ReadFailsInStream(p) ==
  /\ ppc[p] \in {"read", "await"}
  /\ wire[p] = None
  /\ ~open[p]
  /\ UNCHANGED <<dest, part, disturbances>>
  /\ End(p)

\* The connection is gone and everything it carried was read: the partial is kept.
ReadFails(p) ==
  /\ ppc[p] \in {"wait", "read", "await"}
  /\ wire[p] = None
  /\ ~open[p]
  /\ UNCHANGED <<dest, part, disturbances>>
  /\ End(p)

\* The context, a deadline, a full disk, a lost connection, a failed system call or
\* a crash ends the download wherever it is: the partial is kept.
Stop(p) ==
  /\ Disturb
  /\ ~Idle(p)
  /\ UNCHANGED <<dest, part>>
  /\ End(p)

-----------------------------------------------------------------------------
(* placeFile (LanPush has the receiver's use of it).                       *)

\* os.Rename.  Renaming a name onto another name of the same file does nothing.
PlaceByRename(p) ==
  LET d == DirOf[p] IN
  /\ ppc[p] = "place"
  /\ overwrite
  /\ part[d] # NoInode
  /\ dest' = [dest EXCEPT ![d] = part[d]]
  /\ part' = IF dest[d] # part[d] THEN [part EXCEPT ![d] = NoInode] ELSE part
  /\ UNCHANGED disturbances
  /\ End(p)

\* A mutant of PlaceByLink: it replaces what has appeared since the check.
PlaceByLinkReplacing(p) ==
  LET d == DirOf[p] IN
  /\ ppc[p] = "place"
  /\ ~overwrite
  /\ part[d] # NoInode
  /\ dest' = [dest EXCEPT ![d] = part[d]]
  /\ Goto(p, "unlink")
  /\ UNCHANGED <<loopVars, source, offerVars, hpc, sent, part, disk, pullVars, open,
                 wire, disturbances>>

\* os.Link, which fails when the final name exists.
PlaceByLink(p) ==
  LET d == DirOf[p] IN
  /\ ppc[p] = "place"
  /\ ~overwrite
  /\ part[d] # NoInode
  /\ dest[d] = NoInode
  /\ dest' = [dest EXCEPT ![d] = part[d]]
  /\ Goto(p, "unlink")
  /\ UNCHANGED <<loopVars, source, offerVars, hpc, sent, part, disk, pullVars, open,
                 wire, disturbances>>

\* The partial's name is gone, or the final name appeared meanwhile.
PlaceFails(p) ==
  /\ ppc[p] = "place"
  /\ Part(p) = NoInode \/ (~overwrite /\ dest[DirOf[p]] # NoInode)
  /\ UNCHANGED <<dest, part, disturbances>>
  /\ End(p)

\* os.Remove of the partial's name, and Download returns.
Unlink(p) ==
  /\ ppc[p] = "unlink"
  /\ part' = [part EXCEPT ![DirOf[p]] = NoInode]
  /\ UNCHANGED <<dest, disturbances>>
  /\ End(p)

-----------------------------------------------------------------------------
(* The directories' other users.                                           *)

\* The user moves a downloaded file away, or deletes it.
UserTakes(d) ==
  /\ Disturb
  /\ dest[d] # NoInode
  /\ dest' = [dest EXCEPT ![d] = NoInode]
  /\ UNCHANGED <<loopVars, source, offerVars, hpc, sent, part, ppc, pullVars, open,
                 wire>>
  /\ Reclaim

\* Another program saves a whole file under the final name.
UserPuts(d) ==
  /\ Disturb
  /\ dest[d] = NoInode
  /\ \E i \in Inode, v \in Version :
       /\ NewInode(i)
       /\ dest' = [dest EXCEPT ![d] = i]
       /\ disk' = [disk EXCEPT ![i] =
                    [size |-> SizeOf[v],
                     data |-> [b \in 1..MaxSize |-> IF b <= SizeOf[v] THEN v ELSE Hole]]]
  /\ UNCHANGED <<loopVars, source, offerVars, hpc, sent, part, ppc, pullVars, open,
                 wire>>

\* SweepStalePartials removes a partial nobody has written to for long, so not
\* one that a download has truncated and is filling.  This is no fault: it happens
\* whenever there is something to sweep.
Sweep(d) ==
  /\ part[d] # NoInode
  /\ \A p \in Puller : fd[p] = part[d] => ppc[p] = "truncate"
  /\ part' = [part EXCEPT ![d] = NoInode]
  /\ UNCHANGED <<loopVars, source, offerVars, hpc, sent, dest, ppc, pullVars, open,
                 wire, disturbances>>
  /\ Reclaim

-----------------------------------------------------------------------------

\* The steps Broadcast takes by itself.
Announce == StatSource \/ HashSource \/ TakeSlot \/ AcceptFails

\* The steps of one handler that are its own to take.
Handle(p) ==
  \/ Serve(p) \/ StreamBlock(p) \/ StreamEof(p) \/ SendDone(p)
  \/ StopServing(p) \/ ServeFails(p) \/ FreeSlot(p)

\* The steps of one download.
Pull(p) ==
  \/ Start(p) \/ SeeAccept(p) \/ SeeRefuse(p)
  \/ OpenFresh(p) \/ OpenResume(p) \/ OpenResumeFails(p) \/ TruncatePartial(p)
  \/ TakeBlock(p) \/ ExceedsSize(p) \/ EndsShort(p) \/ TakeEof(p)
  \/ SeeDone(p) \/ SeeMismatch(p) \/ ReadFails(p)
  \/ PlaceByRename(p) \/ PlaceByLink(p) \/ PlaceFails(p) \/ Unlink(p)

\* What can go wrong with one connection.
Trouble(p) == TurnAway(p) \/ Refuse(p) \/ WriteTimesOut(p) \/ Stop(p)

Next ==
  \/ Announce \/ Cancel \/ SourceChanges
  \/ \E p \in Puller : Accept(p) \/ Handle(p) \/ Pull(p) \/ Trouble(p)
  \/ \E d \in Dir : UserTakes(d) \/ UserPuts(d) \/ Sweep(d)

Spec == Init /\ [][Next]_vars

\* Both ends run until they end (neither waits longer than 60 s for the other),
\* the kernel's queue of connections is fair, and a download that failed is tried
\* again.
FairSpec ==
  /\ Spec
  /\ WF_vars(Announce)
  /\ \A p \in Puller : SF_vars(Accept(p)) /\ WF_vars(Handle(p)) /\ WF_vars(Pull(p))

-----------------------------------------------------------------------------
(* Properties.                                                             *)

\* Every variable stays in its range: sem in particular never holds more tokens than
\* it has places, nor gives one back that was not taken (Broadcast), and no count of
\* blocks passes the longest file.
TypeOK ==
  /\ loop \in {"off", "hash", "accept", "slot", "returned"}
  /\ cancelled \in BOOLEAN
  /\ hand \in Puller \cup {NoPuller}
  /\ slots \in 0..MaxSlots
  /\ source \in Version
  /\ size \in 0..MaxSize
  /\ sha \in Version
  /\ hpc \in [Puller -> {"none", "queued", "hand", "request", "stream", "finish", "leave"}]
  /\ sent \in [Puller -> 0..MaxSize]
  /\ overwrite \in BOOLEAN
  /\ dest \in [Dir -> Inode \cup {NoInode}]
  /\ part \in [Dir -> Inode \cup {NoInode}]
  /\ disk \in [Inode -> File]
  /\ ppc \in [Puller -> {"idle", "wait", "open", "truncate", "read", "await",
                         "place", "unlink"}]
  /\ offset \in [Puller -> 0..MaxSize]
  /\ received \in [Puller -> 0..MaxSize]
  /\ fd \in [Puller -> Inode \cup {NoInode}]
  /\ good \in [Puller -> BOOLEAN]
  /\ open \in [Puller -> BOOLEAN]
  /\ wire \in [Puller -> Version \cup {None, "accept", "refuse", EOF, "done"}]
  /\ disturbances \in 0..MaxDisturbances

\* A file that Download placed is, block for block, the one the broadcaster hashed
\* when it started, whatever happened to the source, to earlier attempts and to the
\* partial since: what the whole-file digest of the done message is for.
PlacedIsOffered ==
  [][\A p \in Puller :
       PlaceByRename(p) \/ PlaceByLink(p) => IsWhole(disk'[dest'[DirOf[p]]], sha)]_vars

\* What a reader of each destination directory finds under the final name.
Visible == [d \in Dir |-> IF dest[d] = NoInode THEN NoInode ELSE disk[dest[d]]]

Delivery ==
  INSTANCE AtomicDelivery WITH
    Name <- Dir, files <- Visible, replace <- overwrite,
    Complete <- {f \in File : \E v \in Version : IsWhole(f, v)}, Absent <- NoInode

\* The final name goes from nothing to a whole file in one step and changes again
\* only when the user takes the file or Overwrite is on, also when another program
\* puts a file there while the download runs.
DeliveryIsAtomic == Delivery!Spec

\* No two downloads of the offering share a directory, and so a partial.
ExclusiveDirs == \A p, q \in Puller : p # q => DirOf[p] # DirOf[q]

\* Broadcast serves, and what it streams is what it declared.
Servable ==
  /\ loop \in {"accept", "slot"} /\ ~cancelled
  /\ source = sha /\ size = SizeOf[sha]

\* While the offering can be served at all, every downloader that keeps trying gets
\* it: no partial that an interruption, a refusal or a torn source left behind, and no slot
\* another downloader holds, stands in its way for ever.
EventuallyPlaced == <>[]Servable => \A d \in Dir : <>(dest[d] # NoInode)

\* A cancelled Broadcast returns, also when the cancel finds it waiting for a slot.
BroadcastReturns == cancelled ~> loop = "returned"

=============================================================================
