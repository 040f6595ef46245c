------------------------------ MODULE LanPush -------------------------------
(***************************************************************************)
(* A LAN push (lanshare/send.go, lanshare/receive.go): a sender offers a   *)
(* file, the receiver accepts it, takes the stream into a partial file of  *)
(* its destination directory and places the result under its final name.   *)
(*                                                                         *)
(* A connection c in Conn is the pair of the Send call at one end and the  *)
(* handleConn call at the other; each may be used again for a later        *)
(* attempt.  The receiving process may be cancelled, may crash and be      *)
(* started again; what survives is its directory.                          *)
(*                                                                         *)
(* FileBlocks has the contents of the files.                               *)
(***************************************************************************)
EXTENDS Integers, FiniteSets, FileBlocks

CONSTANTS
  Conn,             \* connections between a sender and this receiver
  Name,             \* file names
  Offers,           \* Offers[c]: the pushes the sender behind c may attempt
  Inode,            \* files of the destination file system
  NoInode,          \* no such directory entry
  Loop,             \* ReceiveOptions.Loop: serve many connections at a time
  ModeMayChange,    \* the receiver may be restarted with another --overwrite
  MaxDisturbances   \* bound on the faults and user interventions

Offer == [name : Name, ver : Version, resumable : BOOLEAN]

ASSUME OfferAssumption == Offers \in [Conn -> (SUBSET Offer) \ {{}}]
ASSUME ModeAssumption == Loop \in BOOLEAN /\ ModeMayChange \in BOOLEAN
ASSUME BoundAssumption == MaxDisturbances \in Nat
ASSUME TokenAssumption ==
  /\ NoInode \notin Inode
  /\ NoInode \notin [size : 0..MaxSize, data : [1..MaxSize -> Version \cup {Hole}]]
  /\ "none" \notin Version /\ "eof" \notin Version

VARIABLES
  listening,   \* Receive is accepting connections
  overwrite,   \* ReceiveOptions.Overwrite of the running Receive
  dest,        \* dest[n]: the file under the final name n
  part,        \* part[<<n, v>>]: the partial named by content, name and size
  disk,        \* disk[i]: the contents of a file
  rpc,         \* where handleConn is
  offer,       \* the hello of the connection
  resumeAt,    \* the offset handleConn sent in its accept
  received,    \* blocks the handler counts, the resumed ones included
  fd,          \* the file the handler writes
  good,        \* every block the handler has hashed is of the declared version
  cancel,      \* "pause" / "discard" once the transfer was cancelled
  spc,         \* where Send is
  src,         \* the version now in the sender's source file
  sent,        \* the sender's position in it
  sgood,       \* every block the sender has hashed is of the declared version
  open,        \* the connection is up
  wire,        \* the frame on its way to the receiver
  reply,       \* the control message on its way to the sender
  landed,      \* history: what the handler of c placed (NoInode: nothing)
  disturbances \* faults and interventions so far

dirVars == <<dest, part, disk>>
handlerVars == <<rpc, received, fd, good, cancel>>
senderVars == <<spc, src, sent, sgood>>
receiverVars == <<listening, overwrite>>

vars == <<receiverVars, dirVars, handlerVars, offer, resumeAt, senderVars,
          open, wire, reply, landed, disturbances>>

Key == Name \X Version
\* A mutant of KeyOf: a partial named after the file alone.
KeyOfNameOnly(c) == <<offer[c].name, CHOOSE v \in Version : TRUE>>
KeyOf(c) == <<offer[c].name, offer[c].ver>>
Total(c) == SizeOf[offer[c].ver]
Resumable(c) == offer[c].resumable
Idle(c) == rpc[c] = "idle"

None == "none"
EOF == "eof"

\* resumeOffset: the size of a partial that is a strict prefix, otherwise 0.
ResumeOffset(k) ==
  LET size == IF part[k] = NoInode THEN 0 ELSE disk[part[k]].size
  IN  IF 0 < size /\ size < SizeOf[k[2]] THEN size ELSE 0

\* An inode no directory entry and no open file refers to.
Fresh(i) ==
  /\ \A n \in Name : dest[n] # i
  /\ \A k \in Key : part[k] # i
  /\ \A c \in Conn : fd[c] # i

-----------------------------------------------------------------------------
(* Pieces shared by the handlers.                                          *)

Disturb ==
  /\ disturbances < MaxDisturbances
  /\ disturbances' = disturbances + 1

\* A mutant of EndHandler: the cancellation outlives the transfer it was meant for.
EndHandlerStillCancelled(c, done) ==
  /\ rpc' = [rpc EXCEPT ![c] = "idle"]
  /\ fd' = [fd EXCEPT ![c] = NoInode]
  /\ received' = [received EXCEPT ![c] = 0]
  /\ good' = [good EXCEPT ![c] = TRUE]
  /\ open' = [open EXCEPT ![c] = FALSE]
  /\ wire' = [wire EXCEPT ![c] = None]
  /\ listening' = (listening /\ (Loop \/ ~done))
  /\ UNCHANGED <<cancel, overwrite, offer, resumeAt, senderVars>>

\* handleConn returns: the connection is closed, and a one-shot Receive
\* returns with it when the connection was terminal (done).
EndHandler(c, done) ==
  /\ rpc' = [rpc EXCEPT ![c] = "idle"]
  /\ fd' = [fd EXCEPT ![c] = NoInode]
  /\ received' = [received EXCEPT ![c] = 0]
  /\ good' = [good EXCEPT ![c] = TRUE]
  /\ cancel' = [cancel EXCEPT ![c] = "no"]
  /\ open' = [open EXCEPT ![c] = FALSE]
  /\ wire' = [wire EXCEPT ![c] = None]
  /\ listening' = (listening /\ (Loop \/ ~done))
  /\ UNCHANGED <<overwrite, offer, resumeAt, senderVars>>

\* handleConn returns an error of its own: the peer is told "write failed".
FailHandler(c) ==
  /\ EndHandler(c, TRUE)
  /\ reply' = [reply EXCEPT ![c] = IF open[c] THEN "error" ELSE None]

\* drop: remove the partial's NAME, whatever file it now refers to.
DropPartial(c) ==
  part' = IF Resumable(c) THEN [part EXCEPT ![KeyOf(c)] = NoInode] ELSE part

Goto(c, at) == rpc' = [rpc EXCEPT ![c] = at]

-----------------------------------------------------------------------------
(* Receive: start, accept, cancel.                                         *)

Init ==
  /\ listening = FALSE
  /\ overwrite \in BOOLEAN
  /\ dest = [n \in Name |-> NoInode]
  /\ part = [k \in Key |-> NoInode]
  /\ disk = [i \in Inode |-> NoFile]
  /\ rpc = [c \in Conn |-> "idle"]
  /\ offer \in {f \in [Conn -> Offer] : \A c \in Conn : f[c] \in Offers[c]}
  /\ resumeAt = [c \in Conn |-> 0]
  /\ received = [c \in Conn |-> 0]
  /\ fd = [c \in Conn |-> NoInode]
  /\ good = [c \in Conn |-> TRUE]
  /\ cancel = [c \in Conn |-> "no"]
  /\ spc = [c \in Conn |-> "idle"]
  /\ src = [c \in Conn |-> offer[c].ver]
  /\ sent = [c \in Conn |-> 0]
  /\ sgood = [c \in Conn |-> TRUE]
  /\ open = [c \in Conn |-> FALSE]
  /\ wire = [c \in Conn |-> None]
  /\ reply = [c \in Conn |-> None]
  /\ landed = [c \in Conn |-> NoInode]
  /\ disturbances = 0

-----------------------------------------------------------------------------

\* Receive is called (again).  A one-shot Receive runs its handler itself, so
\* there is none left when the next call starts.
StartReceive ==
  /\ ~listening
  /\ Loop \/ \A c \in Conn : Idle(c)
  /\ listening' = TRUE
  /\ overwrite' \in IF ModeMayChange /\ (\A c \in Conn : Idle(c))
                    THEN BOOLEAN ELSE {overwrite}
  /\ UNCHANGED <<dirVars, handlerVars, offer, resumeAt, senderVars,
                 open, wire, reply, landed, disturbances>>

\* Send dials and the accept loop takes the connection.  A one-shot Receive
\* handles one connection at a time.  A resumable sender hashes its source
\* here, so the version it declares is the one the source holds now.
Connect(c) ==
  /\ listening
  /\ IF Loop THEN Idle(c) ELSE \A d \in Conn : Idle(d)
  /\ spc[c] \in {"idle", "ok", "failed"}
  /\ \E o \in Offers[c] :
       /\ offer' = [offer EXCEPT ![c] = o]
       /\ src' = [src EXCEPT ![c] = o.ver]
  /\ spc' = [spc EXCEPT ![c] = "wait"]
  /\ sent' = [sent EXCEPT ![c] = 0]
  /\ sgood' = [sgood EXCEPT ![c] = TRUE]
  /\ Goto(c, "hello")
  /\ resumeAt' = [resumeAt EXCEPT ![c] = 0]
  /\ open' = [open EXCEPT ![c] = TRUE]
  /\ wire' = [wire EXCEPT ![c] = None]
  /\ reply' = [reply EXCEPT ![c] = None]
  /\ landed' = [landed EXCEPT ![c] = NoInode]
  /\ UNCHANGED <<receiverVars, dirVars, received, fd, good, cancel, disturbances>>

\* The context of Receive is cancelled: the listener closes and every running
\* transfer will see it at the top of its loop.
CancelReceive ==
  /\ Disturb
  /\ listening
  /\ listening' = FALSE
  /\ cancel' = [c \in Conn |->
                 IF Idle(c) \/ cancel[c] # "no" THEN cancel[c] ELSE "pause"]
  /\ UNCHANGED <<overwrite, dirVars, rpc, received, fd, good, offer, resumeAt,
                 senderVars, open, wire, reply, landed>>

\* The cancel function OnTransferStart handed out: keepPartial is a pause, and
\* a discard is never taken back.
CancelTransfer(c, keepPartial) ==
  /\ Disturb
  /\ rpc[c] \in {"open", "truncate", "loop", "read"}
  /\ cancel' = [cancel EXCEPT ![c] =
                 IF keepPartial /\ @ # "discard" THEN "pause" ELSE "discard"]
  /\ UNCHANGED <<receiverVars, dirVars, rpc, received, fd, good, offer, resumeAt,
                 senderVars, open, wire, reply, landed>>

\* The receiving process dies: its directory is all that is left of it.
Crash ==
  /\ Disturb
  /\ listening' = FALSE
  /\ rpc' = [c \in Conn |-> "idle"]
  /\ fd' = [c \in Conn |-> NoInode]
  /\ received' = [c \in Conn |-> 0]
  /\ good' = [c \in Conn |-> TRUE]
  /\ cancel' = [c \in Conn |-> "no"]
  /\ open' = [c \in Conn |-> FALSE]
  /\ wire' = [c \in Conn |-> None]
  /\ UNCHANGED <<overwrite, dirVars, offer, resumeAt, senderVars, reply, landed>>

-----------------------------------------------------------------------------
(* handleConn up to the accept.                                            *)

\* Allow-list, TLS, hello, identity, password, destPath or the user's decline:
\* this peer is rejected and the listener keeps waiting.
Reject(c) ==
  /\ Disturb
  /\ rpc[c] = "hello"
  /\ EndHandler(c, FALSE)
  /\ reply' = [reply EXCEPT ![c] = "refuse"]
  /\ UNCHANGED <<dirVars, landed>>

Approve(c) ==
  /\ rpc[c] = "hello"
  /\ Goto(c, "stat")
  /\ UNCHANGED <<receiverVars, dirVars, received, fd, good, cancel, offer,
                 resumeAt, senderVars, open, wire, reply, landed, disturbances>>

\* os.Stat(outPath) finds a file that may not be replaced.
RefuseExisting(c) ==
  /\ rpc[c] = "stat"
  /\ dest[offer[c].name] # NoInode /\ ~overwrite
  /\ EndHandler(c, TRUE)
  /\ reply' = [reply EXCEPT ![c] = "refuse"]
  /\ UNCHANGED <<dirVars, landed, disturbances>>

\* A mutant of PassStat: no check for an existing file.
PassStatUnchecked(c) ==
  /\ rpc[c] = "stat"
  /\ Goto(c, "probe")
  /\ UNCHANGED <<receiverVars, dirVars, received, fd, good, cancel, offer,
                 resumeAt, senderVars, open, wire, reply, landed, disturbances>>

PassStat(c) ==
  /\ rpc[c] = "stat"
  /\ dest[offer[c].name] = NoInode \/ overwrite
  /\ Goto(c, "probe")
  /\ UNCHANGED <<receiverVars, dirVars, received, fd, good, cancel, offer,
                 resumeAt, senderVars, open, wire, reply, landed, disturbances>>

\* resumeOffset, and the accept that announces it.
Accept(c) ==
  /\ rpc[c] = "probe"
  /\ resumeAt' = [resumeAt EXCEPT ![c] =
                   IF Resumable(c) THEN ResumeOffset(KeyOf(c)) ELSE 0]
  /\ reply' = [reply EXCEPT ![c] = IF open[c] THEN "accept" ELSE None]
  /\ Goto(c, "open")
  /\ UNCHANGED <<receiverVars, dirVars, received, fd, good, cancel, offer,
                 senderVars, open, wire, landed, disturbances>>

\* The accept cannot be written any more.
AcceptFails(c) ==
  /\ rpc[c] = "probe"
  /\ ~open[c]
  /\ EndHandler(c, FALSE)
  /\ UNCHANGED <<dirVars, reply, landed, disturbances>>

-----------------------------------------------------------------------------
(* receiveResumableToFile and receiveToFile.                               *)

\* os.CreateTemp: a fresh file under a name nobody else uses.
OpenTemp(c) ==
  /\ rpc[c] = "open"
  /\ ~Resumable(c)
  /\ \E i \in Inode :
       /\ Fresh(i)
       /\ disk' = [disk EXCEPT ![i] = NoFile]
       /\ fd' = [fd EXCEPT ![c] = i]
  /\ Goto(c, "loop")
  /\ UNCHANGED <<receiverVars, dest, part, received, good, cancel, offer, resumeAt,
                 senderVars, open, wire, reply, landed, disturbances>>

\* O_CREATE|O_TRUNC: whatever the name refers to is emptied.
OpenFresh(c) ==
  /\ rpc[c] = "open"
  /\ Resumable(c) /\ resumeAt[c] = 0
  /\ \E i \in Inode :
       /\ IF part[KeyOf(c)] = NoInode THEN Fresh(i) ELSE i = part[KeyOf(c)]
       /\ part' = [part EXCEPT ![KeyOf(c)] = i]
       /\ disk' = [disk EXCEPT ![i] = NoFile]
       /\ fd' = [fd EXCEPT ![c] = i]
  /\ Goto(c, "loop")
  /\ UNCHANGED <<receiverVars, dest, received, good, cancel, offer, resumeAt,
                 senderVars, open, wire, reply, landed, disturbances>>

\* Open without O_CREATE and re-hash the bytes already held.
OpenResume(c) ==
  LET i == part[KeyOf(c)] IN
  /\ rpc[c] = "open"
  /\ Resumable(c) /\ resumeAt[c] > 0
  /\ i # NoInode
  /\ disk[i].size >= resumeAt[c]
  /\ fd' = [fd EXCEPT ![c] = i]
  /\ good' = [good EXCEPT ![c] = HasPrefix(disk[i], resumeAt[c], offer[c].ver)]
  /\ Goto(c, "truncate")
  /\ UNCHANGED <<receiverVars, dirVars, received, cancel, offer, resumeAt,
                 senderVars, open, wire, reply, landed, disturbances>>

\* The partial is gone, or is now shorter than the offset that was announced.
OpenResumeFails(c) ==
  LET i == part[KeyOf(c)] IN
  /\ rpc[c] = "open"
  /\ Resumable(c) /\ resumeAt[c] > 0
  /\ i # NoInode => disk[i].size < resumeAt[c]
  /\ FailHandler(c)
  /\ UNCHANGED <<dirVars, landed, disturbances>>

TruncatePartial(c) ==
  /\ rpc[c] = "truncate"
  /\ disk' = [disk EXCEPT ![fd[c]] = CutTo(@, resumeAt[c])]
  /\ received' = [received EXCEPT ![c] = resumeAt[c]]
  /\ Goto(c, "loop")
  /\ UNCHANGED <<receiverVars, dest, part, fd, good, cancel, offer, resumeAt,
                 senderVars, open, wire, reply, landed, disturbances>>

\* The top of the loop: not cancelled, so block in readFrame.
NextFrame(c) ==
  /\ rpc[c] = "loop"
  /\ cancel[c] = "no"
  /\ Goto(c, "read")
  /\ UNCHANGED <<receiverVars, dirVars, received, fd, good, cancel, offer, resumeAt,
                 senderVars, open, wire, reply, landed, disturbances>>

\* The top of the loop: cancelled.  A pause keeps the partial.
StopCancelled(c) ==
  /\ rpc[c] = "loop"
  /\ cancel[c] # "no"
  /\ IF cancel[c] = "discard" THEN DropPartial(c) ELSE part' = part
  /\ FailHandler(c)
  /\ UNCHANGED <<dest, disk, landed, disturbances>>

\* A data frame inside the declared size is written and hashed.
TakeBlock(c) ==
  /\ rpc[c] = "read"
  /\ wire[c] \in Version
  /\ received[c] < Total(c)
  /\ disk' = [disk EXCEPT ![fd[c]] = WriteAt(@, received[c] + 1, wire[c])]
  /\ received' = [received EXCEPT ![c] = @ + 1]
  /\ good' = [good EXCEPT ![c] = @ /\ wire[c] = offer[c].ver]
  /\ wire' = [wire EXCEPT ![c] = None]
  /\ Goto(c, "loop")
  /\ UNCHANGED <<receiverVars, dest, part, fd, cancel, offer, resumeAt,
                 senderVars, open, reply, landed, disturbances>>

\* A stream past its declared size, one that ends short of it, or one whose
\* digest is not the declared one: the partial cannot be trusted.
RefuseStream(c) ==
  /\ rpc[c] = "read"
  /\ \/ wire[c] \in Version /\ received[c] = Total(c)
     \/ wire[c] = EOF /\ received[c] # Total(c)
     \/ wire[c] = EOF /\ Resumable(c) /\ ~good[c]
  /\ DropPartial(c)
  /\ FailHandler(c)
  /\ UNCHANGED <<dest, disk, landed, disturbances>>

\* A mutant of TakeEof: the digest is not compared.
TakeEofUnverified(c) ==
  /\ rpc[c] = "read"
  /\ wire[c] = EOF
  /\ received[c] = Total(c)
  /\ wire' = [wire EXCEPT ![c] = None]
  /\ Goto(c, "place")
  /\ UNCHANGED <<receiverVars, dirVars, received, fd, good, cancel, offer, resumeAt,
                 senderVars, open, reply, landed, disturbances>>

TakeEof(c) ==
  /\ rpc[c] = "read"
  /\ wire[c] = EOF
  /\ received[c] = Total(c)
  /\ Resumable(c) => good[c]
  /\ wire' = [wire EXCEPT ![c] = None]
  /\ Goto(c, "place")
  /\ UNCHANGED <<receiverVars, dirVars, received, fd, good, cancel, offer, resumeAt,
                 senderVars, open, reply, landed, disturbances>>

\* A mutant of ReadFails: a dead connection is noticed only when cancelled.
ReadFailsIfCancelled(c) ==
  /\ cancel[c] # "no"
  /\ rpc[c] = "read"
  /\ wire[c] = None
  /\ ~open[c]
  /\ FailHandler(c)
  /\ UNCHANGED <<dirVars, landed, disturbances>>

\* readFrame fails because the connection is gone: the partial is kept.
ReadFails(c) ==
  /\ rpc[c] = "read"
  /\ wire[c] = None
  /\ ~open[c]
  /\ FailHandler(c)
  /\ UNCHANGED <<dirVars, landed, disturbances>>

\* readFrame fails because no frame came for 60 s (TransferTime has the deadlines):
\* the partial is kept.
ReadTimesOut(c) ==
  /\ Disturb
  /\ rpc[c] = "read"
  /\ wire[c] = None
  /\ FailHandler(c)
  /\ UNCHANGED <<dirVars, landed>>

\* f.Write, f.Sync, f.Close, os.Link or os.Rename fails: the partial is kept.
IoFails(c) ==
  /\ Disturb
  /\ \/ rpc[c] = "read" /\ wire[c] \in Version /\ received[c] < Total(c)
     \/ rpc[c] = "place"
  /\ FailHandler(c)
  /\ UNCHANGED <<dirVars, landed>>

-----------------------------------------------------------------------------
(* placeFile.                                                              *)

\* The staged file, found by its NAME when it is a resumable partial.
Staged(c) == IF Resumable(c) THEN part[KeyOf(c)] ELSE fd[c]

\* os.Rename.  Renaming a name onto another name of the same file does nothing.
PlaceByRename(c) ==
  LET n == offer[c].name IN
  /\ rpc[c] = "place"
  /\ overwrite
  /\ Staged(c) # NoInode
  /\ dest' = [dest EXCEPT ![n] = Staged(c)]
  /\ IF dest[n] # Staged(c) THEN DropPartial(c) ELSE part' = part
  /\ landed' = [landed EXCEPT ![c] = disk[Staged(c)]]
  /\ Goto(c, "reply")
  /\ UNCHANGED <<receiverVars, disk, received, fd, good, cancel, offer, resumeAt,
                 senderVars, open, wire, reply, disturbances>>

\* os.Link, which fails when the final name exists.
PlaceByLink(c) ==
  LET n == offer[c].name IN
  /\ rpc[c] = "place"
  /\ ~overwrite
  /\ Staged(c) # NoInode
  /\ dest[n] = NoInode
  /\ dest' = [dest EXCEPT ![n] = Staged(c)]
  /\ landed' = [landed EXCEPT ![c] = disk[Staged(c)]]
  /\ Goto(c, "unlink")
  /\ UNCHANGED <<receiverVars, part, disk, received, fd, good, cancel, offer,
                 resumeAt, senderVars, open, wire, reply, disturbances>>

\* The staged name is gone, or the final name appeared meanwhile.
PlaceFails(c) ==
  /\ rpc[c] = "place"
  /\ Staged(c) = NoInode \/ (~overwrite /\ dest[offer[c].name] # NoInode)
  /\ FailHandler(c)
  /\ UNCHANGED <<dirVars, landed, disturbances>>

\* os.Remove of the staged name, whose error is ignored.
Unlink(c) ==
  /\ rpc[c] = "unlink"
  /\ DropPartial(c)
  /\ Goto(c, "reply")
  /\ UNCHANGED <<receiverVars, dest, disk, received, fd, good, cancel, offer,
                 resumeAt, senderVars, open, wire, reply, landed, disturbances>>

UnlinkFails(c) ==
  /\ Disturb
  /\ rpc[c] = "unlink"
  /\ Goto(c, "reply")
  /\ UNCHANGED <<receiverVars, dirVars, received, fd, good, cancel, offer,
                 resumeAt, senderVars, open, wire, reply, landed>>

\* The done message, and handleConn returns its result.
Reply(c) ==
  /\ rpc[c] = "reply"
  /\ EndHandler(c, TRUE)
  /\ reply' = [reply EXCEPT ![c] = IF open[c] THEN "done" ELSE None]
  /\ UNCHANGED <<dirVars, landed, disturbances>>

-----------------------------------------------------------------------------
(* Send.                                                                   *)

EndSend(c, result) ==
  /\ spc' = [spc EXCEPT ![c] = result]
  /\ open' = [open EXCEPT ![c] = FALSE]
  /\ reply' = [reply EXCEPT ![c] = None]
  /\ sent' = [sent EXCEPT ![c] = 0]
  /\ sgood' = [sgood EXCEPT ![c] = TRUE]
  /\ UNCHANGED <<receiverVars, dirVars, handlerVars, offer, resumeAt, src, landed>>

\* The accept arrives: hash the prefix the receiver already holds from the
\* source as it is now, and stream the rest.
SeeAccept(c) ==
  /\ spc[c] = "wait"
  /\ reply[c] = "accept"
  /\ SizeOf[src[c]] >= resumeAt[c]
  /\ reply' = [reply EXCEPT ![c] = None]
  /\ spc' = [spc EXCEPT ![c] = "stream"]
  /\ sent' = [sent EXCEPT ![c] = resumeAt[c]]
  /\ sgood' = [sgood EXCEPT ![c] = resumeAt[c] = 0 \/ src[c] = offer[c].ver]
  /\ UNCHANGED <<receiverVars, dirVars, handlerVars, offer, resumeAt, src, open,
                 wire, landed, disturbances>>

SendBlock(c) ==
  /\ spc[c] = "stream"
  /\ open[c] /\ wire[c] = None
  /\ sent[c] < SizeOf[src[c]]
  /\ wire' = [wire EXCEPT ![c] = src[c]]
  /\ sent' = [sent EXCEPT ![c] = @ + 1]
  /\ sgood' = [sgood EXCEPT ![c] = @ /\ src[c] = offer[c].ver]
  /\ UNCHANGED <<receiverVars, dirVars, handlerVars, offer, resumeAt, spc, src,
                 open, reply, landed, disturbances>>

SendEof(c) ==
  /\ spc[c] = "stream"
  /\ open[c] /\ wire[c] = None
  /\ sent[c] >= SizeOf[src[c]]
  /\ wire' = [wire EXCEPT ![c] = EOF]
  /\ spc' = [spc EXCEPT ![c] = "await"]
  /\ UNCHANGED <<receiverVars, dirVars, handlerVars, offer, resumeAt, src, sent,
                 sgood, open, reply, landed, disturbances>>

\* A mutant of SeeDone: a connection closed after the last frame passes for success.
SeeDoneOrClosed(c) ==
  /\ spc[c] = "await"
  /\ reply[c] = "done" \/ (reply[c] = None /\ ~open[c])
  /\ EndSend(c, IF Resumable(c) /\ ~sgood[c] THEN "failed" ELSE "ok")
  /\ UNCHANGED <<wire, disturbances>>

\* The done message: compare the digests.  They can only differ in the prefix
\* each side hashed from its own file.
SeeDone(c) ==
  /\ spc[c] = "await"
  /\ reply[c] = "done"
  /\ EndSend(c, IF Resumable(c) /\ ~sgood[c] THEN "failed" ELSE "ok")
  /\ UNCHANGED <<wire, disturbances>>

\* A refusal, an error, a dead connection, or a source now too short to resume.
SendFails(c) ==
  /\ spc[c] \in {"wait", "stream", "await"}
  /\ \/ reply[c] \in {"refuse", "error"}
     \/ ~open[c] /\ reply[c] = None
     \/ spc[c] = "wait" /\ reply[c] = "accept" /\ SizeOf[src[c]] < resumeAt[c]
  /\ EndSend(c, "failed")
  /\ UNCHANGED <<wire, disturbances>>

\* The sender gives up or the network fails; a frame under way may be lost.
Disconnect(c) ==
  /\ Disturb
  /\ spc[c] \in {"wait", "stream", "await"}
  /\ EndSend(c, "failed")
  /\ wire' \in {wire, [wire EXCEPT ![c] = None]}

\* Somebody writes to the source file while it is being sent.
SourceChanges(c) ==
  /\ Disturb
  /\ spc[c] \in {"wait", "stream"}
  /\ \E v \in Version \ {src[c]} : src' = [src EXCEPT ![c] = v]
  /\ UNCHANGED <<receiverVars, dirVars, handlerVars, offer, resumeAt, spc, sent,
                 sgood, open, wire, reply, landed>>

-----------------------------------------------------------------------------
(* The directory's other users.                                            *)

\* The user moves a delivered file away, or deletes it.
UserTakes(n) ==
  /\ Disturb
  /\ dest[n] # NoInode
  /\ dest' = [dest EXCEPT ![n] = NoInode]
  /\ UNCHANGED <<receiverVars, part, disk, handlerVars, offer, resumeAt,
                 senderVars, open, wire, reply, landed>>

\* SweepStalePartials removes a partial nobody has written to for long, so not
\* one a handler has truncated and is filling.
Sweep(k) ==
  /\ Disturb
  /\ part[k] # NoInode
  /\ \A c \in Conn : fd[c] = part[k] => rpc[c] = "truncate"
  /\ part' = [part EXCEPT ![k] = NoInode]
  /\ UNCHANGED <<receiverVars, dest, disk, handlerVars, offer, resumeAt,
                 senderVars, open, wire, reply, landed>>

-----------------------------------------------------------------------------

\* The steps of one handler that are its own to take.
Handle(c) ==
  \/ Approve(c) \/ RefuseExisting(c) \/ PassStat(c)
  \/ Accept(c) \/ AcceptFails(c)
  \/ OpenTemp(c) \/ OpenFresh(c) \/ OpenResume(c) \/ OpenResumeFails(c)
  \/ TruncatePartial(c) \/ NextFrame(c) \/ StopCancelled(c)
  \/ TakeBlock(c) \/ RefuseStream(c) \/ TakeEof(c) \/ ReadFails(c)
  \/ PlaceByRename(c) \/ PlaceByLink(c) \/ PlaceFails(c)
  \/ Unlink(c) \/ Reply(c)

\* The steps of one sender.
Push(c) ==
  SeeAccept(c) \/ SendBlock(c) \/ SendEof(c) \/ SeeDone(c) \/ SendFails(c)

\* What can go wrong with one connection.
Trouble(c) ==
  \/ Reject(c) \/ ReadTimesOut(c) \/ IoFails(c) \/ UnlinkFails(c)
  \/ Disconnect(c) \/ SourceChanges(c)
  \/ \E keepPartial \in BOOLEAN : CancelTransfer(c, keepPartial)

Next ==
  \/ StartReceive \/ CancelReceive \/ Crash
  \/ \E c \in Conn : Connect(c) \/ Handle(c) \/ Push(c) \/ Trouble(c)
  \/ \E n \in Name : UserTakes(n)
  \/ \E k \in Key : Sweep(k)

Spec == Init /\ [][Next]_vars

\* Both ends run until they end (a handler waits for no frame longer than 60 s),
\* the receiver is started again and the sender tries again.
FairSpec ==
  /\ Spec
  /\ WF_vars(StartReceive)
  /\ \A c \in Conn : WF_vars(Connect(c)) /\ WF_vars(Handle(c)) /\ WF_vars(Push(c))

-----------------------------------------------------------------------------
(* Properties.                                                             *)

\* Every variable stays in its range: the handler's counter of received blocks
\* in particular never leaves the declared size (receiveResumableToFile checks it
\* before it writes).
TypeOK ==
  /\ listening \in BOOLEAN
  /\ overwrite \in BOOLEAN
  /\ dest \in [Name -> Inode \cup {NoInode}]
  /\ part \in [Key -> Inode \cup {NoInode}]
  /\ disk \in [Inode -> File]
  /\ rpc \in [Conn -> {"idle", "hello", "stat", "probe", "open", "truncate",
                       "loop", "read", "place", "unlink", "reply"}]
  /\ offer \in [Conn -> Offer]
  /\ resumeAt \in [Conn -> 0..MaxSize]
  /\ received \in [Conn -> 0..MaxSize]
  /\ fd \in [Conn -> Inode \cup {NoInode}]
  /\ good \in [Conn -> BOOLEAN]
  /\ cancel \in [Conn -> {"no", "pause", "discard"}]
  /\ spc \in [Conn -> {"idle", "wait", "stream", "await", "ok", "failed"}]
  /\ src \in [Conn -> Version]
  /\ sent \in [Conn -> 0..MaxSize]
  /\ sgood \in [Conn -> BOOLEAN]
  /\ open \in [Conn -> BOOLEAN]
  /\ wire \in [Conn -> Version \cup {None, EOF}]
  /\ reply \in [Conn -> {None, "accept", "refuse", "error", "done"}]
  /\ landed \in [Conn -> File \cup {NoInode}]
  /\ disturbances \in 0..MaxDisturbances

\* A file that a resumable push placed is, block for block, the one the sender
\* declared: what the digest check before placeFile is for.
LandedVerified ==
  \A c \in Conn :
    landed[c] # NoInode =>
      IF Resumable(c) THEN IsWhole(landed[c], offer[c].ver) ELSE IsComplete(landed[c])

\* Send reports success only for a file the receiver did place.
SendSuccessIsDelivery ==
  \A c \in Conn : spc[c] = "ok" => landed[c] # NoInode

\* What a delivered name holds is a complete file, at every moment: the file of
\* a delivered name is in no handler's hands any more.
DestIntact == \A n \in Name : dest[n] # NoInode => IsComplete(disk[dest[n]])

\* No two handlers write the same file.
OneWriter ==
  \A c, d \in Conn : c # d /\ fd[c] # NoInode => fd[c] # fd[d]

\* What a reader of the destination directory finds under each name.
Visible == [n \in Name |-> IF dest[n] = NoInode THEN NoInode ELSE disk[dest[n]]]

Delivery ==
  INSTANCE AtomicDelivery WITH
    files <- Visible, replace <- overwrite,
    Complete <- {f \in File : IsComplete(f)}, Absent <- NoInode

\* The destination directory behaves as AtomicDelivery promises: a name goes from
\* nothing to a whole file in one step, and changes again only when the user takes
\* the file or overwrite is on.
DeliveryIsAtomic == Delivery!Spec

\* No two senders make resumable pushes of the same content under the same name
\* at a time: a one-shot receiver sees to it, a serving one does not.
ExclusiveOffers ==
  Loop => \A c, d \in Conn : \A o \in Offers[c], p \in Offers[d] :
            /\ c # d /\ o.resumable /\ p.resumable
            => <<o.name, o.ver>> # <<p.name, p.ver>>

\* Every handler returns.
HandlersEnd == \A c \in Conn : ~Idle(c) ~> Idle(c)

\* Whatever an interrupted attempt left behind, a sender that keeps trying gets
\* its file delivered: no partial blocks the name for ever.
EventuallyDelivered == <>(\E n \in Name : dest[n] # NoInode)
=============================================================================
