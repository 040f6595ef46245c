--------------------------- MODULE LanPush_proofs ---------------------------
(***************************************************************************)
(* What is proved of LanPush for every set of connections, names, versions *)
(* and inodes, and every number of disturbances.                           *)
(***************************************************************************)
EXTENDS LanPush, TLAPS

-----------------------------------------------------------------------------
(* Type correctness.                                                       *)

LEMMA ResumeOffsetType ==
  ASSUME TypeOK, NEW k \in Key
  PROVE  ResumeOffset(k) \in 0..MaxSize
BY SizeAssumption DEF ResumeOffset, TypeOK, File, Key

LEMMA WriteAtType ==
  ASSUME NEW f \in File, NEW p \in 1..MaxSize, NEW v \in Version
  PROVE  WriteAt(f, p, v) \in File
BY SizeAssumption DEF WriteAt, File

LEMMA CutToType ==
  ASSUME NEW f \in File, NEW n \in 0..MaxSize
  PROVE  CutTo(f, n) \in File
BY SizeAssumption DEF CutTo, File

LEMMA NoFileType == NoFile \in File
BY SizeAssumption DEF NoFile, File

LEMMA KeyOfType ==
  ASSUME TypeOK, NEW c \in Conn
  PROVE  KeyOf(c) \in Key /\ Total(c) \in 0..MaxSize
BY SizeAssumption DEF KeyOf, Key, Total, TypeOK, Offer

LEMMA InitType == Init => TypeOK
<1> SUFFICES ASSUME Init PROVE TypeOK
  OBVIOUS
<1>1. offer \in [Conn -> Offer]
  BY DEF Init
<1>2. src \in [Conn -> Version]
  BY <1>1 DEF Init, Offer
<1>3. dest \in [Name -> Inode \cup {NoInode}] /\ part \in [Key -> Inode \cup {NoInode}]
  BY DEF Init
<1>4. disk \in [Inode -> File] /\ landed \in [Conn -> File \cup {NoInode}]
  BY NoFileType DEF Init
<1>5. 0 \in 0..MaxSize /\ disturbances \in 0..MaxDisturbances
  BY SizeAssumption, BoundAssumption DEF Init
<1>6. QED
  BY <1>1, <1>2, <1>3, <1>4, <1>5 DEF Init, TypeOK, None

LEMMA DropPartialType ==
  ASSUME TypeOK, NEW c \in Conn, DropPartial(c)
  PROVE  part' \in [Key -> Inode \cup {NoInode}]
BY DEF DropPartial, TypeOK

LEMMA EndHandlerType ==
  ASSUME TypeOK, NEW c \in Conn, NEW done \in BOOLEAN, EndHandler(c, done),
         dest' \in [Name -> Inode \cup {NoInode}],
         part' \in [Key -> Inode \cup {NoInode}],
         disk' \in [Inode -> File],
         reply' \in [Conn -> {None, "accept", "refuse", "error", "done"}],
         landed' = landed,
         disturbances' \in 0..MaxDisturbances
  PROVE  TypeOK'
<1>1. /\ rpc' \in [Conn -> {"idle", "hello", "stat", "probe", "open", "truncate",
                           "loop", "read", "place", "unlink", "reply"}]
      /\ fd' \in [Conn -> Inode \cup {NoInode}]
      /\ cancel' \in [Conn -> {"no", "pause", "discard"}]
  BY DEF TypeOK, EndHandler
<1>2. received' \in [Conn -> 0..MaxSize] /\ good' \in [Conn -> BOOLEAN]
  BY SizeAssumption DEF TypeOK, EndHandler
<1>3. wire' \in [Conn -> Version \cup {None, EOF}] /\ open' \in [Conn -> BOOLEAN]
  BY DEF TypeOK, EndHandler
<1>4. listening' \in BOOLEAN
  BY DEF EndHandler
<1>5. UNCHANGED <<overwrite, offer, resumeAt, spc, src, sent, sgood>>
  BY DEF EndHandler, senderVars
<1>6. QED
  BY <1>1, <1>2, <1>3, <1>4, <1>5 DEF TypeOK

LEMMA StepType == TypeOK /\ [Next]_vars => TypeOK'
<1> SUFFICES ASSUME TypeOK, [Next]_vars PROVE TypeOK'
  OBVIOUS
<1> USE DEF Goto, Disturb, None, EOF
<1>1. ASSUME StartReceive PROVE TypeOK'
  BY <1>1
  DEF TypeOK, StartReceive, dirVars, handlerVars, senderVars, receiverVars
<1>2. ASSUME CancelReceive PROVE TypeOK'
  <2>1. cancel' \in [Conn -> {"no", "pause", "discard"}]
    BY <1>2 DEF TypeOK, CancelReceive
  <2>2. disturbances' \in 0..MaxDisturbances
    BY <1>2, BoundAssumption DEF TypeOK, CancelReceive
  <2>3. listening' \in BOOLEAN
    BY <1>2 DEF CancelReceive
  <2>4. QED
    BY <1>2, <2>1, <2>2, <2>3
    DEF TypeOK, CancelReceive, dirVars, senderVars
<1>3. ASSUME Crash PROVE TypeOK'
  <2>1. /\ received' \in [Conn -> 0..MaxSize] /\ good' \in [Conn -> BOOLEAN]
        /\ disturbances' \in 0..MaxDisturbances
    BY <1>3, BoundAssumption, SizeAssumption DEF TypeOK, Crash
  <2>2. /\ fd' \in [Conn -> Inode \cup {NoInode}]
        /\ wire' \in [Conn -> Version \cup {None, EOF}]
        /\ open' \in [Conn -> BOOLEAN]
    BY <1>3 DEF Crash
  <2>3. QED
    BY <1>3, <2>1, <2>2 DEF TypeOK, Crash, dirVars, senderVars
<1>4. ASSUME NEW c \in Conn, Connect(c) PROVE TypeOK'
  <2>1. PICK o \in Offers[c] : /\ offer' = [offer EXCEPT ![c] = o]
                             /\ src' = [src EXCEPT ![c] = o.ver]
    BY <1>4 DEF Connect
  <2>2. o \in Offer /\ o.ver \in Version
    BY OfferAssumption DEF Offer
  <2>3. /\ offer' \in [Conn -> Offer] /\ src' \in [Conn -> Version]
        /\ landed' \in [Conn -> File \cup {NoInode}]
    BY <1>4, <2>1, <2>2 DEF TypeOK, Connect
  <2>4. /\ sent' \in [Conn -> 0..MaxSize] /\ resumeAt' \in [Conn -> 0..MaxSize]
        /\ sgood' \in [Conn -> BOOLEAN]
    BY <1>4, SizeAssumption DEF TypeOK, Connect
  <2>5. QED
    BY <1>4, <2>3, <2>4 DEF TypeOK, Connect, dirVars, receiverVars
<1>5. ASSUME NEW c \in Conn, Approve(c) PROVE TypeOK'
  BY <1>5
  DEF TypeOK, Approve, dirVars, handlerVars, senderVars, receiverVars
<1>6. ASSUME NEW c \in Conn, RefuseExisting(c) PROVE TypeOK'
  <2>1. EndHandler(c, TRUE) /\ landed' = landed
    BY <1>6 DEF RefuseExisting
  <2>2. dest' = dest /\ disk' = disk /\ part' \in [Key -> Inode \cup {NoInode}]
    BY <1>6 DEF RefuseExisting, dirVars, TypeOK
  <2>3. /\ reply' \in [Conn -> {None, "accept", "refuse", "error", "done"}]
        /\ disturbances' \in 0..MaxDisturbances
    BY <1>6, BoundAssumption DEF RefuseExisting, TypeOK
  <2>4. QED
    BY <2>1, <2>2, <2>3, EndHandlerType DEF TypeOK
<1>7. ASSUME NEW c \in Conn, PassStat(c) PROVE TypeOK'
  BY <1>7
  DEF TypeOK, PassStat, dirVars, handlerVars, senderVars, receiverVars
<1>8. ASSUME NEW c \in Conn, Accept(c) PROVE TypeOK'
  BY <1>8, ResumeOffsetType, KeyOfType, SizeAssumption
  DEF TypeOK, Accept, dirVars, handlerVars, senderVars, receiverVars
<1>9. ASSUME NEW c \in Conn, AcceptFails(c) PROVE TypeOK'
  <2>1. EndHandler(c, FALSE) /\ landed' = landed
    BY <1>9 DEF AcceptFails
  <2>2. dest' = dest /\ disk' = disk /\ part' \in [Key -> Inode \cup {NoInode}]
    BY <1>9 DEF AcceptFails, dirVars, TypeOK
  <2>3. /\ reply' \in [Conn -> {None, "accept", "refuse", "error", "done"}]
        /\ disturbances' \in 0..MaxDisturbances
    BY <1>9, BoundAssumption DEF AcceptFails, TypeOK
  <2>4. QED
    BY <2>1, <2>2, <2>3, EndHandlerType DEF TypeOK
<1>10. ASSUME NEW c \in Conn, OpenTemp(c) PROVE TypeOK'
  BY <1>10, NoFileType, KeyOfType
  DEF TypeOK, OpenTemp, dirVars, handlerVars, senderVars, receiverVars
<1>11. ASSUME NEW c \in Conn, OpenFresh(c) PROVE TypeOK'
  BY <1>11, NoFileType, KeyOfType
  DEF TypeOK, OpenFresh, dirVars, handlerVars, senderVars, receiverVars
<1>12. ASSUME NEW c \in Conn, OpenResume(c) PROVE TypeOK'
  <2>1. part[KeyOf(c)] \in Inode
    BY <1>12, KeyOfType DEF TypeOK, OpenResume
  <2>2. fd' \in [Conn -> Inode \cup {NoInode}]
    BY <1>12, <2>1 DEF TypeOK, OpenResume
  <2>3. good' \in [Conn -> BOOLEAN]
    BY <1>12 DEF TypeOK, OpenResume, HasPrefix
  <2>4. QED
    BY <1>12, <2>2, <2>3 DEF TypeOK, OpenResume, dirVars, senderVars, receiverVars
<1>13. ASSUME NEW c \in Conn, OpenResumeFails(c) PROVE TypeOK'
  <2>1. EndHandler(c, TRUE) /\ landed' = landed
    BY <1>13 DEF OpenResumeFails, FailHandler
  <2>2. dest' = dest /\ disk' = disk /\ part' \in [Key -> Inode \cup {NoInode}]
    BY <1>13 DEF OpenResumeFails, dirVars, TypeOK
  <2>3. /\ reply' \in [Conn -> {None, "accept", "refuse", "error", "done"}]
        /\ disturbances' \in 0..MaxDisturbances
    BY <1>13, BoundAssumption DEF OpenResumeFails, FailHandler, TypeOK
  <2>4. QED
    BY <2>1, <2>2, <2>3, EndHandlerType DEF TypeOK
<1>14. ASSUME NEW c \in Conn, TruncatePartial(c) PROVE TypeOK'
  BY <1>14, CutToType
  DEF TypeOK, TruncatePartial, dirVars, handlerVars, senderVars, receiverVars
<1>15. ASSUME NEW c \in Conn, NextFrame(c) PROVE TypeOK'
  BY <1>15
  DEF TypeOK, NextFrame, dirVars, handlerVars, senderVars, receiverVars
<1>16. ASSUME NEW c \in Conn, StopCancelled(c) PROVE TypeOK'
  <2>1. EndHandler(c, TRUE) /\ landed' = landed
    BY <1>16 DEF StopCancelled, FailHandler
  <2>2. dest' = dest /\ disk' = disk /\ part' \in [Key -> Inode \cup {NoInode}]
    BY <1>16, DropPartialType DEF StopCancelled, dirVars, TypeOK
  <2>3. /\ reply' \in [Conn -> {None, "accept", "refuse", "error", "done"}]
        /\ disturbances' \in 0..MaxDisturbances
    BY <1>16, BoundAssumption DEF StopCancelled, FailHandler, TypeOK
  <2>4. QED
    BY <2>1, <2>2, <2>3, EndHandlerType DEF TypeOK
<1>17. ASSUME NEW c \in Conn, TakeBlock(c) PROVE TypeOK'
  <2>1. received[c] \in 0..MaxSize /\ received[c] + 1 \in 1..MaxSize
    BY <1>17, KeyOfType, SizeAssumption DEF TypeOK, TakeBlock
  <2>2. disk' \in [Inode -> File]
    <3>1. CASE fd[c] \in Inode
      <4>1. WriteAt(disk[fd[c]], received[c] + 1, wire[c]) \in File
        BY <1>17, <2>1, <3>1, WriteAtType DEF TypeOK, TakeBlock
      <4>2. QED
        BY <1>17, <4>1 DEF TypeOK, TakeBlock
    <3>2. CASE fd[c] \notin Inode
      BY <1>17, <3>2 DEF TypeOK, TakeBlock
    <3>3. QED
      BY <3>1, <3>2
  <2>3. received' \in [Conn -> 0..MaxSize] /\ good' \in [Conn -> BOOLEAN]
    BY <1>17, <2>1, SizeAssumption DEF TypeOK, TakeBlock
  <2>4. wire' \in [Conn -> Version \cup {None, EOF}]
    BY <1>17 DEF TypeOK, TakeBlock
  <2>5. QED
    BY <1>17, <2>2, <2>3, <2>4 DEF TypeOK, TakeBlock, senderVars, receiverVars
<1>18. ASSUME NEW c \in Conn, RefuseStream(c) PROVE TypeOK'
  <2>1. EndHandler(c, TRUE) /\ landed' = landed
    BY <1>18 DEF RefuseStream, FailHandler
  <2>2. dest' = dest /\ disk' = disk /\ part' \in [Key -> Inode \cup {NoInode}]
    BY <1>18, DropPartialType DEF RefuseStream, dirVars, TypeOK
  <2>3. /\ reply' \in [Conn -> {None, "accept", "refuse", "error", "done"}]
        /\ disturbances' \in 0..MaxDisturbances
    BY <1>18, BoundAssumption DEF RefuseStream, FailHandler, TypeOK
  <2>4. QED
    BY <2>1, <2>2, <2>3, EndHandlerType DEF TypeOK
<1>19. ASSUME NEW c \in Conn, TakeEof(c) PROVE TypeOK'
  BY <1>19
  DEF TypeOK, TakeEof, dirVars, handlerVars, senderVars, receiverVars
<1>20. ASSUME NEW c \in Conn, ReadFails(c) PROVE TypeOK'
  <2>1. EndHandler(c, TRUE) /\ landed' = landed
    BY <1>20 DEF ReadFails, FailHandler
  <2>2. dest' = dest /\ disk' = disk /\ part' \in [Key -> Inode \cup {NoInode}]
    BY <1>20 DEF ReadFails, dirVars, TypeOK
  <2>3. /\ reply' \in [Conn -> {None, "accept", "refuse", "error", "done"}]
        /\ disturbances' \in 0..MaxDisturbances
    BY <1>20, BoundAssumption DEF ReadFails, FailHandler, TypeOK
  <2>4. QED
    BY <2>1, <2>2, <2>3, EndHandlerType DEF TypeOK
<1>21. ASSUME NEW c \in Conn, PlaceByRename(c) PROVE TypeOK'
  <2>1. Staged(c) \in Inode
    BY <1>21, KeyOfType DEF TypeOK, PlaceByRename, Staged
  <2>2. dest' \in [Name -> Inode \cup {NoInode}]
    BY <1>21, <2>1 DEF TypeOK, PlaceByRename
  <2>3. landed' \in [Conn -> File \cup {NoInode}]
    BY <1>21, <2>1 DEF TypeOK, PlaceByRename
  <2>4. part' \in [Key -> Inode \cup {NoInode}]
    BY <1>21, DropPartialType DEF TypeOK, PlaceByRename
  <2>5. QED
    BY <1>21, <2>2, <2>3, <2>4 DEF TypeOK, PlaceByRename, senderVars, receiverVars
<1>22. ASSUME NEW c \in Conn, PlaceByLink(c) PROVE TypeOK'
  <2>1. Staged(c) \in Inode
    BY <1>22, KeyOfType DEF TypeOK, PlaceByLink, Staged
  <2>2. dest' \in [Name -> Inode \cup {NoInode}]
    BY <1>22, <2>1 DEF TypeOK, PlaceByLink
  <2>3. landed' \in [Conn -> File \cup {NoInode}]
    BY <1>22, <2>1 DEF TypeOK, PlaceByLink
  <2>4. part' = part
    BY <1>22 DEF PlaceByLink
  <2>5. QED
    BY <1>22, <2>2, <2>3, <2>4 DEF TypeOK, PlaceByLink, senderVars, receiverVars
<1>23. ASSUME NEW c \in Conn, PlaceFails(c) PROVE TypeOK'
  <2>1. EndHandler(c, TRUE) /\ landed' = landed
    BY <1>23 DEF PlaceFails, FailHandler
  <2>2. dest' = dest /\ disk' = disk /\ part' \in [Key -> Inode \cup {NoInode}]
    BY <1>23 DEF PlaceFails, dirVars, TypeOK
  <2>3. /\ reply' \in [Conn -> {None, "accept", "refuse", "error", "done"}]
        /\ disturbances' \in 0..MaxDisturbances
    BY <1>23, BoundAssumption DEF PlaceFails, FailHandler, TypeOK
  <2>4. QED
    BY <2>1, <2>2, <2>3, EndHandlerType DEF TypeOK
<1>24. ASSUME NEW c \in Conn, Unlink(c) PROVE TypeOK'
  BY <1>24, DropPartialType
  DEF TypeOK, Unlink, dirVars, handlerVars, senderVars, receiverVars
<1>25. ASSUME NEW c \in Conn, Reply(c) PROVE TypeOK'
  <2>1. EndHandler(c, TRUE) /\ landed' = landed
    BY <1>25 DEF Reply
  <2>2. dest' = dest /\ disk' = disk /\ part' \in [Key -> Inode \cup {NoInode}]
    BY <1>25 DEF Reply, dirVars, TypeOK
  <2>3. /\ reply' \in [Conn -> {None, "accept", "refuse", "error", "done"}]
        /\ disturbances' \in 0..MaxDisturbances
    BY <1>25, BoundAssumption DEF Reply, TypeOK
  <2>4. QED
    BY <2>1, <2>2, <2>3, EndHandlerType DEF TypeOK
<1>26. ASSUME NEW c \in Conn, SeeAccept(c) PROVE TypeOK'
  BY <1>26, SizeAssumption
  DEF TypeOK, SeeAccept, dirVars, handlerVars, senderVars, receiverVars
<1>27. ASSUME NEW c \in Conn, SendBlock(c) PROVE TypeOK'
  BY <1>27, SizeAssumption
  DEF TypeOK, SendBlock, dirVars, handlerVars, senderVars, receiverVars
<1>28. ASSUME NEW c \in Conn, SendEof(c) PROVE TypeOK'
  BY <1>28
  DEF TypeOK, SendEof, dirVars, handlerVars, senderVars, receiverVars
<1>29. ASSUME NEW c \in Conn, SeeDone(c) PROVE TypeOK'
  BY <1>29, SizeAssumption
  DEF TypeOK, SeeDone, EndSend, dirVars, handlerVars, senderVars, receiverVars
<1>30. ASSUME NEW c \in Conn, SendFails(c) PROVE TypeOK'
  BY <1>30, SizeAssumption
  DEF TypeOK, SendFails, EndSend, dirVars, handlerVars, senderVars, receiverVars
<1>31. ASSUME NEW c \in Conn, Reject(c) PROVE TypeOK'
  <2>1. EndHandler(c, FALSE) /\ landed' = landed
    BY <1>31 DEF Reject
  <2>2. dest' = dest /\ disk' = disk /\ part' \in [Key -> Inode \cup {NoInode}]
    BY <1>31 DEF Reject, dirVars, TypeOK
  <2>3. /\ reply' \in [Conn -> {None, "accept", "refuse", "error", "done"}]
        /\ disturbances' \in 0..MaxDisturbances
    BY <1>31, BoundAssumption DEF Reject, TypeOK
  <2>4. QED
    BY <2>1, <2>2, <2>3, EndHandlerType DEF TypeOK
<1>32. ASSUME NEW c \in Conn, ReadTimesOut(c) PROVE TypeOK'
  <2>1. EndHandler(c, TRUE) /\ landed' = landed
    BY <1>32 DEF ReadTimesOut, FailHandler
  <2>2. dest' = dest /\ disk' = disk /\ part' \in [Key -> Inode \cup {NoInode}]
    BY <1>32 DEF ReadTimesOut, dirVars, TypeOK
  <2>3. /\ reply' \in [Conn -> {None, "accept", "refuse", "error", "done"}]
        /\ disturbances' \in 0..MaxDisturbances
    BY <1>32, BoundAssumption DEF ReadTimesOut, FailHandler, TypeOK
  <2>4. QED
    BY <2>1, <2>2, <2>3, EndHandlerType DEF TypeOK
<1>33. ASSUME NEW c \in Conn, IoFails(c) PROVE TypeOK'
  <2>1. EndHandler(c, TRUE) /\ landed' = landed
    BY <1>33 DEF IoFails, FailHandler
  <2>2. dest' = dest /\ disk' = disk /\ part' \in [Key -> Inode \cup {NoInode}]
    BY <1>33 DEF IoFails, dirVars, TypeOK
  <2>3. /\ reply' \in [Conn -> {None, "accept", "refuse", "error", "done"}]
        /\ disturbances' \in 0..MaxDisturbances
    BY <1>33, BoundAssumption DEF IoFails, FailHandler, TypeOK
  <2>4. QED
    BY <2>1, <2>2, <2>3, EndHandlerType DEF TypeOK
<1>34. ASSUME NEW c \in Conn, UnlinkFails(c) PROVE TypeOK'
  BY <1>34, BoundAssumption
  DEF TypeOK, UnlinkFails, dirVars, handlerVars, senderVars, receiverVars
<1>35. ASSUME NEW c \in Conn, Disconnect(c) PROVE TypeOK'
  BY <1>35, BoundAssumption, SizeAssumption
  DEF TypeOK, Disconnect, EndSend, dirVars, handlerVars, senderVars, receiverVars
<1>36. ASSUME NEW c \in Conn, SourceChanges(c) PROVE TypeOK'
  BY <1>36, BoundAssumption
  DEF TypeOK, SourceChanges, dirVars, handlerVars, senderVars, receiverVars
<1>37. ASSUME NEW c \in Conn, NEW keepPartial \in BOOLEAN, CancelTransfer(c, keepPartial) PROVE TypeOK'
  BY <1>37, BoundAssumption
  DEF TypeOK, CancelTransfer, dirVars, handlerVars, senderVars, receiverVars
<1>38. ASSUME NEW n \in Name, UserTakes(n) PROVE TypeOK'
  BY <1>38, BoundAssumption
  DEF TypeOK, UserTakes, dirVars, handlerVars, senderVars, receiverVars
<1>39. ASSUME NEW k \in Key, Sweep(k) PROVE TypeOK'
  BY <1>39, BoundAssumption
  DEF TypeOK, Sweep, dirVars, handlerVars, senderVars, receiverVars
<1>40. CASE UNCHANGED vars
  BY <1>40 DEF TypeOK, vars, dirVars, handlerVars, senderVars, receiverVars
<1>41. QED
  BY <1>1, <1>2, <1>3, <1>4, <1>5, <1>6, <1>7, <1>8, <1>9, <1>10, <1>11,
     <1>12, <1>13, <1>14, <1>15, <1>16, <1>17, <1>18, <1>19, <1>20, <1>21,
     <1>22, <1>23, <1>24, <1>25, <1>26, <1>27, <1>28, <1>29, <1>30, <1>31,
     <1>32, <1>33, <1>34, <1>35, <1>36, <1>37, <1>38, <1>39, <1>40
  DEF Next, Handle, Push, Trouble

\* Every variable stays in its range in every run of the protocol.
THEOREM TypeCorrect == Spec => []TypeOK
<1>1. Init => TypeOK
  BY InitType
<1>2. TypeOK /\ [Next]_vars => TypeOK'
  BY StepType
<1>3. QED
  BY <1>1, <1>2, PTL DEF Spec

-----------------------------------------------------------------------------
(* The inductive invariant behind the safety theorems.                     *)

\* The handler has a file open.
Holding(c) == rpc[c] \in {"truncate", "loop", "read", "place", "unlink", "reply"}
\* The handler may still write to, or is about to place, the file it has open.
Filling(c) == rpc[c] \in {"truncate", "loop", "read", "place"}

\* Who is being served: one peer at a time unless Receive loops, each with one
\* of its own offers, resumed no further than the file is long.
Admitted ==
  /\ \A c \in Conn : offer[c] \in Offers[c]
  /\ ~Loop => \A c, d \in Conn : c # d => Idle(c) \/ Idle(d)
  /\ \A c \in Conn : resumeAt[c] <= Total(c)

\* Which handler owns which file, and under which names it can be found.
OpenIffHolding == \A c \in Conn : fd[c] # NoInode <=> Holding(c)
PartialIsHeld ==
  \A c \in Conn : Holding(c) /\ Resumable(c) => part[KeyOf(c)] \in {fd[c], NoInode}
HeldByItsKey ==
  \A c \in Conn, k \in Key :
    fd[c] # NoInode /\ part[k] = fd[c] => Resumable(c) /\ k = KeyOf(c)
PartialsDiffer ==
  \A k, l \in Key : k # l /\ part[k] # NoInode => part[k] # part[l]
DestsDiffer ==
  \A n, m \in Name : n # m /\ dest[n] # NoInode => dest[n] # dest[m]
HandsOff ==
  \A c \in Conn, n \in Name : Filling(c) => fd[c] # dest[n]
\* A file delivered by link and not yet unlinked, because the handler has not
\* come to it, died before it or could not: nobody may open it as a partial.
AliasIsSealed ==
  \A n \in Name, k \in Key :
    dest[n] # NoInode /\ dest[n] = part[k] =>
      /\ ~overwrite
      /\ k[1] = n
      /\ \A c \in Conn :
           Resumable(c) /\ KeyOf(c) = k
           => rpc[c] \in {"idle", "hello", "stat", "unlink", "reply"}

Owned ==
  /\ OpenIffHolding /\ OneWriter /\ PartialIsHeld /\ HeldByItsKey
  /\ PartialsDiffer /\ DestsDiffer /\ HandsOff /\ AliasIsSealed

\* What the open file of a handler holds, as far as the handler has come.
Filled(c) ==
  LET f == disk[fd[c]] IN
  /\ rpc[c] = "open" => received[c] = 0
  /\ rpc[c] = "truncate" =>
       /\ Resumable(c) /\ received[c] = 0
       /\ f.size >= resumeAt[c]
       /\ good[c] => HasPrefix(f, resumeAt[c], offer[c].ver)
  /\ rpc[c] \in {"loop", "read"} =>
       /\ f.size = received[c] /\ received[c] <= Total(c)
       /\ IF Resumable(c) THEN good[c] => HasPrefix(f, received[c], offer[c].ver)
          ELSE \A p \in 1..received[c] : f.data[p] # Hole
  /\ rpc[c] = "place" =>
       IF Resumable(c) THEN IsWhole(f, offer[c].ver) ELSE IsComplete(f)
  /\ rpc[c] \in {"idle", "hello", "stat", "probe"} => received[c] = 0

Intact == LandedVerified /\ DestIntact /\ \A c \in Conn : Filled(c)

IInv == TypeOK /\ Admitted /\ Owned /\ Intact

-----------------------------------------------------------------------------
(* Steps that only forget: handlers that end, names that disappear, and    *)
(* steps of the senders, which touch none of this.                         *)

Forget ==
  /\ UNCHANGED <<overwrite, disk, offer, resumeAt, landed>>
  /\ \A c \in Conn :
       \/ /\ rpc'[c] = rpc[c] /\ fd'[c] = fd[c]
          /\ received'[c] = received[c] /\ good'[c] = good[c]
       \/ rpc'[c] = "idle" /\ fd'[c] = NoInode /\ received'[c] = 0
  /\ \A k \in Key : part'[k] \in {part[k], NoInode}
  /\ \A n \in Name : dest'[n] \in {dest[n], NoInode}

LEMMA EndForgets ==
  ASSUME TypeOK, NEW c \in Conn, NEW done \in BOOLEAN, EndHandler(c, done),
         UNCHANGED <<dest, disk, landed>>, part' = part \/ DropPartial(c)
  PROVE  Forget
<1>1. \A k \in Key : part'[k] \in {part[k], NoInode}
  BY DEF DropPartial, TypeOK
<1>2. QED
  BY <1>1 DEF EndHandler, Forget, TypeOK

\* The keys of two resumable pushes under way differ: this is all that
\* ExclusiveOffers is needed for.
LEMMA KeysDiffer ==
  ASSUME TypeOK, Admitted, ExclusiveOffers,
         NEW c \in Conn, NEW d \in Conn, c # d,
         ~Idle(c), ~Idle(d), Resumable(c), Resumable(d)
  PROVE  KeyOf(c) # KeyOf(d)
<1>1. Loop
  BY DEF Admitted
<1>2. offer[c] \in Offers[c] /\ offer[d] \in Offers[d]
  BY DEF Admitted
<1>3. QED
  BY <1>1, <1>2 DEF ExclusiveOffers, KeyOf, Resumable

LEMMA AdmittedKept ==
  ASSUME Admitted, UNCHANGED <<offer, resumeAt>>,
         \A c \in Conn : Idle(c) => Idle(c)'
  PROVE  Admitted'
BY DEF Admitted, Total

\* No owner changes as long as handlers only let go and names only disappear,
\* and nobody comes near a file that is delivered under the name it looks at.
LEMMA OwnedKept ==
  ASSUME TypeOK, Owned, UNCHANGED <<overwrite, offer>>,
         \A k \in Key : part'[k] \in {part[k], NoInode},
         \A n \in Name : dest'[n] \in {dest[n], NoInode},
         \A c \in Conn : \/ fd'[c] = fd[c] /\ (Holding(c)' <=> Holding(c))
                         \/ fd'[c] = NoInode /\ ~Holding(c)',
         \A c \in Conn : Filling(c)' => Filling(c),
         \A c \in Conn :
            \/ rpc'[c] \in {"idle", "hello", "stat", "unlink", "reply"}
            \/ ~(rpc[c] \in {"idle", "hello", "stat", "unlink", "reply"})
            \/ Resumable(c) =>
                \A n \in Name : dest[n] # NoInode => dest[n] # part[KeyOf(c)]
  PROVE  Owned'
<1>1. OpenIffHolding' /\ OneWriter'
  BY DEF Owned, OpenIffHolding, OneWriter
<1>2. \A c \in Conn : KeyOf(c) \in Key /\ KeyOf(c)' = KeyOf(c) /\ Resumable(c)' = Resumable(c)
  BY KeyOfType DEF KeyOf, Resumable
<1>3. \A c \in Conn : Holding(c)' => Holding(c) /\ fd'[c] = fd[c]
  OBVIOUS
<1>4. PartialIsHeld'
  BY <1>2, <1>3 DEF Owned, PartialIsHeld
<1>5. HeldByItsKey'
  BY <1>2 DEF Owned, HeldByItsKey
<1>6. PartialsDiffer' /\ DestsDiffer'
  BY DEF Owned, PartialsDiffer, DestsDiffer
<1>7. HandsOff'
  <2> SUFFICES ASSUME NEW c \in Conn, NEW n \in Name, Filling(c)'
               PROVE  fd'[c] # dest'[n]
    BY DEF HandsOff
  <2>1. Filling(c) /\ Holding(c)' /\ Holding(c)
    BY <1>3 DEF Filling, Holding
  <2>2. fd'[c] = fd[c] /\ fd[c] # NoInode
    BY <1>3, <2>1 DEF Owned, OpenIffHolding
  <2>3. QED
    BY <2>1, <2>2 DEF Owned, HandsOff
<1>8. AliasIsSealed'
  <2> SUFFICES ASSUME NEW n \in Name, NEW k \in Key,
                      dest'[n] # NoInode, dest'[n] = part'[k]
               PROVE  /\ ~overwrite /\ k[1] = n
                      /\ \A c \in Conn : Resumable(c) /\ KeyOf(c) = k =>
                           rpc'[c] \in {"idle", "hello", "stat", "unlink", "reply"}
    BY <1>2 DEF AliasIsSealed
  <2>1. dest[n] # NoInode /\ dest[n] = part[k]
    OBVIOUS
  <2>2. QED
    BY <2>1 DEF Owned, AliasIsSealed
<1>9. QED
  BY <1>1, <1>4, <1>5, <1>6, <1>7, <1>8 DEF Owned

LEMMA FilledKept ==
  ASSUME NEW c \in Conn, Filled(c),
         offer'[c] = offer[c], resumeAt'[c] = resumeAt[c], rpc'[c] = rpc[c],
         received'[c] = received[c], good'[c] = good[c], fd'[c] = fd[c],
         Filling(c) => disk'[fd[c]] = disk[fd[c]]
  PROVE  Filled(c)'
BY DEF Filled, Filling, HasPrefix, IsWhole, IsComplete, Resumable, Total

LEMMA DestKept ==
  ASSUME DestIntact,
         \A n \in Name : dest'[n] \in {dest[n], NoInode},
         \A n \in Name : dest[n] # NoInode => disk'[dest[n]] = disk[dest[n]]
  PROVE  DestIntact'
BY DEF DestIntact, IsComplete

LEMMA LandedKept ==
  ASSUME LandedVerified, UNCHANGED <<landed, offer>>
  PROVE  LandedVerified'
BY DEF LandedVerified, Resumable, IsWhole, IsComplete, HasPrefix

LEMMA ForgetKeeps ==
  ASSUME IInv, Forget
  PROVE  Admitted' /\ Owned' /\ Intact'
<1>1. Admitted'
  BY AdmittedKept DEF IInv, Forget, Idle
<1>2. Owned'
  BY OwnedKept DEF IInv, Forget, Holding, Filling
<1>3. Intact'
  <2>1. LandedVerified' /\ DestIntact'
    BY LandedKept, DestKept DEF IInv, Intact, Forget
  <2>2. ASSUME NEW c \in Conn PROVE Filled(c)'
    <3>1. CASE rpc'[c] = rpc[c] /\ fd'[c] = fd[c] /\ received'[c] = received[c] /\ good'[c] = good[c]
      BY <3>1, FilledKept DEF IInv, Intact, Forget
    <3>2. CASE rpc'[c] = "idle" /\ received'[c] = 0
      BY <3>2 DEF Filled
    <3>3. QED
      BY <3>1, <3>2 DEF Forget
  <2>3. QED
    BY <2>1, <2>2 DEF Intact
<1>4. QED
  BY <1>1, <1>2, <1>3

-----------------------------------------------------------------------------
(* The steps that build something, one lemma each.                         *)

LEMMA ConnectSafe ==
  ASSUME IInv, NEW c \in Conn, Connect(c)
  PROVE  Admitted' /\ Owned' /\ Intact'
<1> USE DEF IInv
<1>1. PICK o \in Offers[c] : offer' = [offer EXCEPT ![c] = o]
  BY DEF Connect
<1>2. /\ Idle(c) /\ o \in Offer
      /\ ~Loop => \A d \in Conn : Idle(d)
  BY OfferAssumption DEF Connect
<1>3. /\ rpc' = [rpc EXCEPT ![c] = "hello"]
      /\ resumeAt' = [resumeAt EXCEPT ![c] = 0]
      /\ landed' = [landed EXCEPT ![c] = NoInode]
      /\ UNCHANGED <<overwrite, dest, part, disk, received, fd, good>>
  BY DEF Connect, Goto, dirVars, receiverVars
<1>4. \A d \in Conn \ {c} : /\ offer'[d] = offer[d] /\ rpc'[d] = rpc[d]
                           /\ resumeAt'[d] = resumeAt[d] /\ landed'[d] = landed[d]
  BY <1>1, <1>3 DEF TypeOK
<1>5. /\ offer'[c] = o /\ rpc'[c] = "hello" /\ resumeAt'[c] = 0 /\ landed'[c] = NoInode
  BY <1>1, <1>3 DEF TypeOK
<1>6. Admitted'
  <2>1. 0 <= SizeOf[o.ver]
    BY <1>2, SizeAssumption DEF Offer
  <2>2. QED
    BY <1>2, <1>4, <1>5, <2>1 DEF Admitted, Total, Idle
<1>7. Owned'
  <2>1. OpenIffHolding' /\ OneWriter' /\ PartialIsHeld' /\ HandsOff'
    BY <1>2, <1>3, <1>4, <1>5
    DEF Owned, OpenIffHolding, OneWriter, PartialIsHeld, HandsOff,
        Holding, Filling, Idle, KeyOf, Resumable
  <2>2. HeldByItsKey'
    BY <1>2, <1>3, <1>4, <1>5
    DEF Owned, OpenIffHolding, HeldByItsKey, Holding, Idle, KeyOf, Resumable
  <2>3. PartialsDiffer' /\ DestsDiffer'
    BY <1>3 DEF Owned, PartialsDiffer, DestsDiffer
  <2>4. AliasIsSealed'
    BY <1>3, <1>4, <1>5 DEF Owned, AliasIsSealed, KeyOf, Resumable
  <2>5. QED
    BY <2>1, <2>2, <2>3, <2>4 DEF Owned
<1>8. Intact'
  <2>1. LandedVerified'
    BY <1>4, <1>5
    DEF Intact, LandedVerified, Resumable, IsWhole, IsComplete, HasPrefix
  <2>2. DestIntact'
    BY <1>3, DestKept DEF Intact
  <2>3. ASSUME NEW d \in Conn PROVE Filled(d)'
    <3>1. CASE d = c
      BY <1>2, <1>3, <1>5, <3>1 DEF Intact, Filled, Idle
    <3>2. CASE d # c
      BY <1>3, <1>4, <3>2, FilledKept DEF Intact
    <3>3. QED
      BY <3>1, <3>2
  <2>4. QED
    BY <2>1, <2>2, <2>3 DEF Intact
<1>9. QED
  BY <1>6, <1>7, <1>8

\* A handler that goes from one place to another and touches no file.
LEMMA GotoSafe ==
  ASSUME IInv, NEW c \in Conn, NEW at, rpc' = [rpc EXCEPT ![c] = at],
         UNCHANGED <<overwrite, dest, disk, received, fd, good, offer, landed>>,
         \A k \in Key : part'[k] \in {part[k], NoInode},
         ~Idle(c), at # "idle",
         Holding(c)' <=> Holding(c), Filling(c)' => Filling(c),
         \/ at \in {"hello", "stat", "unlink", "reply"}
         \/ ~(rpc[c] \in {"hello", "stat", "unlink", "reply"})
         \/ Resumable(c) => \A n \in Name : dest[n] # NoInode => dest[n] # part[KeyOf(c)],
         \A d \in Conn \ {c} : resumeAt'[d] = resumeAt[d],
         resumeAt'[c] <= Total(c),
         Filled(c)'
  PROVE  Admitted' /\ Owned' /\ Intact'
<1> USE DEF IInv
<1>1. rpc'[c] = at /\ \A d \in Conn \ {c} : rpc'[d] = rpc[d]
  BY DEF TypeOK
<1>2. Admitted'
  BY <1>1 DEF Admitted, Total, Idle
<1>3. Owned'
  <2>1. \A d \in Conn : Holding(d)' <=> Holding(d)
    BY <1>1 DEF Holding
  <2>2. \A d \in Conn : Filling(d)' => Filling(d)
    BY <1>1 DEF Filling
  <2>3. QED
    BY <1>1, <2>1, <2>2, OwnedKept DEF Idle
<1>4. Intact'
  <2>1. LandedVerified' /\ DestIntact'
    BY LandedKept, DestKept DEF Intact
  <2>2. ASSUME NEW d \in Conn, d # c PROVE Filled(d)'
    BY <1>1, <2>2, FilledKept DEF Intact
  <2>3. QED
    BY <2>1, <2>2 DEF Intact
<1>5. QED
  BY <1>2, <1>3, <1>4

\* A handler opens file i, a new one or the partial of its key, which nobody
\* else has open and no delivered name refers to.
LEMMA OpenOwned ==
  ASSUME IInv, NEW c \in Conn, NEW i \in Inode, NEW at \in {"truncate", "loop"},
         rpc[c] = "open", rpc' = [rpc EXCEPT ![c] = at], fd' = [fd EXCEPT ![c] = i],
         UNCHANGED <<overwrite, dest, offer>>,
         \A d \in Conn : fd[d] # i,
         \A n \in Name : dest[n] # i,
         \A k \in Key : part'[k] = part[k] \/ (Resumable(c) /\ k = KeyOf(c) /\ part'[k] = i),
         Resumable(c) => part'[KeyOf(c)] = i,
         \A k \in Key : part[k] = i => Resumable(c) /\ k = KeyOf(c),
         \A d \in Conn \ {c} : ~Idle(d) /\ Resumable(c) /\ Resumable(d) => KeyOf(c) # KeyOf(d)
  PROVE  Owned'
<1> USE DEF IInv
<1>1. /\ rpc'[c] = at /\ fd'[c] = i
      /\ \A d \in Conn \ {c} : rpc'[d] = rpc[d] /\ fd'[d] = fd[d]
      /\ i # NoInode
  BY TokenAssumption DEF TypeOK
<1>2. \A d \in Conn : /\ KeyOf(d) \in Key
                      /\ KeyOf(d)' = KeyOf(d) /\ Resumable(d)' = Resumable(d)
  BY KeyOfType DEF KeyOf, Resumable
<1>3. OpenIffHolding' /\ OneWriter'
  BY <1>1 DEF Owned, OpenIffHolding, OneWriter, Holding
<1>4. PartialIsHeld'
  <2> SUFFICES ASSUME NEW d \in Conn, Holding(d)', Resumable(d)
               PROVE  part'[KeyOf(d)] \in {fd'[d], NoInode}
    BY <1>2 DEF PartialIsHeld
  <2>1. CASE d = c
    BY <1>1, <2>1
  <2>2. CASE d # c
    <3>1. Holding(d) /\ ~Idle(d)
      BY <1>1, <2>2 DEF Holding, Idle
    <3>2. part'[KeyOf(d)] = part[KeyOf(d)]
      BY <1>2, <2>2, <3>1
    <3>3. QED
      BY <1>1, <2>2, <3>1, <3>2 DEF Owned, PartialIsHeld
  <2>3. QED
    BY <2>1, <2>2
<1>5. HeldByItsKey'
  BY <1>1, <1>2 DEF Owned, HeldByItsKey
<1>6. PartialsDiffer' /\ DestsDiffer'
  BY DEF Owned, PartialsDiffer, DestsDiffer
<1>7. HandsOff'
  BY <1>1 DEF Owned, HandsOff, Filling
<1>8. AliasIsSealed'
  <2> SUFFICES ASSUME NEW n \in Name, NEW k \in Key,
                      dest'[n] # NoInode, dest'[n] = part'[k]
               PROVE  /\ ~overwrite /\ k[1] = n
                      /\ \A d \in Conn : Resumable(d) /\ KeyOf(d) = k =>
                           rpc'[d] \in {"idle", "hello", "stat", "unlink", "reply"}
    BY <1>2 DEF AliasIsSealed
  <2>1. dest[n] # NoInode /\ dest[n] = part[k]
    OBVIOUS
  <2>2. /\ ~overwrite /\ k[1] = n
        /\ \A d \in Conn : Resumable(d) /\ KeyOf(d) = k =>
             rpc[d] \in {"idle", "hello", "stat", "unlink", "reply"}
    BY <2>1 DEF Owned, AliasIsSealed
  <2>3. ~(Resumable(c) /\ KeyOf(c) = k)
    BY <2>2
  <2>4. QED
    BY <1>1, <2>2, <2>3
<1>9. QED
  BY <1>3, <1>4, <1>5, <1>6, <1>7, <1>8 DEF Owned

\* The same, for what the files hold: only file i changes, and what the handler
\* then has is as its place says.
LEMMA OpenIntact ==
  ASSUME IInv, NEW c \in Conn, NEW i \in Inode, NEW at,
         rpc' = [rpc EXCEPT ![c] = at], fd' = [fd EXCEPT ![c] = i],
         UNCHANGED <<dest, offer, resumeAt, received, landed>>,
         \A d \in Conn \ {c} : good'[d] = good[d],
         \A d \in Conn : fd[d] # i,
         \A n \in Name : dest[n] # i,
         \A j \in Inode : j # i => disk'[j] = disk[j],
         Filled(c)'
  PROVE  Intact'
<1> USE DEF IInv
<1>1. \A d \in Conn \ {c} : rpc'[d] = rpc[d] /\ fd'[d] = fd[d]
  BY DEF TypeOK
<1>2. LandedVerified'
  BY LandedKept DEF Intact
<1>3. DestIntact'
  <2>1. \A n \in Name : dest[n] # NoInode => disk'[dest[n]] = disk[dest[n]]
    BY DEF TypeOK
  <2>2. QED
    BY <2>1, DestKept DEF Intact
<1>4. ASSUME NEW d \in Conn, d # c PROVE Filled(d)'
  <2>1. Filling(d) => disk'[fd[d]] = disk[fd[d]]
    BY DEF TypeOK, Owned, OpenIffHolding, Holding, Filling
  <2>2. QED
    BY <1>1, <1>4, <2>1, FilledKept DEF Intact
<1>5. QED
  BY <1>2, <1>3, <1>4 DEF Intact

LEMMA OpenTempSafe ==
  ASSUME IInv, NEW c \in Conn, OpenTemp(c)
  PROVE  Admitted' /\ Owned' /\ Intact'
<1> USE DEF IInv
<1>1. PICK i \in Inode : /\ Fresh(i)
                         /\ disk' = [disk EXCEPT ![i] = NoFile]
                         /\ fd' = [fd EXCEPT ![c] = i]
  BY DEF OpenTemp
<1>2. /\ rpc[c] = "open" /\ ~Resumable(c) /\ rpc' = [rpc EXCEPT ![c] = "loop"]
      /\ UNCHANGED <<overwrite, dest, part, received, good, offer, resumeAt, landed>>
  BY DEF OpenTemp, Goto, receiverVars
<1>3. Admitted'
  BY <1>2, AdmittedKept DEF TypeOK, Idle
<1>4. Owned'
  BY <1>1, <1>2, OpenOwned DEF Fresh
<1>5. Filled(c)'
  <2>1. /\ disk'[i] = NoFile /\ fd'[c] = i /\ received[c] = 0 /\ 0 <= Total(c)
        /\ rpc'[c] = "loop"
    BY <1>1, <1>2, KeyOfType DEF TypeOK, Intact, Filled
  <2>2. NoFile.size = 0
    BY DEF NoFile
  <2>3. QED
    BY <1>2, <2>1, <2>2 DEF Filled, Resumable, Total
<1>6. Intact'
  BY <1>1, <1>2, <1>5, OpenIntact DEF Fresh, TypeOK
<1>7. QED
  BY <1>3, <1>4, <1>6

\* The partial a handler finds under its key is nobody else's and is not (also) a
\* delivered file: the handler has passed the check for an existing file.
LEMMA FoundPartial ==
  ASSUME IInv, ExclusiveOffers, NEW c \in Conn, rpc[c] = "open", Resumable(c),
         part[KeyOf(c)] # NoInode
  PROVE  /\ part[KeyOf(c)] \in Inode
         /\ \A d \in Conn : fd[d] # part[KeyOf(c)]
         /\ \A n \in Name : dest[n] # part[KeyOf(c)]
         /\ \A k \in Key : part[k] = part[KeyOf(c)] => k = KeyOf(c)
<1> USE DEF IInv
<1>1. KeyOf(c) \in Key /\ part[KeyOf(c)] \in Inode
  BY KeyOfType DEF TypeOK
<1>2. ASSUME NEW d \in Conn PROVE fd[d] # part[KeyOf(c)]
  <2>1. SUFFICES ASSUME fd[d] = part[KeyOf(c)] PROVE FALSE
    OBVIOUS
  <2>2. Resumable(d) /\ KeyOf(d) = KeyOf(c) /\ Holding(d)
    BY <1>1, <2>1 DEF Owned, HeldByItsKey, OpenIffHolding
  <2>3. d # c /\ ~Idle(c) /\ ~Idle(d)
    BY <2>2 DEF Holding, Idle
  <2>4. QED
    BY <2>2, <2>3, KeysDiffer
<1>3. ASSUME NEW n \in Name PROVE dest[n] # part[KeyOf(c)]
  BY <1>1 DEF Owned, AliasIsSealed
<1>4. ASSUME NEW k \in Key, part[k] = part[KeyOf(c)] PROVE k = KeyOf(c)
  BY <1>1, <1>4 DEF Owned, PartialsDiffer
<1>5. QED
  BY <1>1, <1>2, <1>3, <1>4

LEMMA OpenFreshSafe ==
  ASSUME IInv, ExclusiveOffers, NEW c \in Conn, OpenFresh(c)
  PROVE  Admitted' /\ Owned' /\ Intact'
<1> USE DEF IInv
<1>1. PICK i \in Inode :
        /\ IF part[KeyOf(c)] = NoInode THEN Fresh(i) ELSE i = part[KeyOf(c)]
        /\ part' = [part EXCEPT ![KeyOf(c)] = i]
        /\ disk' = [disk EXCEPT ![i] = NoFile]
        /\ fd' = [fd EXCEPT ![c] = i]
  BY DEF OpenFresh
<1>2. /\ rpc[c] = "open" /\ Resumable(c) /\ rpc' = [rpc EXCEPT ![c] = "loop"]
      /\ UNCHANGED <<overwrite, dest, received, good, offer, resumeAt, landed>>
  BY DEF OpenFresh, Goto, receiverVars
<1>3. /\ \A d \in Conn : fd[d] # i
      /\ \A n \in Name : dest[n] # i
      /\ \A k \in Key : part[k] = i => k = KeyOf(c)
  BY <1>1, <1>2, FoundPartial DEF Fresh
<1>4. Admitted'
  BY <1>2, AdmittedKept DEF TypeOK, Idle
<1>5. Owned'
  <2>1. \A d \in Conn \ {c} : ~Idle(d) /\ Resumable(c) /\ Resumable(d) => KeyOf(c) # KeyOf(d)
    BY <1>2, KeysDiffer DEF Idle
  <2>2. KeyOf(c) \in Key /\ part'[KeyOf(c)] = i /\ \A k \in Key \ {KeyOf(c)} : part'[k] = part[k]
    BY <1>1, KeyOfType DEF TypeOK
  <2>3. \A k \in Key : part'[k] = part[k] \/ (Resumable(c) /\ k = KeyOf(c) /\ part'[k] = i)
    BY <1>2, <2>2
  <2>4. fd' = [fd EXCEPT ![c] = i] /\ part'[KeyOf(c)] = i
    BY <1>1, <2>2
  <2>5. QED
    BY <1>2, <1>3, <2>1, <2>3, <2>4, OpenOwned
<1>6. Filled(c)'
  <2>1. /\ disk'[i] = NoFile /\ fd'[c] = i /\ received[c] = 0 /\ 0 <= Total(c)
        /\ rpc'[c] = "loop"
    BY <1>1, <1>2, KeyOfType DEF TypeOK, Intact, Filled
  <2>2. NoFile.size = 0
    BY DEF NoFile
  <2>3. QED
    BY <1>2, <2>1, <2>2 DEF Filled, Resumable, Total, HasPrefix
<1>7. Intact'
  BY <1>1, <1>2, <1>3, <1>6, OpenIntact DEF TypeOK
<1>8. QED
  BY <1>4, <1>5, <1>7

LEMMA OpenResumeSafe ==
  ASSUME IInv, ExclusiveOffers, NEW c \in Conn, OpenResume(c)
  PROVE  Admitted' /\ Owned' /\ Intact'
<1> USE DEF IInv
<1> DEFINE i == part[KeyOf(c)]
<1>1. /\ rpc[c] = "open" /\ Resumable(c) /\ i # NoInode
      /\ disk[i].size >= resumeAt[c]
      /\ fd' = [fd EXCEPT ![c] = i]
      /\ good' = [good EXCEPT ![c] = HasPrefix(disk[i], resumeAt[c], offer[c].ver)]
      /\ rpc' = [rpc EXCEPT ![c] = "truncate"]
      /\ UNCHANGED <<overwrite, dest, part, disk, received, offer, resumeAt, landed>>
  BY DEF OpenResume, Goto, receiverVars, dirVars
<1>2. /\ i \in Inode
      /\ \A d \in Conn : fd[d] # i
      /\ \A n \in Name : dest[n] # i
      /\ \A k \in Key : part[k] = i => k = KeyOf(c)
  BY <1>1, FoundPartial
<1> HIDE DEF i
<1>3. Admitted'
  BY <1>1, AdmittedKept DEF TypeOK, Idle
<1>4. Owned'
  <2>1. \A d \in Conn \ {c} : ~Idle(d) /\ Resumable(c) /\ Resumable(d) => KeyOf(c) # KeyOf(d)
    BY <1>1, KeysDiffer DEF Idle
  <2>2. part'[KeyOf(c)] = i
    BY <1>1 DEF i
  <2>3. QED
    BY <1>1, <1>2, <2>1, <2>2, OpenOwned
<1>5. Filled(c)'
  <2>1. received[c] = 0
    BY <1>1 DEF Intact, Filled
  <2>2. fd'[c] = i /\ rpc'[c] = "truncate" /\ good'[c] = HasPrefix(disk[i], resumeAt[c], offer[c].ver)
    BY <1>1 DEF TypeOK
  <2>3. offer'[c] = offer[c] /\ resumeAt'[c] = resumeAt[c] /\ disk'[i] = disk[i]
    BY <1>1
  <2>4. good'[c] => HasPrefix(disk'[i], resumeAt[c], offer[c].ver)
    BY <2>2, <2>3
  <2>5. QED
    BY <1>1, <2>1, <2>2, <2>3, <2>4 DEF Filled, Resumable, HasPrefix
<1>6. Intact'
  BY <1>1, <1>2, <1>5, OpenIntact DEF TypeOK
<1>7. QED
  BY <1>3, <1>4, <1>6

\* A handler changes the file it is filling, and nothing but that file.
LEMMA WriteSafe ==
  ASSUME IInv, NEW c \in Conn, NEW at \in {"loop"}, rpc[c] \in {"truncate", "read"},
         rpc' = [rpc EXCEPT ![c] = at],
         UNCHANGED <<overwrite, dest, part, fd, offer, resumeAt, landed>>,
         \A d \in Conn \ {c} : good'[d] = good[d] /\ received'[d] = received[d],
         \A j \in Inode : j # fd[c] => disk'[j] = disk[j],
         Filled(c)'
  PROVE  Admitted' /\ Owned' /\ Intact'
<1> USE DEF IInv
<1>1. rpc'[c] = "loop" /\ \A d \in Conn \ {c} : rpc'[d] = rpc[d]
  BY DEF TypeOK
<1>2. Filling(c) /\ Holding(c) /\ fd[c] # NoInode
  BY DEF Filling, Holding, Owned, OpenIffHolding
<1>3. Admitted'
  BY <1>1, AdmittedKept DEF Idle
<1>4. Owned'
  BY <1>1, <1>2, OwnedKept DEF Holding, Filling
<1>5. LandedVerified'
  BY LandedKept DEF Intact
<1>6. DestIntact'
  <2>1. \A n \in Name : dest[n] # NoInode => disk'[dest[n]] = disk[dest[n]]
    BY <1>2 DEF TypeOK, Owned, HandsOff
  <2>2. QED
    BY <2>1, DestKept DEF Intact
<1>7. ASSUME NEW d \in Conn, d # c PROVE Filled(d)'
  <2>1. Filling(d) => disk'[fd[d]] = disk[fd[d]]
    BY <1>2, <1>7 DEF TypeOK, Owned, OpenIffHolding, OneWriter, Holding, Filling
  <2>2. QED
    BY <1>1, <1>7, <2>1, FilledKept DEF Intact
<1>8. QED
  BY <1>3, <1>4, <1>5, <1>6, <1>7 DEF Intact

LEMMA TruncatePartialSafe ==
  ASSUME IInv, NEW c \in Conn, TruncatePartial(c)
  PROVE  Admitted' /\ Owned' /\ Intact'
<1> USE DEF IInv
<1>1. /\ rpc[c] = "truncate" /\ rpc' = [rpc EXCEPT ![c] = "loop"]
      /\ disk' = [disk EXCEPT ![fd[c]] = CutTo(disk[fd[c]], resumeAt[c])]
      /\ received' = [received EXCEPT ![c] = resumeAt[c]]
      /\ UNCHANGED <<overwrite, dest, part, fd, good, offer, resumeAt, landed>>
  BY DEF TruncatePartial, Goto, receiverVars
<1>2. fd[c] \in Inode
  BY <1>1 DEF TypeOK, Owned, OpenIffHolding, Holding
<1>3. /\ rpc'[c] = "loop" /\ received'[c] = resumeAt[c]
      /\ disk'[fd[c]] = CutTo(disk[fd[c]], resumeAt[c])
      /\ resumeAt[c] \in 0..MaxSize /\ resumeAt[c] <= Total(c)
  BY <1>1, <1>2 DEF TypeOK, Admitted
<1>4. Resumable(c) /\ (good[c] => HasPrefix(disk[fd[c]], resumeAt[c], offer[c].ver))
  BY <1>1 DEF Intact, Filled
<1>5. good[c] => HasPrefix(disk'[fd[c]], resumeAt[c], offer[c].ver)
  BY <1>3, <1>4, SizeAssumption DEF HasPrefix, CutTo
<1>6. disk'[fd[c]].size = resumeAt[c]
  BY <1>3 DEF CutTo
<1>7. Filled(c)'
  BY <1>1, <1>3, <1>4, <1>5, <1>6 DEF Filled, Resumable, Total, HasPrefix
<1>8. QED
  BY <1>1, <1>7, WriteSafe DEF TypeOK

LEMMA TakeBlockSafe ==
  ASSUME IInv, NEW c \in Conn, TakeBlock(c)
  PROVE  Admitted' /\ Owned' /\ Intact'
<1> USE DEF IInv
<1> DEFINE f == disk[fd[c]]
           r == received[c]
<1>1. /\ rpc[c] = "read" /\ rpc' = [rpc EXCEPT ![c] = "loop"]
      /\ wire[c] \in Version /\ r < Total(c)
      /\ disk' = [disk EXCEPT ![fd[c]] = WriteAt(f, r + 1, wire[c])]
      /\ received' = [received EXCEPT ![c] = r + 1]
      /\ good' = [good EXCEPT ![c] = good[c] /\ wire[c] = offer[c].ver]
      /\ UNCHANGED <<overwrite, dest, part, fd, offer, resumeAt, landed>>
  BY DEF TakeBlock, Goto, receiverVars
<1>2. fd[c] \in Inode
  BY <1>1 DEF TypeOK, Owned, OpenIffHolding, Holding
<1>3. /\ rpc'[c] = "loop" /\ received'[c] = r + 1
      /\ disk'[fd[c]] = WriteAt(f, r + 1, wire[c])
      /\ good'[c] <=> good[c] /\ wire[c] = offer[c].ver
  BY <1>1, <1>2 DEF TypeOK
<1>4. f \in File /\ r \in 0..MaxSize /\ Total(c) \in 0..MaxSize /\ r + 1 \in 1..MaxSize
  BY <1>1, <1>2, KeyOfType, SizeAssumption DEF TypeOK
<1>5. /\ f.size = r
      /\ IF Resumable(c) THEN good[c] => HasPrefix(f, r, offer[c].ver)
         ELSE \A p \in 1..r : f.data[p] # Hole
  BY <1>1 DEF Intact, Filled
<1>6. disk'[fd[c]].size = r + 1
  BY <1>3, <1>4, <1>5, SizeAssumption DEF WriteAt
<1>7. /\ disk'[fd[c]].data[r + 1] = wire[c]
      /\ \A p \in 1..r : disk'[fd[c]].data[p] = f.data[p]
  BY <1>3, <1>4, SizeAssumption DEF WriteAt, File
<1>8. Resumable(c) => (good'[c] => HasPrefix(disk'[fd[c]], r + 1, offer[c].ver))
  <2> SUFFICES ASSUME Resumable(c), good'[c], NEW p \in 1..(r + 1)
               PROVE  disk'[fd[c]].data[p] = offer[c].ver
    BY DEF HasPrefix
  <2>1. CASE p = r + 1
    BY <1>3, <1>7, <2>1
  <2>2. CASE p # r + 1
    <3>1. p \in 1..r
      BY <1>4, <2>2, SizeAssumption
    <3>2. QED
      BY <1>3, <1>5, <1>7, <3>1 DEF HasPrefix
  <2>3. QED
    BY <2>1, <2>2
<1>9. ~Resumable(c) => \A p \in 1..(r + 1) : disk'[fd[c]].data[p] # Hole
  <2> SUFFICES ASSUME ~Resumable(c), NEW p \in 1..(r + 1)
               PROVE  disk'[fd[c]].data[p] # Hole
    OBVIOUS
  <2>1. CASE p = r + 1
    BY <1>1, <1>7, <2>1, TokenAssumption, HoleAssumption
  <2>2. CASE p # r + 1
    <3>1. p \in 1..r
      BY <1>4, <2>2, SizeAssumption
    <3>2. QED
      BY <1>5, <1>7, <3>1
  <2>3. QED
    BY <2>1, <2>2
<1>10. r + 1 <= Total(c)
  BY <1>1, <1>4, SizeAssumption
<1>11. Filled(c)'
  <2>1. fd'[c] = fd[c] /\ offer'[c] = offer[c]
    BY <1>1
  <2> HIDE DEF f, r
  <2>2. QED
    BY <1>3, <1>6, <1>8, <1>9, <1>10, <2>1 DEF Filled, Resumable, Total, HasPrefix
<1>12. QED
  BY <1>1, <1>11, WriteSafe DEF TypeOK

\* What placeFile places is the file the handler filled, although it finds it by
\* its name, and no delivered name refers to that file yet.
LEMMA StagedIsOwn ==
  ASSUME IInv, NEW c \in Conn, rpc[c] = "place", Staged(c) # NoInode
  PROVE  /\ Staged(c) = fd[c] /\ fd[c] \in Inode
         /\ \A n \in Name : dest[n] # fd[c]
         /\ \A k \in Key : part[k] = fd[c] => Resumable(c) /\ k = KeyOf(c)
         /\ IF Resumable(c) THEN IsWhole(disk[fd[c]], offer[c].ver)
                            ELSE IsComplete(disk[fd[c]])
<1> USE DEF IInv
<1>1. Holding(c) /\ Filling(c)
  BY DEF Holding, Filling
<1>2. fd[c] \in Inode
  BY <1>1 DEF TypeOK, Owned, OpenIffHolding
<1>3. Staged(c) = fd[c]
  BY <1>1 DEF Staged, Owned, PartialIsHeld
<1>4. \A n \in Name : dest[n] # fd[c]
  BY <1>1 DEF Owned, HandsOff
<1>5. \A k \in Key : part[k] = fd[c] => Resumable(c) /\ k = KeyOf(c)
  BY <1>2, TokenAssumption DEF Owned, HeldByItsKey
<1>6. QED
  BY <1>2, <1>3, <1>4, <1>5 DEF Intact, Filled

LEMMA PlaceSafe ==
  ASSUME IInv, ExclusiveOffers, NEW c \in Conn, NEW at \in {"unlink", "reply"},
         rpc[c] = "place", Staged(c) # NoInode,
         rpc' = [rpc EXCEPT ![c] = at],
         dest' = [dest EXCEPT ![offer[c].name] = Staged(c)],
         landed' = [landed EXCEPT ![c] = disk[Staged(c)]],
         UNCHANGED <<overwrite, disk, received, fd, good, offer, resumeAt>>,
         \A k \in Key : part'[k] \in {part[k], NoInode},
         \/ at = "unlink" /\ ~overwrite
         \/ Resumable(c) => part'[KeyOf(c)] = NoInode
  PROVE  Admitted' /\ Owned' /\ Intact'
<1> USE DEF IInv
<1> DEFINE n == offer[c].name
<1>1. /\ Staged(c) = fd[c] /\ fd[c] \in Inode
      /\ \A m \in Name : dest[m] # fd[c]
      /\ \A k \in Key : part[k] = fd[c] => Resumable(c) /\ k = KeyOf(c)
      /\ IF Resumable(c) THEN IsWhole(disk[fd[c]], offer[c].ver)
                         ELSE IsComplete(disk[fd[c]])
  BY StagedIsOwn
<1>2. /\ rpc'[c] = at /\ \A d \in Conn \ {c} : rpc'[d] = rpc[d]
      /\ landed'[c] = disk[fd[c]] /\ \A d \in Conn \ {c} : landed'[d] = landed[d]
  BY <1>1 DEF TypeOK
<1>3. /\ n \in Name /\ offer[c].ver \in Version
      /\ dest'[n] = fd[c] /\ \A m \in Name \ {n} : dest'[m] = dest[m]
  BY <1>1 DEF TypeOK, Offer
<1>4. Holding(c) /\ Filling(c)
  BY DEF Holding, Filling
<1>5. \A d \in Conn : KeyOf(d) \in Key /\ KeyOf(d)' = KeyOf(d) /\ Resumable(d)' = Resumable(d)
  BY KeyOfType DEF KeyOf, Resumable
<1>6. Admitted'
  BY <1>2, AdmittedKept DEF Idle
<1>7. Owned'
  <2>1. \A d \in Conn : (Holding(d)' <=> Holding(d)) /\ (Filling(d)' => Filling(d) /\ d # c)
    BY <1>2, <1>4 DEF Holding, Filling
  <2>2. OpenIffHolding' /\ OneWriter'
    BY <2>1 DEF Owned, OpenIffHolding, OneWriter
  <2>3. PartialIsHeld' /\ HeldByItsKey'
    BY <1>5, <2>1, TokenAssumption, <1>1 DEF Owned, PartialIsHeld, HeldByItsKey
  <2>4. PartialsDiffer' /\ DestsDiffer'
    BY <1>1, <1>3 DEF Owned, PartialsDiffer, DestsDiffer
  <2>5. HandsOff'
    <3> SUFFICES ASSUME NEW d \in Conn, NEW m \in Name, Filling(d)'
                 PROVE  fd[d] # dest'[m]
      BY DEF HandsOff
    <3>1. Filling(d) /\ d # c /\ fd[d] # NoInode
      BY <2>1 DEF Owned, OpenIffHolding, Filling, Holding
    <3>2. fd[d] # fd[c]
      BY <3>1 DEF Owned, OneWriter
    <3>3. QED
      BY <1>3, <3>1, <3>2 DEF Owned, HandsOff
  <2>6. AliasIsSealed'
    <3> SUFFICES ASSUME NEW m \in Name, NEW k \in Key,
                        dest'[m] # NoInode, dest'[m] = part'[k]
                 PROVE  /\ ~overwrite /\ k[1] = m
                        /\ \A d \in Conn : Resumable(d) /\ KeyOf(d) = k =>
                             rpc'[d] \in {"idle", "hello", "stat", "unlink", "reply"}
      BY <1>5 DEF AliasIsSealed
    <3>1. dest'[m] = part[k]
      OBVIOUS
    <3>2. CASE m = n
      <4>1. Resumable(c) /\ k = KeyOf(c) /\ at = "unlink" /\ ~overwrite
        BY <1>1, <1>3, <3>1, <3>2
      <4>2. k[1] = m
        BY <3>2, <4>1 DEF KeyOf
      <4>3. ASSUME NEW d \in Conn, Resumable(d), KeyOf(d) = k, d # c PROVE Idle(d)
        <5>1. ~Idle(c)
          BY DEF Idle
        <5>2. QED
          BY <4>1, <4>3, <5>1, KeysDiffer
      <4>4. QED
        BY <1>2, <4>1, <4>2, <4>3 DEF Idle
    <3>3. CASE m # n
      <4>1. dest[m] # NoInode /\ dest[m] = part[k]
        BY <1>3, <3>1, <3>3
      <4>2. QED
        BY <1>2, <4>1 DEF Owned, AliasIsSealed
    <3>4. QED
      BY <3>2, <3>3
  <2>7. QED
    BY <2>2, <2>3, <2>4, <2>5, <2>6 DEF Owned
<1>8. LandedVerified'
  BY <1>1, <1>2 DEF Intact, LandedVerified, Resumable, IsWhole, IsComplete, HasPrefix
<1>9. DestIntact'
  <2>1. IsComplete(disk[fd[c]])
    <3>1. CASE Resumable(c)
      <4>1. disk[fd[c]].size = SizeOf[offer[c].ver]
        BY <1>1, <3>1 DEF IsWhole
      <4>2. \A p \in 1..disk[fd[c]].size : disk[fd[c]].data[p] = offer[c].ver
        BY <1>1, <3>1 DEF IsWhole, HasPrefix
      <4>3. QED
        BY <1>3, <4>1, <4>2, TokenAssumption, HoleAssumption DEF IsComplete
    <3>2. QED
      BY <1>1, <3>1
  <2>2. QED
    BY <1>3, <2>1 DEF Intact, DestIntact, IsComplete
<1>10. ASSUME NEW d \in Conn PROVE Filled(d)'
  <2>1. CASE d = c
    BY <1>2, <2>1 DEF Filled
  <2>2. CASE d # c
    BY <1>2, <2>2, FilledKept DEF Intact
  <2>3. QED
    BY <2>1, <2>2
<1>11. QED
  BY <1>6, <1>7, <1>8, <1>9, <1>10 DEF Intact

LEMMA ResumeOffsetBound ==
  ASSUME TypeOK, NEW c \in Conn
  PROVE  ResumeOffset(KeyOf(c)) <= Total(c)
BY KeyOfType, SizeAssumption DEF ResumeOffset, TypeOK, File, Key, KeyOf, Total

\* Every step of the protocol preserves the invariant, as long as no two peers
\* push the same content at a time and the overwrite mode is never changed.
LEMMA StepSafe ==
  ASSUME IInv, ExclusiveOffers, ~ModeMayChange, [Next]_vars
  PROVE  Admitted' /\ Owned' /\ Intact'
<1> DEFINE Safe == Admitted' /\ Owned' /\ Intact'
<1>0. TypeOK
  BY DEF IInv
<1> USE DEF Goto
<1>1. ASSUME StartReceive PROVE Safe
  <2>1. Forget
    BY <1>1, <1>0 DEF StartReceive, Forget, TypeOK, dirVars, handlerVars, senderVars, receiverVars
  <2>2. QED
    BY <2>1, ForgetKeeps
<1>2. ASSUME CancelReceive PROVE Safe
  <2>1. Forget
    BY <1>2, <1>0 DEF CancelReceive, Forget, TypeOK, dirVars, handlerVars, senderVars, receiverVars
  <2>2. QED
    BY <2>1, ForgetKeeps
<1>3. ASSUME Crash PROVE Safe
  <2>1. Forget
    BY <1>3, <1>0 DEF Crash, Forget, TypeOK, dirVars, handlerVars, senderVars, receiverVars
  <2>2. QED
    BY <2>1, ForgetKeeps
<1>4. ASSUME NEW c \in Conn, Reject(c) PROVE Safe
  <2>1. EndHandler(c, FALSE) /\ UNCHANGED <<dest, disk, landed>> /\ (part' = part \/ DropPartial(c))
    BY <1>4 DEF Reject, dirVars
  <2>2. QED
    BY <1>0, <2>1, EndForgets, ForgetKeeps
<1>5. ASSUME NEW c \in Conn, RefuseExisting(c) PROVE Safe
  <2>1. EndHandler(c, TRUE) /\ UNCHANGED <<dest, disk, landed>> /\ (part' = part \/ DropPartial(c))
    BY <1>5 DEF RefuseExisting, dirVars
  <2>2. QED
    BY <1>0, <2>1, EndForgets, ForgetKeeps
<1>6. ASSUME NEW c \in Conn, AcceptFails(c) PROVE Safe
  <2>1. EndHandler(c, FALSE) /\ UNCHANGED <<dest, disk, landed>> /\ (part' = part \/ DropPartial(c))
    BY <1>6 DEF AcceptFails, dirVars
  <2>2. QED
    BY <1>0, <2>1, EndForgets, ForgetKeeps
<1>7. ASSUME NEW c \in Conn, OpenResumeFails(c) PROVE Safe
  <2>1. EndHandler(c, TRUE) /\ UNCHANGED <<dest, disk, landed>> /\ (part' = part \/ DropPartial(c))
    BY <1>7 DEF OpenResumeFails, FailHandler, dirVars
  <2>2. QED
    BY <1>0, <2>1, EndForgets, ForgetKeeps
<1>8. ASSUME NEW c \in Conn, StopCancelled(c) PROVE Safe
  <2>1. EndHandler(c, TRUE) /\ UNCHANGED <<dest, disk, landed>> /\ (part' = part \/ DropPartial(c))
    BY <1>8 DEF StopCancelled, FailHandler, dirVars
  <2>2. QED
    BY <1>0, <2>1, EndForgets, ForgetKeeps
<1>9. ASSUME NEW c \in Conn, RefuseStream(c) PROVE Safe
  <2>1. EndHandler(c, TRUE) /\ UNCHANGED <<dest, disk, landed>> /\ (part' = part \/ DropPartial(c))
    BY <1>9 DEF RefuseStream, FailHandler, dirVars
  <2>2. QED
    BY <1>0, <2>1, EndForgets, ForgetKeeps
<1>10. ASSUME NEW c \in Conn, ReadFails(c) PROVE Safe
  <2>1. EndHandler(c, TRUE) /\ UNCHANGED <<dest, disk, landed>> /\ (part' = part \/ DropPartial(c))
    BY <1>10 DEF ReadFails, FailHandler, dirVars
  <2>2. QED
    BY <1>0, <2>1, EndForgets, ForgetKeeps
<1>11. ASSUME NEW c \in Conn, ReadTimesOut(c) PROVE Safe
  <2>1. EndHandler(c, TRUE) /\ UNCHANGED <<dest, disk, landed>> /\ (part' = part \/ DropPartial(c))
    BY <1>11 DEF ReadTimesOut, FailHandler, dirVars
  <2>2. QED
    BY <1>0, <2>1, EndForgets, ForgetKeeps
<1>12. ASSUME NEW c \in Conn, IoFails(c) PROVE Safe
  <2>1. EndHandler(c, TRUE) /\ UNCHANGED <<dest, disk, landed>> /\ (part' = part \/ DropPartial(c))
    BY <1>12 DEF IoFails, FailHandler, dirVars
  <2>2. QED
    BY <1>0, <2>1, EndForgets, ForgetKeeps
<1>13. ASSUME NEW c \in Conn, PlaceFails(c) PROVE Safe
  <2>1. EndHandler(c, TRUE) /\ UNCHANGED <<dest, disk, landed>> /\ (part' = part \/ DropPartial(c))
    BY <1>13 DEF PlaceFails, FailHandler, dirVars
  <2>2. QED
    BY <1>0, <2>1, EndForgets, ForgetKeeps
<1>14. ASSUME NEW c \in Conn, Reply(c) PROVE Safe
  <2>1. EndHandler(c, TRUE) /\ UNCHANGED <<dest, disk, landed>> /\ (part' = part \/ DropPartial(c))
    BY <1>14 DEF Reply, dirVars
  <2>2. QED
    BY <1>0, <2>1, EndForgets, ForgetKeeps
<1>15. ASSUME NEW c \in Conn, SeeAccept(c) PROVE Safe
  <2>1. Forget
    BY <1>15, <1>0 DEF SeeAccept, Forget, TypeOK, dirVars, handlerVars, senderVars, receiverVars
  <2>2. QED
    BY <2>1, ForgetKeeps
<1>16. ASSUME NEW c \in Conn, SendBlock(c) PROVE Safe
  <2>1. Forget
    BY <1>16, <1>0 DEF SendBlock, Forget, TypeOK, dirVars, handlerVars, senderVars, receiverVars
  <2>2. QED
    BY <2>1, ForgetKeeps
<1>17. ASSUME NEW c \in Conn, SendEof(c) PROVE Safe
  <2>1. Forget
    BY <1>17, <1>0 DEF SendEof, Forget, TypeOK, dirVars, handlerVars, senderVars, receiverVars
  <2>2. QED
    BY <2>1, ForgetKeeps
<1>18. ASSUME NEW c \in Conn, SeeDone(c) PROVE Safe
  <2>1. Forget
    BY <1>18, <1>0 DEF SeeDone, EndSend, Forget, TypeOK, dirVars, handlerVars, senderVars, receiverVars
  <2>2. QED
    BY <2>1, ForgetKeeps
<1>19. ASSUME NEW c \in Conn, SendFails(c) PROVE Safe
  <2>1. Forget
    BY <1>19, <1>0 DEF SendFails, EndSend, Forget, TypeOK, dirVars, handlerVars, senderVars, receiverVars
  <2>2. QED
    BY <2>1, ForgetKeeps
<1>20. ASSUME NEW c \in Conn, Disconnect(c) PROVE Safe
  <2>1. Forget
    BY <1>20, <1>0 DEF Disconnect, EndSend, Forget, TypeOK, dirVars, handlerVars, senderVars, receiverVars
  <2>2. QED
    BY <2>1, ForgetKeeps
<1>21. ASSUME NEW c \in Conn, SourceChanges(c) PROVE Safe
  <2>1. Forget
    BY <1>21, <1>0 DEF SourceChanges, Forget, TypeOK, dirVars, handlerVars, senderVars, receiverVars
  <2>2. QED
    BY <2>1, ForgetKeeps
<1>22. ASSUME NEW c \in Conn, NEW keepPartial \in BOOLEAN, CancelTransfer(c, keepPartial) PROVE Safe
  <2>1. Forget
    BY <1>22, <1>0 DEF CancelTransfer, Forget, TypeOK, dirVars, handlerVars, senderVars, receiverVars
  <2>2. QED
    BY <2>1, ForgetKeeps
<1>23. ASSUME NEW n \in Name, UserTakes(n) PROVE Safe
  <2>1. Forget
    BY <1>23, <1>0 DEF UserTakes, Forget, TypeOK, dirVars, handlerVars, senderVars, receiverVars
  <2>2. QED
    BY <2>1, ForgetKeeps
<1>24. ASSUME NEW k \in Key, Sweep(k) PROVE Safe
  <2>1. Forget
    BY <1>24, <1>0 DEF Sweep, Forget, TypeOK, dirVars, handlerVars, senderVars, receiverVars
  <2>2. QED
    BY <2>1, ForgetKeeps
<1>25. ASSUME UNCHANGED vars PROVE Safe
  <2>1. Forget
    BY <1>25, <1>0 DEF vars, Forget, TypeOK, dirVars, handlerVars, senderVars, receiverVars
  <2>2. QED
    BY <2>1, ForgetKeeps
<1>26. ASSUME NEW c \in Conn, Connect(c) PROVE Safe
  BY <1>26, ConnectSafe
<1>27. ASSUME NEW c \in Conn, OpenTemp(c) PROVE Safe
  BY <1>27, OpenTempSafe
<1>28. ASSUME NEW c \in Conn, OpenFresh(c) PROVE Safe
  BY <1>28, OpenFreshSafe
<1>29. ASSUME NEW c \in Conn, OpenResume(c) PROVE Safe
  BY <1>29, OpenResumeSafe
<1>30. ASSUME NEW c \in Conn, TruncatePartial(c) PROVE Safe
  BY <1>30, TruncatePartialSafe
<1>31. ASSUME NEW c \in Conn, TakeBlock(c) PROVE Safe
  BY <1>31, TakeBlockSafe
<1>32. ASSUME NEW c \in Conn, Approve(c) PROVE Safe
  <2>1. /\ rpc[c] = "hello" /\ rpc' = [rpc EXCEPT ![c] = "stat"]
        /\ UNCHANGED <<overwrite, dest, disk, received, fd, good, offer, landed>>
    BY <1>32 DEF Approve, dirVars, handlerVars, senderVars, receiverVars
  <2>2. \A k \in Key : part'[k] \in {part[k], NoInode}
    BY <1>32, <1>0 DEF Approve, dirVars, DropPartial, TypeOK
  <2>3. /\ ~Idle(c) /\ (Holding(c)' <=> Holding(c)) /\ (Filling(c)' => Filling(c))
        /\ rpc'[c] = "stat"
    BY <1>0, <2>1 DEF Idle, Holding, Filling, TypeOK
  <2>4. resumeAt' = resumeAt /\ resumeAt[c] <= Total(c)
    BY <1>32 DEF Approve, IInv, Admitted
  <2>5. Filled(c)'
    BY <1>32, <2>1, <2>3 DEF Filled, IInv, Intact
  <2>6. QED
    BY <2>1, <2>2, <2>3, <2>4, <2>5, GotoSafe
<1>33. ASSUME NEW c \in Conn, PassStat(c) PROVE Safe
  <2>1. /\ rpc[c] = "stat" /\ rpc' = [rpc EXCEPT ![c] = "probe"]
        /\ UNCHANGED <<overwrite, dest, disk, received, fd, good, offer, landed>>
    BY <1>33 DEF PassStat, dirVars, handlerVars, senderVars, receiverVars
  <2>2. \A k \in Key : part'[k] \in {part[k], NoInode}
    BY <1>33, <1>0 DEF PassStat, dirVars, DropPartial, TypeOK
  <2>3. /\ ~Idle(c) /\ (Holding(c)' <=> Holding(c)) /\ (Filling(c)' => Filling(c))
        /\ rpc'[c] = "probe"
    BY <1>0, <2>1 DEF Idle, Holding, Filling, TypeOK
  <2>4. resumeAt' = resumeAt /\ resumeAt[c] <= Total(c)
    BY <1>33 DEF PassStat, IInv, Admitted
  <2>5. ASSUME NEW n \in Name, dest[n] # NoInode PROVE dest[n] # part[KeyOf(c)]
    <3>1. dest[offer[c].name] = NoInode \/ overwrite
      BY <1>33 DEF PassStat
    <3>2. KeyOf(c) \in Key /\ KeyOf(c)[1] = offer[c].name
      BY <1>0, KeyOfType DEF KeyOf
    <3>3. QED
      BY <2>5, <3>1, <3>2 DEF IInv, Owned, AliasIsSealed
  <2>6. Filled(c)'
    BY <1>33, <2>1, <2>3 DEF Filled, IInv, Intact
  <2>7. QED
    BY <2>1, <2>2, <2>3, <2>4, <2>5, <2>6, GotoSafe
<1>34. ASSUME NEW c \in Conn, Accept(c) PROVE Safe
  <2>1. /\ rpc[c] = "probe" /\ rpc' = [rpc EXCEPT ![c] = "open"]
        /\ UNCHANGED <<overwrite, dest, disk, received, fd, good, offer, landed>>
    BY <1>34 DEF Accept, dirVars, handlerVars, senderVars, receiverVars
  <2>2. \A k \in Key : part'[k] \in {part[k], NoInode}
    BY <1>34, <1>0 DEF Accept, dirVars, DropPartial, TypeOK
  <2>3. /\ ~Idle(c) /\ (Holding(c)' <=> Holding(c)) /\ (Filling(c)' => Filling(c))
        /\ rpc'[c] = "open"
    BY <1>0, <2>1 DEF Idle, Holding, Filling, TypeOK
  <2>4. (\A d \in Conn \ {c} : resumeAt'[d] = resumeAt[d]) /\ resumeAt'[c] <= Total(c)
    <3>1. ResumeOffset(KeyOf(c)) <= Total(c) /\ 0 <= Total(c)
      BY <1>0, ResumeOffsetBound, KeyOfType, SizeAssumption
    <3>2. QED
      BY <1>34, <1>0, <3>1 DEF Accept, TypeOK
  <2>5. Filled(c)'
    BY <1>34, <2>1, <2>3 DEF Filled, IInv, Intact
  <2>6. QED
    BY <2>1, <2>2, <2>3, <2>4, <2>5, GotoSafe
<1>35. ASSUME NEW c \in Conn, NextFrame(c) PROVE Safe
  <2>1. /\ rpc[c] = "loop" /\ rpc' = [rpc EXCEPT ![c] = "read"]
        /\ UNCHANGED <<overwrite, dest, disk, received, fd, good, offer, landed>>
    BY <1>35 DEF NextFrame, dirVars, handlerVars, senderVars, receiverVars
  <2>2. \A k \in Key : part'[k] \in {part[k], NoInode}
    BY <1>35, <1>0 DEF NextFrame, dirVars, DropPartial, TypeOK
  <2>3. /\ ~Idle(c) /\ (Holding(c)' <=> Holding(c)) /\ (Filling(c)' => Filling(c))
        /\ rpc'[c] = "read"
    BY <1>0, <2>1 DEF Idle, Holding, Filling, TypeOK
  <2>4. resumeAt' = resumeAt /\ resumeAt[c] <= Total(c)
    BY <1>35 DEF NextFrame, IInv, Admitted
  <2>5. Filled(c)'
    BY <1>35, <2>1, <2>3 DEF NextFrame, Filled, IInv, Intact, Resumable, Total, HasPrefix
  <2>6. QED
    BY <2>1, <2>2, <2>3, <2>4, <2>5, GotoSafe
<1>36. ASSUME NEW c \in Conn, TakeEof(c) PROVE Safe
  <2>1. /\ rpc[c] = "read" /\ rpc' = [rpc EXCEPT ![c] = "place"]
        /\ UNCHANGED <<overwrite, dest, disk, received, fd, good, offer, landed>>
    BY <1>36 DEF TakeEof, dirVars, handlerVars, senderVars, receiverVars
  <2>2. \A k \in Key : part'[k] \in {part[k], NoInode}
    BY <1>36, <1>0 DEF TakeEof, dirVars, DropPartial, TypeOK
  <2>3. /\ ~Idle(c) /\ (Holding(c)' <=> Holding(c)) /\ (Filling(c)' => Filling(c))
        /\ rpc'[c] = "place"
    BY <1>0, <2>1 DEF Idle, Holding, Filling, TypeOK
  <2>4. resumeAt' = resumeAt /\ resumeAt[c] <= Total(c)
    BY <1>36 DEF TakeEof, IInv, Admitted
  <2>5. Filled(c)'
    <3>1. /\ received[c] = Total(c) /\ (Resumable(c) => good[c])
          /\ disk[fd[c]].size = received[c]
          /\ IF Resumable(c) THEN good[c] => HasPrefix(disk[fd[c]], received[c], offer[c].ver)
             ELSE \A p \in 1..received[c] : disk[fd[c]].data[p] # Hole
      BY <1>36 DEF TakeEof, IInv, Intact, Filled
    <3>2. offer[c].ver \in Version
      BY <1>0 DEF TypeOK, Offer
    <3>3. Resumable(c) => IsWhole(disk[fd[c]], offer[c].ver)
      BY <3>1 DEF IsWhole, Total
    <3>4. ~Resumable(c) => IsComplete(disk[fd[c]])
      BY <3>1, <3>2 DEF IsComplete, Total
    <3>5. QED
      BY <2>1, <2>3, <3>3, <3>4
      DEF Filled, Resumable, IsWhole, IsComplete, HasPrefix
  <2>6. QED
    BY <2>1, <2>2, <2>3, <2>4, <2>5, GotoSafe
<1>37. ASSUME NEW c \in Conn, Unlink(c) PROVE Safe
  <2>1. /\ rpc[c] = "unlink" /\ rpc' = [rpc EXCEPT ![c] = "reply"]
        /\ UNCHANGED <<overwrite, dest, disk, received, fd, good, offer, landed>>
    BY <1>37 DEF Unlink, dirVars, handlerVars, senderVars, receiverVars
  <2>2. \A k \in Key : part'[k] \in {part[k], NoInode}
    BY <1>37, <1>0 DEF Unlink, dirVars, DropPartial, TypeOK
  <2>3. /\ ~Idle(c) /\ (Holding(c)' <=> Holding(c)) /\ (Filling(c)' => Filling(c))
        /\ rpc'[c] = "reply"
    BY <1>0, <2>1 DEF Idle, Holding, Filling, TypeOK
  <2>4. resumeAt' = resumeAt /\ resumeAt[c] <= Total(c)
    BY <1>37 DEF Unlink, IInv, Admitted
  <2>5. Filled(c)'
    BY <1>37, <2>1, <2>3 DEF Filled, IInv, Intact
  <2>6. QED
    BY <2>1, <2>2, <2>3, <2>4, <2>5, GotoSafe
<1>38. ASSUME NEW c \in Conn, UnlinkFails(c) PROVE Safe
  <2>1. /\ rpc[c] = "unlink" /\ rpc' = [rpc EXCEPT ![c] = "reply"]
        /\ UNCHANGED <<overwrite, dest, disk, received, fd, good, offer, landed>>
    BY <1>38 DEF UnlinkFails, dirVars, handlerVars, senderVars, receiverVars
  <2>2. \A k \in Key : part'[k] \in {part[k], NoInode}
    BY <1>38, <1>0 DEF UnlinkFails, dirVars, DropPartial, TypeOK
  <2>3. /\ ~Idle(c) /\ (Holding(c)' <=> Holding(c)) /\ (Filling(c)' => Filling(c))
        /\ rpc'[c] = "reply"
    BY <1>0, <2>1 DEF Idle, Holding, Filling, TypeOK
  <2>4. resumeAt' = resumeAt /\ resumeAt[c] <= Total(c)
    BY <1>38 DEF UnlinkFails, IInv, Admitted
  <2>5. Filled(c)'
    BY <1>38, <2>1, <2>3 DEF Filled, IInv, Intact
  <2>6. QED
    BY <2>1, <2>2, <2>3, <2>4, <2>5, GotoSafe
<1>39. ASSUME NEW c \in Conn, PlaceByRename(c) PROVE Safe
  <2>1. /\ rpc[c] = "place" /\ Staged(c) # NoInode
        /\ rpc' = [rpc EXCEPT ![c] = "reply"]
        /\ dest' = [dest EXCEPT ![offer[c].name] = Staged(c)]
        /\ landed' = [landed EXCEPT ![c] = disk[Staged(c)]]
        /\ UNCHANGED <<overwrite, disk, received, fd, good, offer, resumeAt>>
    BY <1>39 DEF PlaceByRename, dirVars, handlerVars, senderVars, receiverVars
  <2>2. dest[offer[c].name] # Staged(c)
    BY <1>0, <2>1, StagedIsOwn DEF TypeOK, Offer
  <2>3. DropPartial(c)
    BY <1>39, <2>2 DEF PlaceByRename
  <2>4. /\ \A k \in Key : part'[k] \in {part[k], NoInode}
        /\ Resumable(c) => part'[KeyOf(c)] = NoInode
    BY <1>0, <2>3, KeyOfType DEF DropPartial, TypeOK
  <2>5. QED
    BY <2>1, <2>4, PlaceSafe
<1>40. ASSUME NEW c \in Conn, PlaceByLink(c) PROVE Safe
  <2>1. /\ rpc[c] = "place" /\ Staged(c) # NoInode
        /\ rpc' = [rpc EXCEPT ![c] = "unlink"]
        /\ dest' = [dest EXCEPT ![offer[c].name] = Staged(c)]
        /\ landed' = [landed EXCEPT ![c] = disk[Staged(c)]]
        /\ UNCHANGED <<overwrite, disk, received, fd, good, offer, resumeAt>>
    BY <1>40 DEF PlaceByLink, dirVars, handlerVars, senderVars, receiverVars
  <2>2. ~overwrite /\ part' = part
    BY <1>40 DEF PlaceByLink
  <2>3. QED
    BY <2>1, <2>2, PlaceSafe
<1>41. QED
  BY <1>1, <1>2, <1>3, <1>4, <1>5, <1>6, <1>7, <1>8, <1>9, <1>10, <1>11,
     <1>12, <1>13, <1>14, <1>15, <1>16, <1>17, <1>18, <1>19, <1>20, <1>21,
     <1>22, <1>23, <1>24, <1>25, <1>26, <1>27, <1>28, <1>29, <1>30, <1>31,
     <1>32, <1>33, <1>34, <1>35, <1>36, <1>37, <1>38, <1>39, <1>40
  DEF Next, Handle, Push, Trouble

-----------------------------------------------------------------------------
(* The safety theorems.                                                    *)

LEMMA InitSafe == Init => IInv
<1> SUFFICES ASSUME Init PROVE IInv
  OBVIOUS
<1>1. TypeOK
  BY InitType
<1>2. \A c \in Conn : rpc[c] = "idle" /\ fd[c] = NoInode /\ landed[c] = NoInode
                      /\ received[c] = 0 /\ resumeAt[c] = 0
  BY DEF Init
<1>3. (\A n \in Name : dest[n] = NoInode) /\ (\A k \in Key : part[k] = NoInode)
  BY DEF Init
<1>4. Admitted
  BY <1>1, <1>2, KeyOfType DEF Admitted, Idle, Init
<1>5. Owned
  BY <1>2, <1>3
  DEF Owned, OpenIffHolding, OneWriter, PartialIsHeld, HeldByItsKey, PartialsDiffer,
      DestsDiffer, HandsOff, AliasIsSealed, Holding, Filling
<1>6. Intact
  BY <1>2, <1>3 DEF Intact, LandedVerified, DestIntact, Filled
<1>7. QED
  BY <1>1, <1>4, <1>5, <1>6 DEF IInv

\* With exclusive offers and an unchanged overwrite mode the invariant always
\* holds; the three theorems below read off what it says to a user.
THEOREM Safety == ExclusiveOffers /\ ~ModeMayChange => (Spec => []IInv)
<1> SUFFICES ASSUME ExclusiveOffers, ~ModeMayChange PROVE Spec => []IInv
  OBVIOUS
<1>1. Init => IInv
  BY InitSafe
<1>2. IInv /\ [Next]_vars => IInv'
  BY StepType, StepSafe DEF IInv
<1>3. QED
  BY <1>1, <1>2, PTL DEF Spec

\* What a delivered name holds is complete at every moment: no partial write, no
\* handler of a later push, and no crash between link and unlink ever shows
\* through a name the user has been given (placeFile).
THEOREM DeliveredFilesStayIntact ==
  ExclusiveOffers /\ ~ModeMayChange => (Spec => []DestIntact)
<1>1. IInv => DestIntact
  BY DEF IInv, Intact
<1>2. QED
  BY <1>1, Safety, PTL

\* A resumable push places the very content its sender declared, whatever was
\* kept, resumed, cut off or cancelled before (receiveResumableToFile).
THEOREM PlacedFilesAreVerified ==
  ExclusiveOffers /\ ~ModeMayChange => (Spec => []LandedVerified)
<1>1. IInv => LandedVerified
  BY DEF IInv, Intact
<1>2. QED
  BY <1>1, Safety, PTL

\* No two handlers ever have the same file open.
THEOREM HandlersDoNotShareFiles ==
  ExclusiveOffers /\ ~ModeMayChange => (Spec => []OneWriter)
<1>1. IInv => OneWriter
  BY DEF IInv, Owned
<1>2. QED
  BY <1>1, Safety, PTL

-----------------------------------------------------------------------------
(* Send's success: this one needs neither assumption.                      *)

\* A handler that has placed its file says so, and nobody else does.
DoneIsPlaced ==
  \A c \in Conn :
    \/ rpc[c] \in {"unlink", "reply"}
    \/ reply[c] = "done"
    \/ spc[c] = "ok"
    => landed[c] # NoInode

\* Send returns success only for a file that was placed, in every run whatever
\* the peers push at a time (Send's wait for the done message).
THEOREM SendSuccessMeansDelivery == Spec => []SendSuccessIsDelivery
<1> USE DEF Goto, Disturb
<1>1. Init => TypeOK /\ DoneIsPlaced
  BY InitType DEF Init, DoneIsPlaced, None
<1>2. ASSUME TypeOK, DoneIsPlaced, [Next]_vars PROVE DoneIsPlaced'
  <2> USE <1>2
  <2>1. ASSUME NEW c \in Conn, PlaceByRename(c) \/ PlaceByLink(c) PROVE DoneIsPlaced'
    <3>1. /\ Staged(c) \in Inode
          /\ landed' = [landed EXCEPT ![c] = disk[Staged(c)]]
          /\ UNCHANGED <<reply, spc>>
          /\ \A d \in Conn \ {c} : rpc'[d] = rpc[d]
      BY <2>1, KeyOfType
      DEF PlaceByRename, PlaceByLink, TypeOK, Staged, senderVars
    <3>2. landed'[c] # NoInode /\ \A d \in Conn \ {c} : landed'[d] = landed[d]
      BY <3>1, TokenAssumption DEF TypeOK, File
    <3>3. QED
      BY <3>1, <3>2 DEF DoneIsPlaced
  <2>2. ASSUME NEW c \in Conn, Connect(c) PROVE DoneIsPlaced'
    BY <2>2 DEF Connect, DoneIsPlaced, TypeOK, None
  <2>3. ASSUME NEW c \in Conn, Reply(c) \/ Unlink(c) \/ UnlinkFails(c) PROVE DoneIsPlaced'
    BY <2>3
    DEF Reply, Unlink, UnlinkFails, EndHandler, DoneIsPlaced, TypeOK, None, senderVars
  <2>4. ASSUME NEW c \in Conn, Handle(c),
               ~(PlaceByRename(c) \/ PlaceByLink(c) \/ Reply(c) \/ Unlink(c))
        PROVE  DoneIsPlaced'
    <3>1. landed' = landed /\ spc' = spc
      BY <2>4
      DEF Handle, Approve, RefuseExisting, PassStat, Accept, AcceptFails, OpenTemp,
          OpenFresh, OpenResume, OpenResumeFails, TruncatePartial, NextFrame,
          StopCancelled, TakeBlock, RefuseStream, TakeEof, ReadFails, PlaceFails,
          FailHandler, EndHandler, senderVars
    <3>2. /\ \A d \in Conn : rpc'[d] \in {"unlink", "reply"} => rpc[d] \in {"unlink", "reply"}
          /\ \A d \in Conn : reply'[d] = "done" => reply[d] = "done"
      BY <2>4
      DEF Handle, Approve, RefuseExisting, PassStat, Accept, AcceptFails, OpenTemp,
          OpenFresh, OpenResume, OpenResumeFails, TruncatePartial, NextFrame,
          StopCancelled, TakeBlock, RefuseStream, TakeEof, ReadFails, PlaceFails,
          FailHandler, EndHandler, TypeOK, None, dirVars
    <3>3. QED
      BY <3>1, <3>2 DEF DoneIsPlaced
  <2>5. ASSUME NEW c \in Conn, Push(c) \/ Disconnect(c) \/ SourceChanges(c)
        PROVE  DoneIsPlaced'
    BY <2>5
    DEF Push, SeeAccept, SendBlock, SendEof, SeeDone, SendFails, EndSend, Disconnect,
        SourceChanges, DoneIsPlaced, TypeOK, None, handlerVars
  <2>6. ASSUME NEW c \in Conn,
               \/ Reject(c) \/ ReadTimesOut(c) \/ IoFails(c)
               \/ \E keepPartial \in BOOLEAN : CancelTransfer(c, keepPartial)
        PROVE  DoneIsPlaced'
    BY <2>6
    DEF Reject, ReadTimesOut, IoFails, CancelTransfer, FailHandler, EndHandler,
        DoneIsPlaced, TypeOK, None, senderVars
  <2>7. ASSUME \/ StartReceive \/ CancelReceive \/ Crash \/ UNCHANGED vars
               \/ \E n \in Name : UserTakes(n)
               \/ \E k \in Key : Sweep(k)
        PROVE  DoneIsPlaced'
    BY <2>7
    DEF StartReceive, CancelReceive, Crash, UserTakes, Sweep, vars, DoneIsPlaced,
        handlerVars, senderVars
  <2>8. QED
    BY <2>1, <2>2, <2>3, <2>4, <2>5, <2>6, <2>7 DEF Next, Trouble
<1>3. TypeOK /\ DoneIsPlaced /\ [Next]_vars => (TypeOK /\ DoneIsPlaced)'
  BY <1>2, StepType
<1>4. TypeOK /\ DoneIsPlaced => SendSuccessIsDelivery
  BY DEF DoneIsPlaced, SendSuccessIsDelivery
<1>5. QED
  BY <1>1, <1>3, <1>4, PTL DEF Spec

-----------------------------------------------------------------------------
(* Refinement of AtomicDelivery.                                           *)

\* A step that leaves the delivered files and their names alone.
LEMMA VisibleKept ==
  ASSUME dest' = dest,
         \A n \in Name : dest[n] # NoInode => disk'[dest[n]] = disk[dest[n]]
  PROVE  Visible' = Visible
BY DEF Visible

LEMMA VisiblePlaced ==
  ASSUME TypeOK, NEW n \in Name, NEW i \in Inode,
         dest' = [dest EXCEPT ![n] = i], disk' = disk
  PROVE  Visible' = [Visible EXCEPT ![n] = disk[i]]
<1>1. /\ \A m \in Name \ {n} : dest'[m] = dest[m]
      /\ dest'[n] = i /\ i # NoInode
  BY TokenAssumption DEF TypeOK
<1>2. /\ Visible = [m \in Name |-> IF dest[m] = NoInode THEN NoInode ELSE disk[dest[m]]]
      /\ Visible' = [m \in Name |-> IF m = n THEN disk[i] ELSE Visible[m]]
  BY <1>1 DEF Visible
<1>3. QED
  BY <1>2

LEMMA StepRefines ==
  ASSUME IInv, DestIntact', ExclusiveOffers, ~ModeMayChange, [Next]_vars
  PROVE  [Delivery!Next]_(Delivery!vars)
<1> USE DEF IInv
<1> DEFINE Stutter == Visible' = Visible /\ overwrite' = overwrite
           Write == [Delivery!Next]_(Delivery!vars)
<1>1. Stutter => Write
  BY DEF Delivery!vars
<1>2. ASSUME NEW c \in Conn, PlaceByRename(c) \/ PlaceByLink(c) PROVE Write
  <2>1. /\ rpc[c] = "place" /\ Staged(c) # NoInode
        /\ dest' = [dest EXCEPT ![offer[c].name] = Staged(c)]
        /\ disk' = disk /\ overwrite' = overwrite
        /\ overwrite \/ dest[offer[c].name] = NoInode
    BY <1>2 DEF PlaceByRename, PlaceByLink, receiverVars
  <2>2. offer[c].name \in Name /\ Staged(c) \in Inode
    BY <2>1, StagedIsOwn DEF TypeOK, Offer
  <2>3. Visible' = [Visible EXCEPT ![offer[c].name] = disk[Staged(c)]]
    BY <2>1, <2>2, VisiblePlaced
  <2>4. disk[Staged(c)] \in {f \in File : IsComplete(f)}
    <3>1. dest'[offer[c].name] = Staged(c) /\ Staged(c) # NoInode
      BY <2>1, <2>2 DEF TypeOK
    <3>2. QED
      BY <2>1, <2>2, <3>1 DEF DestIntact, TypeOK, IsComplete
  <2>5. Visible[offer[c].name] = NoInode \/ overwrite
    BY <2>1, <2>2 DEF Visible
  <2>6. Delivery!Publish(offer[c].name)
    BY <2>1, <2>3, <2>4, <2>5 DEF Delivery!Publish
  <2>7. QED
    BY <2>2, <2>6 DEF Delivery!Next
<1>3. ASSUME NEW n \in Name, UserTakes(n) PROVE Write
  <2>1. /\ dest' = [dest EXCEPT ![n] = NoInode]
        /\ disk' = disk /\ overwrite' = overwrite
    BY <1>3 DEF UserTakes, receiverVars
  <2>2. dest'[n] = NoInode /\ \A m \in Name \ {n} : dest'[m] = dest[m]
    BY <2>1 DEF TypeOK
  <2>3. Visible' = [Visible EXCEPT ![n] = NoInode]
    <3>1. Visible = [m \in Name |-> IF dest[m] = NoInode THEN NoInode ELSE disk[dest[m]]]
      BY DEF Visible
    <3>2. Visible' = [m \in Name |-> IF m = n THEN NoInode ELSE Visible[m]]
      BY <2>1, <2>2 DEF Visible
    <3>3. QED
      BY <3>1, <3>2
  <2>4. QED
    BY <2>1, <2>3 DEF Delivery!Next, Delivery!Take
<1>4. ASSUME NEW c \in Conn, TruncatePartial(c) \/ TakeBlock(c) PROVE Write
  <2>1. /\ dest' = dest /\ overwrite' = overwrite /\ Filling(c)
        /\ \E f : disk' = [disk EXCEPT ![fd[c]] = f]
    BY <1>4 DEF TruncatePartial, TakeBlock, receiverVars, Filling
  <2>2. \A n \in Name : dest[n] # fd[c]
    BY <2>1 DEF Owned, HandsOff
  <2>3. \A n \in Name : dest[n] # NoInode => disk'[dest[n]] = disk[dest[n]]
    BY <2>1, <2>2 DEF TypeOK
  <2>4. QED
    BY <1>1, <2>1, <2>3, VisibleKept
<1>5. ASSUME NEW c \in Conn, OpenTemp(c) \/ OpenFresh(c) PROVE Write
  <2>1. dest' = dest /\ overwrite' = overwrite
    BY <1>5 DEF OpenTemp, OpenFresh, receiverVars
  <2>2. \E i \in Inode : /\ disk' = [disk EXCEPT ![i] = NoFile]
                         /\ \A n \in Name : dest[n] # i
    BY <1>5, FoundPartial DEF OpenTemp, OpenFresh, Fresh
  <2>3. \A n \in Name : dest[n] # NoInode => disk'[dest[n]] = disk[dest[n]]
    BY <2>2 DEF TypeOK
  <2>4. QED
    BY <1>1, <2>1, <2>3, VisibleKept
<1>6. ASSUME NEW c \in Conn, Handle(c),
             ~(PlaceByRename(c) \/ PlaceByLink(c) \/ TruncatePartial(c)
               \/ TakeBlock(c) \/ OpenTemp(c) \/ OpenFresh(c))
      PROVE  Stutter
  BY <1>6
  DEF Handle, Approve, RefuseExisting, PassStat, Accept, AcceptFails, OpenResume,
      OpenResumeFails, NextFrame, StopCancelled, RefuseStream, TakeEof, ReadFails,
      PlaceFails, Unlink, Reply, FailHandler, EndHandler, Visible, dirVars,
      receiverVars
<1>7. ASSUME NEW c \in Conn, Connect(c) \/ Push(c) \/ Trouble(c) PROVE Stutter
  BY <1>7
  DEF Connect, Push, Trouble, SeeAccept, SendBlock, SendEof, SeeDone, SendFails, EndSend,
      Reject, ReadTimesOut, IoFails, UnlinkFails, Disconnect, SourceChanges,
      CancelTransfer, FailHandler, EndHandler, Visible, dirVars, receiverVars
<1>8. ASSUME \/ StartReceive \/ CancelReceive \/ Crash \/ UNCHANGED vars
             \/ \E k \in Key : Sweep(k)
      PROVE  Stutter
  BY <1>8
  DEF StartReceive, CancelReceive, Crash, Sweep, vars, Visible, dirVars, receiverVars
<1>9. QED
  BY <1>1, <1>2, <1>3, <1>4, <1>5, <1>6, <1>7, <1>8 DEF Next

\* The whole LAN push, faults and interventions included, implements the abstract
\* destination directory.
THEOREM PushImplementsDelivery ==
  ExclusiveOffers /\ ~ModeMayChange => (Spec => DeliveryIsAtomic)
<1> SUFFICES ASSUME ExclusiveOffers, ~ModeMayChange PROVE Spec => DeliveryIsAtomic
  OBVIOUS
<1>1. Init => Delivery!Init
  BY DEF Init, Delivery!Init, Visible
<1>2. IInv /\ DestIntact' /\ [Next]_vars => [Delivery!Next]_(Delivery!vars)
  BY StepRefines
<1>3. Spec => []IInv
  BY Safety
<1>4. IInv => DestIntact
  BY DEF IInv, Intact
<1>5. QED
  BY <1>1, <1>2, <1>3, <1>4, PTL DEF Spec, DeliveryIsAtomic, Delivery!Spec



=============================================================================
