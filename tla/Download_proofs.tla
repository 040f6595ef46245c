--------------------------- MODULE Download_proofs ---------------------------
(***************************************************************************)
(* What is proved of Download for every set of downloaders, directories,   *)
(* versions and inodes, every number of slots and of disturbances.         *)
(***************************************************************************)
EXTENDS Download, FiniteSetTheorems, TLAPS

-----------------------------------------------------------------------------
(* Contents of files.                                                      *)

LEMMA NoFileType == NoFile \in File
BY SizeAssumption DEF NoFile, File

LEMMA WriteAtType ==
  ASSUME NEW f \in File, NEW n \in 1..MaxSize, NEW v \in Version
  PROVE  WriteAt(f, n, v) \in File
BY SizeAssumption DEF WriteAt, File

LEMMA CutToType ==
  ASSUME NEW f \in File, NEW n \in 0..MaxSize
  PROVE  CutTo(f, n) \in File
BY SizeAssumption DEF CutTo, File

\* The whole file another program saves.
LEMMA WholeFile ==
  ASSUME NEW v \in Version,
         NEW f, f = [size |-> SizeOf[v],
                     data |-> [b \in 1..MaxSize |-> IF b <= SizeOf[v] THEN v ELSE Hole]]
  PROVE  f \in File /\ IsWhole(f, v)
<1>1. SizeOf[v] \in 0..MaxSize
  BY SizeAssumption
<1>2. f \in File
  BY <1>1 DEF File
<1>3. IsWhole(f, v)
  BY <1>1, SizeAssumption DEF IsWhole, HasPrefix
<1> QED
  BY <1>2, <1>3

LEMMA ResumeOffsetType ==
  ASSUME TypeOK, NEW p \in Puller
  PROVE  ResumeOffset(p) \in 0..MaxSize
<1>1. Part(p) \in Inode \cup {NoInode}
  BY DirAssumption DEF TypeOK, Part
<1>2. Part(p) # NoInode => disk[Part(p)].size \in 0..MaxSize
  BY <1>1 DEF TypeOK, File
<1> QED
  BY <1>2, SizeAssumption DEF ResumeOffset

-----------------------------------------------------------------------------
(* Type correctness, which needs that sem counts the handlers.             *)

Running == {"request", "stream", "finish", "leave"}
Handlers == {p \in Puller : hpc[p] \in Running}

\* sem counts the handlers that run, and the loop waits for a slot with a connection
\* no handler has.
SlotsCounted ==
  /\ slots = Cardinality(Handlers)
  /\ loop = "slot" => hand \in Puller /\ hpc[hand] = "hand"

TypeInv == TypeOK /\ SlotsCounted

LEMMA TypeInit == Init => TypeInv
<1> SUFFICES ASSUME Init PROVE TypeInv
  OBVIOUS
<1>1. source \in Version /\ sha \in Version
  BY OriginalAssumption DEF Init
<1>2. disk \in [Inode -> File]
  BY NoFileType DEF Init
<1>3. 0 \in 0..MaxSize /\ 0 \in 0..MaxSlots /\ 0 \in 0..MaxDisturbances
  BY SizeAssumption, SlotAssumption
<1>4. TypeOK
  BY <1>1, <1>2, <1>3 DEF Init, TypeOK, None
<1>5. Handlers = {}
  BY DEF Init, Handlers, Running
<1>6. SlotsCounted
  BY <1>5, FS_EmptySet DEF Init, SlotsCounted
<1> QED
  BY <1>4, <1>6 DEF TypeInv

\* Who runs changes only where a handler is started or gives its slot back.
LEMMA CountKept ==
  ASSUME SlotsCounted, slots' = slots, loop' = "slot" => loop = "slot" /\ hand' = hand,
         \A p \in Puller :
           hpc'[p] = hpc[p] \/ (hpc[p] # "hand" /\ (hpc'[p] \in Running <=> hpc[p] \in Running))
  PROVE  SlotsCounted'
<1>1. Handlers' = Handlers
  BY DEF Handlers
<1> QED
  BY <1>1 DEF SlotsCounted

\* A step of the broadcaster that leaves its slots alone.
LEMMA HandlerType ==
  ASSUME TypeInv, NEW p \in Puller, NEW at, hpc' = [hpc EXCEPT ![p] = at],
         at \in Running <=> hpc[p] \in Running,
         at \in {"none", "queued", "hand", "request", "stream", "finish", "leave"},
         hpc[p] # "hand", UNCHANGED <<loop, slots, hand>>
  PROVE  SlotsCounted' /\
         hpc' \in [Puller -> {"none", "queued", "hand", "request", "stream", "finish", "leave"}]
<1>1. hpc' \in [Puller -> {"none", "queued", "hand", "request", "stream", "finish", "leave"}]
  BY DEF TypeInv, TypeOK
<1>2. \A q \in Puller :
        hpc'[q] = hpc[q] \/ (hpc[q] # "hand" /\ (hpc'[q] \in Running <=> hpc[q] \in Running))
  BY DEF TypeInv, TypeOK
<1> QED
  BY <1>1, <1>2, CountKept DEF TypeInv

LEMMA ReturnType ==
  ASSUME TypeInv, NEW p \in Puller, Return(p), hpc[p] \in Running,
         wire' \in [Puller -> Version \cup {None, "accept", "refuse", EOF, "done"}],
         disturbances' \in 0..MaxDisturbances
  PROVE  TypeInv'
<1>1. SlotsCounted' /\
      hpc' \in [Puller -> {"none", "queued", "hand", "request", "stream", "finish", "leave"}]
  BY HandlerType DEF Return, Running, loopVars
<1>2. sent' \in [Puller -> 0..MaxSize] /\ open' \in [Puller -> BOOLEAN]
  BY SizeAssumption DEF TypeInv, TypeOK, Return
<1> QED
  BY <1>1, <1>2 DEF TypeInv, TypeOK, Return, loopVars, offerVars, dirVars, pullVars

LEMMA EndType ==
  ASSUME TypeInv, NEW p \in Puller, End(p),
         dest' \in [Dir -> Inode \cup {NoInode}], part' \in [Dir -> Inode \cup {NoInode}],
         disturbances' \in 0..MaxDisturbances
  PROVE  TypeInv'
<1>1. disk' \in [Inode -> File]
  BY NoFileType DEF TypeInv, TypeOK, End, Reclaim
<1>2. /\ ppc' \in [Puller -> {"idle", "wait", "open", "truncate", "read", "await",
                              "place", "unlink"}]
      /\ fd' \in [Puller -> Inode \cup {NoInode}]
      /\ open' \in [Puller -> BOOLEAN] /\ good' \in [Puller -> BOOLEAN]
  BY DEF TypeInv, TypeOK, End, Goto
<1>3. /\ offset' \in [Puller -> 0..MaxSize] /\ received' \in [Puller -> 0..MaxSize]
      /\ wire' \in [Puller -> Version \cup {None, "accept", "refuse", EOF, "done"}]
  BY SizeAssumption DEF TypeInv, TypeOK, End
<1>4. UNCHANGED <<loopVars, source, offerVars, hpc, sent>>
  BY DEF End, offerVars
<1>5. SlotsCounted'
  BY <1>4, CountKept DEF TypeInv, loopVars
<1> QED
  BY <1>1, <1>2, <1>3, <1>4, <1>5 DEF TypeInv, TypeOK, loopVars, offerVars

LEMMA DisturbType ==
  ASSUME TypeOK, Disturb
  PROVE  disturbances' \in 0..MaxDisturbances
BY SlotAssumption DEF TypeOK, Disturb

LEMMA TypeStep == TypeInv /\ [Next]_vars => TypeInv'
<1> SUFFICES ASSUME TypeInv, [Next]_vars PROVE TypeInv'
  OBVIOUS
<1>t. TypeOK /\ SlotsCounted
  BY DEF TypeInv
<1> DEFINE Wires == [Puller -> Version \cup {None, "accept", "refuse", EOF, "done"}]
           Places == {"idle", "wait", "open", "truncate", "read", "await", "place", "unlink"}
           Named == [Dir -> Inode \cup {NoInode}]
<1> USE DEF loopVars, offerVars, dirVars, pullVars
<1>1. CASE StatSource \/ HashSource
  <2>1. SlotsCounted'
    BY <1>1, <1>t, CountKept DEF StatSource, HashSource
  <2>2. size' \in 0..MaxSize /\ sha' \in Version
    BY <1>1, <1>t, SizeAssumption DEF StatSource, HashSource, TypeOK
  <2> QED
    BY <1>1, <1>t, <2>1, <2>2 DEF TypeInv, TypeOK, StatSource, HashSource
<1>2. ASSUME NEW p \in Puller, Accept(p) PROVE TypeInv'
  <2>1. hpc' \in [Puller -> {"none", "queued", "hand", "request", "stream", "finish", "leave"}]
    BY <1>2, <1>t DEF Accept, TypeOK
  <2>2. Handlers' = Handlers
    BY <1>2, <1>t DEF Accept, TypeOK, Handlers, Running
  <2>3. SlotsCounted'
    BY <1>2, <1>t, <2>2 DEF Accept, TypeOK, SlotsCounted
  <2> QED
    BY <1>2, <1>t, <2>1, <2>3 DEF TypeInv, TypeOK, Accept
<1>3. ASSUME NEW p \in Puller, TurnAway(p) PROVE TypeInv'
  <2>1. /\ SlotsCounted'
        /\ hpc' \in [Puller -> {"none", "queued", "hand", "request", "stream", "finish", "leave"}]
    BY <1>3, HandlerType DEF TurnAway, Running
  <2>2. disturbances' \in 0..MaxDisturbances /\ open' \in [Puller -> BOOLEAN]
    BY <1>3, <1>t, DisturbType DEF TurnAway, TypeOK
  <2> QED
    BY <1>3, <1>t, <2>1, <2>2 DEF TypeInv, TypeOK, TurnAway
<1>4. CASE TakeSlot
  <2>1. hand \in Puller /\ hpc[hand] = "hand"
    BY <1>4, <1>t DEF TakeSlot, SlotsCounted
  <2>2. hpc' \in [Puller -> {"none", "queued", "hand", "request", "stream", "finish", "leave"}]
    BY <1>4, <1>t, <2>1 DEF TakeSlot, TypeOK
  <2>3. Handlers' = Handlers \cup {hand} /\ hand \notin Handlers
    BY <1>4, <1>t, <2>1 DEF TakeSlot, TypeOK, Handlers, Running
  <2>4. IsFiniteSet(Handlers)
    BY FiniteAssumption, FS_Subset DEF Handlers
  <2>5. Cardinality(Handlers') = Cardinality(Handlers) + 1
    BY <2>3, <2>4, FS_AddElement
  <2>6. SlotsCounted'
    BY <1>4, <1>t, <2>5 DEF TakeSlot, SlotsCounted
  <2>7. slots' \in 0..MaxSlots
    BY <1>4, <1>t, SlotAssumption DEF TakeSlot, TypeOK
  <2> QED
    BY <1>4, <1>t, <2>2, <2>6, <2>7 DEF TypeInv, TypeOK, TakeSlot
<1>5. CASE Cancel
  <2>1. SlotsCounted'
    BY <1>5, <1>t, CountKept DEF Cancel
  <2>2. disturbances' \in 0..MaxDisturbances
    BY <1>5, <1>t, DisturbType DEF Cancel
  <2> QED
    BY <1>5, <1>t, <2>1, <2>2 DEF TypeInv, TypeOK, Cancel
<1>6. CASE AcceptFails
  <2>1. SlotsCounted'
    BY <1>6, <1>t, CountKept DEF AcceptFails, Running
  <2>2. /\ hpc' \in [Puller -> {"none", "queued", "hand", "request", "stream", "finish", "leave"}]
        /\ open' \in [Puller -> BOOLEAN]
    BY <1>6, <1>t DEF AcceptFails, TypeOK
  <2> QED
    BY <1>6, <1>t, <2>1, <2>2 DEF TypeInv, TypeOK, AcceptFails
<1>7. CASE SourceChanges
  <2>1. SlotsCounted'
    BY <1>7, <1>t, CountKept DEF SourceChanges
  <2>2. disturbances' \in 0..MaxDisturbances
    BY <1>7, <1>t, DisturbType DEF SourceChanges
  <2> QED
    BY <1>7, <1>t, <2>1, <2>2 DEF TypeInv, TypeOK, SourceChanges
<1>8. ASSUME NEW p \in Puller, Serve(p) PROVE TypeInv'
  <2>1. /\ SlotsCounted'
        /\ hpc' \in [Puller -> {"none", "queued", "hand", "request", "stream", "finish", "leave"}]
    BY <1>8, HandlerType DEF Serve, Running
  <2>2. sent' \in [Puller -> 0..MaxSize] /\ wire' \in Wires
    BY <1>8, <1>t DEF Serve, TypeOK
  <2> QED
    BY <1>8, <1>t, <2>1, <2>2 DEF TypeInv, TypeOK, Serve
<1>9. ASSUME NEW p \in Puller, Refuse(p) \/ WriteTimesOut(p) PROVE TypeInv'
  <2>1. wire' \in Wires /\ disturbances' \in 0..MaxDisturbances
    BY <1>9, <1>t, DisturbType DEF Refuse, WriteTimesOut, TypeOK
  <2> QED
    BY <1>9, <2>1, ReturnType DEF Refuse, WriteTimesOut, Running
<1>10. ASSUME NEW p \in Puller, StreamBlock(p) PROVE TypeInv'
  <2>1. sent' \in [Puller -> 0..MaxSize] /\ wire' \in Wires
    BY <1>10, <1>t, SizeAssumption DEF StreamBlock, TypeOK
  <2>2. SlotsCounted'
    BY <1>10, <1>t, CountKept DEF StreamBlock
  <2> QED
    BY <1>10, <1>t, <2>1, <2>2 DEF TypeInv, TypeOK, StreamBlock
<1>11. ASSUME NEW p \in Puller, StreamEof(p) PROVE TypeInv'
  <2>1. /\ SlotsCounted'
        /\ hpc' \in [Puller -> {"none", "queued", "hand", "request", "stream", "finish", "leave"}]
    BY <1>11, HandlerType DEF StreamEof, Running
  <2>2. wire' \in Wires
    BY <1>11, <1>t DEF StreamEof, TypeOK
  <2> QED
    BY <1>11, <1>t, <2>1, <2>2 DEF TypeInv, TypeOK, StreamEof
<1>12. ASSUME NEW p \in Puller, SendDone(p) \/ StopServing(p) \/ ServeFails(p) PROVE TypeInv'
  <2>1. wire' \in Wires /\ disturbances' \in 0..MaxDisturbances
    BY <1>12, <1>t DEF SendDone, StopServing, ServeFails, TypeOK
  <2> QED
    BY <1>12, <2>1, ReturnType DEF SendDone, StopServing, ServeFails, Running
<1>13. ASSUME NEW p \in Puller, FreeSlot(p) PROVE TypeInv'
  <2>1. hpc' \in [Puller -> {"none", "queued", "hand", "request", "stream", "finish", "leave"}]
    BY <1>13, <1>t DEF FreeSlot, TypeOK
  <2>2. Handlers' = Handlers \ {p} /\ p \in Handlers
    BY <1>13, <1>t DEF FreeSlot, TypeOK, Handlers, Running
  <2>3. IsFiniteSet(Handlers)
    BY FiniteAssumption, FS_Subset DEF Handlers
  <2>4. Cardinality(Handlers') = Cardinality(Handlers) - 1
    BY <2>2, <2>3, FS_RemoveElement
  <2>5. Cardinality(Handlers') \in Nat
    BY <2>2, <2>3, FS_Subset, FS_CardinalityType
  <2>6. SlotsCounted'
    BY <1>13, <1>t, <2>4 DEF FreeSlot, SlotsCounted, TypeOK
  <2>7. slots' \in 0..MaxSlots
    BY <1>13, <1>t, <2>4, <2>5, SlotAssumption DEF FreeSlot, TypeOK, SlotsCounted
  <2> QED
    BY <1>13, <1>t, <2>1, <2>6, <2>7 DEF TypeInv, TypeOK, FreeSlot
<1>14. ASSUME NEW p \in Puller, Start(p) PROVE TypeInv'
  <2>1. /\ SlotsCounted'
        /\ hpc' \in [Puller -> {"none", "queued", "hand", "request", "stream", "finish", "leave"}]
    BY <1>14, HandlerType DEF Start, Running
  <2>2. offset' \in [Puller -> 0..MaxSize]
    BY <1>14, <1>t, ResumeOffsetType DEF Start, TypeOK
  <2>3. ppc' \in [Puller -> Places] /\ open' \in [Puller -> BOOLEAN]
    BY <1>14, <1>t DEF Start, Goto, TypeOK
  <2> QED
    BY <1>14, <1>t, <2>1, <2>2, <2>3 DEF TypeInv, TypeOK, Start
<1>15. ASSUME NEW p \in Puller, SeeAccept(p) \/ TakeEof(p) \/ SeeDone(p) PROVE TypeInv'
  <2>1. ppc' \in [Puller -> Places] /\ wire' \in Wires
    BY <1>15, <1>t DEF SeeAccept, TakeEof, SeeDone, Goto, TypeOK
  <2>2. SlotsCounted'
    BY <1>15, <1>t, CountKept DEF SeeAccept, TakeEof, SeeDone
  <2> QED
    BY <1>15, <1>t, <2>1, <2>2 DEF TypeInv, TypeOK, SeeAccept, TakeEof, SeeDone
<1>16. ASSUME NEW p \in Puller, OpenFresh(p) PROVE TypeInv'
  <2>1. PICK i \in Inode : /\ part' = [part EXCEPT ![DirOf[p]] = i]
                           /\ disk' = [disk EXCEPT ![i] = NoFile]
                           /\ fd' = [fd EXCEPT ![p] = i]
    BY <1>16 DEF OpenFresh
  <2>2. part' \in Named /\ disk' \in [Inode -> File] /\ fd' \in [Puller -> Inode \cup {NoInode}]
    BY <1>t, <2>1, NoFileType DEF TypeOK
  <2>3. ppc' \in [Puller -> Places]
    BY <1>16, <1>t DEF OpenFresh, Goto, TypeOK
  <2>4. SlotsCounted'
    BY <1>16, <1>t, CountKept DEF OpenFresh
  <2> QED
    BY <1>16, <1>t, <2>2, <2>3, <2>4 DEF TypeInv, TypeOK, OpenFresh
<1>17. ASSUME NEW p \in Puller, OpenResume(p) PROVE TypeInv'
  <2>1. fd' \in [Puller -> Inode \cup {NoInode}] /\ good' \in [Puller -> BOOLEAN]
    BY <1>17, <1>t, DirAssumption DEF OpenResume, Part, HasPrefix, TypeOK
  <2>2. ppc' \in [Puller -> Places]
    BY <1>17, <1>t DEF OpenResume, Goto, TypeOK
  <2>3. SlotsCounted'
    BY <1>17, <1>t, CountKept DEF OpenResume
  <2> QED
    BY <1>17, <1>t, <2>1, <2>2, <2>3 DEF TypeInv, TypeOK, OpenResume
<1>18. ASSUME NEW p \in Puller, TruncatePartial(p) PROVE TypeInv'
  <2>1. disk' \in [Inode -> File] /\ received' \in [Puller -> 0..MaxSize]
    BY <1>18, <1>t, CutToType DEF TruncatePartial, TypeOK
  <2>2. ppc' \in [Puller -> Places]
    BY <1>18, <1>t DEF TruncatePartial, Goto, TypeOK
  <2>3. SlotsCounted'
    BY <1>18, <1>t, CountKept DEF TruncatePartial
  <2> QED
    BY <1>18, <1>t, <2>1, <2>2, <2>3 DEF TypeInv, TypeOK, TruncatePartial
<1>19. ASSUME NEW p \in Puller, TakeBlock(p) PROVE TypeInv'
  <2>1. received[p] + 1 \in 1..MaxSize
    BY <1>19, <1>t, SizeAssumption DEF TakeBlock, TypeOK
  <2>2. disk' \in [Inode -> File]
    <3>1. \A f \in File : WriteAt(f, received[p] + 1, wire[p]) \in File
      BY <1>19, <2>1, WriteAtType DEF TakeBlock
    <3> QED
      BY <1>19, <1>t, <3>1 DEF TakeBlock, TypeOK
  <2>3. received' \in [Puller -> 0..MaxSize] /\ good' \in [Puller -> BOOLEAN] /\ wire' \in Wires
    BY <1>19, <1>t, <2>1, SizeAssumption DEF TakeBlock, TypeOK
  <2>4. SlotsCounted'
    BY <1>19, <1>t, CountKept DEF TakeBlock
  <2> QED
    BY <1>19, <1>t, <2>2, <2>3, <2>4 DEF TypeInv, TypeOK, TakeBlock
<1>20. ASSUME NEW p \in Puller,
              \/ SeeRefuse(p) \/ OpenResumeFails(p) \/ ExceedsSize(p) \/ EndsShort(p)
              \/ SeeMismatch(p) \/ ReadFails(p) \/ PlaceFails(p) \/ Unlink(p)
       PROVE  TypeInv'
  <2>1. dest' \in Named /\ part' \in Named /\ disturbances' \in 0..MaxDisturbances /\ End(p)
    BY <1>20, <1>t DEF SeeRefuse, OpenResumeFails, ExceedsSize, EndsShort, SeeMismatch,
       ReadFails, PlaceFails, Unlink, TypeOK
  <2> QED
    BY <2>1, EndType
<1>21. ASSUME NEW p \in Puller, Stop(p) PROVE TypeInv'
  <2>1. dest' \in Named /\ part' \in Named /\ disturbances' \in 0..MaxDisturbances /\ End(p)
    BY <1>21, <1>t, DisturbType DEF Stop, TypeOK
  <2> QED
    BY <2>1, EndType
<1>22. ASSUME NEW p \in Puller, PlaceByRename(p) PROVE TypeInv'
  <2>1. dest' \in Named /\ part' \in Named /\ disturbances' \in 0..MaxDisturbances /\ End(p)
    BY <1>22, <1>t, DirAssumption DEF PlaceByRename, TypeOK
  <2> QED
    BY <2>1, EndType
<1>23. ASSUME NEW p \in Puller, PlaceByLink(p) PROVE TypeInv'
  <2>1. dest' \in Named
    BY <1>23, <1>t, DirAssumption DEF PlaceByLink, TypeOK
  <2>2. ppc' \in [Puller -> Places]
    BY <1>23, <1>t DEF PlaceByLink, Goto, TypeOK
  <2>3. SlotsCounted'
    BY <1>23, <1>t, CountKept DEF PlaceByLink
  <2> QED
    BY <1>23, <1>t, <2>1, <2>2, <2>3 DEF TypeInv, TypeOK, PlaceByLink
<1>24. ASSUME NEW d \in Dir, UserTakes(d) PROVE TypeInv'
  <2>1. dest' \in Named /\ disturbances' \in 0..MaxDisturbances
    BY <1>24, <1>t, DisturbType DEF UserTakes, TypeOK
  <2>2. disk' \in [Inode -> File]
    BY <1>24, <1>t, NoFileType DEF UserTakes, Reclaim, TypeOK
  <2>3. SlotsCounted'
    BY <1>24, <1>t, CountKept DEF UserTakes
  <2> QED
    BY <1>24, <1>t, <2>1, <2>2, <2>3 DEF TypeInv, TypeOK, UserTakes
<1>25. ASSUME NEW d \in Dir, UserPuts(d) PROVE TypeInv'
  <2>1. PICK i \in Inode, v \in Version :
          /\ dest' = [dest EXCEPT ![d] = i]
          /\ disk' = [disk EXCEPT ![i] =
               [size |-> SizeOf[v],
                data |-> [b \in 1..MaxSize |-> IF b <= SizeOf[v] THEN v ELSE Hole]]]
    BY <1>25 DEF UserPuts
  <2>2. dest' \in Named /\ disk' \in [Inode -> File]
    BY <1>t, <2>1, WholeFile DEF TypeOK
  <2>3. disturbances' \in 0..MaxDisturbances
    BY <1>25, <1>t, DisturbType DEF UserPuts
  <2>4. SlotsCounted'
    BY <1>25, <1>t, CountKept DEF UserPuts
  <2> QED
    BY <1>25, <1>t, <2>2, <2>3, <2>4 DEF TypeInv, TypeOK, UserPuts
<1>26. ASSUME NEW d \in Dir, Sweep(d) PROVE TypeInv'
  <2>1. part' \in Named
    BY <1>26, <1>t DEF Sweep, TypeOK
  <2>2. disk' \in [Inode -> File]
    BY <1>26, <1>t, NoFileType DEF Sweep, Reclaim, TypeOK
  <2>3. SlotsCounted'
    BY <1>26, <1>t, CountKept DEF Sweep
  <2> QED
    BY <1>26, <1>t, <2>1, <2>2, <2>3 DEF TypeInv, TypeOK, Sweep
<1>27. CASE UNCHANGED vars
  BY <1>27, <1>t, CountKept DEF vars, TypeInv, TypeOK
<1> QED
  BY <1>1, <1>2, <1>3, <1>4, <1>5, <1>6, <1>7, <1>8, <1>9, <1>10, <1>11, <1>12, <1>13,
     <1>14, <1>15, <1>16, <1>17, <1>18, <1>19, <1>20, <1>21, <1>22, <1>23, <1>24, <1>25,
     <1>26, <1>27 DEF Next, Announce, Handle, Pull, Trouble

\* Every variable of the broadcast and its downloads stays in its range; in particular
\* sem holds no more tokens than it has places and gives none back that it has not
\* taken (Broadcast), and no count of blocks passes the longest file.
THEOREM TypeCorrect == Spec => []TypeOK
<1>1. TypeInv => TypeOK
  BY DEF TypeInv
<1> QED
  BY <1>1, TypeInit, TypeStep, PTL DEF Spec

-----------------------------------------------------------------------------
(* What a download places.                                                 *)

\* Where a download has a file open.
Holding == {"truncate", "read", "await", "place", "unlink"}

\* A directory's partial is no other directory's file, and a file a download has open
\* is open in no other and has no name in another directory.
Apart ==
  /\ \A d, e \in Dir : d # e /\ part[d] # NoInode => part[d] # part[e] /\ part[d] # dest[e]
  /\ \A p, q \in Puller : p # q /\ fd[p] # NoInode => fd[p] # fd[q]
  /\ \A p \in Puller, d \in Dir :
       d # DirOf[p] /\ fd[p] # NoInode => fd[p] # part[d] /\ fd[p] # dest[d]

\* What a download has open is its directory's partial, unless that was swept, and has
\* no final name before it is placed.
OwnPartial ==
  \A p \in Puller :
    /\ fd[p] # NoInode <=> ppc[p] \in Holding
    /\ ppc[p] \in Holding => Part(p) \in {fd[p], NoInode}
    /\ ppc[p] \in Holding \ {"unlink"} => fd[p] # dest[DirOf[p]]

\* A placed file keeps its partial's name only until Unlink, or when the download ended
\* just before it.
LeftBehind ==
  \A d \in Dir : part[d] # NoInode /\ part[d] = dest[d] =>
    /\ ~overwrite
    /\ \A p \in Puller : DirOf[p] = d => ppc[p] \in {"idle", "unlink"}

\* What p has hashed of the first n blocks it has.
Hashed(p, n) == good[p] => HasPrefix(disk[fd[p]], n, sha)

\* What a download has counted and hashed is what its file holds.
Filled ==
  \A p \in Puller :
    /\ ppc[p] \notin Holding => received[p] = 0
    /\ ppc[p] = "truncate" => disk[fd[p]].size >= offset[p] /\ Hashed(p, offset[p])
    /\ ppc[p] \in Holding \ {"truncate"} =>
         disk[fd[p]].size = received[p] /\ Hashed(p, received[p])
    /\ ppc[p] \in {"place", "unlink"} => Verified(p)

\* Nobody downloads before the digest is there.
Begun == \A p \in Puller : ppc[p] # "idle" => loop \in {"accept", "slot", "returned"}

IInv == TypeOK /\ Apart /\ OwnPartial /\ LeftBehind /\ Filled /\ Begun

\* The actions that leave the directories and the open files alone, and move at most
\* one download from one place without a file to another, or on from a frame read.
LEMMA SafeMoves ==
  ASSUME IInv, TypeOK', UNCHANGED <<sha, overwrite, dest, part, disk, fd, good, received>>,
         loop' = loop \/ loop' \in {"accept", "slot", "returned"},
         loop \notin {"off", "hash"} => loop' \notin {"off", "hash"},
         \/ ppc' = ppc /\ offset' = offset
         \/ \E p \in Puller, at \in {"wait", "open", "await", "place"} :
              /\ Goto(p, at)
              /\ \A q \in Puller \ {p} : offset'[q] = offset[q]
              /\ at \in {"wait", "open"} => ppc[p] \in {"idle", "wait"}
              /\ at = "wait" => dest[DirOf[p]] = NoInode \/ overwrite
              /\ ppc[p] = "idle" => at = "wait" /\ loop \notin {"off", "hash"}
              /\ at \in {"await", "place"} => ppc[p] \in {"read", "await"}
              /\ at = "place" => Verified(p)
  PROVE  IInv'
<1> USE DEF IInv
<1>1. CASE ppc' = ppc /\ offset' = offset
  BY <1>1 DEF Apart, OwnPartial, LeftBehind, Filled, Begun, Part, Hashed, Verified, TypeOK
<1>2. ASSUME NEW p \in Puller, NEW at \in {"wait", "open", "await", "place"},
             /\ Goto(p, at)
             /\ \A q \in Puller \ {p} : offset'[q] = offset[q]
             /\ at \in {"wait", "open"} => ppc[p] \in {"idle", "wait"}
             /\ at = "wait" => dest[DirOf[p]] = NoInode \/ overwrite
             /\ ppc[p] = "idle" => at = "wait" /\ loop \notin {"off", "hash"}
             /\ at \in {"await", "place"} => ppc[p] \in {"read", "await"}
             /\ at = "place" => Verified(p)
      PROVE  IInv'
  <2>1. \A q \in Puller : ppc'[q] = IF q = p THEN at ELSE ppc[q]
    BY <1>2 DEF Goto, TypeOK
  <2>2. Apart'
    BY DEF Apart
  <2>3. OwnPartial'
    <3>1. \A q \in Puller : Part(q)' = Part(q)
      BY DEF Part
    <3> QED
      BY <1>2, <2>1, <3>1 DEF OwnPartial, Holding
  <2>4. LeftBehind'
    BY <1>2, <2>1, DirAssumption DEF LeftBehind
  <2>5. Filled'
    <3> SUFFICES ASSUME NEW q \in Puller
                 PROVE  /\ ppc'[q] \notin Holding => received'[q] = 0
                        /\ ppc'[q] = "truncate" =>
                             disk'[fd'[q]].size >= offset'[q] /\ Hashed(q, offset[q])'
                        /\ ppc'[q] \in Holding \ {"truncate"} =>
                             disk'[fd'[q]].size = received'[q] /\ Hashed(q, received[q])'
                        /\ ppc'[q] \in {"place", "unlink"} => Verified(q)'
      BY DEF Filled
    <3>1. CASE q = p
      BY <1>2, <2>1, <3>1 DEF Filled, Hashed, Verified, Holding
    <3>2. CASE q # p
      BY <1>2, <2>1, <3>2 DEF Filled, Hashed, Verified
    <3> QED
      BY <3>1, <3>2
  <2>6. Begun'
    BY <1>2, <2>1 DEF Begun, TypeOK
  <2> QED
    BY <2>2, <2>3, <2>4, <2>5, <2>6
<1> QED
  BY <1>1, <1>2

\* What Reclaim leaves of the files that somebody still names or holds.
LEMMA ReclaimKeeps ==
  ASSUME Reclaim, NEW i \in Inode,
         \/ \E d \in Dir : dest'[d] = i \/ part'[d] = i
         \/ \E p \in Puller : fd'[p] = i
  PROVE  disk'[i] = disk[i]
BY DEF Reclaim, Fresh

\* A download ends, with the partial's name or without, and with its file placed or not.
LEMMA EndSafe ==
  ASSUME IInv, TypeOK', NEW p \in Puller, End(p), ppc[p] # "idle",
         \A d \in Dir : part'[d] = part[d] \/ (d = DirOf[p] /\ part'[d] = NoInode),
         \/ dest' = dest
         \/ /\ Part(p) # NoInode /\ Part(p)' = NoInode
            /\ dest' = [dest EXCEPT ![DirOf[p]] = Part(p)],
         ExclusiveDirs
  PROVE  IInv'
<1> USE DEF IInv
<1> DEFINE d == DirOf[p]
<1>1. d \in Dir /\ Part(p) = part[d] /\ Part(p)' = part'[d]
  BY DirAssumption DEF Part
<1>2. \A q \in Puller : /\ q = p => ppc'[q] = "idle" /\ fd'[q] = NoInode /\ received'[q] = 0
                        /\ q # p => /\ ppc'[q] = ppc[q] /\ fd'[q] = fd[q] /\ good'[q] = good[q]
                                    /\ offset'[q] = offset[q] /\ received'[q] = received[q]
                                    /\ DirOf[q] # d
  <2>1. \A q \in Puller : /\ ppc'[q] = IF q = p THEN "idle" ELSE ppc[q]
                          /\ fd'[q] = IF q = p THEN NoInode ELSE fd[q]
                          /\ good'[q] = IF q = p THEN TRUE ELSE good[q]
    BY DEF End, Goto, TypeOK
  <2>2. \A q \in Puller : /\ offset'[q] = IF q = p THEN 0 ELSE offset[q]
                          /\ received'[q] = IF q = p THEN 0 ELSE received[q]
    BY DEF End, TypeOK
  <2>3. \A q \in Puller : q # p => DirOf[q] # DirOf[p]
    BY DEF ExclusiveDirs
  <2> QED
    BY <2>1, <2>2, <2>3
<1>3. Apart'
  <2>1. \A e \in Dir : dest'[e] = dest[e] \/ (e = d /\ part'[d] = NoInode /\ dest'[d] = part[d])
    BY <1>1 DEF TypeOK
  <2>2. ASSUME NEW e \in Dir, NEW f \in Dir, e # f, part'[e] # NoInode
        PROVE  part'[e] # part'[f] /\ part'[e] # dest'[f]
    BY <1>1, <2>1, <2>2 DEF Apart
  <2>3. \A q, r \in Puller : q # r /\ fd'[q] # NoInode => fd'[q] # fd'[r]
    BY <1>2 DEF Apart
  <2>4. ASSUME NEW q \in Puller, NEW e \in Dir, e # DirOf[q], fd'[q] # NoInode
        PROVE  fd'[q] # part'[e] /\ fd'[q] # dest'[e]
    BY <1>1, <1>2, <2>1, <2>4 DEF Apart
  <2> QED
    BY <2>2, <2>3, <2>4 DEF Apart
<1>4. OwnPartial'
  <2> SUFFICES ASSUME NEW q \in Puller
               PROVE  /\ fd'[q] # NoInode <=> ppc'[q] \in Holding
                      /\ ppc'[q] \in Holding => Part(q)' \in {fd'[q], NoInode}
                      /\ ppc'[q] \in Holding \ {"unlink"} => fd'[q] # dest'[DirOf[q]]
    BY DEF OwnPartial
  <2>1. CASE q = p
    BY <1>2, <2>1 DEF Holding
  <2>2. CASE q # p
    <3>1. dest'[DirOf[q]] = dest[DirOf[q]] /\ Part(q)' = Part(q)
      BY <1>1, <1>2, <2>2, DirAssumption DEF Part, TypeOK
    <3> QED
      BY <1>2, <2>2, <3>1 DEF OwnPartial
  <2> QED
    BY <2>1, <2>2
<1>5. LeftBehind'
  <2> SUFFICES ASSUME NEW e \in Dir, part'[e] # NoInode, part'[e] = dest'[e]
               PROVE  /\ ~overwrite'
                      /\ \A q \in Puller : DirOf[q] = e => ppc'[q] \in {"idle", "unlink"}
    BY DEF LeftBehind
  <2>1. part[e] = part'[e] /\ dest[e] = dest'[e]
    BY <1>1 DEF TypeOK
  <2>2. overwrite' = overwrite
    BY DEF End, offerVars
  <2> QED
    BY <1>2, <2>1, <2>2 DEF LeftBehind
<1>6. Filled'
  <2>1. sha' = sha
    BY DEF End, offerVars
  <2> SUFFICES ASSUME NEW q \in Puller, q # p
               PROVE  /\ ppc'[q] \notin Holding => received'[q] = 0
                      /\ ppc'[q] = "truncate" =>
                           disk'[fd'[q]].size >= offset'[q] /\ Hashed(q, offset[q])'
                      /\ ppc'[q] \in Holding \ {"truncate"} =>
                           disk'[fd'[q]].size = received'[q] /\ Hashed(q, received[q])'
                      /\ ppc'[q] \in {"place", "unlink"} => Verified(q)'
    BY <1>2 DEF Filled, Holding
  <2>2. CASE ppc[q] \in Holding
    <3>1. fd[q] \in Inode /\ fd'[q] = fd[q]
      BY <1>2, <2>2 DEF OwnPartial, TypeOK
    <3>2. disk'[fd'[q]] = disk[fd[q]]
      BY <3>1, ReclaimKeeps DEF End
    <3> QED
      BY <1>2, <2>1, <3>1, <3>2 DEF Filled, Hashed, Verified
  <2>3. CASE ppc[q] \notin Holding
    BY <1>2, <2>3 DEF Filled, Holding
  <2> QED
    BY <2>2, <2>3
<1>7. Begun'
  BY <1>2 DEF Begun, End, loopVars
<1> QED
  BY <1>3, <1>4, <1>5, <1>6, <1>7

\* i is p's alone: nobody else has it open, and only p's directory may name it, as its
\* partial.
Exclusive(p, i) ==
  /\ \A d \in Dir : dest[d] # i
  /\ \A d \in Dir : d # DirOf[p] => part[d] # i
  /\ Part(p) \in {i, NoInode}
  /\ \A q \in Puller : q # p => fd[q] # i

LEMMA OwnFile ==
  ASSUME IInv, ExclusiveDirs, NEW p \in Puller, NEW i \in Inode,
         \/ i = fd[p] /\ ppc[p] \in Holding \ {"unlink"}
         \/ i = Part(p) /\ ppc[p] = "open"
         \/ Fresh(i) /\ Part(p) = NoInode
  PROVE  Exclusive(p, i)
<1> USE DEF IInv
<1>1. DirOf[p] \in Dir /\ Part(p) = part[DirOf[p]] /\ i # NoInode
  BY DirAssumption, NamesAssumption DEF Part
<1>2. \A q \in Puller : q # p => DirOf[q] # DirOf[p]
  BY DEF ExclusiveDirs
<1>3. CASE i = fd[p] /\ ppc[p] \in Holding \ {"unlink"}
  BY <1>1, <1>3 DEF Exclusive, Apart, OwnPartial
<1>4. CASE i = Part(p) /\ ppc[p] = "open"
  <2>1. dest[DirOf[p]] # i
    BY <1>1, <1>4 DEF LeftBehind
  <2>2. \A e \in Dir : e # DirOf[p] => part[e] # i /\ dest[e] # i
    BY <1>1, <1>4 DEF Apart
  <2>3. \A q \in Puller : q # p => fd[q] # i
    BY <1>1, <1>2, <1>4 DEF Apart
  <2> QED
    BY <1>1, <1>4, <2>1, <2>2, <2>3 DEF Exclusive
<1>5. CASE Fresh(i) /\ Part(p) = NoInode
  BY <1>1, <1>5 DEF Exclusive, Fresh
<1> QED
  BY <1>3, <1>4, <1>5

\* A download opens its partial, cuts it off, or writes to it.
LEMMA FileStep ==
  ASSUME IInv, TypeOK', ExclusiveDirs, NEW p \in Puller, NEW i \in Inode, Exclusive(p, i),
         NEW at \in {"truncate", "read"}, ppc[p] # "idle", Goto(p, at),
         UNCHANGED <<loop, sha, overwrite, dest>>,
         fd' = [fd EXCEPT ![p] = i],
         part' = part \/ part' = [part EXCEPT ![DirOf[p]] = i],
         \A j \in Inode : j # i => disk'[j] = disk[j],
         \A q \in Puller : q # p => /\ offset'[q] = offset[q] /\ received'[q] = received[q]
                                    /\ good'[q] = good[q],
         at = "truncate" => disk'[i].size >= offset'[p] /\
                            (good'[p] => HasPrefix(disk'[i], offset'[p], sha)),
         at = "read" => disk'[i].size = received'[p] /\
                        (good'[p] => HasPrefix(disk'[i], received'[p], sha))
  PROVE  IInv'
<1> USE DEF IInv
<1> DEFINE d == DirOf[p]
<1>1. d \in Dir /\ Part(p) = part[d] /\ i # NoInode
  BY DirAssumption, NamesAssumption DEF Part
<1>2. \A q \in Puller : /\ fd'[q] = IF q = p THEN i ELSE fd[q]
                        /\ ppc'[q] = IF q = p THEN at ELSE ppc[q]
                        /\ q # p => DirOf[q] # d
  BY DEF Goto, TypeOK, ExclusiveDirs
<1>3. \A e \in Dir : e # d => part'[e] = part[e]
  BY DEF TypeOK
<1>4. part'[d] \in {i, NoInode}
  BY <1>1 DEF TypeOK, Exclusive
<1>5. Apart'
  <2>1. ASSUME NEW e \in Dir, NEW f \in Dir, e # f, part'[e] # NoInode
        PROVE  part'[e] # part'[f] /\ part'[e] # dest'[f]
    <3>1. CASE e = d
      BY <1>3, <1>4, <2>1, <3>1 DEF Exclusive
    <3>2. CASE e # d /\ f = d
      BY <1>1, <1>3, <1>4, <2>1, <3>2 DEF Exclusive, Apart
    <3>3. CASE e # d /\ f # d
      BY <1>3, <2>1, <3>3 DEF Apart
    <3> QED
      BY <3>1, <3>2, <3>3
  <2>2. ASSUME NEW q \in Puller, NEW r \in Puller, q # r, fd'[q] # NoInode
        PROVE  fd'[q] # fd'[r]
    BY <1>2, <2>2 DEF Exclusive, Apart
  <2>3. ASSUME NEW q \in Puller, NEW e \in Dir, e # DirOf[q], fd'[q] # NoInode
        PROVE  fd'[q] # part'[e] /\ fd'[q] # dest'[e]
    <3>1. CASE q = p
      BY <1>2, <1>3, <2>3, <3>1 DEF Exclusive
    <3>2. CASE q # p /\ e = d
      BY <1>1, <1>2, <1>4, <2>3, <3>2 DEF Exclusive, Apart
    <3>3. CASE q # p /\ e # d
      BY <1>2, <1>3, <2>3, <3>3 DEF Apart
    <3> QED
      BY <3>1, <3>2, <3>3
  <2> QED
    BY <2>1, <2>2, <2>3 DEF Apart
<1>6. OwnPartial'
  <2> SUFFICES ASSUME NEW q \in Puller
               PROVE  /\ fd'[q] # NoInode <=> ppc'[q] \in Holding
                      /\ ppc'[q] \in Holding => Part(q)' \in {fd'[q], NoInode}
                      /\ ppc'[q] \in Holding \ {"unlink"} => fd'[q] # dest'[DirOf[q]]
    BY DEF OwnPartial
  <2>1. CASE q = p
    BY <1>1, <1>2, <1>4, <2>1 DEF Exclusive, Part, Holding
  <2>2. CASE q # p
    <3>1. Part(q)' = Part(q)
      BY <1>2, <1>3, <2>2, DirAssumption DEF Part
    <3> QED
      BY <1>2, <2>2, <3>1 DEF OwnPartial
  <2> QED
    BY <2>1, <2>2
<1>7. LeftBehind'
  <2> SUFFICES ASSUME NEW e \in Dir, part'[e] # NoInode, part'[e] = dest'[e]
               PROVE  /\ ~overwrite'
                      /\ \A q \in Puller : DirOf[q] = e => ppc'[q] \in {"idle", "unlink"}
    BY DEF LeftBehind
  <2>1. e # d
    BY <1>4 DEF Exclusive
  <2> QED
    BY <1>2, <1>3, <2>1 DEF LeftBehind
<1>8. Filled'
  <2> SUFFICES ASSUME NEW q \in Puller
               PROVE  /\ ppc'[q] \notin Holding => received'[q] = 0
                      /\ ppc'[q] = "truncate" =>
                           disk'[fd'[q]].size >= offset'[q] /\ Hashed(q, offset[q])'
                      /\ ppc'[q] \in Holding \ {"truncate"} =>
                           disk'[fd'[q]].size = received'[q] /\ Hashed(q, received[q])'
                      /\ ppc'[q] \in {"place", "unlink"} => Verified(q)'
    BY DEF Filled
  <2>1. CASE q = p
    BY <1>2, <2>1 DEF Hashed, Holding
  <2>2. CASE q # p /\ ppc[q] \in Holding
    <3>1. fd[q] \in Inode /\ fd'[q] = fd[q] /\ fd[q] # i
      BY <1>2, <2>2 DEF OwnPartial, TypeOK, Exclusive
    <3>2. disk'[fd'[q]] = disk[fd[q]]
      BY <3>1
    <3> QED
      BY <1>2, <2>2, <3>1, <3>2 DEF Filled, Hashed, Verified
  <2>3. CASE q # p /\ ppc[q] \notin Holding
    BY <1>2, <2>3 DEF Filled, Holding
  <2> QED
    BY <2>1, <2>2, <2>3
<1>9. Begun'
  BY <1>2 DEF Begun
<1> QED
  BY <1>5, <1>6, <1>7, <1>8, <1>9

\* The other users: a final name goes, a new file gets one, or a partial is swept.
LEMMA NamesStep ==
  ASSUME IInv, TypeOK', UNCHANGED <<loop, sha, overwrite, ppc, offset, received, good, fd>>,
         \A d \in Dir : part'[d] \in {part[d], NoInode},
         \A d \in Dir : \/ dest'[d] \in {dest[d], NoInode}
                        \/ Fresh(dest'[d]) /\ dest'[d] \in Inode,
         \A i \in Inode : ~Fresh(i) /\ ~Fresh(i)' => disk'[i] = disk[i]
  PROVE  IInv'
<1> USE DEF IInv
<1>1. Apart'
  <2>1. ASSUME NEW d \in Dir, NEW e \in Dir, d # e, part'[d] # NoInode
        PROVE  part'[d] # part'[e] /\ part'[d] # dest'[e]
    BY <2>1 DEF Apart, Fresh
  <2>2. ASSUME NEW q \in Puller, NEW e \in Dir, e # DirOf[q], fd'[q] # NoInode
        PROVE  fd'[q] # part'[e] /\ fd'[q] # dest'[e]
    BY <2>2 DEF Apart, Fresh
  <2> QED
    BY <2>1, <2>2 DEF Apart
<1>2. OwnPartial'
  <2> SUFFICES ASSUME NEW q \in Puller
               PROVE  /\ fd'[q] # NoInode <=> ppc'[q] \in Holding
                      /\ ppc'[q] \in Holding => Part(q)' \in {fd'[q], NoInode}
                      /\ ppc'[q] \in Holding \ {"unlink"} => fd'[q] # dest'[DirOf[q]]
    BY DEF OwnPartial
  <2>1. DirOf[q] \in Dir /\ Part(q) = part[DirOf[q]] /\ Part(q)' = part'[DirOf[q]]
    BY DirAssumption DEF Part
  <2> QED
    BY <2>1 DEF OwnPartial, Fresh
<1>3. LeftBehind'
  BY DEF LeftBehind, Fresh
<1>4. Filled'
  <2> SUFFICES ASSUME NEW q \in Puller, ppc[q] \in Holding
               PROVE  disk'[fd[q]] = disk[fd[q]]
    BY DEF Filled, Hashed, Verified, Holding
  <2>1. fd[q] \in Inode
    BY DEF OwnPartial, TypeOK
  <2>2. ~Fresh(fd[q]) /\ ~Fresh(fd[q])'
    BY DEF Fresh
  <2> QED
    BY <2>1, <2>2
<1>5. Begun'
  BY DEF Begun
<1> QED
  BY <1>1, <1>2, <1>3, <1>4, <1>5

\* A verified file gets its final name and keeps the partial's.
LEMMA LinkSafe ==
  ASSUME IInv, TypeOK', ExclusiveDirs, NEW p \in Puller, PlaceByLink(p)
  PROVE  IInv'
<1> USE DEF IInv
<1> DEFINE d == DirOf[p]
<1>1. d \in Dir /\ Part(p) = part[d]
  BY DirAssumption DEF Part
<1>2. /\ ppc[p] = "place" /\ ~overwrite /\ part[d] # NoInode
      /\ UNCHANGED <<loop, sha, overwrite, part, disk, fd, good, received, offset>>
      /\ \A e \in Dir : dest'[e] = IF e = d THEN part[d] ELSE dest[e]
      /\ \A q \in Puller : ppc'[q] = IF q = p THEN "unlink" ELSE ppc[q]
      /\ \A q \in Puller : q # p => DirOf[q] # d
  BY <1>1 DEF PlaceByLink, Goto, TypeOK, ExclusiveDirs, loopVars, offerVars, pullVars
<1>3. part[d] = fd[p]
  BY <1>1, <1>2 DEF OwnPartial, Holding
<1>4. Apart'
  BY <1>1, <1>2, <1>3 DEF Apart
<1>5. OwnPartial'
  <2>1. \A q \in Puller : Part(q)' = Part(q) /\ DirOf[q] \in Dir
    BY <1>2, DirAssumption DEF Part
  <2> QED
    BY <1>2, <1>3, <2>1 DEF OwnPartial, Holding
<1>6. LeftBehind'
  BY <1>1, <1>2 DEF LeftBehind
<1>7. Filled'
  BY <1>2 DEF Filled, Hashed, Verified, Holding
<1>8. Begun'
  BY <1>2 DEF Begun
<1> QED
  BY <1>4, <1>5, <1>6, <1>7, <1>8

\* The size and the digest are taken before anybody downloads.
LEMMA DeclareSafe ==
  ASSUME IInv, TypeOK', StatSource \/ HashSource
  PROVE  IInv'
<1> USE DEF IInv
<1>1. /\ \A p \in Puller : ppc[p] = "idle"
      /\ UNCHANGED <<overwrite, dest, part, disk, ppc, fd, received>>
  BY DEF Begun, StatSource, HashSource, dirVars, pullVars
<1>2. \A p \in Puller : Part(p)' = Part(p)
  BY <1>1 DEF Part
<1>3. Filled' /\ Begun'
  BY <1>1 DEF Filled, Begun, Holding
<1> QED
  BY <1>1, <1>2, <1>3 DEF Apart, OwnPartial, LeftBehind

LEMMA InitSafe == Init => IInv
<1> SUFFICES ASSUME Init PROVE IInv
  OBVIOUS
<1>1. TypeOK
  BY TypeInit DEF TypeInv
<1>2. /\ \A p \in Puller : ppc[p] = "idle" /\ fd[p] = NoInode /\ received[p] = 0
      /\ \A d \in Dir : part[d] = NoInode
  BY DEF Init
<1> QED
  BY <1>1, <1>2 DEF IInv, Apart, OwnPartial, LeftBehind, Filled, Begun, Holding

LEMMA StepSafe ==
  ASSUME IInv, TypeOK', ExclusiveDirs, [Next]_vars
  PROVE  IInv'
<1>t. TypeOK
  BY DEF IInv
<1> USE DEF loopVars, offerVars, dirVars, pullVars
<1>1. CASE StatSource \/ HashSource
  BY <1>1, DeclareSafe
<1>2. ASSUME NEW p \in Puller, Accept(p) \/ TurnAway(p) \/ Serve(p) \/ StreamBlock(p)
               \/ StreamEof(p) \/ FreeSlot(p)
      PROVE  IInv'
  BY <1>2, SafeMoves DEF Accept, TurnAway, Serve, StreamBlock, StreamEof, FreeSlot
<1>3. ASSUME NEW p \in Puller, Refuse(p) \/ SendDone(p) \/ StopServing(p) \/ ServeFails(p)
               \/ WriteTimesOut(p)
      PROVE  IInv'
  BY <1>3, SafeMoves DEF Refuse, SendDone, StopServing, ServeFails, WriteTimesOut, Return
<1>4. CASE TakeSlot \/ Cancel \/ AcceptFails \/ SourceChanges \/ UNCHANGED vars
  BY <1>4, SafeMoves DEF TakeSlot, Cancel, AcceptFails, SourceChanges, vars
<1>5. ASSUME NEW p \in Puller, Start(p) PROVE IInv'
  <2>1. /\ UNCHANGED <<loop, sha, overwrite, dest, part, disk, fd, good, received>>
        /\ Goto(p, "wait") /\ ppc[p] = "idle" /\ loop \notin {"off", "hash"}
        /\ \A q \in Puller \ {p} : offset'[q] = offset[q]
        /\ dest[DirOf[p]] = NoInode \/ overwrite
    BY <1>5, <1>t DEF Start, Idle, TypeOK
  <2> QED
    BY <2>1, SafeMoves
<1>6. ASSUME NEW p \in Puller, SeeAccept(p) PROVE IInv'
  <2>1. /\ UNCHANGED <<loop, sha, overwrite, dest, part, disk, fd, good, received, offset>>
        /\ Goto(p, "open") /\ ppc[p] = "wait"
    BY <1>6 DEF SeeAccept
  <2> QED
    BY <2>1, SafeMoves
<1>7. ASSUME NEW p \in Puller, TakeEof(p) PROVE IInv'
  <2>1. /\ UNCHANGED <<loop, sha, overwrite, dest, part, disk, fd, good, received, offset>>
        /\ Goto(p, "await") /\ ppc[p] = "read"
    BY <1>7 DEF TakeEof
  <2> QED
    BY <2>1, SafeMoves
<1>8. ASSUME NEW p \in Puller, SeeDone(p) PROVE IInv'
  <2>1. /\ UNCHANGED <<loop, sha, overwrite, dest, part, disk, fd, good, received, offset>>
        /\ Goto(p, "place") /\ ppc[p] = "await" /\ Verified(p)
    BY <1>8 DEF SeeDone
  <2> QED
    BY <2>1, SafeMoves
<1>9. ASSUME NEW p \in Puller, OpenFresh(p) PROVE IInv'
  <2>1. PICK i \in Inode : /\ IF Part(p) = NoInode THEN NewInode(i) ELSE i = Part(p)
                           /\ part' = [part EXCEPT ![DirOf[p]] = i]
                           /\ disk' = [disk EXCEPT ![i] = NoFile]
                           /\ fd' = [fd EXCEPT ![p] = i]
    BY <1>9 DEF OpenFresh, Part
  <2>2. /\ UNCHANGED <<loop, sha, overwrite, dest, offset, received, good>>
        /\ ppc[p] = "open" /\ Goto(p, "read")
    BY <1>9 DEF OpenFresh
  <2>3. Exclusive(p, i)
    BY <2>1, <2>2, OwnFile DEF NewInode
  <2>4. received'[p] = 0
    BY <2>2 DEF IInv, Filled, Holding
  <2>5. disk'[i] = NoFile /\ \A j \in Inode : j # i => disk'[j] = disk[j]
    BY <1>t, <2>1 DEF TypeOK
  <2>6. disk'[i].size = received'[p] /\ HasPrefix(disk'[i], received'[p], sha)
    BY <2>4, <2>5 DEF NoFile, HasPrefix
  <2> QED
    BY <2>1, <2>2, <2>3, <2>5, <2>6, FileStep
<1>10. ASSUME NEW p \in Puller, OpenResume(p) PROVE IInv'
  <2>1. /\ UNCHANGED <<loop, sha, overwrite, dest, part, disk, offset, received>>
        /\ ppc[p] = "open" /\ Goto(p, "truncate") /\ Part(p) # NoInode
        /\ disk[Part(p)].size >= offset[p]
        /\ fd' = [fd EXCEPT ![p] = Part(p)]
        /\ good' = [good EXCEPT ![p] = HasPrefix(disk[Part(p)], offset[p], sha)]
    BY <1>10 DEF OpenResume
  <2>2. Part(p) \in Inode
    BY <1>t, <2>1, DirAssumption DEF TypeOK, Part
  <2>3. Exclusive(p, Part(p))
    BY <2>1, <2>2, OwnFile
  <2>4. /\ good'[p] = HasPrefix(disk[Part(p)], offset[p], sha)
        /\ \A q \in Puller : q # p => good'[q] = good[q]
    BY <1>t, <2>1 DEF TypeOK
  <2> QED
    BY <2>1, <2>2, <2>3, <2>4, FileStep
<1>11. ASSUME NEW p \in Puller, TruncatePartial(p) PROVE IInv'
  <2>1. /\ UNCHANGED <<loop, sha, overwrite, dest, part, offset, fd, good>>
        /\ ppc[p] = "truncate" /\ Goto(p, "read")
        /\ disk' = [disk EXCEPT ![fd[p]] = CutTo(@, offset[p])]
        /\ received' = [received EXCEPT ![p] = offset[p]]
    BY <1>11 DEF TruncatePartial
  <2>2. fd[p] \in Inode /\ Hashed(p, offset[p])
    BY <1>t, <2>1 DEF IInv, OwnPartial, Holding, Filled, TypeOK
  <2>3. Exclusive(p, fd[p])
    BY <2>1, <2>2, OwnFile DEF Holding
  <2>4. /\ disk'[fd[p]] = CutTo(disk[fd[p]], offset[p])
        /\ \A j \in Inode : j # fd[p] => disk'[j] = disk[j]
        /\ received'[p] = offset[p]
        /\ \A q \in Puller : q # p => received'[q] = received[q]
        /\ offset[p] \in 0..MaxSize
    BY <1>t, <2>1, <2>2 DEF TypeOK
  <2>5. /\ disk'[fd[p]].size = received'[p]
        /\ good[p] => HasPrefix(disk'[fd[p]], received'[p], sha)
    BY <2>2, <2>4, SizeAssumption DEF Hashed, HasPrefix, CutTo
  <2>6. fd' = [fd EXCEPT ![p] = fd[p]]
    BY <1>t, <2>1 DEF TypeOK
  <2> QED
    BY <2>1, <2>2, <2>3, <2>4, <2>5, <2>6, FileStep
<1>12. ASSUME NEW p \in Puller, TakeBlock(p) PROVE IInv'
  <2>1. /\ UNCHANGED <<loop, sha, overwrite, dest, part, ppc, offset, fd>>
        /\ ppc[p] = "read"
        /\ disk' = [disk EXCEPT ![fd[p]] = WriteAt(@, received[p] + 1, wire[p])]
        /\ received' = [received EXCEPT ![p] = @ + 1]
        /\ good' = [good EXCEPT ![p] = @ /\ wire[p] = sha]
        /\ received[p] < size
    BY <1>12 DEF TakeBlock
  <2>2. fd[p] \in Inode /\ disk[fd[p]].size = received[p] /\ Hashed(p, received[p])
    BY <1>t, <2>1 DEF IInv, OwnPartial, Holding, Filled, TypeOK
  <2>3. Exclusive(p, fd[p])
    BY <2>1, <2>2, OwnFile DEF Holding
  <2>4. /\ disk'[fd[p]] = WriteAt(disk[fd[p]], received[p] + 1, wire[p])
        /\ \A j \in Inode : j # fd[p] => disk'[j] = disk[j]
        /\ received'[p] = received[p] + 1
        /\ good'[p] = (good[p] /\ wire[p] = sha)
        /\ \A q \in Puller : q # p => received'[q] = received[q] /\ good'[q] = good[q]
    BY <1>t, <2>1, <2>2 DEF TypeOK
  <2>5. received[p] \in 0..MaxSize /\ received[p] + 1 \in 1..MaxSize /\ disk[fd[p]] \in File
    BY <1>t, <2>1, <2>2, SizeAssumption DEF TypeOK
  <2>6. disk'[fd[p]].size = received'[p]
    BY <2>2, <2>4, <2>5 DEF WriteAt
  <2>7. good'[p] => HasPrefix(disk'[fd[p]], received'[p], sha)
    <3> SUFFICES ASSUME good[p], wire[p] = sha, NEW b \in 1..received[p] + 1
                 PROVE  disk'[fd[p]].data[b] = sha
      BY <2>4 DEF HasPrefix
    <3>1. disk[fd[p]].data \in [1..MaxSize -> Version \cup {Hole}]
      BY <2>5 DEF File
    <3>2. disk'[fd[p]].data = [disk[fd[p]].data EXCEPT ![received[p] + 1] = sha]
      BY <2>4 DEF WriteAt
    <3>3. b \in 1..MaxSize /\ (b # received[p] + 1 => b \in 1..received[p])
      BY <2>5, SizeAssumption
    <3>4. b # received[p] + 1 => disk[fd[p]].data[b] = sha
      BY <2>2, <3>3 DEF Hashed, HasPrefix
    <3> QED
      BY <3>1, <3>2, <3>3, <3>4
  <2>8. fd' = [fd EXCEPT ![p] = fd[p]] /\ Goto(p, "read")
    BY <1>t, <2>1 DEF TypeOK, Goto
  <2> QED
    BY <2>1, <2>2, <2>3, <2>4, <2>6, <2>7, <2>8, FileStep
<1>13. ASSUME NEW p \in Puller,
              \/ SeeRefuse(p) \/ OpenResumeFails(p) \/ ExceedsSize(p) \/ EndsShort(p)
              \/ SeeMismatch(p) \/ ReadFails(p) \/ Stop(p) \/ PlaceFails(p) \/ Unlink(p)
       PROVE  IInv'
  <2>1. /\ End(p) /\ ppc[p] # "idle" /\ dest' = dest
        /\ part' = part \/ part' = [part EXCEPT ![DirOf[p]] = NoInode]
    BY <1>13 DEF SeeRefuse, OpenResumeFails, ExceedsSize, EndsShort, SeeMismatch, ReadFails,
       Stop, Idle, PlaceFails, Unlink
  <2>2. \A d \in Dir : part'[d] = part[d] \/ (d = DirOf[p] /\ part'[d] = NoInode)
    BY <1>t, <2>1 DEF TypeOK
  <2> QED
    BY <2>1, <2>2, EndSafe
<1>14. ASSUME NEW p \in Puller, PlaceByRename(p) PROVE IInv'
  <2>1. /\ End(p) /\ ppc[p] = "place" /\ Part(p) # NoInode
        /\ dest' = [dest EXCEPT ![DirOf[p]] = Part(p)]
        /\ part' = IF dest[DirOf[p]] # Part(p) THEN [part EXCEPT ![DirOf[p]] = NoInode] ELSE part
    BY <1>14 DEF PlaceByRename, Part
  <2>2. dest[DirOf[p]] # Part(p)
    BY <2>1, DirAssumption DEF IInv, LeftBehind, Part
  <2>3. /\ Part(p)' = NoInode
        /\ \A d \in Dir : part'[d] = part[d] \/ (d = DirOf[p] /\ part'[d] = NoInode)
    BY <1>t, <2>1, <2>2, DirAssumption DEF TypeOK, Part
  <2> QED
    BY <2>1, <2>3, EndSafe
<1>15. ASSUME NEW p \in Puller, PlaceByLink(p) PROVE IInv'
  BY <1>15, LinkSafe
<1>16. ASSUME NEW d \in Dir, UserTakes(d) \/ Sweep(d) PROVE IInv'
  <2>1. \A i \in Inode : ~Fresh(i)' => disk'[i] = disk[i]
    BY <1>16 DEF UserTakes, Sweep, Reclaim
  <2>2. /\ \A e \in Dir : part'[e] \in {part[e], NoInode}
        /\ \A e \in Dir : dest'[e] \in {dest[e], NoInode}
    BY <1>16, <1>t DEF UserTakes, Sweep, TypeOK
  <2>3. UNCHANGED <<loop, sha, overwrite, ppc, offset, received, good, fd>>
    BY <1>16 DEF UserTakes, Sweep
  <2> QED
    BY <2>1, <2>2, <2>3, NamesStep
<1>17. ASSUME NEW d \in Dir, UserPuts(d) PROVE IInv'
  <2>1. PICK i \in Inode : /\ Fresh(i) /\ dest' = [dest EXCEPT ![d] = i]
                           /\ \A j \in Inode : j # i => disk'[j] = disk[j]
    BY <1>17, <1>t DEF UserPuts, NewInode, TypeOK
  <2>2. UNCHANGED <<loop, sha, overwrite, ppc, offset, received, good, fd, part>>
    BY <1>17 DEF UserPuts
  <2>3. \A e \in Dir : dest'[e] = dest[e] \/ dest'[e] = i
    BY <1>t, <2>1 DEF TypeOK
  <2> QED
    BY <2>1, <2>2, <2>3, NamesStep
<1> QED
  BY <1>1, <1>2, <1>3, <1>4, <1>5, <1>6, <1>7, <1>8, <1>9, <1>10, <1>11, <1>12, <1>13,
     <1>14, <1>15, <1>16, <1>17 DEF Next, Announce, Handle, Pull, Trouble

LEMMA Safe == ExclusiveDirs => (Spec => []IInv)
<1> SUFFICES ASSUME ExclusiveDirs PROVE Spec => []IInv
  OBVIOUS
<1>1. IInv /\ TypeOK' /\ [Next]_vars => IInv'
  BY StepSafe
<1> QED
  BY <1>1, InitSafe, TypeCorrect, PTL DEF Spec

\* What PlaceByRename or PlaceByLink puts under the final name.
LEMMA PlacedWhole ==
  ASSUME IInv, TypeOK', NEW p \in Puller, PlaceByRename(p) \/ PlaceByLink(p)
  PROVE  /\ DirOf[p] \in Dir /\ sha \in Version
         /\ dest' = [dest EXCEPT ![DirOf[p]] = Part(p)]
         /\ dest[DirOf[p]] = NoInode \/ overwrite
         /\ Part(p) \in Inode
         /\ IsWhole(disk'[dest'[DirOf[p]]], sha)
<1> USE DEF IInv
<1>1. DirOf[p] \in Dir /\ sha \in Version /\ Part(p) = part[DirOf[p]]
  BY DirAssumption DEF TypeOK, Part
<1>2. /\ ppc[p] = "place" /\ Part(p) # NoInode /\ dest' = [dest EXCEPT ![DirOf[p]] = Part(p)]
      /\ dest[DirOf[p]] = NoInode \/ overwrite
  BY <1>1 DEF PlaceByRename, PlaceByLink
<1>3. dest'[DirOf[p]] = fd[p] /\ Part(p) = fd[p] /\ fd[p] \in Inode
  BY <1>1, <1>2 DEF OwnPartial, Holding, TypeOK
<1>4. disk'[fd[p]] = disk[fd[p]]
  <2>1. CASE PlaceByRename(p)
    BY <1>1, <1>3, <2>1, ReclaimKeeps DEF PlaceByRename, End
  <2>2. CASE PlaceByLink(p)
    BY <2>2 DEF PlaceByLink
  <2> QED
    BY <2>1, <2>2
<1>5. IsWhole(disk[fd[p]], sha)
  BY <1>2 DEF Filled, Holding, Hashed, Verified, IsWhole
<1> QED
  BY <1>1, <1>2, <1>3, <1>4, <1>5

\* Whatever happens to the source, to earlier attempts and to the partial, a downloader
\* that has its directory to itself places the file the broadcaster hashed, block for
\* block (Broadcast, Download, receiveResumable, placeFile).
THEOREM PlacedFilesAreTheOffer == ExclusiveDirs => (Spec => PlacedIsOffered)
<1> SUFFICES ASSUME ExclusiveDirs PROVE Spec => PlacedIsOffered
  OBVIOUS
<1> DEFINE Placed == \A p \in Puller :
             PlaceByRename(p) \/ PlaceByLink(p) => IsWhole(disk'[dest'[DirOf[p]]], sha)
<1>1. IInv /\ TypeOK' => Placed
  BY PlacedWhole
<1>2. IInv /\ IInv' => [Placed]_vars
  BY <1>1 DEF IInv
<1>3. Spec => [][Placed]_vars
  <2> HIDE DEF Placed
  <2> QED
    BY <1>2, Safe, PTL
<1> QED
  BY <1>3 DEF PlacedIsOffered

-----------------------------------------------------------------------------
(* Refinement of AtomicDelivery.                                           *)

\* A file that keeps its final name is left alone.
LEMMA VisibleKept ==
  ASSUME NEW d \in Dir, dest'[d] = dest[d],
         dest[d] # NoInode => disk'[dest[d]] = disk[dest[d]]
  PROVE  Visible'[d] = Visible[d]
BY DEF Visible

\* Renaming, linking and the user's doings aside, no step changes a final name, nor a
\* file that has one.
LEMMA NamedFilesKept ==
  ASSUME IInv, ExclusiveDirs, [Next]_vars,
         \A p \in Puller : ~PlaceByRename(p) /\ ~PlaceByLink(p),
         \A d \in Dir : ~UserTakes(d) /\ ~UserPuts(d)
  PROVE  dest' = dest /\ overwrite' = overwrite /\
         \A d \in Dir : dest[d] # NoInode => disk'[dest[d]] = disk[dest[d]]
<1> USE DEF loopVars, offerVars, dirVars, pullVars
<1>t. TypeOK
  BY DEF IInv
<1> DEFINE Kept == dest' = dest /\ overwrite' = overwrite /\
                   \A d \in Dir : dest[d] # NoInode => disk'[dest[d]] = disk[dest[d]]
<1>1. CASE Announce \/ Cancel \/ SourceChanges \/ UNCHANGED vars
  BY <1>1 DEF Announce, StatSource, HashSource, TakeSlot, AcceptFails, Cancel, SourceChanges,
     vars
<1>2. ASSUME NEW p \in Puller, Accept(p) \/ Handle(p) PROVE Kept
  BY <1>2 DEF Accept, Handle, Serve, StreamBlock, StreamEof, SendDone, StopServing,
     ServeFails, FreeSlot, Return
<1>3. ASSUME NEW p \in Puller, TurnAway(p) \/ Refuse(p) \/ WriteTimesOut(p) PROVE Kept
  BY <1>3 DEF TurnAway, Refuse, WriteTimesOut, Return
<1>4. ASSUME NEW p \in Puller,
             Start(p) \/ SeeAccept(p) \/ OpenResume(p) \/ TakeEof(p) \/ SeeDone(p)
      PROVE  Kept
  BY <1>4 DEF Start, SeeAccept, OpenResume, TakeEof, SeeDone
<1>5. ASSUME NEW p \in Puller,
             \/ SeeRefuse(p) \/ OpenResumeFails(p) \/ ExceedsSize(p) \/ EndsShort(p)
             \/ SeeMismatch(p) \/ ReadFails(p) \/ Stop(p) \/ PlaceFails(p) \/ Unlink(p)
      PROVE  Kept
  <2>1. End(p) /\ dest' = dest
    BY <1>5 DEF SeeRefuse, OpenResumeFails, ExceedsSize, EndsShort, SeeMismatch, ReadFails,
       Stop, PlaceFails, Unlink
  <2>2. \A d \in Dir : dest[d] # NoInode => disk'[dest[d]] = disk[dest[d]]
    BY <1>t, <2>1, ReclaimKeeps DEF End, TypeOK
  <2> QED
    BY <2>1, <2>2 DEF End
<1>6. ASSUME NEW p \in Puller, OpenFresh(p) \/ TruncatePartial(p) \/ TakeBlock(p) PROVE Kept
  <2>1. PICK i \in Inode : Exclusive(p, i) /\ \A j \in Inode : j # i => disk'[j] = disk[j]
    <3>1. CASE OpenFresh(p)
      <4>1. PICK i \in Inode : /\ IF Part(p) = NoInode THEN NewInode(i) ELSE i = Part(p)
                               /\ disk' = [disk EXCEPT ![i] = NoFile]
        BY <3>1 DEF OpenFresh, Part
      <4>2. Exclusive(p, i)
        BY <3>1, <4>1, OwnFile DEF OpenFresh, NewInode
      <4> QED
        BY <1>t, <4>1, <4>2 DEF TypeOK
    <3>2. CASE TruncatePartial(p) \/ TakeBlock(p)
      <4>1. ppc[p] \in {"truncate", "read"} /\ \E f : disk' = [disk EXCEPT ![fd[p]] = f]
        BY <3>2 DEF TruncatePartial, TakeBlock
      <4>2. fd[p] \in Inode
        BY <1>t, <4>1 DEF IInv, OwnPartial, Holding, TypeOK
      <4>3. Exclusive(p, fd[p])
        BY <4>1, <4>2, OwnFile DEF Holding
      <4> QED
        BY <1>t, <4>1, <4>2, <4>3 DEF TypeOK
    <3> QED
      BY <1>6, <3>1, <3>2
  <2>2. dest' = dest /\ overwrite' = overwrite
    BY <1>6 DEF OpenFresh, TruncatePartial, TakeBlock
  <2> QED
    BY <1>t, <2>1, <2>2 DEF TypeOK, Exclusive
<1>7. ASSUME NEW d \in Dir, Sweep(d) PROVE Kept
  <2>1. \A e \in Dir : dest[e] # NoInode => disk'[dest[e]] = disk[dest[e]]
    BY <1>7, <1>t, ReclaimKeeps DEF Sweep, TypeOK
  <2> QED
    BY <1>7, <2>1 DEF Sweep
<1> QED
  BY <1>1, <1>2, <1>3, <1>4, <1>5, <1>6, <1>7 DEF Next, Pull, Trouble

LEMMA StepRefines ==
  ASSUME IInv, TypeOK', ExclusiveDirs, [Next]_vars
  PROVE  [Delivery!Next]_(Delivery!vars)
<1>t. TypeOK
  BY DEF IInv
<1> USE DEF loopVars, offerVars, dirVars, pullVars
<1>1. CASE /\ \A p \in Puller : ~PlaceByRename(p) /\ ~PlaceByLink(p)
           /\ \A d \in Dir : ~UserTakes(d) /\ ~UserPuts(d)
  <2>1. overwrite' = overwrite /\ \A d \in Dir : Visible'[d] = Visible[d]
    BY <1>1, NamedFilesKept, VisibleKept
  <2>2. Visible' = Visible
    BY <2>1 DEF Visible
  <2> QED
    BY <2>1, <2>2 DEF Delivery!vars
<1>2. ASSUME NEW p \in Puller, PlaceByRename(p) \/ PlaceByLink(p)
      PROVE  [Delivery!Next]_(Delivery!vars)
  <2> DEFINE n == DirOf[p]
             content == disk'[dest'[n]]
  <2>1. /\ n \in Dir /\ sha \in Version /\ Part(p) \in Inode
        /\ dest' = [dest EXCEPT ![n] = Part(p)]
        /\ dest[n] = NoInode \/ overwrite
        /\ IsWhole(content, sha)
    BY <1>2, PlacedWhole
  <2>2. Part(p) # NoInode /\ dest'[n] = Part(p)
    BY <1>t, <2>1, NamesAssumption DEF TypeOK
  <2>3. \A d \in Dir : d # n => Visible'[d] = Visible[d]
    <3> SUFFICES ASSUME NEW d \in Dir, d # n PROVE Visible'[d] = Visible[d]
      OBVIOUS
    <3>1. dest'[d] = dest[d]
      BY <1>t, <2>1 DEF TypeOK
    <3>2. dest[d] # NoInode => disk'[dest[d]] = disk[dest[d]]
      BY <1>2, <1>t, <3>1, ReclaimKeeps DEF PlaceByRename, PlaceByLink, End, TypeOK
    <3> QED
      BY <3>1, <3>2, VisibleKept
  <2>4. Visible' = [Visible EXCEPT ![n] = content]
    <3>1. Visible'[n] = content
      BY <2>1, <2>2 DEF Visible
    <3>2. Visible = [d \in Dir |-> Visible[d]] /\ Visible' = [d \in Dir |-> Visible'[d]]
      BY DEF Visible
    <3> HIDE DEF n, content
    <3> QED
      BY <2>1, <2>3, <3>1, <3>2
  <2>5. content \in File
    BY <2>1, <2>2 DEF TypeOK
  <2>6. Visible[n] = NoInode \/ overwrite
    BY <2>1 DEF Visible
  <2>7. overwrite' = overwrite
    BY <1>2 DEF PlaceByRename, PlaceByLink, End
  <2>8. Delivery!Publish(n)
    BY <2>1, <2>4, <2>5, <2>6, <2>7 DEF Delivery!Publish
  <2> QED
    BY <2>1, <2>8 DEF Delivery!Next
<1>3. ASSUME NEW d \in Dir, UserTakes(d) PROVE [Delivery!Next]_(Delivery!vars)
  <2>1. dest' = [dest EXCEPT ![d] = NoInode] /\ Reclaim /\ overwrite' = overwrite
    BY <1>3 DEF UserTakes
  <2>2. \A e \in Dir : e # d => Visible'[e] = Visible[e]
    <3> SUFFICES ASSUME NEW e \in Dir, e # d PROVE Visible'[e] = Visible[e]
      OBVIOUS
    <3>1. dest'[e] = dest[e]
      BY <1>t, <2>1 DEF TypeOK
    <3>2. dest[e] # NoInode => disk'[dest[e]] = disk[dest[e]]
      BY <1>t, <2>1, <3>1, ReclaimKeeps DEF TypeOK
    <3> QED
      BY <3>1, <3>2, VisibleKept
  <2>3. Visible' = [Visible EXCEPT ![d] = NoInode]
    BY <1>t, <2>1, <2>2 DEF Visible, TypeOK
  <2> QED
    BY <2>1, <2>3 DEF Delivery!Take, Delivery!Next
<1>4. ASSUME NEW d \in Dir, UserPuts(d) PROVE [Delivery!Next]_(Delivery!vars)
  <2>1. dest[d] = NoInode /\ overwrite' = overwrite
    BY <1>4 DEF UserPuts
  <2>2. PICK i \in Inode, v \in Version :
          /\ Fresh(i)
          /\ dest' = [dest EXCEPT ![d] = i]
          /\ disk' = [disk EXCEPT ![i] =
               [size |-> SizeOf[v],
                data |-> [b \in 1..MaxSize |-> IF b <= SizeOf[v] THEN v ELSE Hole]]]
    BY <1>4 DEF UserPuts, NewInode
  <2>3. disk'[i] \in File /\ IsWhole(disk'[i], v)
    BY <1>t, <2>2, WholeFile DEF TypeOK
  <2>4. \A e \in Dir : e # d => Visible'[e] = Visible[e]
    <3> SUFFICES ASSUME NEW e \in Dir, e # d PROVE Visible'[e] = Visible[e]
      OBVIOUS
    <3>1. dest'[e] = dest[e]
      BY <1>t, <2>2 DEF TypeOK
    <3>2. dest[e] # i
      BY <2>2 DEF Fresh
    <3>3. dest[e] # NoInode => disk'[dest[e]] = disk[dest[e]]
      BY <1>t, <2>2, <3>2 DEF TypeOK
    <3> QED
      BY <3>1, <3>3, VisibleKept
  <2>5. dest'[d] = i /\ i # NoInode
    BY <1>t, <2>2, NamesAssumption DEF TypeOK
  <2>6. Visible' = [Visible EXCEPT ![d] = disk'[i]]
    BY <2>4, <2>5 DEF Visible
  <2>7. Visible[d] = NoInode
    BY <2>1 DEF Visible
  <2> QED
    BY <2>1, <2>3, <2>6, <2>7 DEF Delivery!Publish, Delivery!Next
<1> QED
  BY <1>1, <1>2, <1>3, <1>4

\* Downloads into directories of their own implement AtomicDelivery: under a final name
\* there is nothing or a whole file, it appears in one step, and it changes again only
\* when the user takes it or Overwrite is on.
THEOREM DownloadImplementsDelivery == ExclusiveDirs => (Spec => DeliveryIsAtomic)
<1> SUFFICES ASSUME ExclusiveDirs PROVE Spec => DeliveryIsAtomic
  OBVIOUS
<1>1. Init => Delivery!Init
  BY DEF Init, Delivery!Init, Visible
<1>2. IInv /\ IInv' /\ [Next]_vars => [Delivery!Next]_(Delivery!vars)
  BY StepRefines DEF IInv
<1> QED
  BY <1>1, <1>2, Safe, PTL DEF Spec, DeliveryIsAtomic, Delivery!Spec
=============================================================================
