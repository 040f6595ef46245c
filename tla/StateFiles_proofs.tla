-------------------------- MODULE StateFiles_proofs --------------------------
(***************************************************************************)
(* Proofs about StateFiles: any number of processes, entries, failed calls *)
(* and dying processes.                                                    *)
(***************************************************************************)
EXTENDS StateFiles, FiniteSetTheorems, TLAPS

Inode == 1 .. MaxInode
Texts == {Empty, Torn} \cup {Whole(s) : s \in SUBSET Entry}
Calls == {"add", "remove", "replace", "create", "clear"}
Working == [pc : {"read", "open", "write", "rename", "clear"}, call : Calls, entry : Entry,
            inode : Inode \cup {NoInode}, entries : SUBSET Entry]

TypeOK ==
  /\ disk \in [Inode -> Texts]
  /\ name \in [file : Inode \cup {NoInode}, tmp : Inode \cup {NoInode}]
  /\ proc \in [Process -> {Idle} \cup Working]
  /\ overlap \in BOOLEAN

\* Which calls there are on which file, and when they have a file open.
CallOK(p) ==
  /\ proc[p].pc = "clear" <=> proc[p].call = "clear"
  /\ proc[p].call = "create" <=> store = "identity"
  /\ proc[p].call = "clear" => store \notin Unique \cup InPlace
  /\ store \notin Reads => proc[p].call \in {"replace", "clear"}
  /\ proc[p].pc = "read" => store \in Reads
  /\ proc[p].pc = "rename" => store \notin InPlace
  /\ proc[p].inode # NoInode <=> proc[p].pc \in {"write", "rename"}

CallsOK == \A p \in Busy : CallOK(p)

\* The fixed temporary is never the file itself, and others do not use it.
TmpOK ==
  /\ name.tmp # NoInode => name.tmp # name.file
  /\ store \in Unique \cup InPlace => name.tmp = NoInode

Writing(p) == proc[p].pc \in {"write", "rename"}

Filled(p) ==
  /\ proc[p].pc = "write" => disk[proc[p].inode] = Empty
  /\ proc[p].pc = "rename" => disk[proc[p].inode] = Whole(proc[p].entries)

\* A temporary of the writer's own is nobody else's, and not the file yet.
Private == store \in Unique =>
  \A p \in Process : Writing(p) =>
    /\ proc[p].inode # name.file
    /\ \A q \in Process : q # p /\ Writing(q) => proc[q].inode # proc[p].inode
    /\ Filled(p)

\* What the call of p is about to save is what one of the versions there may be becomes.
Due(p) == \E c \in may : After(c, proc[p].call, proc[p].entry) = Whole(proc[p].entries)

\* A call that is alone.
AloneOK(p) ==
  /\ proc[p].pc \in {"open", "write", "rename"} => Due(p)
  /\ Writing(p) =>
       /\ Filled(p)
       /\ store \in InPlace => proc[p].inode = name.file
       /\ store \notin InPlace => proc[p].inode # name.file
       /\ store \notin Unique \cup InPlace => proc[p].inode = name.tmp
  /\ ~(Writing(p) /\ store \in InPlace) => Content \in may

Alone == ~overlap =>
  /\ \A p, q \in Busy : p = q
  /\ \A p \in Busy : AloneOK(p)
  /\ Busy = {} => Content \in may

IInv == TypeOK /\ CallsOK /\ TmpOK /\ Private /\ Alone
-----------------------------------------------------------------------------
LEMMA ProcType ==
  ASSUME TypeOK, NEW p \in Process
  PROVE  /\ proc[p].pc = "idle" => proc[p] = Idle
         /\ proc[p].pc # "idle" => proc[p] \in Working
<1>1. proc[p] \in {Idle} \cup Working
  BY DEF TypeOK
<1>2. CASE proc[p] = Idle
  BY <1>2 DEF Idle
<1>3. CASE proc[p] \in Working
  BY <1>3 DEF Working
<1> QED
  BY <1>1, <1>2, <1>3

LEMMA TextKinds ==
  ASSUME NEW s, NEW t
  PROVE  /\ Whole(s) # Empty /\ Whole(s) # Torn /\ Whole(s) # Missing /\ Whole(s) # Idle
         /\ Empty.kind = "empty" /\ Torn.kind = "torn" /\ Missing.kind = "missing"
         /\ Whole(s).kind = "whole" /\ Whole(s).entries = s
         /\ Whole(s) = Whole(t) => s = t
<1>1. Whole(s).kind = "whole" /\ Whole(s).entries = s /\ Whole(t).entries = t
  BY DEF Whole
<1>2. Empty.kind = "empty" /\ Torn.kind = "torn" /\ Missing.kind = "missing"
  BY DEF Empty, Torn, Missing
<1>3. Whole(s) # Idle
  <2>1. "kind" \in DOMAIN Whole(s)
    BY DEF Whole
  <2>2. "kind" \notin DOMAIN Idle
    BY DEF Idle
  <2> QED
    BY <2>1, <2>2
<1>4. Whole(s) # Empty /\ Whole(s) # Torn /\ Whole(s) # Missing
  BY <1>1, <1>2
<1>5. Whole(s) = Whole(t) => s = t
  BY <1>1
<1> QED
  BY <1>1, <1>2, <1>3, <1>4, <1>5

LEMMA TextTypes ==
  /\ Empty \in Texts /\ Torn \in Texts
  /\ \A s \in SUBSET Entry : Whole(s) \in Texts
  BY DEF Texts

LEMMA WholeText ==
  ASSUME NEW text \in Texts, text.kind = "whole"
  PROVE  text.entries \in SUBSET Entry /\ text = Whole(text.entries)
<1>1. text # Empty /\ text # Torn
  BY TextKinds
<1>2. PICK s \in SUBSET Entry : text = Whole(s)
  BY <1>1 DEF Texts
<1>3. text.entries = s
  BY <1>2, TextKinds
<1> QED
  BY <1>2, <1>3

LEMMA EntriesType ==
  ASSUME TypeOK
  PROVE  /\ Content \in Texts \cup {Missing}
         /\ Entries(Content) \in SUBSET Entry
         /\ Content.kind = "whole" => Content = Whole(Entries(Content))
<1>1. Content \in Texts \cup {Missing}
  BY DEF TypeOK, Content, At
<1>2. CASE Content.kind = "whole"
  <2>1. Content \in Texts
    BY <1>1, <1>2, TextKinds
  <2>2. Content.entries \in SUBSET Entry /\ Content = Whole(Content.entries)
    BY <1>2, <2>1, WholeText
  <2> QED
    BY <1>1, <1>2, <2>2 DEF Entries
<1>3. CASE Content.kind # "whole"
  BY <1>1, <1>3 DEF Entries
<1> QED
  BY <1>2, <1>3

LEMMA ApplyType ==
  ASSUME NEW call, NEW entries \in SUBSET Entry, NEW e \in Entry
  PROVE  Apply(call, entries, e) \in SUBSET Entry
  BY DEF Apply, AddSourceRegistryEntry, AddCacheEntry, RemoveCacheEntry, ActivityAppend,
         SetReceive, loadOrCreateIdentity, Replace

\* A text that nobody writes to and that keeps its name.
LEMMA ContentStays ==
  ASSUME name'.file = name.file, name.file # NoInode => disk'[name.file] = disk[name.file]
  PROVE  Content' = Content
  BY DEF Content, At

-----------------------------------------------------------------------------
\* There are enough inodes for a new file whenever one is made.
LEMMA FreshIsFree ==
  ASSUME TypeOK, CallsOK, NEW p \in Process, proc[p].pc = "open"
  PROVE  Fresh \in Inode /\ Fresh \notin InUse
<1> DEFINE others == Busy \ {p}
           held == {proc[q].inode : q \in others}
           known == (held \cup {name.file}) \cup {name.tmp}
<1>1. p \in Busy /\ proc[p].inode = NoInode
  BY DEF Busy, CallsOK, CallOK
<1>2. IsFiniteSet(Process) /\ Cardinality(Process) \in Nat
  BY InodeAssumption, FS_CardinalityType
<1>3. IsFiniteSet(Process \ {p}) /\ Cardinality(Process \ {p}) = Cardinality(Process) - 1
  BY <1>2, FS_RemoveElement
<1>4. others \in SUBSET (Process \ {p})
  BY DEF Busy
<1>5. IsFiniteSet(others) /\ Cardinality(others) <= Cardinality(Process) - 1
      /\ Cardinality(others) \in Nat
  BY <1>3, <1>4, FS_Subset, FS_CardinalityType
<1>6. IsFiniteSet(held) /\ Cardinality(held) <= Cardinality(others) /\ Cardinality(held) \in Nat
  <2> DEFINE f == [q \in others |-> proc[q].inode]
  <2>1. f \in Surjection(others, held)
    BY DEF Surjection
  <2> HIDE DEF f, held, others
  <2>2. IsFiniteSet(held) /\ Cardinality(held) <= Cardinality(others)
    BY <1>5, <2>1, FS_Surjection
  <2> QED
    BY <2>2, FS_CardinalityType
<1>7. IsFiniteSet(known) /\ Cardinality(known) <= Cardinality(held) + 2 /\ Cardinality(known) \in Nat
  <2> HIDE DEF held
  <2>1. IsFiniteSet(held \cup {name.file})
        /\ Cardinality(held \cup {name.file}) <= Cardinality(held) + 1
        /\ Cardinality(held \cup {name.file}) \in Nat
    BY <1>6, FS_AddElement, FS_CardinalityType
  <2> DEFINE most == held \cup {name.file}
  <2>2. IsFiniteSet(most \cup {name.tmp})
        /\ Cardinality(most \cup {name.tmp}) <= Cardinality(most) + 1
        /\ Cardinality(most \cup {name.tmp}) \in Nat
    <3> HIDE DEF most
    <3>1. IsFiniteSet(most) /\ Cardinality(most) \in Nat
      BY <2>1 DEF most
    <3>2. /\ IsFiniteSet(most \cup {name.tmp})
          /\ Cardinality(most \cup {name.tmp}) =
               IF name.tmp \in most THEN Cardinality(most) ELSE Cardinality(most) + 1
      BY <3>1, FS_AddElement, Zenon
    <3>3. Cardinality(most \cup {name.tmp}) \in Nat
      BY <3>2, FS_CardinalityType, Zenon
    <3> QED
      BY <3>1, <3>2, <3>3
  <2> QED
    BY <1>6, <2>1, <2>2
<1>8. \A i \in Inode : i \in InUse => i \in known
  BY <1>1, InodeAssumption DEF InUse, Inode
<1>9. IsFiniteSet(Inode) /\ Cardinality(Inode) = MaxInode
  BY InodeAssumption, FS_Interval DEF Inode
<1>10. ~(Inode \subseteq known)
  <2> HIDE DEF known, held, others
  <2>1. SUFFICES ASSUME Inode \in SUBSET known PROVE FALSE
    OBVIOUS
  <2>2. Cardinality(Inode) <= Cardinality(known)
    BY <1>7, <2>1, FS_Subset
  <2> QED
    BY <1>2, <1>5, <1>6, <1>7, <1>9, <2>2, InodeAssumption
<1>11. \E i \in 1 .. MaxInode : i \notin InUse
  BY <1>8, <1>10 DEF Inode
<1> QED
  BY <1>11 DEF Fresh, Inode

-----------------------------------------------------------------------------
\* A step of p changes one call, and only what the others do not hold.

LEMMA CallEnds ==
  ASSUME IInv, NEW p \in Busy, proc' = [proc EXCEPT ![p] = Idle], UNCHANGED <<store, overlap>>,
         disk' \in [Inode -> Texts],
         name' \in [file : Inode \cup {NoInode}, tmp : Inode \cup {NoInode}],
         TmpOK',
         store \in Unique =>
           \A q \in Process : q # p /\ Writing(q) =>
             proc[q].inode # name'.file /\ disk'[proc[q].inode] = disk[proc[q].inode],
         ~overlap => Content' \in may'
  PROVE  IInv'
<1> USE DEF IInv
<1>1. p \in Process
  BY DEF Busy
<1>2. proc' \in [Process -> {Idle} \cup Working]
  BY DEF TypeOK
<1>3. \A q \in Process : q # p => proc'[q] = proc[q]
  BY DEF TypeOK
<1>4. proc'[p].pc = "idle"
  BY <1>1 DEF TypeOK, Idle
<1>5. TypeOK'
  BY <1>2 DEF TypeOK
<1>6. \A q \in Busy' : q \in Busy /\ q # p /\ q \in Process
  BY <1>3, <1>4 DEF Busy
<1>7. CallsOK'
  BY <1>3, <1>6, Zenon DEF CallsOK, CallOK
<1>8. \A q \in Process : Writing(q)' => q # p /\ Writing(q) /\ proc'[q] = proc[q]
  BY <1>3, <1>4 DEF Writing
<1>9. Private'
  <2>1. SUFFICES ASSUME store \in Unique, NEW q \in Process, Writing(q)'
                 PROVE  /\ proc'[q].inode # name'.file
                        /\ \A r \in Process : r # q /\ Writing(r)' => proc'[r].inode # proc'[q].inode
                        /\ Filled(q)'
    BY Zenon DEF Private
  <2>2. q # p /\ Writing(q) /\ proc'[q] = proc[q]
    BY <1>8, <2>1
  <2>3. \A r \in Process : r # q /\ Writing(r)' => proc'[r].inode # proc'[q].inode
    BY <1>8, <2>1, <2>2, Zenon DEF Private
  <2>4. Filled(q)
    BY <2>1, <2>2, Zenon DEF Private
  <2>5. Filled(q)'
    BY <2>1, <2>2, <2>4, Zenon DEF Filled
  <2> QED
    BY <2>1, <2>2, <2>3, <2>5
<1>10. Alone'
  <2>1. SUFFICES ASSUME ~overlap PROVE Busy' = {} /\ Content' \in may'
    BY Zenon DEF Alone
  <2>2. \A q \in Busy : q = p
    BY <2>1 DEF Alone
  <2> QED
    BY <1>6, <2>1, <2>2
<1> QED
  BY <1>5, <1>7, <1>9, <1>10

LEMMA CallGoesOn ==
  ASSUME IInv, NEW p \in Process, NEW w \in Working, proc' = [proc EXCEPT ![p] = w],
         store' = store, overlap' \in BOOLEAN,
         disk' \in [Inode -> Texts],
         name' \in [file : Inode \cup {NoInode}, tmp : Inode \cup {NoInode}],
         TmpOK', CallOK(p)',
         store \in Unique =>
           \A q \in Process : q # p /\ Writing(q) =>
             /\ proc[q].inode # name'.file /\ disk'[proc[q].inode] = disk[proc[q].inode]
             /\ w.pc \in {"write", "rename"} => w.inode # proc[q].inode,
         store \in Unique /\ Writing(p)' => w.inode # name'.file /\ Filled(p)',
         ~overlap' => (\A q \in Busy : q = p) /\ AloneOK(p)'
  PROVE  IInv'
<1> USE DEF IInv
<1>1. proc' \in [Process -> {Idle} \cup Working]
  BY DEF TypeOK
<1>2. \A q \in Process : q # p => proc'[q] = proc[q]
  BY DEF TypeOK
<1>3. proc'[p] = w
  BY DEF TypeOK
<1>4. TypeOK'
  BY <1>1 DEF TypeOK
<1>5. \A q \in Busy' : q = p \/ (q \in Busy /\ q # p /\ proc'[q] = proc[q])
  BY <1>2 DEF Busy
<1>6. CallsOK'
  <2>1. SUFFICES ASSUME NEW q \in Busy' PROVE CallOK(q)'
    BY Zenon DEF CallsOK
  <2>2. CASE q # p
    <3>1. CallOK(q) /\ proc'[q] = proc[q]
      BY <1>5, <2>2 DEF CallsOK
    <3> QED
      BY <3>1, Zenon DEF CallOK
  <2> QED
    BY <2>2
<1>7. \A q \in Process : Writing(q)' => q = p \/ (q # p /\ Writing(q) /\ proc'[q] = proc[q])
  BY <1>2 DEF Writing
<1>8. Writing(p)' => w.pc \in {"write", "rename"}
  BY <1>3 DEF Writing
<1>9. Private'
  <2>1. SUFFICES ASSUME store \in Unique, NEW q \in Process, Writing(q)'
                 PROVE  /\ proc'[q].inode # name'.file
                        /\ \A r \in Process : r # q /\ Writing(r)' => proc'[r].inode # proc'[q].inode
                        /\ Filled(q)'
    BY Zenon DEF Private
  <2>2. CASE q = p
    <3>1. proc'[q].inode = w.inode
      BY <1>3, <2>2
    <3>2. \A r \in Process : r # q /\ Writing(r)' => proc'[r].inode # proc'[q].inode
      BY <1>7, <1>8, <2>1, <2>2, <3>1, Zenon
    <3> QED
      BY <2>1, <2>2, <3>1, <3>2
  <2>3. CASE q # p
    <3>1. Writing(q) /\ proc'[q] = proc[q]
      BY <1>7, <2>1, <2>3
    <3>2. Filled(q)
      BY <2>1, <3>1, Zenon DEF Private
    <3>3. Filled(q)'
      BY <2>1, <2>3, <3>1, <3>2, Zenon DEF Filled
    <3>4. \A r \in Process : r # q /\ Writing(r)' => proc'[r].inode # proc'[q].inode
      <4>1. SUFFICES ASSUME NEW r \in Process, r # q, Writing(r)'
                     PROVE  proc'[r].inode # proc'[q].inode
        OBVIOUS
      <4>2. CASE r = p
        <5>1. proc'[r].inode = w.inode /\ w.pc \in {"write", "rename"}
          BY <1>3, <1>8, <4>1, <4>2
        <5> QED
          BY <2>1, <2>3, <3>1, <5>1, Zenon
      <4>3. CASE r # p
        <5>1. Writing(r) /\ proc'[r] = proc[r]
          BY <1>7, <4>1, <4>3
        <5> QED
          BY <2>1, <3>1, <4>1, <5>1, Zenon DEF Private
      <4> QED
        BY <4>2, <4>3
    <3> QED
      BY <2>1, <2>3, <3>1, <3>3, <3>4, Zenon
  <2> QED
    BY <2>2, <2>3
<1>10. Alone'
  <2>1. p \in Busy'
    BY <1>1, <1>3 DEF Busy, Working
  <2>2. SUFFICES ASSUME ~overlap'
                 PROVE  (\A q, r \in Busy' : q = r) /\ (\A q \in Busy' : AloneOK(q)')
    BY <2>1, Zenon DEF Alone
  <2>3. \A q \in Busy' : q = p
    BY <1>5, <2>2
  <2> QED
    BY <2>2, <2>3, Zenon
<1> QED
  BY <1>4, <1>6, <1>9, <1>10

\* A call that is alone is the only one.
LEMMA OnlyCall ==
  ASSUME IInv, NEW p \in Busy, ~overlap
  PROVE  (\A q \in Busy : q = p) /\ AloneOK(p)
  BY DEF IInv, Alone

LEMMA FailureKeepsMay ==
  ASSUME NEW p, Fails(p)
  PROVE  /\ may \subseteq may'
         /\ store \in InPlace => {Empty, Torn} \subseteq may'
  BY DEF Fails

LEMMA ReturnTakesMay ==
  ASSUME NEW p, Returns(p), NEW c \in may
  PROVE  After(c, proc[p].call, proc[p].entry) \in may'
  BY DEF Returns

-----------------------------------------------------------------------------
\* What a call saves is what becomes of the version it has read.
LEMMA SavedIsAfter ==
  ASSUME NEW c, NEW call, NEW e, call # "clear", store \in Reads => Readable(c),
         ~(call = "create" /\ c.kind = "whole")
  PROVE  After(c, call, e) = Whole(Apply(call, Entries(c), e))
  BY Zenon DEF After

LEMMA ReplaceTakesNothing ==
  ASSUME NEW s, NEW t, NEW e
  PROVE  Apply("replace", s, e) = Apply("replace", t, e)
  BY DEF Apply, Replace

\* The file and what a call is for do not change while it goes on.
LEMMA AfterStays ==
  ASSUME store' = store, NEW c, NEW call, NEW e
  PROVE  After(c, call, e)' = After(c, call, e)
  BY Zenon DEF After, Readable, Lenient, Apply

LEMMA DueMoves ==
  ASSUME store' = store, NEW p, NEW w, proc'[p] = w,
         \E c \in may' : After(c, w.call, w.entry) = Whole(w.entries)
  PROVE  Due(p)'
<1>1. PICK c \in may' : After(c, w.call, w.entry) = Whole(w.entries)
  OBVIOUS
<1>2. After(c, w.call, w.entry)' = After(c, w.call, w.entry)
  BY AfterStays
<1> QED
  BY <1>1, <1>2, Zenon DEF Due

LEMMA NothingMoves ==
  ASSUME IInv, UNCHANGED <<store, disk, name>>
  PROVE  /\ disk' \in [Inode -> Texts]
         /\ name' \in [file : Inode \cup {NoInode}, tmp : Inode \cup {NoInode}]
         /\ TmpOK' /\ Content' = Content
         /\ store \in Unique => \A q \in Process : Writing(q) =>
              proc[q].inode # name'.file /\ disk'[proc[q].inode] = disk[proc[q].inode]
<1>1. disk' \in [Inode -> Texts] /\ TmpOK' /\ Content' = Content
      /\ name' \in [file : Inode \cup {NoInode}, tmp : Inode \cup {NoInode}]
  BY DEF IInv, TypeOK, TmpOK, Content, At
<1>2. store \in Unique => \A q \in Process : Writing(q) =>
        proc[q].inode # name'.file /\ disk'[proc[q].inode] = disk[proc[q].inode]
  BY Zenon DEF IInv, Private
<1> QED
  BY <1>1, <1>2

LEMMA BeginKeeps ==
  ASSUME IInv, NEW p \in Process, NEW e \in Entry, NEW call \in Calls, Begin(p, call, e),
         call = "create" <=> store = "identity",
         call = "clear" => store \notin Unique \cup InPlace,
         store \notin Reads => call \in {"replace", "clear"}
  PROVE  IInv'
<1> DEFINE w == [pc |-> IF call = "clear" THEN "clear" ELSE IF store \in Reads THEN "read" ELSE "open",
                 call |-> call, entry |-> e, inode |-> NoInode,
                 entries |-> IF store \in Reads THEN {} ELSE Apply(call, {}, e)]
<1>1. /\ proc[p] = Idle /\ proc' = [proc EXCEPT ![p] = w] /\ UNCHANGED <<store, disk, name>>
      /\ overlap' = (Busy # {}) /\ may' = IF Busy = {} /\ overlap THEN {Content} ELSE may
  BY DEF Begin
<1>2. Apply(call, {}, e) \in SUBSET Entry
  BY ApplyType
<1>3. w \in Working
  BY <1>2 DEF Working
<1>4. w.pc = (IF call = "clear" THEN "clear" ELSE IF store \in Reads THEN "read" ELSE "open")
      /\ w.call = call /\ w.entry = e /\ w.inode = NoInode
      /\ w.entries = IF store \in Reads THEN {} ELSE Apply(call, {}, e)
  OBVIOUS
<1> HIDE DEF w
<1>5. proc'[p] = w
  BY <1>1 DEF IInv, TypeOK
<1>6. CallOK(p)'
  BY <1>1, <1>4, <1>5 DEF CallOK
<1>7. ~Writing(p)' /\ w.pc \notin {"write", "rename"}
  BY <1>4, <1>5 DEF Writing
<1>8. ASSUME ~overlap'
      PROVE  (\A q \in Busy : q = p) /\ AloneOK(p)'
  <2>1. Busy = {}
    BY <1>1, <1>8
  <2>2. Content \in may'
    <3>1. CASE overlap
      BY <1>1, <2>1, <3>1
    <3>2. CASE ~overlap
      BY <1>1, <2>1, <3>2 DEF IInv, Alone
    <3> QED
      BY <3>1, <3>2
  <2>3. Content' \in may'
    BY <1>1, <2>2, NothingMoves
  <2>4. ASSUME w.pc = "open"
        PROVE  Due(p)'
    <3>1. call = "replace" /\ store \notin Reads
      BY <1>4, <2>4
    <3>2. After(Content, call, e) = Whole(Apply(call, Entries(Content), e))
      BY <3>1, SavedIsAfter
    <3>3. Whole(w.entries) = After(Content, call, e)
      BY <1>4, <3>1, <3>2, ReplaceTakesNothing
    <3>4. \E c \in may' : After(c, w.call, w.entry) = Whole(w.entries)
      BY <1>4, <2>2, <3>3
    <3> QED
      BY <1>1, <1>5, <3>4, DueMoves
  <2>5. AloneOK(p)'
    BY <1>5, <1>7, <2>3, <2>4 DEF AloneOK
  <2> QED
    BY <2>1, <2>5
<1> QED
  BY <1>1, <1>3, <1>6, <1>7, <1>8, NothingMoves, CallGoesOn

LEMMA CallKeeps ==
  ASSUME IInv, NEW p \in Process, NEW e \in Entry, Call(p, e)
  PROVE  IInv'
<1>1. CASE UpdateSourceRegistry(p, e)
  BY <1>1, BeginKeeps DEF UpdateSourceRegistry, Calls, Reads, Unique, InPlace
<1>2. CASE SaveListIndex(p, e)
  BY <1>2, BeginKeeps DEF SaveListIndex, Calls, Reads, Unique, InPlace
<1>3. CASE UpdateCacheManifest(p, e)
  BY <1>3, BeginKeeps DEF UpdateCacheManifest, Calls, Reads, Unique, InPlace
<1>4. CASE SaveUpdateCheckCache(p, e)
  BY <1>4, BeginKeeps DEF SaveUpdateCheckCache, Calls, Reads, Unique, InPlace
<1>5. CASE Identity(p, e)
  BY <1>5, BeginKeeps DEF Identity, Calls, Reads, Unique, InPlace
<1>6. CASE SetScanInterval(p, e)
  BY <1>6, BeginKeeps DEF SetScanInterval, Calls, Reads, Unique, InPlace
<1>7. CASE LogActivity(p, e)
  BY <1>7, BeginKeeps DEF LogActivity, Calls, Reads, Unique, InPlace
<1>8. CASE ActivityClear(p, e)
  BY <1>8, BeginKeeps DEF ActivityClear, Calls, Reads, Unique, InPlace
<1>9. CASE SaveSignedTrust(p, e)
  BY <1>9, BeginKeeps DEF SaveSignedTrust, Calls, Reads, Unique, InPlace
<1>10. CASE ResetTrust(p, e)
  BY <1>10, BeginKeeps DEF ResetTrust, Calls, Reads, Unique, InPlace
<1>11. CASE UpdateConfig(p, e)
  BY <1>11, BeginKeeps DEF UpdateConfig, Calls, Reads, Unique, InPlace
<1> QED
  BY <1>1, <1>2, <1>3, <1>4, <1>5, <1>6, <1>7, <1>8, <1>9, <1>10, <1>11 DEF Call

\* A call that ends without touching a file.
LEMMA EndUntouched ==
  ASSUME IInv, NEW p \in Busy, UNCHANGED <<store, disk, name, overlap>>,
         proc' = [proc EXCEPT ![p] = Idle], ~overlap => Content \in may'
  PROVE  IInv'
  BY NothingMoves, CallEnds

LEMMA ReadKeeps ==
  ASSUME IInv, NEW p \in Process, Read(p)
  PROVE  IInv'
<1>1. proc[p].pc = "read" /\ UNCHANGED <<store, disk, name, faults, overlap>>
  BY DEF Read
<1>2. p \in Busy /\ proc[p] \in Working /\ CallOK(p)
  BY <1>1, ProcType DEF IInv, Busy, CallsOK
<1>3. ~overlap => Content \in may /\ \A q \in Busy : q = p
  BY <1>1, <1>2, OnlyCall DEF AloneOK, Writing
<1>4. CASE ~Readable(Content)
  <2>1. Fails(p)
    BY <1>4 DEF Read
  <2>2. proc' = [proc EXCEPT ![p] = Idle] /\ may \subseteq may'
    BY <2>1, FailureKeepsMay DEF Fails
  <2> QED
    BY <1>1, <1>2, <1>3, <2>2, EndUntouched
<1>5. CASE Readable(Content) /\ store = "identity" /\ Content.kind = "whole"
  <2>1. Returns(p)
    BY <1>5 DEF Read
  <2>2. proc' = [proc EXCEPT ![p] = Idle]
    BY <2>1 DEF Returns
  <2>3. proc[p].call = "create"
    BY <1>2, <1>5 DEF CallOK
  <2>4. After(Content, proc[p].call, proc[p].entry) = Content
    BY <1>5, <2>3, Zenon DEF After
  <2>5. ~overlap => Content \in may'
    BY <1>3, <2>1, <2>4, ReturnTakesMay
  <2> QED
    BY <1>1, <1>2, <2>2, <2>5, EndUntouched
<1>6. CASE Readable(Content) /\ ~(store = "identity" /\ Content.kind = "whole")
  <2> DEFINE new == Apply(proc[p].call, Entries(Content), proc[p].entry)
             w == [proc[p] EXCEPT !.pc = "open", !.entries = new]
  <2>1. proc' = [proc EXCEPT ![p].pc = "open", ![p].entries = new] /\ may' = may
    BY <1>6, Zenon DEF Read
  <2>2. new \in SUBSET Entry
    BY <1>2, EntriesType, ApplyType DEF IInv, Working
  <2>3. w.pc = "open" /\ w.call = proc[p].call /\ w.entry = proc[p].entry
        /\ w.inode = proc[p].inode /\ w.entries = new
    <3> HIDE DEF new
    <3> QED
      BY <1>2 DEF Working
  <2>4. w \in Working
    <3> HIDE DEF new
    <3> QED
      BY <1>2, <2>2 DEF Working
  <2>5. proc' = [proc EXCEPT ![p] = w]
    <3> HIDE DEF new
    <3> QED
      BY <2>1 DEF IInv, TypeOK
  <2>6. Apply(w.call, Entries(Content), w.entry) = w.entries
    BY <2>3, Zenon
  <2> HIDE DEF new, w
  <2>7. proc'[p] = w
    BY <2>5 DEF IInv, TypeOK
  <2>8. CallOK(p)'
    BY <1>1, <1>2, <2>3, <2>7 DEF CallOK
  <2>9. ~Writing(p)' /\ w.pc \notin {"write", "rename"}
    BY <2>3, <2>7 DEF Writing
  <2>10. ASSUME ~overlap'
         PROVE  (\A q \in Busy : q = p) /\ AloneOK(p)'
    <3>1. Content \in may' /\ \A q \in Busy : q = p
      BY <1>1, <1>3, <2>1, <2>10
    <3>2. w.call # "clear" /\ ~(w.call = "create" /\ Content.kind = "whole")
      BY <1>1, <1>2, <1>6, <2>3 DEF CallOK
    <3>3. After(Content, w.call, w.entry) = Whole(w.entries)
      BY <1>6, <2>6, <3>2, SavedIsAfter
    <3>4. Due(p)'
      BY <1>1, <2>7, <3>1, <3>3, DueMoves
    <3>5. Content' \in may'
      BY <1>1, <3>1, NothingMoves
    <3> QED
      BY <2>9, <3>1, <3>4, <3>5 DEF AloneOK
  <2> QED
    BY <1>1, <2>4, <2>5, <2>8, <2>9, <2>10, NothingMoves, CallGoesOn DEF IInv, TypeOK
<1> QED
  BY <1>4, <1>5, <1>6

-----------------------------------------------------------------------------
LEMMA OpenKeeps ==
  ASSUME IInv, NEW p \in Process, proc[p].pc = "open", NEW i \in Inode,
         NEW names \in [file : Inode \cup {NoInode}, tmp : Inode \cup {NoInode}],
         OpenAs(p, i, names),
         names.tmp # NoInode => names.tmp # names.file,
         store \in Unique \cup InPlace => names.tmp = NoInode,
         store \in Unique => i \notin InUse,
         store \in InPlace => i = names.file,
         store \notin InPlace => i # names.file /\ names.file = name.file,
         store \notin Unique \cup InPlace => i = names.tmp
  PROVE  IInv'
<1> DEFINE w == [proc[p] EXCEPT !.pc = "write", !.inode = i]
<1>1. /\ disk' = [disk EXCEPT ![i] = Empty] /\ name' = names
      /\ proc' = [proc EXCEPT ![p].pc = "write", ![p].inode = i]
      /\ UNCHANGED <<store, faults, may, overlap>>
  BY DEF OpenAs
<1>2. p \in Busy /\ proc[p] \in Working /\ CallOK(p)
  BY ProcType DEF IInv, Busy, CallsOK
<1>3. w \in Working /\ w.pc = "write" /\ w.inode = i /\ w.call = proc[p].call
      /\ w.entry = proc[p].entry /\ w.entries = proc[p].entries
  BY <1>2 DEF Working
<1>4. proc' = [proc EXCEPT ![p] = w]
  BY <1>1 DEF IInv, TypeOK
<1> HIDE DEF w
<1>5. proc'[p] = w
  BY <1>4 DEF IInv, TypeOK
<1>6. disk' \in [Inode -> Texts] /\ disk'[i] = Empty /\ \A j \in Inode : j # i => disk'[j] = disk[j]
  BY <1>1, TextTypes DEF IInv, TypeOK
<1>7. TmpOK'
  BY <1>1 DEF TmpOK
<1>8. CallOK(p)'
  BY <1>1, <1>2, <1>3, <1>5, InodeAssumption DEF CallOK, Inode
<1>9. Writing(p)' /\ Filled(p)'
  BY <1>3, <1>5, <1>6 DEF Writing, Filled
<1>10. ASSUME store \in Unique, NEW q \in Process, q # p, Writing(q)
       PROVE  proc[q].inode # name'.file /\ disk'[proc[q].inode] = disk[proc[q].inode]
              /\ w.inode # proc[q].inode
  <2>1. q \in Busy /\ proc[q] \in Working /\ CallOK(q)
    BY <1>10, ProcType DEF IInv, Busy, CallsOK, Writing
  <2>2. proc[q].inode \in Inode
    BY <1>10, <2>1 DEF Working, CallOK, Writing
  <2>3. proc[q].inode \in InUse
    BY <2>1 DEF InUse
  <2>4. store \notin InPlace
    BY <1>10 DEF Unique, InPlace
  <2>5. proc[q].inode # name.file
    BY <1>10, Zenon DEF IInv, Private
  <2> QED
    BY <1>1, <1>3, <1>6, <1>10, <2>2, <2>3, <2>4, <2>5
<1>11. store \in Unique => w.inode # name'.file
  BY <1>1, <1>3 DEF Unique, InPlace
<1>12. ASSUME ~overlap'
       PROVE  (\A q \in Busy : q = p) /\ AloneOK(p)'
  <2>1. (\A q \in Busy : q = p) /\ AloneOK(p)
    BY <1>1, <1>2, <1>12, OnlyCall
  <2>2. Due(p) /\ Content \in may
    BY <2>1 DEF AloneOK, Writing
  <2>3. Due(p)'
    <3>1. \E c \in may' : After(c, w.call, w.entry) = Whole(w.entries)
      BY <1>1, <1>3, <2>2 DEF Due
    <3> QED
      BY <1>1, <1>5, <3>1, DueMoves
  <2>4. store \notin InPlace => Content' \in may'
    <3>1. SUFFICES ASSUME store \notin InPlace PROVE Content' = Content
      BY <1>1, <2>2
    <3>2. name'.file = name.file /\ name.file # i
      BY <1>1, <3>1
    <3>3. name.file # NoInode => disk'[name.file] = disk[name.file]
      BY <1>6, <3>2 DEF IInv, TypeOK
    <3> QED
      BY <3>2, <3>3, ContentStays
  <2> QED
    BY <1>1, <1>3, <1>5, <1>9, <2>1, <2>3, <2>4 DEF AloneOK
<1> QED
  BY <1>1, <1>3, <1>4, <1>6, <1>7, <1>8, <1>9, <1>10, <1>11, <1>12, CallGoesOn DEF IInv, TypeOK

LEMMA CreateTempKeeps ==
  ASSUME IInv, NEW p \in Process, CreateTemp(p)
  PROVE  IInv'
<1>1. store \in Unique /\ store \notin InPlace /\ proc[p].pc = "open" /\ OpenAs(p, Fresh, name)
  BY DEF CreateTemp, Unique, InPlace
<1>2. Fresh \in Inode /\ Fresh \notin InUse
  BY <1>1, FreshIsFree DEF IInv
<1>3. Fresh # name.file
  BY <1>2 DEF InUse
<1>4. name \in [file : Inode \cup {NoInode}, tmp : Inode \cup {NoInode}] /\ TmpOK
  BY DEF IInv, TypeOK
<1> QED
  BY <1>1, <1>2, <1>3, <1>4, OpenKeeps DEF TmpOK

LEMMA OpenTmpKeeps ==
  ASSUME IInv, NEW p \in Process, OpenTmp(p)
  PROVE  IInv'
<1> DEFINE i == IF name.tmp = NoInode THEN Fresh ELSE name.tmp
           names == [name EXCEPT !.tmp = i]
<1>1. store \notin Unique \cup InPlace /\ proc[p].pc = "open" /\ OpenAs(p, i, names)
  BY DEF OpenTmp
<1>2. Fresh \in Inode /\ Fresh # name.file
  BY <1>1, FreshIsFree DEF IInv, InUse
<1>3. name \in [file : Inode \cup {NoInode}, tmp : Inode \cup {NoInode}] /\ TmpOK
  BY DEF IInv, TypeOK
<1>4. i \in Inode /\ i # name.file
  BY <1>2, <1>3 DEF TmpOK
<1> HIDE DEF i
<1>5. names \in [file : Inode \cup {NoInode}, tmp : Inode \cup {NoInode}]
      /\ names.file = name.file /\ names.tmp = i
  BY <1>3, <1>4
<1> QED
  BY <1>1, <1>4, <1>5, OpenKeeps

LEMMA OpenFileKeeps ==
  ASSUME IInv, NEW p \in Process, OpenFile(p)
  PROVE  IInv'
<1> DEFINE i == IF name.file = NoInode THEN Fresh ELSE name.file
           names == [name EXCEPT !.file = i]
<1>1. store \in InPlace /\ proc[p].pc = "open" /\ OpenAs(p, i, names)
  BY DEF OpenFile
<1>2. Fresh \in Inode
  BY <1>1, FreshIsFree DEF IInv
<1>3. name \in [file : Inode \cup {NoInode}, tmp : Inode \cup {NoInode}] /\ name.tmp = NoInode
  BY <1>1 DEF IInv, TypeOK, TmpOK
<1>4. i \in Inode
  BY <1>2, <1>3
<1> HIDE DEF i
<1>5. names \in [file : Inode \cup {NoInode}, tmp : Inode \cup {NoInode}]
      /\ names.file = i /\ names.tmp = NoInode
  BY <1>3, <1>4
<1>6. store \notin Unique
  BY <1>1 DEF Unique, InPlace
<1> QED
  BY <1>1, <1>4, <1>5, <1>6, OpenKeeps

-----------------------------------------------------------------------------
LEMMA WriterType ==
  ASSUME IInv, NEW p \in Process, Writing(p)
  PROVE  /\ p \in Busy /\ proc[p] \in Working /\ CallOK(p) /\ proc[p].inode \in Inode
         /\ Whole(proc[p].entries) \in Texts
<1>1. p \in Busy /\ proc[p] \in Working /\ CallOK(p)
  BY ProcType DEF IInv, Busy, CallsOK, Writing
<1>2. proc[p].inode \in Inode
  BY <1>1 DEF Working, CallOK, Writing
<1>3. Whole(proc[p].entries) \in Texts
  BY <1>1, TextTypes DEF Working
<1> QED
  BY <1>1, <1>2, <1>3

\* What p does to the inode it holds, others with private files do not see.
LEMMA OthersUntouched ==
  ASSUME IInv, NEW p \in Process, Writing(p),
         \A j \in Inode : j # proc[p].inode => disk'[j] = disk[j],
         name'.file \in {name.file, proc[p].inode}
  PROVE  store \in Unique =>
           \A q \in Process : q # p /\ Writing(q) =>
             /\ proc[q].inode # name'.file /\ disk'[proc[q].inode] = disk[proc[q].inode]
             /\ proc[p].inode # proc[q].inode
<1> SUFFICES ASSUME store \in Unique, NEW q \in Process, q # p, Writing(q)
             PROVE  /\ proc[q].inode # name'.file /\ disk'[proc[q].inode] = disk[proc[q].inode]
                    /\ proc[p].inode # proc[q].inode
  OBVIOUS
<1>1. proc[q].inode \in Inode
  BY WriterType
<1>2. proc[q].inode # name.file /\ proc[q].inode # proc[p].inode
  BY Zenon DEF IInv, Private
<1> QED
  BY <1>1, <1>2

LEMMA DueIsReturned ==
  ASSUME IInv, NEW p, Due(p), Returns(p)
  PROVE  Whole(proc[p].entries) \in may'
  BY ReturnTakesMay DEF Due

LEMMA WriteKeeps ==
  ASSUME IInv, NEW p \in Process, Write(p)
  PROVE  IInv'
<1> DEFINE i == proc[p].inode
           whole == Whole(proc[p].entries)
<1>1. proc[p].pc = "write" /\ Writing(p) /\ UNCHANGED <<store, name, faults, overlap>>
  BY DEF Write, Writing
<1>2. p \in Busy /\ proc[p] \in Working /\ CallOK(p) /\ i \in Inode /\ whole \in Texts
  BY <1>1, WriterType
<1>3. PICK text \in {whole} \cup (IF disk[i] = Empty THEN {} ELSE {Torn}) :
        disk' = [disk EXCEPT ![i] = text]
  BY DEF Write
<1>4. text \in Texts /\ (disk[i] = Empty => text = whole)
  BY <1>2, <1>3, TextTypes
<1> HIDE DEF i, whole
<1>5. disk' \in [Inode -> Texts] /\ disk'[i] = text /\ \A j \in Inode : j # i => disk'[j] = disk[j]
  BY <1>2, <1>3, <1>4 DEF IInv, TypeOK
<1>6. name' \in [file : Inode \cup {NoInode}, tmp : Inode \cup {NoInode}] /\ TmpOK'
  BY <1>1 DEF IInv, TypeOK, TmpOK
<1>7. store \in Unique =>
        \A q \in Process : q # p /\ Writing(q) =>
          /\ proc[q].inode # name'.file /\ disk'[proc[q].inode] = disk[proc[q].inode]
          /\ proc[p].inode # proc[q].inode
  BY <1>1, <1>5, OthersUntouched DEF i
<1>8. ASSUME ~overlap
      PROVE  (\A q \in Busy : q = p) /\ AloneOK(p) /\ Due(p) /\ disk'[i] = whole
  <2>1. (\A q \in Busy : q = p) /\ AloneOK(p)
    BY <1>2, <1>8, OnlyCall
  <2>2. Due(p) /\ Filled(p)
    BY <1>1, <2>1 DEF AloneOK
  <2>3. disk[i] = Empty
    BY <1>1, <2>2 DEF Filled, i
  <2> QED
    BY <1>4, <1>5, <2>1, <2>2, <2>3
<1>9. CASE store \in InPlace
  <2>1. Returns(p)
    BY <1>9 DEF Write
  <2>2. ASSUME ~overlap PROVE Content' \in may'
    <3>1. i = name.file
      BY <1>1, <1>8, <1>9, <2>2 DEF AloneOK, i
    <3>2. Content' = whole
      BY <1>1, <1>2, <1>8, <2>2, <3>1, InodeAssumption DEF Content, At, Inode
    <3> QED
      BY <1>8, <2>1, <2>2, <3>2, DueIsReturned DEF whole
  <2>3. proc' = [proc EXCEPT ![p] = Idle]
    BY <2>1 DEF Returns
  <2> QED
    BY <1>1, <1>2, <1>5, <1>6, <1>7, <2>2, <2>3, CallEnds
<1>10. CASE store \notin InPlace
  <2> DEFINE w == [proc[p] EXCEPT !.pc = "rename"]
  <2>1. proc' = [proc EXCEPT ![p].pc = "rename"] /\ UNCHANGED may
    BY <1>10 DEF Write, Goto
  <2>2. w \in Working /\ w.pc = "rename" /\ w.inode = proc[p].inode /\ w.call = proc[p].call
        /\ w.entry = proc[p].entry /\ w.entries = proc[p].entries
    BY <1>2 DEF Working
  <2>3. proc' = [proc EXCEPT ![p] = w]
    BY <2>1 DEF IInv, TypeOK
  <2> HIDE DEF w
  <2>4. proc'[p] = w
    BY <2>3 DEF IInv, TypeOK
  <2>5. CallOK(p)'
    BY <1>1, <1>2, <1>10, <2>2, <2>4 DEF CallOK
  <2>6. Writing(p)' /\ (disk'[i] = whole => Filled(p)')
    BY <2>2, <2>4 DEF Writing, Filled, i, whole
  <2>7. ASSUME store \in Unique
        PROVE  w.inode # name'.file /\ Filled(p)'
    <3>1. proc[p].inode # name.file /\ Filled(p)
      BY <1>1, <2>7, Zenon DEF IInv, Private
    <3>2. disk[i] = Empty
      BY <1>1, <3>1 DEF Filled, i
    <3> QED
      BY <1>1, <1>4, <1>5, <2>2, <2>6, <3>1, <3>2
  <2>8. ASSUME ~overlap'
        PROVE  (\A q \in Busy : q = p) /\ AloneOK(p)'
    <3>1. (\A q \in Busy : q = p) /\ AloneOK(p) /\ Due(p) /\ disk'[i] = whole
      BY <1>1, <1>8, <2>8
    <3>2. Due(p)'
      <4>1. \E c \in may' : After(c, w.call, w.entry) = Whole(w.entries)
        BY <2>1, <2>2, <3>1 DEF Due
      <4> QED
        BY <1>1, <2>4, <4>1, DueMoves
    <3>3. Content' \in may'
      <4>1. Content \in may /\ i # name.file
        BY <1>1, <1>10, <3>1 DEF AloneOK, i
      <4>2. name.file # NoInode => disk'[name.file] = disk[name.file]
        BY <1>5, <4>1 DEF IInv, TypeOK
      <4>3. Content' = Content
        BY <1>1, <4>2, ContentStays
      <4> QED
        BY <2>1, <4>1, <4>3
    <3> QED
      BY <1>1, <1>10, <2>2, <2>4, <2>6, <3>1, <3>2, <3>3 DEF AloneOK
  <2> QED
    BY <1>1, <1>5, <1>6, <1>7, <2>2, <2>3, <2>5, <2>7, <2>8, CallGoesOn DEF IInv, TypeOK
<1> QED
  BY <1>9, <1>10

\* A call that fails leaves what may be there, and what it may have destroyed.
LEMMA FailureIsMay ==
  ASSUME IInv, NEW p \in Busy, Fails(p), UNCHANGED <<store, disk, name, overlap>>
  PROVE  IInv'
<1>1. proc' = [proc EXCEPT ![p] = Idle] /\ may \subseteq may'
      /\ (store \in InPlace => Empty \in may')
  BY FailureKeepsMay DEF Fails
<1>2. ASSUME ~overlap PROVE Content \in may'
  <2>1. AloneOK(p)
    BY <1>2, OnlyCall
  <2>2. CASE ~(Writing(p) /\ store \in InPlace)
    BY <1>1, <2>1, <2>2 DEF AloneOK
  <2>3. CASE Writing(p) /\ store \in InPlace
    <3>1. p \in Process /\ proc[p].inode \in Inode /\ CallOK(p)
      BY <2>3, WriterType DEF Busy
    <3>2. proc[p].pc = "write"
      BY <2>3, <3>1 DEF CallOK, Writing
    <3>3. disk[proc[p].inode] = Empty /\ proc[p].inode = name.file
      BY <2>1, <2>3, <3>2 DEF AloneOK, Filled
    <3>4. Content = Empty
      BY <3>1, <3>3, InodeAssumption DEF Content, At, Inode
    <3> QED
      BY <1>1, <2>3, <3>4
  <2> QED
    BY <2>2, <2>3
<1> QED
  BY <1>1, <1>2, EndUntouched

LEMMA WriteFailsKeeps ==
  ASSUME IInv, NEW p \in Process, WriteFails(p)
  PROVE  IInv'
<1>1. Fails(p) /\ UNCHANGED <<store, name, overlap>> /\ proc' = [proc EXCEPT ![p] = Idle]
  BY DEF WriteFails, Fails
<1>2. CASE proc[p].pc = "open" /\ UNCHANGED disk
  <2>1. p \in Busy
    BY <1>2 DEF Busy
  <2> QED
    BY <1>1, <1>2, <2>1, FailureIsMay
<1>3. CASE proc[p].pc = "write" /\ disk' = [disk EXCEPT ![proc[p].inode] = Torn]
  <2>1. Writing(p)
    BY <1>3 DEF Writing
  <2>2. p \in Busy /\ proc[p].inode \in Inode
    BY <2>1, WriterType
  <2>3. disk' \in [Inode -> Texts] /\ disk'[proc[p].inode] = Torn
        /\ \A j \in Inode : j # proc[p].inode => disk'[j] = disk[j]
    BY <1>3, <2>2, TextTypes DEF IInv, TypeOK
  <2>4. name' \in [file : Inode \cup {NoInode}, tmp : Inode \cup {NoInode}] /\ TmpOK'
    BY <1>1 DEF IInv, TypeOK, TmpOK
  <2>5. store \in Unique =>
          \A q \in Process : q # p /\ Writing(q) =>
            proc[q].inode # name'.file /\ disk'[proc[q].inode] = disk[proc[q].inode]
    BY <1>1, <2>1, <2>3, OthersUntouched
  <2>6. may \subseteq may' /\ (store \in InPlace => Torn \in may')
    BY <1>1, FailureKeepsMay
  <2>7. ASSUME ~overlap PROVE Content' \in may'
    <3>1. AloneOK(p)
      BY <2>2, <2>7, OnlyCall
    <3>2. CASE store \in InPlace
      <4>1. proc[p].inode = name.file
        BY <2>1, <3>1, <3>2 DEF AloneOK
      <4>2. Content' = Torn
        BY <1>1, <2>2, <2>3, <4>1, InodeAssumption DEF Content, At, Inode
      <4> QED
        BY <2>6, <3>2, <4>2
    <3>3. CASE store \notin InPlace
      <4>1. Content \in may /\ proc[p].inode # name.file
        BY <2>1, <3>1, <3>3 DEF AloneOK
      <4>2. name.file # NoInode => disk'[name.file] = disk[name.file]
        BY <2>3, <4>1 DEF IInv, TypeOK
      <4>3. Content' = Content
        BY <1>1, <4>2, ContentStays
      <4> QED
        BY <2>6, <4>1, <4>3
    <3> QED
      BY <3>2, <3>3
  <2> QED
    BY <1>1, <2>2, <2>3, <2>4, <2>5, <2>7, CallEnds
<1> QED
  BY <1>2, <1>3 DEF WriteFails

LEMMA RenameKeeps ==
  ASSUME IInv, NEW p \in Process, Rename(p)
  PROVE  IInv'
<1>1. proc[p].pc = "rename" /\ Writing(p) /\ UNCHANGED <<store, disk, faults, overlap>>
  BY DEF Rename, Writing
<1>2. p \in Busy /\ proc[p] \in Working /\ CallOK(p) /\ proc[p].inode \in Inode
  BY <1>1, WriterType
<1>3. store \notin InPlace /\ disk' \in [Inode -> Texts]
  BY <1>1, <1>2 DEF CallOK, IInv, TypeOK
<1>4. name \in [file : Inode \cup {NoInode}, tmp : Inode \cup {NoInode}] /\ TmpOK
  BY DEF IInv, TypeOK
<1>5. ASSUME ~overlap
      PROVE  Due(p) /\ disk[proc[p].inode] = Whole(proc[p].entries)
             /\ (store \notin Unique => proc[p].inode = name.tmp)
  <2>1. AloneOK(p)
    BY <1>2, <1>5, OnlyCall
  <2> QED
    BY <1>1, <1>3, <2>1 DEF AloneOK, Filled
<1>6. ASSUME Returns(p), name'.file = proc[p].inode, ~overlap
      PROVE  Content' \in may'
  <2>1. Content' = Whole(proc[p].entries)
    BY <1>1, <1>2, <1>5, <1>6, InodeAssumption DEF Content, At, Inode
  <2> QED
    BY <1>5, <1>6, <2>1, DueIsReturned
<1>7. CASE store \in Unique
  <2>1. name' = [name EXCEPT !.file = proc[p].inode] /\ Returns(p)
    BY <1>7 DEF Rename
  <2>2. proc' = [proc EXCEPT ![p] = Idle]
    BY <2>1 DEF Returns
  <2>3. name'.file = proc[p].inode /\ name'.tmp = NoInode
        /\ name' \in [file : Inode \cup {NoInode}, tmp : Inode \cup {NoInode}]
    BY <1>2, <1>4, <1>7, <2>1 DEF TmpOK
  <2>4. TmpOK'
    BY <2>3 DEF TmpOK
  <2>5. \A q \in Process : q # p /\ Writing(q) =>
          proc[q].inode # name'.file /\ disk'[proc[q].inode] = disk[proc[q].inode]
    BY <1>1, <1>7, <2>3, OthersUntouched
  <2> QED
    BY <1>1, <1>2, <1>3, <1>6, <2>1, <2>2, <2>3, <2>4, <2>5, CallEnds
<1>8. CASE store \notin Unique /\ name.tmp # NoInode
  <2>1. name' = [file |-> name.tmp, tmp |-> NoInode] /\ Returns(p)
    BY <1>8 DEF Rename
  <2>2. proc' = [proc EXCEPT ![p] = Idle]
    BY <2>1 DEF Returns
  <2>3. name' \in [file : Inode \cup {NoInode}, tmp : Inode \cup {NoInode}] /\ TmpOK'
    BY <1>4, <2>1 DEF TmpOK
  <2>4. ~overlap => Content' \in may'
    BY <1>5, <1>6, <1>8, <2>1
  <2> QED
    BY <1>1, <1>2, <1>3, <1>8, <2>2, <2>3, <2>4, CallEnds
<1>9. CASE store \notin Unique /\ name.tmp = NoInode
  <2>1. Fails(p) /\ UNCHANGED name
    BY <1>9 DEF Rename
  <2> QED
    BY <1>1, <1>2, <2>1, FailureIsMay
<1> QED
  BY <1>7, <1>8, <1>9

LEMMA RenameFailsKeeps ==
  ASSUME IInv, NEW p \in Process, RenameFails(p)
  PROVE  IInv'
  BY FailureIsMay DEF RenameFails, Busy

LEMMA CrashKeeps ==
  ASSUME IInv, NEW p \in Process, Crash(p)
  PROVE  IInv'
  BY FailureIsMay DEF Crash, Busy

LEMMA ClearKeeps ==
  ASSUME IInv, NEW p \in Process, Clear(p)
  PROVE  IInv'
<1>1. proc[p].pc = "clear" /\ name' = [name EXCEPT !.file = NoInode] /\ Returns(p)
      /\ UNCHANGED <<store, disk, faults, overlap>> /\ proc' = [proc EXCEPT ![p] = Idle]
  BY DEF Clear, Returns
<1>2. p \in Busy /\ CallOK(p)
  BY <1>1, ProcType DEF IInv, Busy, CallsOK
<1>3. proc[p].call = "clear" /\ store \notin Unique
  BY <1>1, <1>2 DEF CallOK
<1>4. name' \in [file : Inode \cup {NoInode}, tmp : Inode \cup {NoInode}] /\ name'.file = NoInode
      /\ TmpOK' /\ disk' \in [Inode -> Texts]
  BY <1>1 DEF IInv, TypeOK, TmpOK
<1>5. ASSUME ~overlap PROVE Content' \in may'
  <2>1. Content \in may
    BY <1>1, <1>2, <1>5, OnlyCall DEF AloneOK, Writing
  <2>2. After(Content, proc[p].call, proc[p].entry) = Missing
    BY <1>3 DEF After
  <2>3. Content' = Missing
    BY <1>4 DEF Content, At
  <2> QED
    BY <1>1, <2>1, <2>2, <2>3, ReturnTakesMay
<1> QED
  BY <1>1, <1>2, <1>3, <1>4, <1>5, CallEnds

-----------------------------------------------------------------------------
LEMMA InitIInv == Init => IInv
<1> SUFFICES ASSUME Init PROVE IInv
  OBVIOUS
<1>1. disk = [i \in Inode |-> Empty] /\ name = [file |-> NoInode, tmp |-> NoInode]
      /\ proc = [p \in Process |-> Idle] /\ may = {Missing} /\ overlap = FALSE
  BY DEF Init, Inode
<1>2. Idle.pc = "idle"
  BY DEF Idle
<1>3. Busy = {} /\ \A p \in Process : ~Writing(p)
  BY <1>1, <1>2 DEF Busy, Writing
<1>4. TypeOK
  BY <1>1, TextTypes DEF TypeOK
<1>5. Content \in may
  BY <1>1 DEF Content, At
<1> QED
  BY <1>1, <1>3, <1>4, <1>5 DEF IInv, CallsOK, TmpOK, Private, Alone

LEMMA StutterIInv ==
  ASSUME IInv, UNCHANGED vars
  PROVE  IInv'
<1>1. store' = store /\ disk' = disk /\ name' = name /\ proc' = proc /\ may' = may /\ overlap' = overlap
  BY DEF vars
<1>2. TypeOK' /\ CallsOK' /\ TmpOK' /\ Content' = Content
  BY <1>1, Zenon DEF IInv, TypeOK, CallsOK, CallOK, Busy, TmpOK, Content, At
<1>3. Private'
  BY <1>1, Zenon DEF IInv, Private, Writing, Filled
<1>4. Alone'
  <2>1. \A p \in Busy : Due(p) => Due(p)'
    <3> SUFFICES ASSUME NEW p \in Busy, Due(p) PROVE Due(p)'
      OBVIOUS
    <3> QED
      BY <1>1, DueMoves DEF Due
  <2>2. Busy' = Busy /\ \A p \in Busy : AloneOK(p) => AloneOK(p)'
    BY <1>1, <1>2, <2>1, Zenon DEF AloneOK, Busy, Writing, Filled
  <2> QED
    BY <1>1, <1>2, <2>2, Zenon DEF IInv, Alone
<1> QED
  BY <1>2, <1>3, <1>4 DEF IInv

LEMMA NextIInv ==
  ASSUME IInv, [Next]_vars
  PROVE  IInv'
<1>1. ASSUME NEW p \in Process, NEW e \in Entry, Call(p, e) PROVE IInv'
  BY <1>1, CallKeeps
<1>2. ASSUME NEW p \in Process, Read(p) PROVE IInv'
  BY <1>2, ReadKeeps
<1>3. ASSUME NEW p \in Process, CreateTemp(p) \/ OpenTmp(p) \/ OpenFile(p) PROVE IInv'
  BY <1>3, CreateTempKeeps, OpenTmpKeeps, OpenFileKeeps
<1>4. ASSUME NEW p \in Process, Write(p) \/ WriteFails(p) PROVE IInv'
  BY <1>4, WriteKeeps, WriteFailsKeeps
<1>5. ASSUME NEW p \in Process, Rename(p) \/ RenameFails(p) PROVE IInv'
  BY <1>5, RenameKeeps, RenameFailsKeeps
<1>6. ASSUME NEW p \in Process, Clear(p) \/ Crash(p) PROVE IInv'
  BY <1>6, ClearKeeps, CrashKeeps
<1>7. CASE UNCHANGED vars
  BY <1>7, StutterIInv
<1> QED
  BY <1>1, <1>2, <1>3, <1>4, <1>5, <1>6, <1>7 DEF Next

\* The calls on a state file, alone or at the same time, keep to the types and to
\* what TmpOK, Private and Alone say of their temporaries.
THEOREM InvariantHolds == Spec => []IInv
  BY InitIInv, NextIInv, PTL DEF Spec

\* As long as no two calls overlap, a file holds what the calls that ended well have
\* made of it, whichever calls failed and processes died (cache.go, lanid, config.go).
THEOREM FilesAreDurable == Spec => []Durable
<1>1. IInv => Durable
  BY DEF IInv, Alone, Durable
<1> QED
  BY <1>1, InvariantHolds, PTL

-----------------------------------------------------------------------------
\* The refinement: what AtomicStore sees of the file and of the calls.
Version == IF store \in Unique THEN Content ELSE Missing
InHand == {"open", "write", "rename"}
Hand(w) == IF store \in Unique /\ w.pc \in InHand THEN Whole(w.entries) ELSE Idle
Hands == [p \in Process |-> Hand(proc[p])]

LEMMA Seen ==
  /\ Atomic!Init <=> Version = Missing /\ Hands = [p \in Process |-> Idle]
  /\ \A p \in Process :
       /\ Atomic!Update(p) <=>
            /\ Hands[p] = Idle
            /\ \E v \in MadeFrom(Version) : Hands' = [Hands EXCEPT ![p] = v]
            /\ Version' = Version
       /\ Atomic!Commit(p) <=>
            /\ Hands[p] # Idle
            /\ Version' = Hands[p]
            /\ Hands' = [Hands EXCEPT ![p] = Idle]
       /\ Atomic!Abort(p) <=>
            /\ Hands[p] # Idle
            /\ Hands' = [Hands EXCEPT ![p] = Idle]
            /\ Version' = Version
  BY Zenon DEF Atomic!Init, Atomic!Update, Atomic!Commit, Atomic!Abort, Version, Hands, Hand, InHand

AtomicStep == Atomic!Next \/ (Version' = Version /\ Hands' = Hands)

LEMMA HandMoves ==
  ASSUME TypeOK, store' = store, NEW p \in Process, NEW w, proc' = [proc EXCEPT ![p] = w]
  PROVE  Hands' = [Hands EXCEPT ![p] = Hand(w)]
<1>1. proc'[p] = w /\ \A q \in Process : q # p => proc'[q] = proc[q]
  BY DEF TypeOK
<1>2. ASSUME NEW q \in Process
      PROVE  Hand(proc[q])' = IF q = p THEN Hand(w) ELSE Hand(proc[q])
  <2>1. CASE q = p
    BY <1>1, <2>1 DEF Hand
  <2>2. CASE q # p
    <3>1. proc'[q] = proc[q]
      BY <1>1, <2>2
    <3> QED
      BY <2>2, <3>1 DEF Hand
  <2> QED
    BY <2>1, <2>2
<1>3. Hands' = [q \in Process |-> Hand(proc[q])']
  BY Zenon DEF Hands
<1>4. [Hands EXCEPT ![p] = Hand(w)] = [q \in Process |-> IF q = p THEN Hand(w) ELSE Hand(proc[q])]
  BY DEF Hands
<1> QED
  BY <1>2, <1>3, <1>4

LEMMA HandStays ==
  ASSUME TypeOK, store' = store, NEW p \in Process, NEW w, proc' = [proc EXCEPT ![p] = w],
         Hand(w) = Hand(proc[p])
  PROVE  Hands' = Hands
<1>1. Hands' = [Hands EXCEPT ![p] = Hand(w)]
  BY HandMoves
<1>2. Hands[p] = Hand(w)
  BY DEF Hands
<1>3. Hands = [q \in Process |-> Hands[q]]
  BY DEF Hands
<1> HIDE DEF Hands, Hand
<1> QED
  BY <1>1, <1>2, <1>3

LEMMA IsUpdate ==
  ASSUME TypeOK, store' = store, NEW p \in Process, NEW w, proc' = [proc EXCEPT ![p] = w],
         Hand(proc[p]) = Idle, Hand(w) \in MadeFrom(Version), Version' = Version
  PROVE  AtomicStep
<1>1. Hands' = [Hands EXCEPT ![p] = Hand(w)] /\ Hands[p] = Idle
  BY HandMoves DEF Hands
<1>2. Atomic!Update(p)
  BY <1>1, Seen, Zenon
<1> QED
  BY <1>2, Zenon DEF AtomicStep, Atomic!Next

\* A call that ends without a save.
LEMMA IsAbort ==
  ASSUME TypeOK, store' = store, NEW p \in Process, proc' = [proc EXCEPT ![p] = Idle],
         Version' = Version
  PROVE  AtomicStep
<1>1. Hand(Idle) = Idle
  BY DEF Hand, Idle, InHand
<1>2. Hands' = [Hands EXCEPT ![p] = Idle]
  BY <1>1, HandMoves
<1>3. Hands[p] = Hand(proc[p])
  BY DEF Hands
<1>4. CASE Hand(proc[p]) # Idle
  <2>1. Atomic!Abort(p)
    BY <1>2, <1>3, <1>4, Seen, Zenon
  <2> QED
    BY <2>1, Zenon DEF AtomicStep, Atomic!Next
<1>5. CASE Hand(proc[p]) = Idle
  BY <1>1, <1>5, HandStays DEF AtomicStep
<1> QED
  BY <1>4, <1>5

LEMMA IsCommit ==
  ASSUME TypeOK, store' = store, NEW p \in Process, proc' = [proc EXCEPT ![p] = Idle],
         Hand(proc[p]) # Idle, Version' = Hand(proc[p])
  PROVE  AtomicStep
<1>1. Hand(Idle) = Idle
  BY DEF Hand, Idle, InHand
<1>2. Hands' = [Hands EXCEPT ![p] = Idle] /\ Hands[p] = Hand(proc[p])
  BY <1>1, HandMoves DEF Hands
<1>3. Atomic!Commit(p)
  BY <1>2, Seen, Zenon
<1> QED
  BY <1>3, Zenon DEF AtomicStep, Atomic!Next

\* Every call on such a file makes an update of what it has read.
LEMMA ApplyIsUpdate ==
  ASSUME store \in Unique, NEW call, NEW e \in Entry, NEW c
  PROVE  Whole(Apply(call, Entries(c), e)) \in MadeFrom(c)
<1>1. Apply(call, Entries(c), e) \in
        {AddCacheEntry(Entries(c), e), RemoveCacheEntry(Entries(c), e), Replace(Entries(c), e)}
  BY Zenon DEF Apply, Unique, AddSourceRegistryEntry, AddCacheEntry, RemoveCacheEntry,
               loadOrCreateIdentity, Replace
<1>2. {Whole(AddCacheEntry(Entries(c), e)), Whole(RemoveCacheEntry(Entries(c), e)),
       Whole(Replace(Entries(c), e))} \subseteq MadeFrom(c)
  BY DEF MadeFrom
<1> QED
  BY <1>1, <1>2, Zenon

LEMMA BeginIsAtomic ==
  ASSUME TypeOK, store \in Unique, NEW p \in Process, NEW e \in Entry, NEW call,
         Begin(p, call, e), call # "clear", store \notin Reads => call = "replace"
  PROVE  AtomicStep
<1> DEFINE w == [pc |-> IF call = "clear" THEN "clear" ELSE IF store \in Reads THEN "read" ELSE "open",
                 call |-> call, entry |-> e, inode |-> NoInode,
                 entries |-> IF store \in Reads THEN {} ELSE Apply(call, {}, e)]
<1>1. /\ proc[p] = Idle /\ proc' = [proc EXCEPT ![p] = w] /\ UNCHANGED <<store, disk, name>>
  BY DEF Begin
<1>2. Hand(proc[p]) = Idle
  BY <1>1 DEF Hand, Idle, InHand
<1>3. w.pc = (IF store \in Reads THEN "read" ELSE "open")
      /\ w.entries = IF store \in Reads THEN {} ELSE Apply(call, {}, e)
  OBVIOUS
<1> HIDE DEF w
<1>4. Version' = Version
  BY <1>1 DEF Version, Content, At
<1>5. CASE store \in Reads
  <2>1. Hand(w) = Idle
    BY <1>3, <1>5 DEF Hand, InHand
  <2> QED
    BY <1>1, <1>2, <1>4, <2>1, HandStays DEF AtomicStep
<1>6. CASE store \notin Reads
  <2>1. Hand(w) = Whole(Apply("replace", {}, e))
    BY <1>3, <1>6 DEF Hand, InHand
  <2>2. Apply("replace", {}, e) = Apply("replace", Entries(Version), e)
    BY ReplaceTakesNothing
  <2>3. Hand(w) \in MadeFrom(Version)
    BY <2>1, <2>2, ApplyIsUpdate
  <2> QED
    BY <1>1, <1>2, <1>4, <2>3, IsUpdate
<1> QED
  BY <1>5, <1>6

LEMMA CallIsAtomic ==
  ASSUME TypeOK, store \in Unique, NEW p \in Process, NEW e \in Entry, Call(p, e)
  PROVE  AtomicStep
<1>1. CASE UpdateSourceRegistry(p, e)
  BY <1>1, BeginIsAtomic DEF UpdateSourceRegistry, Reads
<1>2. CASE SaveListIndex(p, e)
  BY <1>2, BeginIsAtomic DEF SaveListIndex
<1>3. CASE UpdateCacheManifest(p, e)
  BY <1>3, BeginIsAtomic DEF UpdateCacheManifest, Reads
<1>4. CASE SaveUpdateCheckCache(p, e)
  BY <1>4, BeginIsAtomic DEF SaveUpdateCheckCache
<1>5. CASE Identity(p, e)
  BY <1>5, BeginIsAtomic DEF Identity, Reads
<1>6. store \notin {"settings", "activity", "trust", "config"}
  BY DEF Unique
<1> QED
  BY <1>1, <1>2, <1>3, <1>4, <1>5, <1>6
  DEF Call, SetScanInterval, LogActivity, ActivityClear, SaveSignedTrust, ResetTrust, UpdateConfig

LEMMA ReadIsAtomic ==
  ASSUME IInv, store \in Unique, NEW p \in Process, Read(p)
  PROVE  AtomicStep
<1>1. proc[p].pc = "read" /\ UNCHANGED <<store, disk, name, faults, overlap>>
  BY DEF Read
<1>2. TypeOK /\ proc[p] \in Working /\ Version' = Version /\ Version = Content
  BY <1>1, ProcType DEF IInv, Version, Content, At
<1>3. CASE Fails(p) \/ Returns(p)
  <2>1. proc' = [proc EXCEPT ![p] = Idle]
    BY <1>3 DEF Fails, Returns
  <2> QED
    BY <1>1, <1>2, <2>1, IsAbort
<1>4. CASE proc' = [proc EXCEPT ![p].pc = "open",
                      ![p].entries = Apply(proc[p].call, Entries(Content), proc[p].entry)]
  <2> DEFINE new == Apply(proc[p].call, Entries(Content), proc[p].entry)
             w == [proc[p] EXCEPT !.pc = "open", !.entries = new]
  <2>1. proc' = [proc EXCEPT ![p] = w] /\ w.pc = "open" /\ w.entries = new
    <3>1. proc' = [proc EXCEPT ![p].pc = "open", ![p].entries = new]
      BY <1>4
    <3> HIDE DEF new
    <3> QED
      BY <1>2, <3>1 DEF TypeOK, Working
  <2>2. Whole(new) \in MadeFrom(Version)
    BY <1>2, ApplyIsUpdate DEF Working
  <2> HIDE DEF new, w
  <2>3. Hand(proc[p]) = Idle /\ Hand(w) = Whole(new)
    BY <1>1, <2>1 DEF Hand, InHand
  <2> QED
    BY <1>1, <1>2, <2>1, <2>2, <2>3, IsUpdate
<1> QED
  BY <1>3, <1>4, Zenon DEF Read

\* A step from "open" or "write" that goes on with what is in hand.
LEMMA WorkIsAtomic ==
  ASSUME IInv, store \in Unique, NEW p \in Process,
         CreateTemp(p) \/ OpenTmp(p) \/ OpenFile(p) \/ Write(p)
  PROVE  AtomicStep
<1>1. store \notin InPlace
  BY DEF Unique, InPlace
<1>2. CASE CreateTemp(p)
  <2>1. proc[p].pc = "open" /\ OpenAs(p, Fresh, name)
    BY <1>2 DEF CreateTemp
  <2>2. Fresh \in Inode /\ Fresh # name.file
    BY <2>1, FreshIsFree DEF IInv, InUse
  <2> DEFINE w == [proc[p] EXCEPT !.pc = "write", !.inode = Fresh]
  <2>3. proc[p] \in Working
    BY <2>1, ProcType DEF IInv
  <2>4. proc' = [proc EXCEPT ![p] = w] /\ w.pc = "write" /\ w.entries = proc[p].entries
    BY <2>1, <2>3 DEF OpenAs, IInv, TypeOK, Working
  <2> HIDE DEF w
  <2>5. Hand(w) = Hand(proc[p])
    BY <2>1, <2>4, Zenon DEF Hand, InHand
  <2>6. store' = store /\ name' = name
        /\ (name.file # NoInode => disk'[name.file] = disk[name.file])
    BY <2>1, <2>2 DEF OpenAs, IInv, TypeOK
  <2>7. Version' = Version
    BY <2>6, ContentStays DEF Version
  <2> QED
    BY <2>4, <2>5, <2>6, <2>7, HandStays DEF IInv, AtomicStep
<1>3. CASE Write(p)
  <2>1. proc[p].pc = "write" /\ Writing(p) /\ store' = store /\ name' = name
    BY <1>3 DEF Write, Writing
  <2>2. proc[p] \in Working /\ proc[p].inode # name.file
    BY <2>1, WriterType, Zenon DEF IInv, Private
  <2> DEFINE w == [proc[p] EXCEPT !.pc = "rename"]
  <2>3. proc' = [proc EXCEPT ![p] = w] /\ w.pc = "rename" /\ w.entries = proc[p].entries
    BY <1>1, <1>3, <2>2 DEF Write, Goto, IInv, TypeOK, Working
  <2> HIDE DEF w
  <2>4. Hand(w) = Hand(proc[p])
    BY <2>1, <2>3, Zenon DEF Hand, InHand
  <2>5. name.file # NoInode => disk'[name.file] = disk[name.file]
    BY <1>3, <2>2 DEF Write, IInv, TypeOK
  <2>6. Version' = Version
    BY <2>1, <2>5, ContentStays DEF Version
  <2> QED
    BY <2>1, <2>3, <2>4, <2>6, HandStays DEF IInv, AtomicStep
<1> QED
  BY <1>1, <1>2, <1>3 DEF OpenTmp, OpenFile

LEMMA FailureIsAtomic ==
  ASSUME IInv, store \in Unique, NEW p \in Process,
         WriteFails(p) \/ RenameFails(p) \/ Crash(p)
  PROVE  AtomicStep
<1>1. store' = store /\ name' = name /\ proc' = [proc EXCEPT ![p] = Idle]
  BY DEF WriteFails, RenameFails, Crash, Fails
<1>2. name.file # NoInode => disk'[name.file] = disk[name.file]
  <2>1. CASE UNCHANGED disk
    BY <2>1
  <2>2. CASE proc[p].pc = "write" /\ disk' = [disk EXCEPT ![proc[p].inode] = Torn]
    <3>1. proc[p].inode # name.file
      BY <2>2, Zenon DEF IInv, Private, Writing
    <3> QED
      BY <2>2, <3>1 DEF IInv, TypeOK
  <2> QED
    BY <2>1, <2>2 DEF WriteFails, RenameFails, Crash
<1>3. Version' = Version
  BY <1>1, <1>2, ContentStays DEF Version
<1> QED
  BY <1>1, <1>3, IsAbort DEF IInv

LEMMA EndIsAtomic ==
  ASSUME IInv, store \in Unique, NEW p \in Process, Rename(p) \/ Clear(p)
  PROVE  AtomicStep
<1>1. CASE Rename(p)
  <2>1. proc[p].pc = "rename" /\ Writing(p) /\ UNCHANGED <<store, disk>>
        /\ name' = [name EXCEPT !.file = proc[p].inode] /\ proc' = [proc EXCEPT ![p] = Idle]
    BY <1>1 DEF Rename, Writing, Returns
  <2>2. proc[p].inode \in Inode /\ disk[proc[p].inode] = Whole(proc[p].entries)
    BY <2>1, WriterType, Zenon DEF IInv, Private, Filled
  <2>3. name'.file = proc[p].inode
    BY <2>1 DEF IInv, TypeOK
  <2>4. Version' = Whole(proc[p].entries)
    BY <2>1, <2>2, <2>3, InodeAssumption DEF Version, Content, At, Inode
  <2>5. Hand(proc[p]) = Whole(proc[p].entries)
    BY <2>1 DEF Hand, InHand
  <2>6. Hand(proc[p]) # Idle
    BY <2>5, TextKinds
  <2> QED
    BY <2>1, <2>4, <2>5, <2>6, IsCommit DEF IInv
<1>2. CASE Clear(p)
  <2>1. p \in Busy /\ proc[p].pc = "clear"
    BY <1>2 DEF Clear, Busy
  <2>2. CallOK(p)
    BY <2>1, Zenon DEF IInv, CallsOK
  <2> QED
    BY <2>1, <2>2 DEF CallOK
<1> QED
  BY <1>1, <1>2

LEMMA NextIsAtomic ==
  ASSUME IInv, [Next]_vars
  PROVE  AtomicStep
<1>1. CASE UNCHANGED vars
  <2>1. store' = store /\ disk' = disk /\ name' = name /\ proc' = proc
    BY <1>1 DEF vars
  <2> QED
    BY <2>1, Zenon DEF AtomicStep, Version, Content, At, Hands, Hand
<1>2. CASE Next /\ store \in Unique
  <2>1. PICK p \in Process :
          \/ \E e \in Entry : Call(p, e)
          \/ Read(p)
          \/ CreateTemp(p) \/ OpenTmp(p) \/ OpenFile(p)
          \/ Write(p) \/ WriteFails(p) \/ Rename(p) \/ RenameFails(p)
          \/ Clear(p) \/ Crash(p)
    BY <1>2, Zenon DEF Next
  <2>2. TypeOK
    BY DEF IInv
  <2> QED
    BY <1>2, <2>1, <2>2, CallIsAtomic, ReadIsAtomic, WorkIsAtomic, FailureIsAtomic, EndIsAtomic
<1>3. CASE Next /\ store \notin Unique
  <2>1. PICK p \in Process :
          \/ \E e \in Entry : Call(p, e)
          \/ Read(p)
          \/ CreateTemp(p) \/ OpenTmp(p) \/ OpenFile(p)
          \/ Write(p) \/ WriteFails(p) \/ Rename(p) \/ RenameFails(p)
          \/ Clear(p) \/ Crash(p)
    BY <1>3, Zenon DEF Next
  <2>2. ASSUME NEW e \in Entry, Call(p, e) PROVE store' = store
    BY <2>2, Zenon
    DEF Call, Begin, UpdateSourceRegistry, SaveListIndex, UpdateCacheManifest,
        SaveUpdateCheckCache, Identity, SetScanInterval, LogActivity, ActivityClear,
        SaveSignedTrust, ResetTrust, UpdateConfig
  <2>3. store' = store
    BY <2>1, <2>2, Zenon
    DEF Read, CreateTemp, OpenTmp, OpenFile, OpenAs, Write, WriteFails, Rename, RenameFails,
        Clear, Crash
  <2>4. Version' = Version /\ Hands' = Hands
    BY <1>3, <2>3, Zenon DEF Version, Hands, Hand
  <2> QED
    BY <2>4 DEF AtomicStep
<1> QED
  BY <1>1, <1>2, <1>3

\* A file saved through the writer's own temporary (the manifests and indexes of
\* cache.go, the identity of lanid.go) is an AtomicStore, with any number of processes
\* at work on it.
THEOREM SavesImplementAtomicStore == Spec => SavesAreAtomic
<1>1. Init => Atomic!Init
  <2> SUFFICES ASSUME Init PROVE Atomic!Init
    OBVIOUS
  <2>1. Content = Missing /\ \A p \in Process : Hand(proc[p]) = Idle
    BY DEF Init, Content, At, Hand, Idle, InHand
  <2>2. Version = Missing /\ Hands = [p \in Process |-> Idle]
    BY <2>1 DEF Version, Hands
  <2> QED
    BY <2>2, Seen, Zenon
<1>2. IInv /\ [Next]_vars => AtomicStep
  BY NextIsAtomic
<1>3. AtomicStep => [Atomic!Next]_<<IF store \in Unique THEN Content ELSE Missing,
        [p \in Process |-> IF store \in Unique /\ proc[p].pc \in {"open", "write", "rename"}
                           THEN Whole(proc[p].entries) ELSE Idle]>>
  BY Zenon DEF AtomicStep, Version, Hands, Hand, InHand
<1>4. IInv /\ [Next]_vars => [Atomic!Next]_<<IF store \in Unique THEN Content ELSE Missing,
        [p \in Process |-> IF store \in Unique /\ proc[p].pc \in {"open", "write", "rename"}
                           THEN Whole(proc[p].entries) ELSE Idle]>>
  BY <1>2, <1>3
<1> QED
  BY <1>1, <1>4, InvariantHolds, PTL DEF Spec, SavesAreAtomic, Atomic!Spec
=============================================================================
