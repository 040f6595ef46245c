--------------------------- MODULE Receiver_proofs ---------------------------
(***************************************************************************)
(* Proofs about the receiver's process: the accept loop's counters, for    *)
(* every number of connections and peers and every limit (Admission); the  *)
(* deadlines of one transfer, for every rate, cap, floor and frame         *)
(* deadline that satisfies TimeAssumption and every size (TransferTime);   *)
(* and the lock that keeps the daemon single, for every number of          *)
(* processes and every crash between two steps, when starts and stops do   *)
(* not overlap (DaemonControl).                                            *)
(***************************************************************************)
EXTENDS Admission, TransferTime, DaemonControl, FiniteSetTheorems, TLAPS

-----------------------------------------------------------------------------
(* How many connections are at a set of places.                            *)

LEMMA AtFinite ==
  ASSUME NEW P, NEW p
  PROVE  /\ IsFiniteSet(At(P)) /\ Cardinality(At(P)) \in Nat
         /\ IsFiniteSet(Of(p) \cap At(P)) /\ Cardinality(Of(p) \cap At(P)) \in Nat
<1>1. At(P) \in SUBSET Conn /\ (Of(p) \cap At(P)) \in SUBSET Conn
  BY DEF At, Of
<1>2. IsFiniteSet(At(P)) /\ IsFiniteSet(Of(p) \cap At(P))
  BY <1>1, FiniteAssumption, FS_Subset
<1>3. QED
  BY <1>2, FS_CardinalityType

\* What one connection's move does to the set of those at the places P.
LEMMA AtGoto ==
  ASSUME NEW c \in Conn, NEW at, NEW P, pc \in [Conn -> InProgress \cup {"away", "queued", "left"}],
         Goto(c, at)
  PROVE  At(P)' = IF at \in P THEN At(P) \cup {c} ELSE At(P) \ {c}
BY DEF At, Goto

\* A set of connections that c joins, leaves, or neither.
LEMMA Joined ==
  ASSUME NEW S, IsFiniteSet(S), NEW c, c \notin S
  PROVE  Cardinality(S \cup {c}) = Cardinality(S) + 1
BY FS_AddElement

LEMMA Gone ==
  ASSUME NEW S, IsFiniteSet(S), NEW c, c \in S
  PROVE  Cardinality(S \ {c}) = Cardinality(S) - 1 /\ Cardinality(S) > 0
<1>1. Cardinality(S \ {c}) = Cardinality(S) - 1
  BY FS_RemoveElement
<1>2. Cardinality(S) \in Nat /\ Cardinality(S) # 0
  BY FS_CardinalityType, FS_EmptySet
<1>3. QED
  BY <1>1, <1>2

-----------------------------------------------------------------------------
(* The inductive invariant.                                                *)

\* The connection in the loop's hand, and the handlers a one-shot receiver does
\* not have.
HandOK ==
  /\ loop = "slot" => serve /\ hand \in Conn /\ pc[hand] = "held"
  /\ loop = "serve" => ~serve /\ hand \in Conn
  /\ \A c \in Conn : pc[c] = "held" => loop = "slot" /\ c = hand
  /\ \A c \in Conn : ~serve /\ pc[c] \in InProgress \cup {"left"} =>
       loop = "serve" /\ c = hand /\ pc[c] \in {"setup", "prompt", "transfer"}

Within ==
  /\ \A p \in Peer : inflight[p] <= MaxInflight
  /\ slots <= MaxSlots

IInv == TypeOK /\ HandOK /\ Balanced /\ Within

LEMMA InitIInv == Init => IInv
<1> SUFFICES ASSUME Init PROVE IInv
  OBVIOUS
<1>1. TypeOK
  <2>1. pc \in [Conn -> InProgress \cup {"away", "queued", "left"}]
    BY DEF Init
  <2>2. inflight \in [Peer -> Nat] /\ recent \in [Peer -> [Young -> Nat]]
    BY DEF Init
  <2>3. serve \in BOOLEAN /\ cancelled \in BOOLEAN
    BY ModeAssumption DEF Init
  <2>4. QED
    BY <2>1, <2>2, <2>3 DEF Init, TypeOK
<1>2. HandOK
  BY DEF Init, HandOK, InProgress
<1>3. Balanced
  <2>1. \A p \in Peer : Of(p) \cap At(InProgress) = {}
    BY DEF Init, At, InProgress
  <2>2. At(InSlot) = {}
    BY DEF Init, At, InSlot
  <2>3. QED
    BY <2>1, <2>2, FS_EmptySet DEF Init, Balanced
<1>4. Within
  BY LimitAssumption DEF Init, Within
<1>5. QED
  BY <1>1, <1>2, <1>3, <1>4 DEF IInv

LEMMA RecordType ==
  ASSUME TypeOK, NEW p \in Peer, Record(p)
  PROVE  recent' \in [Peer -> [Young -> Nat]]
BY LimitAssumption DEF TypeOK, Record, Young

\* A connection moves and stays inside, or outside, both sets of places.
LEMMA BalanceKept ==
  ASSUME TypeOK, Balanced, NEW c \in Conn, NEW at, Goto(c, at),
         at \in InProgress <=> pc[c] \in InProgress,
         at \in InSlot <=> pc[c] \in InSlot,
         UNCHANGED <<serve, inflight, slots>>
  PROVE  Balanced'
<1>1. At(InProgress)' = At(InProgress) /\ At(InSlot)' = At(InSlot)
  BY AtGoto DEF TypeOK, At
<1>2. \A p \in Peer : Of(p)' = Of(p)
  BY DEF Of
<1>3. QED
  BY <1>1, <1>2 DEF Balanced

\* A connection is admitted, and its address counted.
LEMMA BalanceAcquired ==
  ASSUME TypeOK, Balanced, NEW c \in Conn, NEW at, Goto(c, at),
         at \in InProgress, pc[c] \notin InProgress,
         serve => (at \in InSlot <=> pc[c] \in InSlot),
         inflight' = [inflight EXCEPT ![IpOf[c]] = inflight[IpOf[c]] + 1],
         UNCHANGED <<serve, slots>>
  PROVE  Balanced'
<1>1. At(InProgress)' = At(InProgress) \cup {c} /\ c \notin At(InProgress)
  BY AtGoto DEF TypeOK, At
<1>2. serve => At(InSlot)' = At(InSlot)
  BY AtGoto DEF TypeOK, At
<1>3. IpOf[c] \in Peer
  BY PeerAssumption
<1>4. ASSUME NEW p \in Peer
      PROVE  inflight'[p] = Cardinality(Of(p) \cap At(InProgress)')
  <2>1. CASE p = IpOf[c]
    <3>1. /\ Of(p) \cap At(InProgress)' = (Of(p) \cap At(InProgress)) \cup {c}
          /\ c \notin Of(p) \cap At(InProgress)
      BY <1>1, <2>1 DEF Of
    <3>2. Cardinality(Of(p) \cap At(InProgress)') = Cardinality(Of(p) \cap At(InProgress)) + 1
      BY <3>1, AtFinite, Joined
    <3>3. QED
      BY <1>3, <2>1, <3>2 DEF TypeOK, Balanced
  <2>2. CASE p # IpOf[c]
    <3>1. Of(p) \cap At(InProgress)' = Of(p) \cap At(InProgress)
      BY <1>1, <2>2 DEF Of
    <3>2. QED
      BY <1>3, <2>2, <3>1 DEF TypeOK, Balanced
  <2>3. QED
    BY <2>1, <2>2
<1>5. \A p \in Peer : Of(p)' = Of(p)
  BY DEF Of
<1>6. QED
  BY <1>2, <1>4, <1>5 DEF Balanced

\* A connection is let go of: its address is counted down, whatever else moves
\* between the places outside.
LEMMA BalanceReleased ==
  ASSUME TypeOK, Balanced, NEW c \in Conn,
         At(InProgress)' = At(InProgress) \ {c}, pc[c] \in InProgress,
         serve => At(InSlot)' = At(InSlot),
         inflight' = [inflight EXCEPT ![IpOf[c]] = inflight[IpOf[c]] - 1],
         UNCHANGED <<serve, slots>>
  PROVE  Balanced'
<1>1. c \in At(InProgress) /\ IpOf[c] \in Peer
  BY PeerAssumption DEF At
<1>2. ASSUME NEW p \in Peer
      PROVE  inflight'[p] = Cardinality(Of(p) \cap At(InProgress)')
  <2>1. CASE p = IpOf[c]
    <3>1. /\ Of(p) \cap At(InProgress)' = (Of(p) \cap At(InProgress)) \ {c}
          /\ c \in Of(p) \cap At(InProgress)
      BY <1>1, <2>1 DEF Of
    <3>2. Cardinality(Of(p) \cap At(InProgress)') = Cardinality(Of(p) \cap At(InProgress)) - 1
      BY <3>1, AtFinite, Gone
    <3>3. QED
      BY <1>1, <2>1, <3>2 DEF TypeOK, Balanced
  <2>2. CASE p # IpOf[c]
    <3>1. Of(p) \cap At(InProgress)' = Of(p) \cap At(InProgress)
      BY <2>2 DEF Of
    <3>2. QED
      BY <1>1, <2>2, <3>1 DEF TypeOK, Balanced
  <2>3. QED
    BY <2>1, <2>2
<1>3. \A p \in Peer : Of(p)' = Of(p)
  BY DEF Of
<1>4. QED
  BY <1>2, <1>3 DEF Balanced

\* A connection in progress is counted, so the count can go down by one.
LEMMA CountedIsPositive ==
  ASSUME TypeOK, Balanced, NEW c \in Conn, pc[c] \in InProgress
  PROVE  IpOf[c] \in Peer /\ inflight[IpOf[c]] \in Nat /\ inflight[IpOf[c]] > 0
<1>1. IpOf[c] \in Peer /\ c \in Of(IpOf[c]) \cap At(InProgress)
  BY PeerAssumption DEF Of, At
<1>2. Cardinality(Of(IpOf[c]) \cap At(InProgress)) > 0
  BY <1>1, AtFinite, Gone
<1>3. QED
  BY <1>1, <1>2 DEF Balanced, TypeOK

-----------------------------------------------------------------------------
(* The steps.                                                              *)

\* handleConn returns, whatever the outcome.
LEMMA ReturnSafe ==
  ASSUME IInv, NEW c \in Conn, pc[c] \in {"setup", "prompt", "transfer"},
         NEW outcome \in {"rejected", "refused", "failed", "placed"},
         Return(c, outcome), UNCHANGED <<serve, recent, slots, cancelled>>
  PROVE  IInv'
<1> USE DEF IInv
<1>1. pc[c] \in InProgress /\ pc[c] \in InSlot
  BY DEF InProgress, InSlot
<1>2. CASE serve
  <2> DEFINE at == IF outcome = "placed" THEN "notify" ELSE "leave"
  <2>1. Goto(c, at) /\ UNCHANGED <<loop, hand, inflight>>
    BY <1>2 DEF Return
  <2>2. at \in InProgress /\ at \in InSlot
    BY DEF InProgress, InSlot
  <2>3. Balanced'
    BY <1>1, <2>1, <2>2, BalanceKept
  <2>4. TypeOK'
    BY <2>1, <2>2 DEF TypeOK, Goto
  <2>5. HandOK'
    BY <1>2, <2>1 DEF HandOK, Goto, TypeOK
  <2>6. Within'
    BY <2>1 DEF Within
  <2>7. QED
    BY <2>3, <2>4, <2>5, <2>6
<1>3. CASE ~serve
  <2>1. /\ inflight' = [inflight EXCEPT ![IpOf[c]] = inflight[IpOf[c]] - 1]
        /\ hand' = NoConn
        /\ loop' \in {"accept", "returned"}
        /\ \/ Goto(c, "away")
           \/ pc' = [d \in Conn |-> IF d = c \/ pc[d] = "queued" THEN "away" ELSE pc[d]]
    BY <1>3 DEF Return
  <2>2. loop = "serve" /\ hand = c
    BY <1>1, <1>3 DEF HandOK
  <2>3. /\ pc' \in [Conn -> InProgress \cup {"away", "queued", "left"}]
        /\ pc'[c] = "away"
        /\ \A d \in Conn \ {c} : pc'[d] = pc[d] \/ (pc[d] = "queued" /\ pc'[d] = "away")
    BY <2>1 DEF TypeOK, Goto
  <2>4. At(InProgress)' = At(InProgress) \ {c}
    BY <2>3 DEF At, InProgress
  <2>5. Balanced'
    BY <1>1, <1>3, <2>1, <2>4, BalanceReleased
  <2>6. /\ IpOf[c] \in Peer /\ inflight[IpOf[c]] > 0
        /\ inflight' \in [Peer -> Nat]
        /\ \A p \in Peer : inflight'[p] <= inflight[p]
    BY <1>1, <2>1, CountedIsPositive DEF TypeOK
  <2>7. TypeOK'
    BY <2>1, <2>3, <2>6 DEF TypeOK
  <2>8. HandOK'
    <3>1. \A d \in Conn : pc'[d] \notin InProgress \cup {"left"}
      BY <1>3, <2>2, <2>3 DEF HandOK, InProgress
    <3>2. QED
      BY <1>3, <2>1, <3>1 DEF HandOK, InProgress
  <2>9. Within'
    BY <2>6, LimitAssumption DEF Within, TypeOK
  <2>10. QED
    BY <2>5, <2>7, <2>8, <2>9
<1>4. QED
  BY <1>2, <1>3

\* A step of the handler that does not end it.
LEMMA StageSafe ==
  ASSUME IInv, NEW c \in Conn, NEW at \in {"prompt", "transfer", "leave"},
         Goto(c, at), pc[c] \in {"setup", "prompt", "notify"},
         pc[c] = "notify" <=> at = "leave",
         UNCHANGED <<serve, loop, hand, inflight, recent, slots, cancelled>>
  PROVE  IInv'
<1> USE DEF IInv
<1>1. /\ pc[c] \in InProgress /\ pc[c] \in InSlot /\ at \in InProgress /\ at \in InSlot
  BY DEF InProgress, InSlot
<1>2. Balanced'
  BY <1>1, BalanceKept
<1>3. TypeOK'
  BY <1>1 DEF TypeOK, Goto
<1>4. HandOK'
  BY <1>1 DEF HandOK, Goto, TypeOK
<1>5. Within'
  BY DEF Within
<1>6. QED
  BY <1>2, <1>3, <1>4, <1>5

LEMMA StepIInv ==
  ASSUME IInv, [Next]_vars
  PROVE  IInv'
<1> USE DEF IInv
<1>1. ASSUME NEW c \in Conn, Dial(c) PROVE IInv'
  <2>1. Goto(c, "queued") /\ pc[c] = "away"
        /\ UNCHANGED <<serve, loop, hand, inflight, recent, slots, cancelled>>
    BY <1>1 DEF Dial
  <2>2. Balanced'
    BY <2>1, BalanceKept DEF InProgress, InSlot
  <2>3. TypeOK' /\ HandOK' /\ Within'
    BY <2>1 DEF TypeOK, HandOK, Within, Goto, InProgress
  <2>4. QED
    BY <2>2, <2>3
<1>2. ASSUME NEW c \in Conn, TurnAway(c) PROVE IInv'
  <2>1. Goto(c, "away") /\ pc[c] = "queued"
        /\ UNCHANGED <<serve, loop, hand, inflight, slots, cancelled>>
        /\ (recent' = recent \/ Record(IpOf[c]))
    BY <1>2 DEF TurnAway
  <2>2. Balanced'
    BY <2>1, BalanceKept DEF InProgress, InSlot
  <2>3. recent' \in [Peer -> [Young -> Nat]]
    BY <2>1, RecordType, PeerAssumption DEF TypeOK
  <2>4. TypeOK' /\ HandOK' /\ Within'
    BY <2>1, <2>3 DEF TypeOK, HandOK, Within, Goto, InProgress
  <2>5. QED
    BY <2>2, <2>4
<1>3. ASSUME NEW c \in Conn, Admit(c) PROVE IInv'
  <2> DEFINE at == IF serve THEN "held" ELSE "setup"
  <2>1. /\ pc[c] = "queued" /\ loop = "accept" /\ inflight[IpOf[c]] < MaxInflight
        /\ inflight' = [inflight EXCEPT ![IpOf[c]] = inflight[IpOf[c]] + 1]
        /\ Goto(c, at) /\ hand' = c /\ loop' = IF serve THEN "slot" ELSE "serve"
        /\ Record(IpOf[c]) /\ UNCHANGED <<serve, slots, cancelled>>
    BY <1>3 DEF Admit
  <2>2. IpOf[c] \in Peer
    BY PeerAssumption
  <2>3. Balanced'
    BY <2>1, BalanceAcquired DEF InProgress, InSlot
  <2>4. inflight' \in [Peer -> Nat] /\ \A p \in Peer : inflight'[p] <= MaxInflight
    BY <2>1, <2>2, LimitAssumption DEF TypeOK, Within
  <2>5. pc' \in [Conn -> InProgress \cup {"away", "queued", "left"}]
    BY <2>1 DEF TypeOK, Goto, InProgress
  <2>6. TypeOK'
    BY <2>1, <2>2, <2>4, <2>5, RecordType DEF TypeOK
  <2>7. HandOK'
    <3>1. pc'[c] = at /\ \A d \in Conn \ {c} : pc'[d] = pc[d]
      BY <2>1 DEF TypeOK, Goto
    <3>2. \A d \in Conn : pc[d] # "held"
      BY <2>1 DEF HandOK
    <3>3. ~serve => \A d \in Conn : pc[d] \notin InProgress \cup {"left"}
      BY <2>1 DEF HandOK
    <3>4. QED
      BY <2>1, <3>1, <3>2, <3>3 DEF HandOK
  <2>8. Within'
    BY <2>1, <2>4 DEF Within
  <2>9. QED
    BY <2>3, <2>6, <2>7, <2>8
<1>4. ASSUME TakeSlot PROVE IInv'
  <2>1. /\ loop = "slot" /\ slots < MaxSlots /\ slots' = slots + 1
        /\ Goto(hand, "setup") /\ loop' = "accept" /\ hand' = NoConn
        /\ UNCHANGED <<serve, inflight, recent, cancelled>>
    BY <1>4 DEF TakeSlot
  <2>2. serve /\ hand \in Conn /\ pc[hand] = "held"
    BY <2>1 DEF HandOK
  <2>3. /\ At(InProgress)' = At(InProgress)
        /\ At(InSlot)' = At(InSlot) \cup {hand} /\ hand \notin At(InSlot)
    <3>1. /\ pc'[hand] = "setup" /\ pc[hand] = "held"
          /\ \A d \in Conn \ {hand} : pc'[d] = pc[d]
      BY <2>1, <2>2 DEF TypeOK, Goto
    <3>2. At(InProgress)' = At(InProgress)
      BY <3>1 DEF At, InProgress
    <3>3. At(InSlot)' = At(InSlot) \cup {hand} /\ hand \notin At(InSlot)
      BY <2>2, <3>1 DEF At, InSlot
    <3>4. QED
      BY <3>2, <3>3
  <2>4. slots' = Cardinality(At(InSlot)')
    BY <2>1, <2>2, <2>3, AtFinite, Joined DEF Balanced
  <2>5. Balanced'
    BY <2>1, <2>2, <2>3, <2>4 DEF Balanced, Of
  <2>6. pc' \in [Conn -> InProgress \cup {"away", "queued", "left"}]
    BY <2>1 DEF TypeOK, Goto, InProgress
  <2>7. TypeOK' /\ Within'
    BY <2>1, <2>6, LimitAssumption DEF TypeOK, Within
  <2>8. HandOK'
    BY <2>1, <2>2 DEF HandOK, Goto, TypeOK, InProgress
  <2>9. QED
    BY <2>5, <2>7, <2>8
<1>5. ASSUME Cancel PROVE IInv'
  <2>1. /\ pc' = [c \in Conn |-> IF pc[c] = "queued" THEN "away" ELSE pc[c]]
        /\ cancelled' = TRUE
        /\ UNCHANGED <<serve, loop, hand, inflight, recent, slots>>
    BY <1>5 DEF Cancel
  <2>2. At(InProgress)' = At(InProgress) /\ At(InSlot)' = At(InSlot)
    BY <2>1 DEF At, InProgress, InSlot
  <2>3. Balanced'
    BY <2>1, <2>2 DEF Balanced, Of
  <2>4. TypeOK' /\ Within'
    BY <2>1 DEF TypeOK, Within
  <2>5. HandOK'
    BY <2>1 DEF HandOK, InProgress
  <2>6. QED
    BY <2>3, <2>4, <2>5
<1>6. ASSUME AcceptFails \/ Tick \/ UNCHANGED vars PROVE IInv'
  <2>1. /\ UNCHANGED <<serve, hand, pc, inflight, slots, cancelled>>
        /\ loop' = loop \/ (loop = "accept" /\ loop' = "returned")
    BY <1>6 DEF AcceptFails, Tick, vars
  <2>2. recent' \in [Peer -> [Young -> Nat]]
    <3>1. CASE Tick
      <4>1. \A a \in Young : a # 0 => a - 1 \in Young
        BY LimitAssumption DEF Young
      <4>2. \A p \in Peer : recent[p] \in [Young -> Nat]
        BY DEF TypeOK
      <4>3. ASSUME NEW p \in Peer
            PROVE  [a \in Young |-> IF a = 0 THEN 0 ELSE recent[p][a - 1]] \in [Young -> Nat]
        BY <4>1, <4>2
      <4>4. QED
        BY <3>1, <4>3 DEF Tick
    <3>2. CASE AcceptFails \/ UNCHANGED vars
      BY <3>2 DEF AcceptFails, vars, TypeOK
    <3>3. QED
      BY <1>6, <3>1, <3>2
  <2>3. TypeOK' /\ Within' /\ HandOK'
    BY <2>1, <2>2 DEF TypeOK, Within, HandOK
  <2>4. Balanced'
    BY <2>1 DEF Balanced, Of, At
  <2>5. QED
    BY <2>3, <2>4
<1>7. ASSUME NEW c \in Conn, Setup(c) \/ Answer(c) \/ Transfer(c) \/ Notified(c)
      PROVE  IInv'
  BY <1>7, ReturnSafe, StageSafe DEF Setup, Answer, Transfer, Notified
<1>8. ASSUME NEW c \in Conn, Release(c) PROVE IInv'
  <2>1. pc[c] = "leave" /\ pc[c] \in InProgress
    BY <1>8 DEF Release, InProgress
  <2>2. IpOf[c] \in Peer /\ inflight[IpOf[c]] \in Nat /\ inflight[IpOf[c]] > 0
    BY <2>1, CountedIsPositive
  <2>3. /\ inflight' = [inflight EXCEPT ![IpOf[c]] = inflight[IpOf[c]] - 1]
        /\ Goto(c, "left")
        /\ UNCHANGED <<serve, loop, hand, recent, slots, cancelled>>
    BY <1>8, <2>2 DEF Release
  <2>4. /\ At(InProgress)' = At(InProgress) \ {c} /\ At(InSlot)' = At(InSlot)
    <3>1. pc'[c] = "left" /\ \A d \in Conn \ {c} : pc'[d] = pc[d]
      BY <2>3 DEF TypeOK, Goto
    <3>2. At(InProgress)' = At(InProgress) \ {c}
      BY <3>1 DEF At, InProgress
    <3>3. At(InSlot)' = At(InSlot)
      BY <2>1, <3>1 DEF At, InSlot
    <3>4. QED
      BY <3>2, <3>3
  <2>5. Balanced'
    BY <2>1, <2>3, <2>4, BalanceReleased
  <2>6. inflight' \in [Peer -> Nat] /\ \A p \in Peer : inflight'[p] <= inflight[p]
    BY <2>2, <2>3 DEF TypeOK
  <2>7. TypeOK'
    BY <2>3, <2>6 DEF TypeOK, Goto
  <2>8. Within'
    BY <2>3, <2>6, LimitAssumption DEF Within, TypeOK
  <2>9. HandOK'
    BY <2>1, <2>3 DEF HandOK, Goto, TypeOK, InProgress
  <2>10. QED
    BY <2>5, <2>7, <2>8, <2>9
<1>9. ASSUME NEW c \in Conn, FreeSlot(c) PROVE IInv'
  <2>1. /\ pc[c] = "left" /\ slots' = slots - 1 /\ Goto(c, "away")
        /\ UNCHANGED <<serve, loop, hand, inflight, recent, cancelled>>
    BY <1>9 DEF FreeSlot
  <2>2. serve
    BY <2>1 DEF HandOK
  <2>3. /\ At(InProgress)' = At(InProgress)
        /\ At(InSlot)' = At(InSlot) \ {c} /\ c \in At(InSlot)
    <3>1. pc'[c] = "away" /\ \A d \in Conn \ {c} : pc'[d] = pc[d]
      BY <2>1 DEF TypeOK, Goto
    <3>2. At(InProgress)' = At(InProgress)
      BY <2>1, <3>1 DEF At, InProgress
    <3>3. At(InSlot)' = At(InSlot) \ {c} /\ c \in At(InSlot)
      BY <2>1, <3>1 DEF At, InSlot
    <3>4. QED
      BY <3>2, <3>3
  <2>4. slots' = Cardinality(At(InSlot)') /\ slots' \in Nat
    <3>1. slots = Cardinality(At(InSlot)) /\ slots \in Nat
      BY <2>2 DEF Balanced, TypeOK
    <3>2. Cardinality(At(InSlot) \ {c}) = slots - 1 /\ slots > 0
      BY <2>3, <3>1, AtFinite, Gone
    <3>3. QED
      BY <2>1, <2>3, <3>1, <3>2
  <2>5. Balanced'
    BY <2>1, <2>2, <2>3, <2>4 DEF Balanced, Of
  <2>6. TypeOK' /\ Within'
    BY <2>1, <2>4, LimitAssumption DEF TypeOK, Within, Goto
  <2>7. HandOK'
    BY <2>1 DEF HandOK, Goto, TypeOK, InProgress
  <2>8. QED
    BY <2>5, <2>6, <2>7
<1>10. QED
  BY <1>1, <1>2, <1>3, <1>4, <1>5, <1>6, <1>7, <1>8, <1>9 DEF Next, Handler

-----------------------------------------------------------------------------
(* The theorems.                                                           *)

LEMMA Invariance == Spec => []IInv
<1>1. Init => IInv
  BY InitIInv
<1>2. IInv /\ [Next]_vars => IInv'
  BY StepIInv
<1>3. QED
  BY <1>1, <1>2, PTL DEF Spec

\* The accept loop's counters are at every moment the numbers of connections they
\* stand for (inflightCap.acquire and release, sem), on every way out of a handler.
THEOREM CountersAreBalanced == Spec => []Balanced
<1>1. IInv => Balanced
  BY DEF IInv
<1>2. QED
  BY <1>1, Invariance, PTL

\* So no address has more than MaxInflight connections in progress and no more than
\* MaxSlots handlers run, one in a one-shot receiver.
THEOREM HandlersAreBounded == Spec => []Bounded
<1>1. IInv => Bounded
  <2> SUFFICES ASSUME IInv PROVE Bounded
    OBVIOUS
  <2>1. \A p \in Peer : Cardinality(Of(p) \cap At(InProgress)) <= MaxInflight
    BY DEF IInv, Balanced, Within
  <2>2. CASE serve
    BY <2>1, <2>2 DEF IInv, Balanced, Within, Bounded
  <2>3. CASE ~serve
    <3>1. At(InSlot) \in SUBSET {hand}
      BY <2>3 DEF IInv, HandOK, At, InSlot, InProgress
    <3>2. Cardinality(At(InSlot)) <= 1
      <4>1. IsFiniteSet({hand}) /\ Cardinality({hand}) = 1
        BY FS_Singleton
      <4>2. QED
        BY <3>1, <4>1, FS_Subset
    <3>3. QED
      BY <2>1, <2>3, <3>2 DEF Bounded
  <2>4. QED
    BY <2>2, <2>3
<1>2. QED
  BY <1>1, Invariance, PTL

\* Every variable of the accept loop stays in its range.
THEOREM AdmissionTypeCorrect == Spec => []TypeOK
<1>1. IInv => TypeOK
  BY DEF IInv
<1>2. QED
  BY <1>1, Invariance, PTL

-----------------------------------------------------------------------------
(* The deadlines of one transfer.                                          *)

TransferTypeOK ==
  /\ stage \in {"loop", "read", "placed", "failed", "refused"}
  /\ size \in Nat
  /\ elapsed \in Nat /\ quiet \in Nat /\ readBy \in Nat
  /\ answered \in BOOLEAN

\* While a frame is waited for, what is left of the read deadline and the time waited
\* make up the deadline of one frame.
FrameClock == stage = "read" => quiet + readBy = FrameTimeout

\* The done that could not be written was late for the deadline of the transfer.
LateAnswer == stage = "placed" /\ ~answered => elapsed >= transferDeadline(size)

TransferInv == TransferTypeOK /\ FrameClock /\ GenuineNotCutOff /\ LateAnswer

-----------------------------------------------------------------------------
(* What fits a Duration is unchanged by the conversion.                     *)
LEMMA DurationFits ==
  ASSUME NEW d \in Nat, d < DurationLimit
  PROVE  AsDuration(d) = d
<1>1. DurationLimit \in Nat /\ d + DurationLimit \in 0 .. (2 * DurationLimit - 1)
  BY TimeAssumption
<1>2. (d + DurationLimit) % (2 * DurationLimit) = d + DurationLimit
  BY <1>1
<1> QED
  BY <1>1, <1>2 DEF AsDuration

(* transferDeadline is the floor and the time the size takes at the        *)
(* slowest rate, or the cap if that is less, whatever the declared size:   *)
(* no conversion in it overflows.                                          *)
LEMMA DeadlineIs ==
  ASSUME NEW n \in Nat
  PROVE  /\ n \div MinRate \in Nat
         /\ transferDeadline(n) \in Grace .. MaxDuration
         /\ transferDeadline(n) = MaxDuration \/ transferDeadline(n) = Grace + (n \div MinRate)
<1> DEFINE seconds == Lesser(n \div MinRate, MaxDuration)
<1>1. n \div MinRate \in Nat
  BY TimeAssumption
<1>2. seconds \in Nat /\ seconds <= MaxDuration
  BY <1>1, TimeAssumption DEF Lesser
<1>3. seconds = n \div MinRate \/ seconds = MaxDuration
  BY DEF Lesser
<1>4. AsDuration(seconds) = seconds
  BY <1>2, DurationFits, TimeAssumption
<1>5. AsDuration(Grace + seconds) = Grace + seconds
  BY <1>2, DurationFits, TimeAssumption
<1>6. transferDeadline(n) = Lesser(Grace + seconds, MaxDuration)
  BY <1>4, <1>5 DEF transferDeadline
<1> HIDE DEF seconds
<1> QED
  BY <1>1, <1>2, <1>3, <1>6, TimeAssumption DEF Lesser

(* What takes a whole number of ticks at the slowest rate, and a tick      *)
(* more, is slower than that rate.                                         *)
LEMMA SlowerThanMinRate ==
  ASSUME NEW n \in Nat, NEW t \in Nat, t >= n \div MinRate
  PROVE  (t + 1) * MinRate > n
<1> DEFINE q == n \div MinRate
<1>1. q \in Nat /\ t >= q /\ MinRate \in Nat \ {0}
  BY DeadlineIs, TimeAssumption
<1>2. (q + 1) * MinRate > n
  BY <1>1
<1> HIDE DEF q
<1>3. t - q \in Nat /\ (t + 1) * MinRate = (q + 1) * MinRate + (t - q) * MinRate
  BY <1>1
<1>4. (t - q) * MinRate >= 0
  BY <1>1, <1>3
<1> QED
  BY <1>1, <1>2, <1>3, <1>4

LEMMA BeginEstablishes == Begin => TransferInv
<1> SUFFICES ASSUME Begin PROVE TransferInv
  OBVIOUS
<1>1. size \in Nat
  BY TimeAssumption DEF Begin
<1>2. transferDeadline(size) \in Nat
  BY <1>1, DeadlineIs, TimeAssumption
<1> QED
  BY <1>1, <1>2 DEF Begin, TransferInv, TransferTypeOK, FrameClock, GenuineNotCutOff, LateAnswer

LEMMA TransferPreserves == TransferInv /\ [TransferNext]_transferVars => TransferInv'
<1> SUFFICES ASSUME TransferInv, [TransferNext]_transferVars PROVE TransferInv'
  OBVIOUS
<1> USE DEF TransferInv, TransferTypeOK, FrameClock, GenuineNotCutOff, LateAnswer
<1>1. CASE Arm
  BY <1>1, TimeAssumption DEF Arm
<1>2. CASE TakeFrame
  BY <1>2 DEF TakeFrame
<1>3. CASE Finish
  <2>1. transferDeadline(size) \in Nat
    BY DeadlineIs, TimeAssumption
  <2>2. answered' = (elapsed < transferDeadline(size)) /\ answered' \in BOOLEAN
    BY <1>3 DEF Finish
  <2>3. ~answered' => elapsed >= transferDeadline(size)
    <3>1. elapsed < transferDeadline(size) \/ elapsed >= transferDeadline(size)
      BY <2>1
    <3> QED
      BY <2>2, <3>1, Zenon
  <2>4. stage' = "placed" /\ UNCHANGED <<size, elapsed, quiet, readBy>>
    BY <1>3 DEF Finish
  <2>5. LateAnswer'
    BY <2>3, <2>4
  <2> QED
    BY <2>2, <2>4, <2>5
<1>4. CASE TimeOut
  BY <1>4 DEF TimeOut
<1>5. CASE Wait
  BY <1>5, TimeAssumption DEF Wait, Lesser
<1>6. CASE Refuse
  BY <1>6 DEF Refuse
<1>7. CASE UNCHANGED transferVars
  BY <1>7 DEF transferVars
<1> QED
  BY <1>1, <1>2, <1>3, <1>4, <1>5, <1>6, <1>7 DEF TransferNext

LEMMA TransferInvariance == TransferSpec => []TransferInv
BY BeginEstablishes, TransferPreserves, PTL DEF TransferSpec

-----------------------------------------------------------------------------
(* A receiver gives up on a transfer only after a silence as long as one   *)
(* frame may take: the deadline of the whole transfer never cuts it off    *)
(* (the read loop of receiveResumableToFile).                              *)
THEOREM GenuineTransfersAreNotCutOff == TransferSpec => []GenuineNotCutOff
<1>1. TransferInv => GenuineNotCutOff
  BY DEF TransferInv
<1> QED
  BY TransferInvariance, <1>1, PTL

(* Done is written unless the transfer has reached the cap or, the floor   *)
(* aside, ran slower than the slowest rate allowed, whatever the declared  *)
(* size.                                                                   *)
THEOREM AnswersAreInTime == TransferSpec => []AnswerInTime
<1>1. TransferInv => AnswerInTime
  <2> SUFFICES ASSUME TransferInv, stage = "placed", ~answered
               PROVE  /\ elapsed >= Grace
                      /\ elapsed >= MaxDuration \/ (elapsed - Grace + 1) * MinRate > size
    BY DEF AnswerInTime
  <2>1. size \in Nat /\ elapsed \in Nat /\ elapsed >= transferDeadline(size)
    BY DEF TransferInv, TransferTypeOK, LateAnswer
  <2>2. elapsed >= Grace
    BY <2>1, DeadlineIs, TimeAssumption
  <2>3. CASE transferDeadline(size) = MaxDuration
    BY <2>1, <2>2, <2>3
  <2>4. CASE transferDeadline(size) = Grace + (size \div MinRate)
    <3>1. elapsed - Grace \in Nat /\ elapsed - Grace >= size \div MinRate
      BY <2>1, <2>2, <2>4, DeadlineIs, TimeAssumption
    <3> QED
      BY <2>1, <2>2, <3>1, SlowerThanMinRate
  <2> QED
    BY <2>1, <2>3, <2>4, DeadlineIs
<1> QED
  BY TransferInvariance, <1>1, PTL

-----------------------------------------------------------------------------
(* The daemon (DaemonControl): its inductive invariant.                     *)

\* One process at a time starts or stops.
OneBusy == \A p, q \in Everyone : ~Quiet(p) /\ ~Quiet(q) => p = q

\* The path leads to the process that has bound it, which is there.
Holds ==
  /\ \A p \in Everyone : status[p] \in {"bound", "serving"} => sock = p
  /\ sock \in Proc => status[sock] \in {"bound", "serving"}

\* A process that has found no live socket is right to remove and replace it.
NobodyServes ==
  \A p \in Everyone : status[p] \in {"remove", "rebind", "unlinked"} =>
    \A q \in Everyone : ~Serving(q)

\* The token in the file is the one in use, and is made when there is none.
TokenKept ==
  /\ \A p \in Everyone : status[p] \in Binding \cup {"serving"} => tokenFile = tok[p]
  /\ \A p \in Everyone : status[p] \in {"create", "write"} => tokenFile = NoToken
  /\ \A p \in Client : status[p] \in Loading \cup {"off"}

DaemonInv == DaemonTypeOK /\ OneBusy /\ Holds /\ NobodyServes /\ TokenKept

\* What the invariant gives to one who is about to change something.
LEMMA DaemonFacts ==
  ASSUME DaemonInv, ~Overlap
  PROVE  /\ \A p \in Everyone : status[p] \in Binding \cup {"serving", "unlinked"} => p \in Proc
         /\ \A p \in Everyone : Serving(p) => Quiet(p)
         /\ \A p \in Everyone : status[p] \in Binding \cup {"create", "write", "unlinked"} => ~Quiet(p)
<1>1. \A p \in Everyone : status[p] \in Binding \cup {"serving", "unlinked"} => p \in Proc
  BY DEF DaemonInv, TokenKept, Everyone, Binding, Loading
<1>2. QED
  BY <1>1 DEF Serving, Quiet, Binding

LEMMA DaemonBegins == DaemonInit => DaemonInv
<1> SUFFICES ASSUME DaemonInit PROVE DaemonInv
  OBVIOUS
<1>1. DaemonTypeOK
  BY NameAssumption DEF DaemonInit, DaemonTypeOK, Binding, Loading
<1>2. OneBusy /\ NobodyServes
  BY DEF DaemonInit, OneBusy, NobodyServes, Quiet
<1>3. Holds /\ TokenKept
  BY NameAssumption DEF DaemonInit, Holds, TokenKept, Binding, Everyone
<1>4. QED
  BY <1>1, <1>2, <1>3 DEF DaemonInv

\* A process that is busy, and alone in that, moves to another place: the others are
\* where they were.
LEMMA OneBusyKept ==
  ASSUME DaemonInv, NEW p \in Everyone, ~Quiet(p) \/ \A q \in Everyone \ {p} : Quiet(q),
         \A q \in Everyone \ {p} : status'[q] = status[q],
         tokenFile # NoToken => tokenFile' # NoToken
  PROVE  OneBusy'
<1>1. \A q \in Everyone \ {p} : Quiet(q)
  BY DEF DaemonInv, OneBusy
<1>2. \A q \in Everyone \ {p} : Quiet(q)'
  BY <1>1 DEF Quiet
<1>3. QED
  BY <1>2 DEF OneBusy

LEMMA DaemonStep ==
  ASSUME DaemonInv, [DaemonNext]_daemonVars, ~Overlap
  PROVE  DaemonInv'
<1> USE DEF DaemonInv
<1> DEFINE Moved(p) == \A q \in Everyone \ {p} : status'[q] = status[q] /\ tok'[q] = tok[q]
<1>1. CASE UNCHANGED daemonVars
  BY <1>1 DEF daemonVars, DaemonTypeOK, OneBusy, Quiet, Holds, NobodyServes, Serving, TokenKept
<1>2. ASSUME NEW p \in Everyone, Start(p) PROVE DaemonInv'
  <2>1. /\ status[p] = "off" /\ status'[p] = "load" /\ tok'[p] = tok[p] /\ Moved(p)
        /\ UNCHANGED <<tok, tokenFile, sock, crashes, closes>>
    BY <1>2 DEF Start, Become, DaemonTypeOK
  <2>2. DaemonTypeOK'
    BY <1>2, <2>1 DEF Start, Become, DaemonTypeOK, Loading, Binding
  <2>3. OneBusy'
    <3>1. CASE \A q \in Everyone \ {p} : Quiet(q)
      BY <2>1, <3>1, OneBusyKept
    <3>2. CASE p \in Client /\ tokenFile # NoToken
      <4>1. Quiet(p)' /\ Quiet(p)
        BY <2>1, <3>2 DEF Quiet
      <4>2. \A q \in Everyone : Quiet(q)' <=> Quiet(q)
        BY <2>1, <4>1 DEF Quiet
      <4>3. QED
        BY <4>2 DEF OneBusy
    <3>3. QED
      BY <1>2, <3>1, <3>2 DEF Start, Alone
  <2>4. Holds' /\ NobodyServes'
    BY <2>1, NameAssumption DEF Holds, NobodyServes, Serving, Everyone
  <2>5. TokenKept'
    BY <2>1 DEF TokenKept, Loading, Binding, Everyone
  <2>6. QED
    BY <2>2, <2>3, <2>4, <2>5
<1>3. ASSUME NEW p \in Everyone, Load(p) PROVE DaemonInv'
  <2>1. /\ status[p] = "load" /\ Moved(p) /\ UNCHANGED <<tokenFile, sock, crashes, closes>>
        /\ \/ status'[p] = "create" /\ tok'[p] = tok[p] /\ tokenFile = NoToken
           \/ status'[p] = "off" /\ tok'[p] = NoToken
           \/ status'[p] = "bind" /\ tok'[p] = tokenFile /\ tokenFile # NoToken /\ p \notin Client
    BY <1>3 DEF Load, Loaded, Leave, Become, DaemonTypeOK
  <2>2. /\ status' \in [Everyone -> Loading \cup Binding \cup {"off", "serving", "unlinked"}]
        /\ tok' \in [Everyone -> Token \cup {NoToken}]
    BY <1>3 DEF Load, Loaded, Leave, Become, DaemonTypeOK, Loading, Binding
  <2>3. DaemonTypeOK'
    BY <2>1, <2>2 DEF DaemonTypeOK, Binding
  <2>4. OneBusy'
    <3>1. CASE ~Quiet(p)
      BY <2>1, <3>1, OneBusyKept
    <3>2. CASE Quiet(p)
      <4>1. status'[p] = "off"
        BY <1>3, <3>2, <2>1 DEF Load, Loaded, Leave, Become, Quiet, DaemonTypeOK
      <4>2. \A q \in Everyone : Quiet(q)' <=> Quiet(q)
        BY <2>1, <3>2, <4>1 DEF Quiet
      <4>3. QED
        BY <4>2 DEF OneBusy
    <3>3. QED
      BY <3>1, <3>2
  <2>5. Holds' /\ NobodyServes'
    BY <2>1, NameAssumption DEF Holds, NobodyServes, Serving, Everyone
  <2>6. TokenKept'
    BY <2>1 DEF TokenKept, Loading, Binding, Everyone
  <2>7. QED
    BY <2>3, <2>4, <2>5, <2>6
<1>4. ASSUME NEW p \in Everyone, Create(p) PROVE DaemonInv'
  <2>1. /\ status[p] = "create" /\ status'[p] = "write" /\ Moved(p) /\ tok' = tok
        /\ tokenFile = NoToken /\ UNCHANGED <<tokenFile, sock, crashes, closes>>
    BY <1>4 DEF Create, Become, DaemonTypeOK, TokenKept
  <2>2. DaemonTypeOK'
    BY <1>4, <2>1 DEF Create, Become, DaemonTypeOK, Loading, Binding
  <2>3. OneBusy'
    BY <2>1, OneBusyKept, DaemonFacts
  <2>4. Holds' /\ NobodyServes'
    BY <2>1, NameAssumption DEF Holds, NobodyServes, Serving, Everyone
  <2>5. TokenKept'
    BY <2>1 DEF TokenKept, Loading, Binding, Everyone
  <2>6. QED
    BY <2>2, <2>3, <2>4, <2>5
<1>5. ASSUME NEW p \in Everyone, Write(p) PROVE DaemonInv'
  <2>1. /\ status[p] = "write" /\ Moved(p) /\ UNCHANGED <<sock, crashes, closes>>
        /\ tokenFile = NoToken /\ tokenFile' \in Token
        /\ \/ status'[p] = "off" /\ tok'[p] = NoToken
           \/ status'[p] = "bind" /\ tok'[p] = tokenFile' /\ p \notin Client
    BY <1>5 DEF Write, Loaded, Leave, Become, DaemonTypeOK, TokenKept
  <2>2. /\ status' \in [Everyone -> Loading \cup Binding \cup {"off", "serving", "unlinked"}]
        /\ tok' \in [Everyone -> Token \cup {NoToken}]
    BY <1>5 DEF Write, Loaded, Leave, Become, DaemonTypeOK, Loading, Binding
  <2>3. DaemonTypeOK'
    BY <2>1, <2>2 DEF DaemonTypeOK, Binding
  <2>4. OneBusy'
    BY <2>1, OneBusyKept, DaemonFacts
  <2>5. Holds' /\ NobodyServes'
    BY <2>1, NameAssumption DEF Holds, NobodyServes, Serving, Everyone
  <2>6. \A q \in Everyone \ {p} : status[q] \notin Binding \cup {"serving", "create", "write"}
    BY <2>1, DaemonFacts, NameAssumption DEF TokenKept, OneBusy, DaemonTypeOK, Binding
  <2>7. TokenKept'
    BY <2>1, <2>6 DEF TokenKept, Loading, Binding, Everyone
  <2>8. QED
    BY <2>3, <2>4, <2>5, <2>7

<1>6. ASSUME NEW p \in Everyone, Bind(p) \/ Rebind(p) PROVE DaemonInv'
  <2>1. /\ status[p] \in {"bind", "rebind"} /\ Moved(p) /\ UNCHANGED <<tokenFile, crashes, closes>>
        /\ \/ sock = NoSock /\ sock' = p /\ status'[p] = "bound" /\ tok'[p] = tok[p]
           \/ sock' = sock /\ status'[p] = "probe" /\ tok'[p] = tok[p]
           \/ sock' = sock /\ status'[p] = "off" /\ tok'[p] = NoToken
    BY <1>6 DEF Bind, Rebind, Leave, Become, DaemonTypeOK
  <2>2. /\ status' \in [Everyone -> Loading \cup Binding \cup {"off", "serving", "unlinked"}]
        /\ tok' \in [Everyone -> Token \cup {NoToken}]
    BY <1>6 DEF Bind, Rebind, Leave, Become, DaemonTypeOK, Loading, Binding
  <2>3. p \in Proc /\ ~Quiet(p) /\ tok[p] \in Token
    BY <2>1, DaemonFacts DEF Binding, DaemonTypeOK
  <2>4. DaemonTypeOK'
    BY <2>1, <2>2, <2>3 DEF DaemonTypeOK, Binding
  <2>5. OneBusy'
    BY <2>1, <2>3, OneBusyKept
  <2>6. Holds'
    <3>1. \A q \in Everyone : status[q] \in {"bound", "serving"} => q \in Proc /\ sock = q
      BY DaemonFacts DEF Holds, Binding
    <3>2. sock = NoSock => \A q \in Everyone : status[q] \notin {"bound", "serving"}
      BY <3>1, NameAssumption
    <3>3. sock # p
      BY <2>1, <2>3 DEF Holds
    <3>4. QED
      BY <2>1, <2>3, <3>2, <3>3, NameAssumption DEF Holds, Everyone
  <2>7. NobodyServes'
    BY <2>1 DEF NobodyServes, Serving
  <2>8. TokenKept'
    BY <2>1, <2>3, NameAssumption DEF TokenKept, Loading, Binding, Everyone
  <2>9. QED
    BY <2>4, <2>5, <2>6, <2>7, <2>8
<1>7. ASSUME NEW p \in Everyone, Listen(p) PROVE DaemonInv'
  <2>1. /\ status[p] = "bound" /\ status'[p] = "serving" /\ Moved(p)
        /\ UNCHANGED <<tok, tokenFile, sock, crashes, closes>>
    BY <1>7 DEF Listen, Become, DaemonTypeOK
  <2>2. p \in Proc /\ ~Quiet(p)
    BY <2>1, DaemonFacts DEF Binding
  <2>3. DaemonTypeOK'
    BY <1>7, <2>1 DEF Listen, Become, DaemonTypeOK, Loading, Binding
  <2>4. OneBusy'
    BY <2>1, <2>2, OneBusyKept
  <2>5. Holds'
    BY <2>1, <2>2, NameAssumption DEF Holds, Everyone
  <2>6. \A q \in Everyone : status'[q] \notin {"remove", "rebind", "unlinked"}
    BY <2>1, <2>2, DaemonFacts DEF OneBusy, Binding
  <2>7. NobodyServes'
    BY <2>6 DEF NobodyServes
  <2>8. TokenKept'
    BY <2>1, <2>2, NameAssumption DEF TokenKept, Loading, Binding, Everyone
  <2>9. QED
    BY <2>3, <2>4, <2>5, <2>7, <2>8
<1>8. ASSUME NEW p \in Everyone, Probe(p) PROVE DaemonInv'
  <2>1. /\ status[p] = "probe" /\ Moved(p) /\ UNCHANGED <<tokenFile, sock, crashes, closes>>
        /\ \/ status'[p] = "off" /\ tok'[p] = NoToken
           \/ /\ status'[p] = "remove" /\ tok'[p] = tok[p]
              /\ ~(sock \in Proc /\ Serving(sock))
    BY <1>8 DEF Probe, Leave, Become, DaemonTypeOK
  <2>2. /\ status' \in [Everyone -> Loading \cup Binding \cup {"off", "serving", "unlinked"}]
        /\ tok' \in [Everyone -> Token \cup {NoToken}]
    BY <1>8 DEF Probe, Leave, Become, DaemonTypeOK, Loading, Binding
  <2>3. p \in Proc /\ ~Quiet(p) /\ tok[p] \in Token
    BY <2>1, DaemonFacts DEF Binding, DaemonTypeOK
  <2>4. DaemonTypeOK'
    BY <2>1, <2>2, <2>3 DEF DaemonTypeOK, Binding
  <2>5. OneBusy'
    BY <2>1, <2>3, OneBusyKept
  <2>6. Holds'
    BY <2>1, <2>3, NameAssumption DEF Holds, Everyone
  <2>7. NobodyServes'
    <3>1. \A q \in Everyone : Serving(q) => sock = q /\ q \in Proc
      BY DaemonFacts DEF Holds, Serving
    <3>2. status'[p] = "remove" => \A q \in Everyone : ~Serving(q)
      BY <2>1, <3>1
    <3>3. QED
      BY <2>1, <3>2 DEF NobodyServes, Serving
  <2>8. TokenKept'
    BY <2>1, <2>3, NameAssumption DEF TokenKept, Loading, Binding, Everyone
  <2>9. QED
    BY <2>4, <2>5, <2>6, <2>7, <2>8
<1>9. ASSUME NEW p \in Everyone, Remove(p) \/ ReleaseLock(p) PROVE DaemonInv'
  <2>1. /\ status[p] \in {"remove", "unlinked"} /\ Moved(p) /\ sock' = NoSock
        /\ UNCHANGED <<tokenFile, crashes, closes>>
        /\ \/ status'[p] = "rebind" /\ status[p] = "remove" /\ tok'[p] = tok[p]
           \/ status'[p] = "off" /\ tok'[p] = NoToken
    BY <1>9 DEF Remove, ReleaseLock, Leave, Become, DaemonTypeOK
  <2>2. /\ status' \in [Everyone -> Loading \cup Binding \cup {"off", "serving", "unlinked"}]
        /\ tok' \in [Everyone -> Token \cup {NoToken}]
    BY <1>9 DEF Remove, ReleaseLock, Leave, Become, DaemonTypeOK, Loading, Binding
  <2>3. p \in Proc /\ ~Quiet(p) /\ tok[p] \in Token
    BY <2>1, DaemonFacts DEF Binding, DaemonTypeOK
  <2>4. DaemonTypeOK'
    BY <2>1, <2>2, <2>3 DEF DaemonTypeOK, Binding
  <2>5. OneBusy'
    BY <2>1, <2>3, OneBusyKept
  <2>6. \A q \in Everyone : status'[q] \notin {"bound", "serving"}
    <3>1. \A q \in Everyone : status[q] # "serving"
      BY <2>1 DEF NobodyServes, Serving
    <3>2. \A q \in Everyone \ {p} : status[q] # "bound"
      BY <2>3, DaemonFacts DEF OneBusy, Binding
    <3>3. QED
      BY <2>1, <3>1, <3>2
  <2>7. Holds' /\ NobodyServes'
    BY <2>1, <2>6, NameAssumption DEF Holds, NobodyServes, Serving
  <2>8. TokenKept'
    BY <2>1, <2>3, NameAssumption DEF TokenKept, Loading, Binding, Everyone
  <2>9. QED
    BY <2>4, <2>5, <2>7, <2>8
<1>10. ASSUME NEW p \in Everyone, Close(p) PROVE DaemonInv'
  <2>1. /\ status[p] = "serving" /\ status'[p] = "unlinked" /\ Moved(p) /\ sock' = NoSock
        /\ closes' = closes + 1 /\ UNCHANGED <<tok, tokenFile, crashes>>
    BY <1>10 DEF Close, Become, DaemonTypeOK, Serving
  <2>2. p \in Proc /\ p \notin Client
    BY <2>1, DaemonFacts, NameAssumption
  <2>3. \A q \in Everyone \ {p} : Quiet(q)
    BY <1>10, <2>2 DEF Close, Alone
  <2>4. DaemonTypeOK'
    BY <1>10, <2>1 DEF Close, Become, DaemonTypeOK, Loading, Binding
  <2>5. OneBusy'
    BY <2>1, <2>3, OneBusyKept
  <2>6. \A q \in Everyone : status'[q] \notin {"bound", "serving"}
    <3>1. \A q \in Everyone \ {p} : status[q] # "serving"
      BY <2>1 DEF Holds
    <3>2. QED
      BY <2>1, <2>3, <3>1, DaemonFacts DEF Binding
  <2>7. Holds' /\ NobodyServes'
    BY <2>1, <2>6, NameAssumption DEF Holds, NobodyServes, Serving
  <2>8. TokenKept'
    BY <2>1, <2>2 DEF TokenKept, Loading, Binding, Everyone
  <2>9. QED
    BY <2>4, <2>5, <2>7, <2>8
<1>11. ASSUME NEW p \in Everyone, Crash(p) PROVE DaemonInv'
  <2>1. /\ status'[p] = "off" /\ tok'[p] = NoToken /\ Moved(p)
        /\ sock' = IF sock = p THEN Stale ELSE sock
        /\ crashes' = crashes + 1 /\ UNCHANGED <<tokenFile, closes>>
    BY <1>11 DEF Crash, Leave, Become, DaemonTypeOK
  <2>2. DaemonTypeOK'
    BY <1>11, <2>1 DEF Crash, Leave, Become, DaemonTypeOK, Loading, Binding
  <2>3. OneBusy'
    <3>1. \A q \in Everyone : Quiet(q) => Quiet(q)'
      BY <2>1 DEF Quiet
    <3>2. QED
      BY <3>1 DEF OneBusy
  <2>4. Holds' /\ NobodyServes'
    BY <2>1, NameAssumption DEF Holds, NobodyServes, Serving, Everyone
  <2>5. TokenKept'
    BY <2>1 DEF TokenKept, Loading, Binding, Everyone
  <2>6. QED
    BY <2>2, <2>3, <2>4, <2>5
<1>12. QED
  BY <1>1, <1>2, <1>3, <1>4, <1>5, <1>6, <1>7, <1>8, <1>9, <1>10, <1>11 DEF DaemonNext, Step

-----------------------------------------------------------------------------
(* The theorems.                                                           *)

LEMMA DaemonInvariance == ~Overlap => (DaemonSpec => []DaemonInv)
<1> SUFFICES ASSUME ~Overlap PROVE DaemonSpec => []DaemonInv
  OBVIOUS
<1>1. DaemonInit => DaemonInv
  BY DaemonBegins
<1>2. DaemonInv /\ [DaemonNext]_daemonVars => DaemonInv'
  BY DaemonStep
<1>3. QED
  BY <1>1, <1>2, PTL DEF DaemonSpec

\* If starts and stops do not overlap, at most one daemon serves, whatever crashes
\* in between: "Binding the endpoint is the single-instance lock" (Listen).
THEOREM AtMostOneDaemon == ~Overlap => (DaemonSpec => []SingleInstance)
<1>1. DaemonInv => SingleInstance
  BY DEF DaemonInv, Holds, SingleInstance, Serving
<1>2. QED
  BY <1>1, DaemonInvariance, PTL

\* Under the same condition the daemon that serves is found at the path with the
\* token in the file (LoadOrCreateToken, bindControl, Close).
THEOREM DaemonIsReachable == ~Overlap => (DaemonSpec => []Reachable)
<1>1. DaemonInv => Reachable
  BY DEF DaemonInv, Holds, TokenKept, Reachable, Serving
<1>2. QED
  BY <1>1, DaemonInvariance, PTL

=============================================================================
