------------------------------ MODULE Admission ------------------------------
(***************************************************************************)
(* The accept loop of Receive (lanshare/receive.go): a rate throttle and a *)
(* cap on connections in progress per source address and, when it serves   *)
(* many at a time, a bounded number of handlers.  One Receive call is      *)
(* modelled, from the bound listener to its return.  The handlers are      *)
(* those of LanPush, of which only the stages matter here that a user, a   *)
(* peer or a deadline ends.                                                *)
(*                                                                         *)
(* Time passes in ticks.  The throttle's list of times is kept as the      *)
(* number of attempts of each age below the window: an older one counts    *)
(* for nothing, whether it has been pruned from the list or not.           *)
(***************************************************************************)
EXTENDS Integers, FiniteSets, Functions

CONSTANTS
  Conn,         \* connections that may be made, each of them again and again
  Peer,         \* source addresses
  IpOf,         \* IpOf[c]: the address connection c comes from
  NoConn,       \* the loop has no connection in hand
  MaxInflight,  \* connections in progress per address (2)
  MaxSlots,     \* handlers at a time in serve mode (8)
  MaxBurst,     \* attempts per address and window (10)
  Window,       \* the length of the window in ticks (5 s)
  Modes,        \* the values of ReceiveOptions.Loop
  Stuck         \* connections whose prompt may stay unanswered for ever

ASSUME PeerAssumption == IpOf \in [Conn -> Peer] /\ NoConn \notin Conn
ASSUME FiniteAssumption == IsFiniteSet(Conn)
ASSUME LimitAssumption ==
  MaxInflight \in Nat /\ MaxSlots \in Nat /\ MaxBurst \in Nat /\ Window \in Nat \ {0}
ASSUME ModeAssumption == Modes \subseteq BOOLEAN

VARIABLES
  serve,      \* ReceiveOptions.Loop of this Receive
  loop,       \* where its loop is
  hand,       \* the connection the loop has in hand
  pc,         \* where each connection is
  inflight,   \* inflightCap.n
  recent,     \* ipThrottle.seen: recent[p][a] attempts of p, a ticks ago
  slots,      \* the length of sem
  cancelled   \* the context is cancelled, so the listener is closed

vars == <<serve, loop, hand, pc, inflight, recent, slots, cancelled>>

\* The places of a connection that has passed inflight.acquire and for which
\* inflight.release has not run, and of one that occupies a place in sem.
InProgress == {"held", "setup", "prompt", "transfer", "notify", "leave"}
InSlot == {"setup", "prompt", "transfer", "notify", "leave", "left"}

Of(p) == {c \in Conn : IpOf[c] = p}
At(places) == {c \in Conn : pc[c] \in places}

Goto(c, at) == pc' = [pc EXCEPT ![c] = at]

-----------------------------------------------------------------------------
(* ipThrottle.                                                             *)

Young == 0..(Window - 1)

\* allow counts the attempts inside the window; one it refuses is not recorded.
Throttled(p) == SumFunction(recent[p]) >= MaxBurst
Record(p) == recent' = [recent EXCEPT ![p][0] = @ + 1]

Tick ==
  /\ recent' = [p \in Peer |->
                 [a \in Young |-> IF a = 0 THEN 0 ELSE recent[p][a - 1]]]
  /\ UNCHANGED <<serve, loop, hand, pc, inflight, slots, cancelled>>

-----------------------------------------------------------------------------
(* The loop.                                                               *)

Init ==
  /\ serve \in Modes
  /\ loop = "accept"
  /\ hand = NoConn
  /\ pc = [c \in Conn |-> "away"]
  /\ inflight = [p \in Peer |-> 0]
  /\ recent = [p \in Peer |-> [a \in Young |-> 0]]
  /\ slots = 0
  /\ cancelled = FALSE

\* A peer connects; the kernel queues the connection for Accept.
Dial(c) ==
  /\ pc[c] = "away"
  /\ ~cancelled /\ loop # "returned"
  /\ Goto(c, "queued")
  /\ UNCHANGED <<serve, loop, hand, inflight, recent, slots, cancelled>>

\* A mutant of TurnAway: a refused attempt counts (up to the limit) against the peer.
TurnAwayRecording(c) ==
  /\ loop = "accept" /\ ~cancelled
  /\ pc[c] = "queued"
  /\ Throttled(IpOf[c]) \/ inflight[IpOf[c]] >= MaxInflight
  /\ recent' = [recent EXCEPT ![IpOf[c]][0] = MaxBurst]
  /\ Goto(c, "away")
  /\ UNCHANGED <<serve, loop, hand, inflight, slots, cancelled>>

\* Accept, and a guard that closes the connection at once.  The throttle is asked
\* first, so a connection the in-flight cap refuses has used up an attempt.
TurnAway(c) ==
  /\ loop = "accept" /\ ~cancelled
  /\ pc[c] = "queued"
  /\ \/ Throttled(IpOf[c]) /\ recent' = recent
     \/ ~Throttled(IpOf[c]) /\ inflight[IpOf[c]] >= MaxInflight /\ Record(IpOf[c])
  /\ Goto(c, "away")
  /\ UNCHANGED <<serve, loop, hand, inflight, slots, cancelled>>

\* Accept, past both guards.  One-shot: the loop runs the handler itself.
Admit(c) ==
  /\ loop = "accept" /\ ~cancelled
  /\ pc[c] = "queued"
  /\ ~Throttled(IpOf[c]) /\ Record(IpOf[c])
  /\ inflight[IpOf[c]] < MaxInflight
  /\ inflight' = [inflight EXCEPT ![IpOf[c]] = @ + 1]
  /\ IF serve THEN loop' = "slot" /\ hand' = c /\ Goto(c, "held")
              ELSE loop' = "serve" /\ hand' = c /\ Goto(c, "setup")
  /\ UNCHANGED <<serve, slots, cancelled>>

\* A mutant of TakeSlot: the channel has no capacity limit.
TakeSlotUnbounded ==
  /\ loop = "slot"
  /\ slots' = slots + 1
  /\ Goto(hand, "setup")
  /\ loop' = "accept" /\ hand' = NoConn
  /\ UNCHANGED <<serve, inflight, recent, cancelled>>

\* sem <- struct{}{}, which blocks while every slot is taken, and the handler's
\* goroutine starts.
TakeSlot ==
  /\ loop = "slot"
  /\ slots < MaxSlots
  /\ slots' = slots + 1
  /\ Goto(hand, "setup")
  /\ loop' = "accept" /\ hand' = NoConn
  /\ UNCHANGED <<serve, inflight, recent, cancelled>>

\* The context is cancelled: the listener closes under the loop, wherever it is,
\* and takes the connections nobody has accepted with it.
Cancel ==
  /\ ~cancelled
  /\ cancelled' = TRUE
  /\ pc' = [c \in Conn |-> IF pc[c] = "queued" THEN "away" ELSE pc[c]]
  /\ UNCHANGED <<serve, loop, hand, inflight, recent, slots>>

\* A mutant of AcceptFails: the loop waits for its handlers first.
AcceptFailsAfterHandlers ==
  /\ loop = "accept" /\ cancelled
  /\ At(InSlot) = {}
  /\ loop' = "returned"
  /\ UNCHANGED <<serve, hand, pc, inflight, recent, slots, cancelled>>

\* Accept fails on the closed listener.  Handlers may still be running.
AcceptFails ==
  /\ loop = "accept" /\ cancelled
  /\ loop' = "returned"
  /\ UNCHANGED <<serve, hand, pc, inflight, recent, slots, cancelled>>

-----------------------------------------------------------------------------
(* The handler.                                                            *)

\* handleConn has returned.  A serving receiver is told of a placed file and
\* then lets go; a one-shot receiver lets go and returns what was terminal.
Return(c, outcome) ==
  IF serve
  THEN /\ Goto(c, IF outcome = "placed" THEN "notify" ELSE "leave")
       /\ UNCHANGED <<loop, hand, inflight>>
  ELSE /\ inflight' = [inflight EXCEPT ![IpOf[c]] = @ - 1]
       /\ hand' = NoConn
       /\ IF outcome = "rejected"
          THEN /\ loop' = "accept"
               /\ Goto(c, "away")
          ELSE /\ loop' = "returned"
               /\ pc' = [d \in Conn |->
                          IF d = c \/ pc[d] = "queued" THEN "away" ELSE pc[d]]

\* Allow-list, TLS, hello, identity, password and name: rejected, or on to the
\* user.
Setup(c) ==
  /\ pc[c] = "setup"
  /\ \/ Return(c, "rejected")
     \/ Goto(c, "prompt") /\ UNCHANGED <<loop, hand, inflight>>
  /\ UNCHANGED <<serve, recent, slots, cancelled>>

\* The user declines, or accepts: then an existing file ends it (a terminal
\* result), or the accept cannot be written, or the transfer starts.
Answer(c) ==
  /\ pc[c] = "prompt"
  /\ \/ \E outcome \in {"rejected", "refused"} : Return(c, outcome)
     \/ Goto(c, "transfer") /\ UNCHANGED <<loop, hand, inflight>>
  /\ UNCHANGED <<serve, recent, slots, cancelled>>

\* The file is placed, or the transfer fails: terminal both.
Transfer(c) ==
  /\ pc[c] = "transfer"
  /\ \E outcome \in {"placed", "failed"} : Return(c, outcome)
  /\ UNCHANGED <<serve, recent, slots, cancelled>>

\* OnReceived returns.
Notified(c) ==
  /\ pc[c] = "notify"
  /\ Goto(c, "leave")
  /\ UNCHANGED <<serve, loop, hand, inflight, recent, slots, cancelled>>

\* A mutant of Release: a handler forgets to release its address.
ReleaseNothing(c) ==
  /\ pc[c] = "leave"
  /\ Goto(c, "left")
  /\ UNCHANGED <<serve, loop, hand, inflight, recent, slots, cancelled>>

\* The deferred inflight.release, and then the receive from sem.
Release(c) ==
  /\ pc[c] = "leave"
  /\ inflight' = [inflight EXCEPT ![IpOf[c]] = IF @ > 0 THEN @ - 1 ELSE @]
  /\ Goto(c, "left")
  /\ UNCHANGED <<serve, loop, hand, recent, slots, cancelled>>

\* A mutant of FreeSlot: the slot is lost.
FreeSlotLost(c) ==
  /\ pc[c] = "left"
  /\ Goto(c, "away")
  /\ UNCHANGED <<serve, loop, hand, inflight, recent, slots, cancelled>>

FreeSlot(c) ==
  /\ pc[c] = "left"
  /\ slots' = slots - 1
  /\ Goto(c, "away")
  /\ UNCHANGED <<serve, loop, hand, inflight, recent, cancelled>>

Handler(c) ==
  Setup(c) \/ Answer(c) \/ Transfer(c) \/ Notified(c) \/ Release(c) \/ FreeSlot(c)

Next ==
  \/ \E c \in Conn : Dial(c) \/ TurnAway(c) \/ Admit(c) \/ Handler(c)
  \/ TakeSlot \/ Cancel \/ AcceptFails \/ Tick

Spec == Init /\ [][Next]_vars

\* Time passes, the loop runs, and every handler does: the handshake deadline and
\* the size and the frame deadline of a transfer bound its stages, all but the
\* prompt, which waits for a callback that has no deadline.  Accept takes the
\* connections in the order of their arrival, so each is accepted in its turn.
FairSpec ==
  /\ Spec
  /\ WF_vars(Tick) /\ WF_vars(TakeSlot) /\ WF_vars(AcceptFails)
  /\ \A c \in Conn :
       /\ SF_vars(TurnAway(c) \/ Admit(c))
       /\ WF_vars(Setup(c)) /\ WF_vars(Transfer(c))
       /\ WF_vars(Notified(c)) /\ WF_vars(Release(c)) /\ WF_vars(FreeSlot(c))
       /\ c \notin Stuck => WF_vars(Answer(c))

-----------------------------------------------------------------------------
(* Properties.                                                             *)

\* Every variable stays in its range.
TypeOK ==
  /\ serve \in BOOLEAN
  /\ loop \in {"accept", "slot", "serve", "returned"}
  /\ hand \in Conn \cup {NoConn}
  /\ pc \in [Conn -> InProgress \cup {"away", "queued", "left"}]
  /\ inflight \in [Peer -> Nat]
  /\ recent \in [Peer -> [Young -> Nat]]
  /\ slots \in Nat
  /\ cancelled \in BOOLEAN

\* Both counters are what they count, whichever way a handler returned: an
\* acquire without its release would shut a peer out for good, and a release too
\* many (the guard n > 0 hides it) would let it in without bound.
Balanced ==
  /\ \A p \in Peer : inflight[p] = Cardinality(Of(p) \cap At(InProgress))
  /\ slots = Cardinality(IF serve THEN At(InSlot) ELSE {})

\* "One peer can't flood the receiver or occupy many worker slots": per address
\* and overall the handlers are bounded, and a one-shot receiver has at most one.
Bounded ==
  /\ \A p \in Peer : Cardinality(Of(p) \cap At(InProgress)) <= MaxInflight
  /\ Cardinality(At(InSlot)) <= IF serve THEN MaxSlots ELSE 1

\* "One slow approval prompt can't block all other receiving" (serve mode): while
\* fewer prompts than there are slots stay unanswered, a connection the kernel has
\* queued is accepted or turned away.
NobodyWaitsForever == \A c \in Conn : serve /\ pc[c] = "queued" ~> pc[c] # "queued"

\* Under the same condition a serving receiver returns after a cancellation, though
\* the loop does not look at the context while it waits for a slot.
CancelReturns == serve /\ cancelled ~> loop = "returned"

\* The throttle lets a peer that goes on trying in again once a window has passed:
\* the attempts it has refused do not count against the peer.
ThrottleWearsOff == \A p \in Peer : Throttled(p) ~> ~Throttled(p)
=============================================================================
