----------------------------- MODULE P2PSession ------------------------------
(***************************************************************************)
(* One peer-to-peer transfer (p2p/session.go, p2p/signaling.go): the two   *)
(* sessions, from the completed rendezvous on, their signaling messages    *)
(* through the relay, the two data channels between them, and the          *)
(* callbacks and goroutines that work on the state of a session beside     *)
(* the call its user makes.                                                *)
(*                                                                         *)
(* Both channels are ordered and reliable as long as the connection is up, *)
(* and what is under way is lost when it goes down.  The stream is N data  *)
(* frames and the EOF frame, so a place on its way is told by how many of  *)
(* them have passed it:                                                    *)
(*   written by Send (sent) >= out of the SCTP send buffer (arrived) >=    *)
(*   put into recvCh by OnMessage (queued) >= taken by Receive (taken).    *)
(* When the secrets differ, what answers a side may be a peer that does    *)
(* not follow this code (Intrude).                                         *)
(***************************************************************************)
EXTENDS Integers, Sequences

CONSTANTS
  N,            \* data frames of the stream
  MaxBuffered,  \* maxBufferedAmount, in frames
  Low,          \* bufferedAmountLowThreshold, in frames
  Window,       \* frames that SCTP holds for the receiver's OnMessage
  QueueCap,     \* the capacity of recvCh
  Candidates,   \* ICE candidates of each side
  Matches,      \* may the pairing secrets of the two sides match?
  Faults,       \* what may go wrong: "giveup", "close", "crash", "signal", "network"
  MaxFaults     \* bound on how often

ASSUME StreamAssumption == N \in Nat /\ Candidates \in Nat
ASSUME BufferAssumption ==
  /\ MaxBuffered \in Nat /\ Low \in Nat /\ Low < MaxBuffered
  /\ Window \in Nat \ {0} /\ QueueCap \in Nat \ {0}
ASSUME FaultAssumption == MaxFaults \in Nat /\ Matches \subseteq BOOLEAN

VARIABLES
  pc,        \* where each side's user call is
  sgn,       \* where runSignaling is
  sigq,      \* sigq[x]: messages of the relay on their way to x
  sock,      \* the relay connection of x is up
  localSet,  \* the local description is set, so candidates are gathered
  remoteSet, \* webrtcSession.remoteSet
  emitted,   \* candidates x has sent
  pending,   \* webrtcSession.pendingIC: candidates of the peer, kept for later
  applied,   \* candidates of the peer that x has given to its connection
  link,      \* the connection between the two: "no" (not yet), "up", "down"
  ctrl,      \* ctrl[x]: control messages on their way to x
  ctrlRecv,  \* webrtcSession.ctrlRecv, of capacity 1
  sent, arrived, queued, taken,
  bufLow,    \* webrtcSession.bufLow, of capacity 1
  failed,    \* failCh is closed
  closed,    \* sessionCtx is cancelled
  match,     \* the secrets match
  faults

sigVars == <<sgn, sigq, sock, localSet, remoteSet, emitted, pending, applied>>
ctrlVars == <<ctrl, ctrlRecv>>
dataVars == <<sent, arrived, queued, taken, bufLow>>
endVars == <<failed, closed>>
vars == <<pc, sigVars, link, ctrlVars, dataVars, endVars, match, faults>>

Side == {"S", "R"}
Other(x) == IF x = "S" THEN "R" ELSE "S"
None == "none"
Ended == {"ok", "failed", "dead"}

Goto(x, at) == pc' = [pc EXCEPT ![x] = at]

\* The relay passes m on to the peer of x, if both are still connected to it.
Posted(x, m) ==
  IF sock[x] /\ sock[Other(x)] THEN [sigq EXCEPT ![Other(x)] = Append(@, m)] ELSE sigq

\* A message on the control channel; without a connection it goes nowhere.
Told(x, m) == IF link = "up" THEN [ctrl EXCEPT ![Other(x)] = Append(@, m)] ELSE ctrl

-----------------------------------------------------------------------------
\* sig.connect has returned at both sides.
Init ==
  /\ pc = [x \in Side |-> "setup"]
  /\ sgn = [x \in Side |-> "off"]
  /\ sigq = [x \in Side |-> << >>]
  /\ sock = [x \in Side |-> TRUE]
  /\ localSet = [x \in Side |-> FALSE]
  /\ remoteSet = [x \in Side |-> FALSE]
  /\ emitted = [x \in Side |-> 0]
  /\ pending = [x \in Side |-> 0]
  /\ applied = [x \in Side |-> 0]
  /\ link = "no"
  /\ ctrl = [x \in Side |-> << >>]
  /\ ctrlRecv = [x \in Side |-> None]
  /\ sent = 0 /\ arrived = 0 /\ queued = 0 /\ taken = 0
  /\ bufLow = FALSE
  /\ failed = [x \in Side |-> FALSE]
  /\ closed = [x \in Side |-> FALSE]
  /\ match \in Matches
  /\ faults = 0

-----------------------------------------------------------------------------
(* Connect: description and candidates.                                    *)

\* The sender reads signaling before it sends its offer, and has set its local
\* description by then; the receiver reads signaling and waits.
Setup(x) ==
  /\ pc[x] = "setup"
  /\ sgn' = [sgn EXCEPT ![x] = "on"]
  /\ localSet' = [localSet EXCEPT ![x] = (x = "S")]
  /\ Goto(x, IF x = "S" THEN "offer" ELSE "open")
  /\ UNCHANGED <<sigq, sock, remoteSet, emitted, pending, applied, link, ctrlVars,
                 dataVars, endVars, match, faults>>

\* Connect returns an error when the offer cannot be written.
SendOffer ==
  /\ pc["S"] = "offer"
  /\ Goto("S", IF sock["S"] THEN "open" ELSE "failed")
  /\ sigq' = Posted("S", "offer")
  /\ UNCHANGED <<sgn, sock, localSet, remoteSet, emitted, pending, applied, link,
                 ctrlVars, dataVars, endVars, match, faults>>

\* OnICECandidate, on a goroutine of its own: a candidate may be sent before the
\* offer or the answer.  Its send error is ignored.
Emit(x) ==
  /\ localSet[x] /\ ~closed[x]
  /\ emitted[x] < Candidates
  /\ emitted' = [emitted EXCEPT ![x] = @ + 1]
  /\ sigq' = Posted(x, "ice")
  /\ UNCHANGED <<pc, sgn, sock, localSet, remoteSet, pending, applied, link,
                 ctrlVars, dataVars, endVars, match, faults>>

\* runSignaling takes the next message.
Signal(x, m) ==
  /\ sgn[x] = "on" /\ ~closed[x]
  /\ sigq[x] # << >> /\ Head(sigq[x]) = m
  /\ sigq' = [sigq EXCEPT ![x] = Tail(@)]

\* SetRemoteDescription and flushPendingICE.
Described(x) ==
  /\ remoteSet' = [remoteSet EXCEPT ![x] = TRUE]
  /\ applied' = [applied EXCEPT ![x] = @ + pending[x]]
  /\ pending' = [pending EXCEPT ![x] = 0]

\* handleOffer, up to the local description.
HandleOffer(x) ==
  /\ Signal(x, "offer")
  /\ Described(x)
  /\ localSet' = [localSet EXCEPT ![x] = TRUE]
  /\ sgn' = [sgn EXCEPT ![x] = "answer"]
  /\ UNCHANGED <<pc, sock, emitted, link, ctrlVars, dataVars, endVars, match, faults>>

\* handleOffer, the rest: a send that fails fails the session.
SendAnswer(x) ==
  /\ sgn[x] = "answer" /\ ~closed[x]
  /\ sigq' = Posted(x, "answer")
  /\ sgn' = [sgn EXCEPT ![x] = IF sock[x] THEN "on" ELSE "off"]
  /\ failed' = [failed EXCEPT ![x] = @ \/ ~sock[x]]
  /\ UNCHANGED <<pc, sock, localSet, remoteSet, emitted, pending, applied, link,
                 ctrlVars, dataVars, closed, match, faults>>

HandleAnswer(x) ==
  /\ Signal(x, "answer")
  /\ Described(x)
  /\ UNCHANGED <<pc, sgn, sock, localSet, emitted, link, ctrlVars, dataVars,
                 endVars, match, faults>>

\* handleICE: without a remote description the candidate is kept.
HandleIce(x) ==
  /\ Signal(x, "ice")
  /\ IF remoteSet[x]
       THEN applied' = [applied EXCEPT ![x] = @ + 1] /\ pending' = pending
       ELSE pending' = [pending EXCEPT ![x] = @ + 1] /\ applied' = applied
  /\ UNCHANGED <<pc, sgn, sock, localSet, remoteSet, emitted, link, ctrlVars,
                 dataVars, endVars, match, faults>>

\* peer-left, bye, an error of the relay, or a connection to it that is gone.
HandleEnd(x) ==
  /\ Signal(x, "left") \/ Signal(x, "gone")
  /\ failed' = [failed EXCEPT ![x] = TRUE]
  /\ sgn' = [sgn EXCEPT ![x] = "off"]
  /\ UNCHANGED <<pc, sock, localSet, remoteSet, emitted, pending, applied, link,
                 ctrlVars, dataVars, closed, match, faults>>

\* ICE and DTLS.  The worst case: no connection without every candidate.
LinkUp ==
  /\ link = "no"
  /\ \A x \in Side : remoteSet[x] /\ applied[x] = Candidates
  /\ link' = "up"
  /\ UNCHANGED <<pc, sigVars, ctrlVars, dataVars, endVars, match, faults>>

\* ICE notices that the peer is gone: OnICEConnectionStateChange.
IceFails(x) ==
  /\ link = "down" /\ ~closed[x] /\ ~failed[x]
  /\ failed' = [failed EXCEPT ![x] = TRUE]
  /\ UNCHANGED <<pc, sigVars, link, ctrlVars, dataVars, closed, match, faults>>

-----------------------------------------------------------------------------
(* Connect: both channels open, and verifyPeer.                            *)

Open(x) ==
  /\ pc[x] = "open" /\ link = "up"
  /\ Goto(x, "verify")
  /\ UNCHANGED <<sigVars, link, ctrlVars, dataVars, endVars, match, faults>>

SendMac(x) ==
  /\ pc[x] = "verify"
  /\ ctrl' = Told(x, "mac")
  /\ Goto(x, IF link = "up" THEN "mac" ELSE "failed")
  /\ UNCHANGED <<sigVars, link, ctrlRecv, dataVars, endVars, match, faults>>

\* OnMessage of the control channel, which blocks while ctrlRecv is full.
CtrlArrives(x) ==
  /\ link = "up" /\ ~closed[x]
  /\ ctrl[x] # << >> /\ ctrlRecv[x] = None
  /\ ctrlRecv' = [ctrlRecv EXCEPT ![x] = Head(ctrl[x])]
  /\ ctrl' = [ctrl EXCEPT ![x] = Tail(@)]
  /\ UNCHANGED <<pc, sigVars, link, dataVars, endVars, match, faults>>

\* A mutant of CheckMac: the MAC does not depend on the role of the side that made it.
CheckMacOfEither(x) ==
  /\ pc[x] = "mac" /\ ctrlRecv[x] # None
  /\ ctrlRecv' = [ctrlRecv EXCEPT ![x] = None]
  /\ Goto(x, IF ~(match /\ ctrlRecv[x] = "mac") /\ ctrlRecv[x] # "echo" THEN "failed"
             ELSE IF x = "S" THEN "next" ELSE "recv")
  /\ UNCHANGED <<sigVars, link, ctrl, dataVars, endVars, match, faults>>

\* What came is the MAC of the other role under the same secret, or verification fails.
CheckMac(x) ==
  /\ pc[x] = "mac" /\ ctrlRecv[x] # None
  /\ ctrlRecv' = [ctrlRecv EXCEPT ![x] = None]
  /\ Goto(x, IF ~(match /\ ctrlRecv[x] = "mac") THEN "failed"
             ELSE IF x = "S" THEN "next" ELSE "recv")
  /\ UNCHANGED <<sigVars, link, ctrl, dataVars, endVars, match, faults>>

-----------------------------------------------------------------------------
(* Send.                                                                   *)

\* ctxErr, and the next read of the source.
NextChunk ==
  /\ pc["S"] = "next"
  /\ Goto("S", IF failed["S"] \/ closed["S"] THEN "failed" ELSE "write")
  /\ UNCHANGED <<sigVars, link, ctrlVars, dataVars, endVars, match, faults>>

Full == sent - arrived >= MaxBuffered

\* writeFrame: the send buffer is full.
Block ==
  /\ pc["S"] = "write" /\ Full
  /\ Goto("S", "blocked")
  /\ UNCHANGED <<sigVars, link, ctrlVars, dataVars, endVars, match, faults>>

Wake ==
  /\ pc["S"] = "blocked" /\ bufLow
  /\ bufLow' = FALSE
  /\ Goto("S", "write")
  /\ UNCHANGED <<sigVars, link, ctrlVars, sent, arrived, queued, taken, endVars,
                 match, faults>>

\* writeFrame: the EOF frame is the last one.
WriteFrame ==
  /\ pc["S"] = "write" /\ ~Full
  /\ IF link = "up"
       THEN sent' = sent + 1 /\ Goto("S", IF sent = N THEN "drain" ELSE "next")
       ELSE sent' = sent /\ Goto("S", "failed")
  /\ UNCHANGED <<sigVars, link, ctrlVars, arrived, queued, taken, bufLow, endVars,
                 match, faults>>

\* A mutant of Arrive: bufLow without a capacity, so that a poke is lost when the
\* sender has found the buffer full but does not wait yet.
ArriveUnbuffered ==
  /\ link = "up"
  /\ arrived < sent /\ arrived - queued < Window
  /\ arrived' = arrived + 1
  /\ bufLow' \in IF sent - arrived = Low + 1 THEN {bufLow, TRUE} ELSE {bufLow}
  /\ UNCHANGED <<pc, sigVars, link, ctrlVars, sent, queued, taken, endVars, match,
                 faults>>

\* SCTP: the receiver has the next frame.  OnBufferedAmountLow fires when the
\* buffer falls to the threshold, and its poke is dropped if there is one already.
Arrive ==
  /\ link = "up"
  /\ arrived < sent /\ arrived - queued < Window
  /\ arrived' = arrived + 1
  /\ bufLow' = (bufLow \/ sent - arrived = Low + 1)
  /\ UNCHANGED <<pc, sigVars, link, ctrlVars, sent, queued, taken, endVars, match,
                 faults>>

\* A peer without the secret does not wait to be verified.  It sends frames of its own,
\* and gives a side its own MAC back.
Intrude ==
  /\ ~match /\ link = "up"
  /\ \/ /\ sent <= N /\ ~Full
        /\ sent' = sent + 1
        /\ ctrl' = ctrl
     \/ \E x \in Side :
          /\ pc[x] = "mac" /\ ctrl[x] = << >> /\ ctrlRecv[x] = None
          /\ ctrl' = [ctrl EXCEPT ![x] = <<"echo">>]
          /\ sent' = sent
  /\ UNCHANGED <<pc, sigVars, link, ctrlRecv, arrived, queued, taken, bufLow, endVars,
                 match, faults>>

Drain ==
  /\ pc["S"] = "drain" /\ sent = arrived
  /\ Goto("S", "ack")
  /\ UNCHANGED <<sigVars, link, ctrlVars, dataVars, endVars, match, faults>>

\* A mutant of AwaitAck: a drained buffer is taken for delivery when the peer leaves.
AwaitAckOrPeerLeft ==
  /\ pc["S"] = "ack" /\ (ctrlRecv["S"] # None \/ failed["S"])
  /\ ctrlRecv' = [ctrlRecv EXCEPT !["S"] = None]
  /\ Goto("S", "ok")
  /\ UNCHANGED <<sigVars, link, ctrl, dataVars, endVars, match, faults>>

\* awaitAck prefers an ACK that is there to a failure.
AwaitAck ==
  /\ pc["S"] = "ack" /\ ctrlRecv["S"] # None
  /\ ctrlRecv' = [ctrlRecv EXCEPT !["S"] = None]
  /\ Goto("S", "ok")
  /\ UNCHANGED <<sigVars, link, ctrl, dataVars, endVars, match, faults>>

-----------------------------------------------------------------------------
(* Receive.                                                                *)

\* OnMessage of the file channel, which blocks while recvCh is full.
Enqueue ==
  /\ queued < arrived /\ queued - taken < QueueCap
  /\ ~closed["R"]
  /\ queued' = queued + 1
  /\ UNCHANGED <<pc, sigVars, link, ctrlVars, sent, arrived, taken, bufLow,
                 endVars, match, faults>>

\* A data frame is written; after a failure too, as long as frames are queued.
TakeFrame ==
  /\ pc["R"] = "recv" /\ taken < queued /\ taken < N
  /\ taken' = taken + 1
  /\ UNCHANGED <<pc, sigVars, link, ctrlVars, sent, arrived, queued, bufLow,
                 endVars, match, faults>>

\* A mutant of TakeEof: the receiver does not wait for the sender to close.
TakeEofHasty ==
  /\ pc["R"] = "recv" /\ taken < queued /\ taken = N
  /\ taken' = taken + 1
  /\ ctrl' = Told("R", "ack")
  /\ Goto("R", "ok")
  /\ UNCHANGED <<sigVars, link, ctrlRecv, sent, arrived, queued, bufLow, endVars,
                 match, faults>>

\* The EOF frame: sendAck, whose error is ignored, and lingerForClose.  After a
\* failure Receive does not linger, which is to linger and leave at once.
TakeEof ==
  /\ pc["R"] = "recv" /\ taken < queued /\ taken = N
  /\ taken' = taken + 1
  /\ ctrl' = Told("R", "ack")
  /\ Goto("R", "linger")
  /\ UNCHANGED <<sigVars, link, ctrlRecv, sent, arrived, queued, bufLow, endVars,
                 match, faults>>

ReceiveFails ==
  /\ pc["R"] = "recv"
  /\ closed["R"] \/ (failed["R"] /\ taken = queued)
  /\ Goto("R", "failed")
  /\ UNCHANGED <<sigVars, link, ctrlVars, dataVars, endVars, match, faults>>

\* lingerForClose: the sender has closed.
Linger ==
  /\ pc["R"] = "linger"
  /\ failed["R"] \/ closed["R"]
  /\ Goto("R", "ok")
  /\ UNCHANGED <<sigVars, link, ctrlVars, dataVars, endVars, match, faults>>

-----------------------------------------------------------------------------
(* The ends.                                                               *)

\* A mutant of SeeFailure: drain goes on polling the buffer of a dead connection.
SeeFailureUnlessDraining(x) ==
  /\ pc[x] \in {"open", "mac", "blocked", "drain", "ack"}
  /\ closed[x] \/ (failed[x] /\ (pc[x] = "ack" => ctrlRecv[x] = None))
  /\ Goto(x, IF pc[x] = "drain" THEN "drain" ELSE "failed")
  /\ UNCHANGED <<sigVars, link, ctrlVars, dataVars, endVars, match, faults>>

\* A wait of Connect or Send ends with failErr, or with a closed session.
SeeFailure(x) ==
  /\ pc[x] \in {"open", "mac", "blocked", "drain", "ack"}
  /\ closed[x] \/ (failed[x] /\ (pc[x] = "ack" => ctrlRecv[x] = None))
  /\ Goto(x, "failed")
  /\ UNCHANGED <<sigVars, link, ctrlVars, dataVars, endVars, match, faults>>

\* Close: what is under way on the channels is lost, and the relay tells the peer.
Shut(x) ==
  /\ closed' = [closed EXCEPT ![x] = TRUE]
  /\ link' = "down"
  /\ sigq' = Posted(x, "left")
  /\ sock' = [sock EXCEPT ![x] = FALSE]
  /\ sgn' = [sgn EXCEPT ![x] = "off"]
  /\ UNCHANGED <<localSet, remoteSet, emitted, pending, applied, ctrlVars, dataVars,
                 failed, match>>

\* The user closes the session when its call has returned.
Close(x) ==
  /\ pc[x] \in {"ok", "failed"} /\ ~closed[x]
  /\ Shut(x)
  /\ UNCHANGED <<pc, faults>>

-----------------------------------------------------------------------------
(* What may go wrong.                                                      *)

Fault(kind) ==
  /\ kind \in Faults
  /\ faults < MaxFaults
  /\ faults' = faults + 1

\* The user's context ends, the timer of verifyPeer, awaitAck or lingerForClose
\* fires, or the source or the destination fails.
GiveUp(x) ==
  /\ Fault("giveup")
  /\ pc[x] \in {"open", "mac", "next", "blocked", "drain", "ack", "recv", "linger"}
  /\ Goto(x, IF pc[x] = "linger" THEN "ok" ELSE "failed")
  /\ UNCHANGED <<sigVars, link, ctrlVars, dataVars, endVars, match>>

\* Close from another goroutine.
CloseEarly(x) ==
  /\ Fault("close")
  /\ pc[x] \notin Ended /\ ~closed[x]
  /\ Shut(x)
  /\ UNCHANGED pc

Crash(x) ==
  /\ Fault("crash")
  /\ pc[x] # "dead" /\ ~closed[x]
  /\ Shut(x)
  /\ Goto(x, "dead")

\* The relay, or x's connection to it, is gone: x reads an error, its peer peer-left.
SignalingLost(x) ==
  /\ Fault("signal")
  /\ sock[x]
  /\ sock' = [sock EXCEPT ![x] = FALSE]
  /\ sigq' = [sigq EXCEPT ![x] = Append(@, "gone"),
                          ![Other(x)] = IF sock[Other(x)] THEN Append(@, "left") ELSE @]
  /\ UNCHANGED <<pc, sgn, localSet, remoteSet, emitted, pending, applied, link,
                 ctrlVars, dataVars, endVars, match>>

NetworkBreaks ==
  /\ Fault("network")
  /\ link # "down"
  /\ link' = "down"
  /\ UNCHANGED <<pc, sigVars, ctrlVars, dataVars, endVars, match>>

-----------------------------------------------------------------------------

Signaling(x) ==
  \/ HandleOffer(x) \/ SendAnswer(x) \/ HandleAnswer(x)
  \/ HandleIce(x) \/ HandleEnd(x)

\* The user's calls, one after the other: Connect, Send or Receive, Close.
Call(x) ==
  \/ Setup(x) \/ Open(x) \/ SendMac(x) \/ CheckMac(x) \/ SeeFailure(x) \/ Close(x)
  \/ x = "S" /\ (SendOffer \/ NextChunk \/ Block \/ Wake \/ WriteFrame \/ Drain \/ AwaitAck)
  \/ x = "R" /\ (TakeFrame \/ TakeEof \/ ReceiveFails \/ Linger)

Trouble(x) == GiveUp(x) \/ CloseEarly(x) \/ Crash(x) \/ SignalingLost(x)

\* Both sides are done.
Over == \A x \in Side : closed[x] /\ pc[x] \in Ended

Next ==
  \/ \E x \in Side :
       Signaling(x) \/ Call(x) \/ Emit(x) \/ CtrlArrives(x) \/ IceFails(x) \/ Trouble(x)
  \/ LinkUp \/ Arrive \/ Enqueue \/ Intrude \/ NetworkBreaks
  \/ Over /\ UNCHANGED vars

Spec == Init /\ [][Next]_vars

\* The goroutines run, the channels and the relay deliver while they are up, and ICE
\* notices a peer that is gone.
FairSpec ==
  /\ Spec
  /\ \A x \in Side :
       WF_vars(Signaling(x)) /\ WF_vars(Call(x)) /\ WF_vars(Emit(x))
       /\ WF_vars(CtrlArrives(x)) /\ WF_vars(IceFails(x))
  /\ WF_vars(LinkUp) /\ WF_vars(Arrive) /\ WF_vars(Enqueue)

-----------------------------------------------------------------------------
(* Properties.                                                             *)

Message == {"offer", "answer", "ice", "left", "gone"}
Control == {"mac", "echo", "ack"}

CallsOK ==
  /\ pc \in [Side -> {"setup", "offer", "open", "verify", "mac", "next", "write",
                      "blocked", "drain", "ack", "recv", "linger"} \cup Ended]
  /\ sgn \in [Side -> {"off", "on", "answer"}]
  /\ failed \in [Side -> BOOLEAN] /\ closed \in [Side -> BOOLEAN]
  /\ match \in BOOLEAN
  /\ faults \in 0..MaxFaults

SignalsOK ==
  /\ sigq \in [Side -> Seq(Message)]
  /\ sock \in [Side -> BOOLEAN]
  /\ localSet \in [Side -> BOOLEAN] /\ remoteSet \in [Side -> BOOLEAN]
  /\ emitted \in [Side -> 0..Candidates]
  /\ pending \in [Side -> Nat] /\ applied \in [Side -> Nat]
  /\ link \in {"no", "up", "down"}

ChannelsOK ==
  /\ ctrl \in [Side -> Seq(Control)]
  /\ ctrlRecv \in [Side -> Control \cup {None}]
  /\ sent \in 0..(N + 1)
  /\ arrived \in 0..sent /\ queued \in 0..arrived /\ taken \in 0..queued
  /\ sent - arrived <= MaxBuffered /\ queued - taken <= QueueCap
  /\ bufLow \in BOOLEAN

\* Every variable keeps its range; in particular no frame overtakes another, and the
\* bounds of the send buffer and of recvCh hold.
TypeOK == CallsOK /\ SignalsOK /\ ChannelsOK

\* Send returns success only for a stream that Receive has written to its end, and
\* Receive returns success only then too: neither a drained send buffer nor a peer that
\* has left is taken for delivery.
SuccessIsDelivery ==
  \A x \in Side : pc[x] = "ok" => taken = N + 1

\* The user's call has not come through verifyPeer yet, or has come through it and sends.
Unverified == {"setup", "offer", "open", "verify", "mac"}
Sending == {"next", "write", "blocked", "drain", "ack"}

\* A side that has not seen the other's proof of the secret moves no byte of the file
\* (verifyPeer, "before any bytes flow"): the receiver writes none of the frames that
\* OnMessage has queued already, the sender sends none.  A peer without the secret never
\* gets further, whatever frames it sends and whatever MAC it shows.
NothingUnverified ==
  /\ pc["R"] \in Unverified => taken = 0
  /\ match /\ pc["S"] \in Unverified => sent = 0
  /\ ~match => taken = 0 /\ pc["S"] \notin Sending

\* While nothing goes wrong no side reports a failure: the sender's leaving does not
\* race the acknowledgement, nor the receiver's the last frames.
NoSpuriousFailure == match /\ faults = 0 => \A x \in Side : pc[x] # "failed"

\* Both sides come to an end, whatever goes wrong.
SessionEnds == <>Over

\* A transfer in which nothing goes wrong is completed: no candidate that came early is
\* forgotten, and no wake-up of a sender blocked on a full buffer is lost.
TransferCompletes ==
  match => (<>(faults > 0) \/ <>(\A x \in Side : pc[x] = "ok"))

\* "ensuring the ACK is delivered ..., so neither side reports a spurious peer-left"
\* (lingerForClose): when the receiver has succeeded the sender does not fail.
AckIsDelivered == ~(pc["R"] = "ok" /\ pc["S"] = "failed")
=============================================================================
