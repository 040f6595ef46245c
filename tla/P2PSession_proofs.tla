-------------------------- MODULE P2PSession_proofs ---------------------------
(***************************************************************************)
(* Proofs about P2PSession: every variable keeps its range, success at     *)
(* either side means that the whole stream was written, and no byte moves  *)
(* at a side that has not seen the other's proof of the secret.            *)
(***************************************************************************)
EXTENDS P2PSession, TLAPS

-----------------------------------------------------------------------------
(* Places.                                                                 *)

Place == {"setup", "offer", "open", "verify", "mac", "next", "write", "blocked",
          "drain", "ack", "recv", "linger"} \cup Ended

\* Where the sender still has a frame to write.
Early == {"setup", "offer", "open", "verify", "mac", "next", "write", "blocked"}

FrameLeft == match /\ pc["S"] \in Early => sent <= N

\* TypeOK, and that a frame is written only while one is left.
TypeInv == TypeOK /\ FrameLeft

LEMMA SideFacts == /\ "S" \in Side /\ "R" \in Side
                   /\ \A x \in Side : Other(x) \in Side /\ Other(x) # x
BY DEF Side, Other

-----------------------------------------------------------------------------
(* The secret.                                                             *)

\* Only the receiver lingers, only the sender sends.
Roles == /\ pc["S"] \notin {"recv", "linger"}
         /\ pc["R"] \notin {"offer"} \cup Sending

\* Neither side comes through verifyPeer without the secret.
Barred == ~match => pc["S"] # "ok" /\ pc["R"] \notin {"recv", "linger", "ok"}

\* The strengthening of NothingUnverified.
SecretInv == pc \in [Side -> Place] /\ Roles /\ Barred /\ NothingUnverified

\* Where a step may bring the call of x.
Admitted(x, at) ==
  /\ at \in Unverified => pc[x] \in Unverified
  /\ x = "S" => at \notin {"recv", "linger"} /\ (at \in Sending \cup {"ok"} => match)
  /\ x = "R" => at \notin {"offer"} \cup Sending /\ (at \in {"recv", "linger", "ok"} => match)

LEMMA SecretInit == Init => SecretInv
BY SideFacts DEF Init, SecretInv, Place, Roles, Barred, NothingUnverified, Sending, Unverified

LEMMA SecretKept ==
  ASSUME SecretInv, match' = match,
         taken' = taken \/ pc["R"] = "recv",
         sent' = sent \/ ~match \/ pc["S"] \in Sending,
         pc' = pc \/ \E x \in Side, at \in Place : Goto(x, at) /\ Admitted(x, at)
  PROVE  SecretInv'
<1>1. CASE pc' = pc
  BY <1>1 DEF SecretInv, Roles, Barred, NothingUnverified, Sending, Unverified
<1>2. CASE \E x \in Side, at \in Place : Goto(x, at) /\ Admitted(x, at)
  <2>1. PICK x \in Side, at \in Place : Goto(x, at) /\ Admitted(x, at)
    BY <1>2
  <2>2. pc' \in [Side -> Place] /\ pc'[x] = at /\ \A y \in Side \ {x} : pc'[y] = pc[y]
    BY <2>1 DEF SecretInv, Goto
  <2>3. CASE x = "S"
    BY <2>1, <2>2, <2>3, SideFacts
       DEF Admitted, SecretInv, Roles, Barred, NothingUnverified, Sending, Unverified
  <2>4. CASE x = "R"
    BY <2>1, <2>2, <2>4, SideFacts
       DEF Admitted, SecretInv, Roles, Barred, NothingUnverified, Sending, Unverified
  <2> QED
    BY <2>3, <2>4 DEF Side
<1> QED
  BY <1>1, <1>2

\* A receiver without the secret does not take a frame, and a peer without it does not
\* bring one that counts.
LEMMA SecretStep == SecretInv /\ [Next]_vars => SecretInv'
<1> SUFFICES ASSUME SecretInv, [Next]_vars PROVE SecretInv'
  OBVIOUS
<1> USE DEF Place, Ended, Sending, Unverified
<1>r. Roles /\ Barred
  BY DEF SecretInv
<1>1. ASSUME NEW x \in Side,
             Signaling(x) \/ Emit(x) \/ CtrlArrives(x) \/ IceFails(x) \/ SignalingLost(x)
               \/ Close(x) \/ CloseEarly(x)
      PROVE  SecretInv'
  <2>1. UNCHANGED <<pc, sent, taken, match>>
    BY <1>1 DEF Signaling, HandleOffer, SendAnswer, HandleAnswer, HandleIce, HandleEnd, Emit,
       CtrlArrives, IceFails, SignalingLost, Close, CloseEarly, Shut, dataVars
  <2> QED
    BY <2>1, SecretKept
<1>2. ASSUME LinkUp \/ Arrive \/ Enqueue \/ NetworkBreaks \/ UNCHANGED vars PROVE SecretInv'
  <2>1. UNCHANGED <<pc, sent, taken, match>>
    BY <1>2 DEF LinkUp, Arrive, Enqueue, NetworkBreaks, vars, dataVars
  <2> QED
    BY <2>1, SecretKept
<1>3. ASSUME Intrude PROVE SecretInv'
  <2>1. ~match /\ UNCHANGED <<pc, taken, match>>
    BY <1>3 DEF Intrude
  <2> QED
    BY <2>1, SecretKept
<1>4. ASSUME NEW x \in Side, Setup(x) PROVE SecretInv'
  <2>1. PICK at \in {"offer", "open"} : Goto(x, at) /\ (at = "offer" => x = "S")
    BY <1>4 DEF Setup
  <2>2. pc[x] = "setup" /\ UNCHANGED <<sent, taken, match>>
    BY <1>4 DEF Setup, dataVars
  <2> QED
    BY <2>1, <2>2, SideFacts, SecretKept DEF Admitted
<1>5. ASSUME SendOffer PROVE SecretInv'
  <2>1. PICK at \in {"open", "failed"} : Goto("S", at)
    BY <1>5 DEF SendOffer
  <2>2. pc["S"] = "offer" /\ UNCHANGED <<sent, taken, match>>
    BY <1>5 DEF SendOffer, dataVars
  <2> QED
    BY <2>1, <2>2, SideFacts, SecretKept DEF Admitted
<1>6. ASSUME NEW x \in Side, Open(x) \/ SendMac(x) PROVE SecretInv'
  <2>1. PICK at \in {"verify", "mac", "failed"} : Goto(x, at)
    BY <1>6 DEF Open, SendMac
  <2>2. pc[x] \in Unverified /\ UNCHANGED <<sent, taken, match>>
    BY <1>6 DEF Open, SendMac, dataVars
  <2> QED
    BY <2>1, <2>2, SecretKept DEF Admitted
<1>7. ASSUME NEW x \in Side, CheckMac(x) PROVE SecretInv'
  <2>1. PICK at \in {"failed", "next", "recv"} :
          Goto(x, at) /\ (at = "next" => x = "S" /\ match) /\ (at = "recv" => x # "S" /\ match)
    <3>1. CASE ~(match /\ ctrlRecv[x] = "mac")
      BY <1>7, <3>1 DEF CheckMac
    <3>2. CASE (match /\ ctrlRecv[x] = "mac") /\ x = "S"
      BY <1>7, <3>2 DEF CheckMac
    <3>3. CASE (match /\ ctrlRecv[x] = "mac") /\ x # "S"
      BY <1>7, <3>3 DEF CheckMac
    <3> QED
      BY <3>1, <3>2, <3>3
  <2>2. UNCHANGED <<sent, taken, match>>
    BY <1>7 DEF CheckMac, dataVars
  <2> QED
    BY <2>1, <2>2, SideFacts, SecretKept DEF Admitted
<1>8. ASSUME NextChunk \/ Block \/ Wake \/ WriteFrame \/ Drain \/ AwaitAck PROVE SecretInv'
  <2>1. PICK at \in Sending \cup {"failed", "ok"} : Goto("S", at)
    BY <1>8 DEF NextChunk, Block, Wake, WriteFrame, Drain, AwaitAck
  <2>2. pc["S"] \in Sending /\ UNCHANGED <<taken, match>>
    BY <1>8 DEF NextChunk, Block, Wake, WriteFrame, Drain, AwaitAck, dataVars
  <2>3. match
    BY <2>2 DEF SecretInv, NothingUnverified
  <2> QED
    BY <2>1, <2>2, <2>3, SideFacts, SecretKept DEF Admitted
<1>9. ASSUME TakeFrame \/ TakeEof PROVE SecretInv'
  <2>1. pc["R"] = "recv" /\ UNCHANGED <<sent, match>> /\ (pc' = pc \/ Goto("R", "linger"))
    BY <1>9 DEF TakeFrame, TakeEof
  <2>2. match
    BY <1>r, <2>1 DEF Barred
  <2> QED
    BY <2>1, <2>2, SideFacts, SecretKept DEF Admitted
<1>10. ASSUME ReceiveFails \/ Linger PROVE SecretInv'
  <2>1. PICK at \in {"ok", "failed"} : Goto("R", at)
    BY <1>10 DEF ReceiveFails, Linger
  <2>2. pc["R"] \in {"recv", "linger"} /\ UNCHANGED <<sent, taken, match>>
    BY <1>10 DEF ReceiveFails, Linger, dataVars
  <2>3. match
    BY <1>r, <2>2 DEF Barred
  <2> QED
    BY <2>1, <2>2, <2>3, SideFacts, SecretKept DEF Admitted
<1>11. ASSUME NEW x \in Side, SeeFailure(x) \/ Crash(x) PROVE SecretInv'
  <2>1. PICK at \in {"failed", "dead"} : Goto(x, at)
    BY <1>11 DEF SeeFailure, Crash
  <2>2. UNCHANGED <<sent, taken, match>>
    BY <1>11 DEF SeeFailure, Crash, Shut, dataVars
  <2> QED
    BY <2>1, <2>2, SecretKept DEF Admitted
<1>12. ASSUME NEW x \in Side, GiveUp(x) PROVE SecretInv'
  <2>1. PICK at \in {"ok", "failed"} : Goto(x, at) /\ (at = "ok" => pc[x] = "linger")
    BY <1>12 DEF GiveUp
  <2>2. UNCHANGED <<sent, taken, match>>
    BY <1>12 DEF GiveUp, dataVars
  <2>3. at = "ok" => x = "R" /\ match
    BY <1>r, <2>1 DEF Roles, Barred, Side
  <2> QED
    BY <2>1, <2>2, <2>3, SideFacts, SecretKept DEF Admitted
<1> QED
  BY <1>1, <1>2, <1>3, <1>4, <1>5, <1>6, <1>7, <1>8, <1>9, <1>10, <1>11, <1>12
     DEF Next, Call, Trouble

LEMMA Secret == Spec => []SecretInv
BY SecretInit, SecretStep, PTL DEF Spec

\* A side that has not seen the other's proof of the secret moves no byte of the file,
\* whatever frames have arrived, and a peer without the secret never gets further.
THEOREM StreamIsVerified == Spec => []NothingUnverified
<1>1. SecretInv => NothingUnverified
  BY DEF SecretInv
<1> QED
  BY <1>1, Secret, PTL

-----------------------------------------------------------------------------
(* Type correctness.                                                       *)

\* What the relay passes on is a message.
LEMMA PostedType ==
  ASSUME sigq \in [Side -> Seq(Message)], NEW x \in Side, NEW m \in Message
  PROVE  Posted(x, m) \in [Side -> Seq(Message)]
<1>1. Other(x) \in Side
  BY SideFacts
<1>2. Append(sigq[Other(x)], m) \in Seq(Message)
  BY <1>1
<1> QED
  BY <1>1, <1>2 DEF Posted

\* What goes over the control channel is a MAC or an ACK.
LEMMA ToldType ==
  ASSUME ctrl \in [Side -> Seq(Control)], NEW x \in Side,
         NEW m \in Control
  PROVE  Told(x, m) \in [Side -> Seq(Control)]
<1>1. Other(x) \in Side
  BY SideFacts
<1>2. Append(ctrl[Other(x)], m) \in Seq(Control)
  BY <1>1
<1> QED
  BY <1>1, <1>2 DEF Told

\* The next message of runSignaling leaves the queue.
LEMMA SignalType ==
  ASSUME sigq \in [Side -> Seq(Message)], NEW x \in Side, NEW m, Signal(x, m)
  PROVE  sigq' \in [Side -> Seq(Message)]
<1>1. Tail(sigq[x]) \in Seq(Message)
  BY DEF Signal
<1> QED
  BY <1>1 DEF Signal

LEMMA TypeInit == Init => TypeInv
<1> SUFFICES ASSUME Init PROVE TypeInv
  OBVIOUS
<1>1. << >> \in Seq(Message) /\ << >> \in Seq(Control)
  OBVIOUS
<1>2. match \in BOOLEAN
  BY FaultAssumption, Zenon DEF Init
<1>3. CallsOK
  BY <1>2, FaultAssumption DEF Init, CallsOK, Ended, Side
<1>4. SignalsOK
  BY <1>1, StreamAssumption DEF Init, SignalsOK, Side
<1>5. ChannelsOK
  <2>1. ctrl \in [Side -> Seq(Control)] /\ ctrlRecv \in [Side -> Control \cup {None}]
    BY <1>1 DEF Init
  <2>2. /\ sent \in 0..(N + 1)
        /\ arrived \in 0..sent /\ queued \in 0..arrived /\ taken \in 0..queued
    BY StreamAssumption DEF Init
  <2>3. sent - arrived <= MaxBuffered /\ queued - taken <= QueueCap
    BY BufferAssumption DEF Init
  <2>4. bufLow \in BOOLEAN
    BY DEF Init
  <2> QED
    BY <2>1, <2>2, <2>3, <2>4 DEF ChannelsOK
<1>6. sent <= N
  BY StreamAssumption DEF Init
<1> QED
  BY <1>3, <1>4, <1>5, <1>6 DEF TypeInv, TypeOK, FrameLeft

LEMMA SignalsKept ==
  ASSUME SignalsOK, UNCHANGED <<sigVars, link>>
  PROVE  SignalsOK'
BY DEF SignalsOK, sigVars

LEMMA ChannelsKept ==
  ASSUME ChannelsOK, UNCHANGED <<ctrlVars, dataVars>>
  PROVE  ChannelsOK'
BY DEF ChannelsOK, ctrlVars, dataVars

LEMMA CallsKept ==
  ASSUME CallsOK, UNCHANGED <<pc, sgn, endVars, match, faults>>
  PROVE  CallsOK'
BY DEF CallsOK, endVars

LEMMA LeftKept ==
  ASSUME FrameLeft, UNCHANGED <<pc, sent, match>>
  PROVE  FrameLeft'
BY DEF FrameLeft

\* A user's call that goes to another place.
LEMMA CallsMoved ==
  ASSUME CallsOK, NEW x \in Side, NEW at \in Place, Goto(x, at),
         UNCHANGED <<sgn, endVars, match>>, faults' \in 0..MaxFaults
  PROVE  CallsOK'
BY DEF CallsOK, Goto, endVars, Place, Ended

\* A step of a user's call that changes nothing but its place.
LEMMA Moved ==
  ASSUME TypeInv, NEW x \in Side, NEW at \in Place, Goto(x, at),
         UNCHANGED <<sigVars, link, ctrlVars, dataVars, endVars, match>>,
         faults' \in 0..MaxFaults,
         x = "S" /\ at \in Early => pc["S"] \in Early
  PROVE  TypeInv'
<1>1. SignalsOK' /\ ChannelsOK'
  BY SignalsKept, ChannelsKept DEF TypeInv, TypeOK
<1>2. CallsOK'
  BY CallsMoved DEF TypeInv, TypeOK, sigVars
<1>3. FrameLeft'
  BY SideFacts DEF TypeInv, TypeOK, CallsOK, FrameLeft, Goto, dataVars
<1> QED
  BY <1>1, <1>2, <1>3 DEF TypeInv, TypeOK

\* A step that leaves the user's calls and the channels alone.
LEMMA Signalled ==
  ASSUME TypeInv, UNCHANGED <<pc, ctrlVars, dataVars>>, SignalsOK',
         sgn' \in [Side -> {"off", "on", "answer"}],
         failed' \in [Side -> BOOLEAN], closed' \in [Side -> BOOLEAN],
         match' = match, faults' \in 0..MaxFaults
  PROVE  TypeInv'
<1>1. ChannelsOK'
  BY ChannelsKept DEF TypeInv, TypeOK
<1>2. CallsOK'
  BY DEF TypeInv, TypeOK, CallsOK
<1>3. FrameLeft'
  BY LeftKept DEF TypeInv, dataVars
<1> QED
  BY <1>1, <1>2, <1>3 DEF TypeInv, TypeOK

\* A step of the channels.
LEMMA Carried ==
  ASSUME TypeInv, UNCHANGED <<pc, sigVars, link, sent, endVars, match, faults>>,
         ChannelsOK'
  PROVE  TypeInv'
<1>1. SignalsOK'
  BY SignalsKept DEF TypeInv, TypeOK
<1>2. CallsOK'
  BY CallsKept DEF TypeInv, TypeOK, sigVars
<1>3. FrameLeft'
  BY LeftKept DEF TypeInv
<1> QED
  BY <1>1, <1>2, <1>3 DEF TypeInv, TypeOK

\* A step of a user's call that works on the channels.
LEMMA Exchanged ==
  ASSUME TypeInv, NEW x \in Side, NEW at \in Place, Goto(x, at),
         UNCHANGED <<sigVars, link, endVars, match, faults>>, ChannelsOK',
         FrameLeft'
  PROVE  TypeInv'
<1>1. SignalsOK'
  BY SignalsKept DEF TypeInv, TypeOK
<1>2. CallsOK'
  BY CallsMoved DEF TypeInv, TypeOK, sigVars, CallsOK
<1> QED
  BY <1>1, <1>2 DEF TypeInv, TypeOK

LEMMA ShutType ==
  ASSUME TypeInv, NEW x \in Side, Shut(x), faults' \in 0..MaxFaults,
         pc' = pc \/ Goto(x, "dead")
  PROVE  TypeInv'
<1>1. sigq' \in [Side -> Seq(Message)]
  BY PostedType DEF Shut, TypeInv, TypeOK, SignalsOK, Message
<1>2. SignalsOK'
  BY <1>1 DEF Shut, TypeInv, TypeOK, SignalsOK
<1>3. ChannelsOK'
  BY ChannelsKept DEF Shut, TypeInv, TypeOK
<1>4. sgn' \in [Side -> {"off", "on", "answer"}] /\ closed' \in [Side -> BOOLEAN]
  BY DEF Shut, TypeInv, TypeOK, CallsOK
<1>5. pc' \in [Side -> Place]
  BY DEF TypeInv, TypeOK, CallsOK, Goto, Place, Ended
<1>6. CallsOK'
  BY <1>4, <1>5 DEF Shut, TypeInv, TypeOK, CallsOK, Place, Ended
<1>7. FrameLeft'
  BY SideFacts DEF Shut, TypeInv, TypeOK, CallsOK, FrameLeft, Goto, dataVars, Early
<1> QED
  BY <1>2, <1>3, <1>6, <1>7 DEF TypeInv, TypeOK

\* Every action keeps the ranges.
LEMMA TypeStep == TypeInv /\ SecretInv /\ [Next]_vars => TypeInv'
<1> SUFFICES ASSUME TypeInv, SecretInv, [Next]_vars PROVE TypeInv'
  OBVIOUS
<1> USE DEF Place, Ended
<1>t. CallsOK /\ SignalsOK /\ ChannelsOK /\ FrameLeft
  BY DEF TypeInv, TypeOK
<1>f. faults \in 0..MaxFaults
  BY <1>t DEF CallsOK
<1>g. ASSUME NEW kind, Fault(kind) PROVE faults' \in 0..MaxFaults
  BY <1>f, <1>g, FaultAssumption DEF Fault
<1>c. /\ sgn \in [Side -> {"off", "on", "answer"}]
      /\ failed \in [Side -> BOOLEAN] /\ closed \in [Side -> BOOLEAN]
  BY <1>t DEF CallsOK
<1>1. ASSUME NEW x \in Side, Setup(x) PROVE TypeInv'
  <2>1. ChannelsOK'
    BY <1>1, <1>t, ChannelsKept DEF Setup
  <2>2. SignalsOK'
    BY <1>1, <1>t DEF Setup, SignalsOK
  <2>3. CallsOK'
    BY <1>1, <1>t DEF Setup, CallsOK, Goto, endVars
  <2>4. FrameLeft'
    BY <1>1, <1>t, SideFacts DEF Setup, CallsOK, Goto, FrameLeft, Early, dataVars
  <2> QED
    BY <2>1, <2>2, <2>3, <2>4 DEF TypeInv, TypeOK
<1>2. ASSUME SendOffer PROVE TypeInv'
  <2>1. ChannelsOK'
    BY <1>2, <1>t, ChannelsKept DEF SendOffer
  <2>2. sigq' \in [Side -> Seq(Message)]
    BY <1>2, <1>t, SideFacts, PostedType DEF SendOffer, SignalsOK, Message
  <2>3. SignalsOK'
    BY <1>2, <1>t, <2>2 DEF SendOffer, SignalsOK
  <2>4. CallsOK'
    BY <1>2, <1>t, SideFacts DEF SendOffer, CallsOK, Goto, endVars
  <2>5. FrameLeft'
    BY <1>2, <1>t, SideFacts DEF SendOffer, CallsOK, Goto, FrameLeft, Early, dataVars
  <2> QED
    BY <2>1, <2>3, <2>4, <2>5 DEF TypeInv, TypeOK
<1>3. ASSUME NEW x \in Side, Emit(x) PROVE TypeInv'
  <2>1. sigq' \in [Side -> Seq(Message)]
    BY <1>3, <1>t, PostedType DEF Emit, SignalsOK, Message
  <2>2. emitted' \in [Side -> 0..Candidates]
    BY <1>3, <1>t, StreamAssumption DEF Emit, SignalsOK
  <2>3. SignalsOK'
    BY <1>3, <1>t, <2>1, <2>2 DEF Emit, SignalsOK
  <2> QED
    BY <1>3, <1>c, <1>f, <2>3, Signalled DEF Emit, endVars
<1>4. ASSUME NEW x \in Side, HandleOffer(x) PROVE TypeInv'
  <2>1. sigq' \in [Side -> Seq(Message)]
    BY <1>4, <1>t, SignalType DEF HandleOffer, SignalsOK
  <2>2. /\ remoteSet' \in [Side -> BOOLEAN] /\ localSet' \in [Side -> BOOLEAN]
        /\ pending' \in [Side -> Nat] /\ applied' \in [Side -> Nat]
    BY <1>4, <1>t DEF HandleOffer, Described, SignalsOK
  <2>3. SignalsOK'
    BY <1>4, <1>t, <2>1, <2>2 DEF HandleOffer, SignalsOK
  <2>4. sgn' \in [Side -> {"off", "on", "answer"}]
    BY <1>4, <1>c DEF HandleOffer
  <2> QED
    BY <1>4, <1>c, <1>f, <2>3, <2>4, Signalled DEF HandleOffer, endVars
<1>5. ASSUME NEW x \in Side, SendAnswer(x) PROVE TypeInv'
  <2>1. sigq' \in [Side -> Seq(Message)]
    BY <1>5, <1>t, PostedType DEF SendAnswer, SignalsOK, Message
  <2>2. SignalsOK'
    BY <1>5, <1>t, <2>1 DEF SendAnswer, SignalsOK
  <2>3. sgn' \in [Side -> {"off", "on", "answer"}]
    BY <1>5, <1>c DEF SendAnswer
  <2>4. failed' \in [Side -> BOOLEAN]
    BY <1>5, <1>c, <1>t DEF SendAnswer, SignalsOK
  <2> QED
    BY <1>5, <1>c, <1>f, <2>2, <2>3, <2>4, Signalled DEF SendAnswer
<1>6. ASSUME NEW x \in Side, HandleAnswer(x) PROVE TypeInv'
  <2>1. sigq' \in [Side -> Seq(Message)]
    BY <1>6, <1>t, SignalType DEF HandleAnswer, SignalsOK
  <2>2. /\ remoteSet' \in [Side -> BOOLEAN]
        /\ pending' \in [Side -> Nat] /\ applied' \in [Side -> Nat]
    BY <1>6, <1>t DEF HandleAnswer, Described, SignalsOK
  <2>3. SignalsOK'
    BY <1>6, <1>t, <2>1, <2>2 DEF HandleAnswer, SignalsOK
  <2> QED
    BY <1>6, <1>c, <1>f, <2>3, Signalled DEF HandleAnswer, endVars
<1>7. ASSUME NEW x \in Side, HandleIce(x) PROVE TypeInv'
  <2>1. sigq' \in [Side -> Seq(Message)]
    BY <1>7, <1>t, SignalType DEF HandleIce, SignalsOK
  <2>2. pending' \in [Side -> Nat] /\ applied' \in [Side -> Nat]
    <3>1. /\ pending \in [Side -> Nat] /\ applied \in [Side -> Nat]
          /\ pending[x] + 1 \in Nat /\ applied[x] + 1 \in Nat
      BY <1>t DEF SignalsOK
    <3>2. CASE remoteSet[x]
      BY <1>7, <3>1, <3>2 DEF HandleIce
    <3>3. CASE ~remoteSet[x]
      BY <1>7, <3>1, <3>3 DEF HandleIce
    <3> QED
      BY <3>2, <3>3
  <2>3. SignalsOK'
    BY <1>7, <1>t, <2>1, <2>2 DEF HandleIce, SignalsOK
  <2> QED
    BY <1>7, <1>c, <1>f, <2>3, Signalled DEF HandleIce, endVars
<1>8. ASSUME NEW x \in Side, HandleEnd(x) PROVE TypeInv'
  <2>1. sigq' \in [Side -> Seq(Message)]
    BY <1>8, <1>t, SignalType DEF HandleEnd, SignalsOK
  <2>2. SignalsOK'
    BY <1>8, <1>t, <2>1 DEF HandleEnd, SignalsOK
  <2>3. sgn' \in [Side -> {"off", "on", "answer"}] /\ failed' \in [Side -> BOOLEAN]
    BY <1>8, <1>c DEF HandleEnd
  <2> QED
    BY <1>8, <1>c, <1>f, <2>2, <2>3, Signalled DEF HandleEnd
<1>9. ASSUME LinkUp PROVE TypeInv'
  <2>1. SignalsOK'
    BY <1>9, <1>t DEF LinkUp, SignalsOK, sigVars
  <2> QED
    BY <1>9, <1>c, <1>f, <2>1, Signalled DEF LinkUp, sigVars, endVars
<1>10. ASSUME NEW x \in Side, IceFails(x) PROVE TypeInv'
  <2>1. SignalsOK'
    BY <1>10, <1>t, SignalsKept DEF IceFails
  <2>2. failed' \in [Side -> BOOLEAN]
    BY <1>10, <1>c DEF IceFails
  <2> QED
    BY <1>10, <1>c, <1>f, <2>1, <2>2, Signalled DEF IceFails, sigVars
<1>11. ASSUME NEW x \in Side, Open(x) PROVE TypeInv'
  BY <1>11, <1>f, Moved DEF Open, Early
<1>12. ASSUME NEW x \in Side, SendMac(x) PROVE TypeInv'
  <2>1. ctrl' \in [Side -> Seq(Control)]
    BY <1>12, <1>t, ToldType DEF SendMac, ChannelsOK, Control
  <2>2. ChannelsOK'
    BY <1>12, <1>t, <2>1 DEF SendMac, ChannelsOK, dataVars
  <2>3. FrameLeft'
    BY <1>12, <1>t, SideFacts DEF SendMac, CallsOK, Goto, FrameLeft, Early, dataVars
  <2>4. PICK at \in Place : Goto(x, at)
    BY <1>12 DEF SendMac
  <2> QED
    BY <1>12, <2>2, <2>3, <2>4, Exchanged DEF SendMac
<1>13. ASSUME NEW x \in Side, CtrlArrives(x) PROVE TypeInv'
  <2>1. Head(ctrl[x]) \in Control /\ Tail(ctrl[x]) \in Seq(Control)
    BY <1>13, <1>t DEF CtrlArrives, ChannelsOK
  <2>2. /\ ctrl' \in [Side -> Seq(Control)]
        /\ ctrlRecv' \in [Side -> Control \cup {None}]
    BY <1>13, <1>t, <2>1 DEF CtrlArrives, ChannelsOK
  <2>3. ChannelsOK'
    BY <1>13, <1>t, <2>2 DEF CtrlArrives, ChannelsOK, dataVars
  <2> QED
    BY <1>13, <2>3, Carried DEF CtrlArrives, dataVars
<1>14. ASSUME NEW x \in Side, CheckMac(x) PROVE TypeInv'
  <2>1. ctrlRecv' \in [Side -> Control \cup {None}]
    BY <1>14, <1>t DEF CheckMac, ChannelsOK
  <2>2. ChannelsOK'
    BY <1>14, <1>t, <2>1 DEF CheckMac, ChannelsOK, dataVars
  <2>3. FrameLeft'
    BY <1>14, <1>t, SideFacts DEF CheckMac, CallsOK, Goto, FrameLeft, Early, dataVars
  <2>4. PICK at \in Place : Goto(x, at)
    BY <1>14 DEF CheckMac
  <2> QED
    BY <1>14, <2>2, <2>3, <2>4, Exchanged DEF CheckMac
<1>15. ASSUME NextChunk PROVE TypeInv'
  BY <1>15, <1>f, SideFacts, Moved DEF NextChunk, Early
<1>16. ASSUME Block PROVE TypeInv'
  BY <1>16, <1>f, SideFacts, Moved DEF Block, Early
<1>17. ASSUME Wake PROVE TypeInv'
  <2>1. ChannelsOK'
    BY <1>17, <1>t DEF Wake, ChannelsOK, ctrlVars
  <2>2. FrameLeft'
    BY <1>17, <1>t, SideFacts DEF Wake, CallsOK, Goto, FrameLeft, Early
  <2> QED
    BY <1>17, <2>1, <2>2, SideFacts, Exchanged DEF Wake
<1>18. ASSUME WriteFrame PROVE TypeInv'
  <2>0. match
    BY <1>18 DEF WriteFrame, SecretInv, NothingUnverified, Sending
  <2>1. sent \in Nat /\ sent <= N
    BY <1>18, <1>t, <2>0, StreamAssumption DEF WriteFrame, FrameLeft, Early, ChannelsOK
  <2>2. ctrlVars' = ctrlVars /\ bufLow' = bufLow
    BY <1>18 DEF WriteFrame
  <2>3. /\ sent' \in 0..(N + 1) /\ arrived' \in 0..sent'
        /\ sent' - arrived' <= MaxBuffered
    BY <1>18, <1>t, <2>1, StreamAssumption, BufferAssumption
       DEF WriteFrame, ChannelsOK, Full
  <2>4. ChannelsOK'
    BY <1>18, <1>t, <2>2, <2>3 DEF WriteFrame, ChannelsOK, ctrlVars
  <2>5. FrameLeft'
    BY <1>18, <1>t, <2>1, SideFacts, StreamAssumption
       DEF WriteFrame, CallsOK, Goto, FrameLeft, Early
  <2>6. PICK at \in Place : Goto("S", at)
    BY <1>18 DEF WriteFrame
  <2> QED
    BY <1>18, <2>4, <2>5, <2>6, SideFacts, Exchanged DEF WriteFrame
<1>19. ASSUME Arrive PROVE TypeInv'
  <2>1. /\ arrived' \in 0..sent' /\ queued' \in 0..arrived'
        /\ sent' - arrived' <= MaxBuffered
    BY <1>19, <1>t, BufferAssumption, StreamAssumption DEF Arrive, ChannelsOK
  <2>2. bufLow' \in BOOLEAN
    BY <1>19 DEF Arrive
  <2>3. ChannelsOK'
    BY <1>19, <1>t, <2>1, <2>2 DEF Arrive, ChannelsOK, ctrlVars
  <2> QED
    BY <1>19, <2>3, Carried DEF Arrive
<1>20. ASSUME Drain PROVE TypeInv'
  BY <1>20, <1>f, SideFacts, Moved DEF Drain, Early
<1>21. ASSUME AwaitAck PROVE TypeInv'
  <2>1. ctrlRecv' \in [Side -> Control \cup {None}]
    BY <1>21, <1>t DEF AwaitAck, ChannelsOK
  <2>2. ChannelsOK'
    BY <1>21, <1>t, <2>1 DEF AwaitAck, ChannelsOK, dataVars
  <2>3. FrameLeft'
    BY <1>21, <1>t, SideFacts DEF AwaitAck, CallsOK, Goto, FrameLeft, Early, dataVars
  <2> QED
    BY <1>21, <2>2, <2>3, SideFacts, Exchanged DEF AwaitAck
<1>22. ASSUME Enqueue PROVE TypeInv'
  <2>1. /\ queued' \in 0..arrived' /\ taken' \in 0..queued'
        /\ queued' - taken' <= QueueCap
    BY <1>22, <1>t, BufferAssumption, StreamAssumption DEF Enqueue, ChannelsOK
  <2>2. ChannelsOK'
    BY <1>22, <1>t, <2>1 DEF Enqueue, ChannelsOK, ctrlVars
  <2> QED
    BY <1>22, <2>2, Carried DEF Enqueue
<1>23. ASSUME TakeFrame PROVE TypeInv'
  <2>1. taken' \in 0..queued' /\ queued' - taken' <= QueueCap
    BY <1>23, <1>t, BufferAssumption, StreamAssumption DEF TakeFrame, ChannelsOK
  <2>2. ChannelsOK'
    BY <1>23, <1>t, <2>1 DEF TakeFrame, ChannelsOK, ctrlVars
  <2> QED
    BY <1>23, <2>2, Carried DEF TakeFrame
<1>24. ASSUME TakeEof PROVE TypeInv'
  <2>1. taken' \in 0..queued' /\ queued' - taken' <= QueueCap
    BY <1>24, <1>t, BufferAssumption, StreamAssumption DEF TakeEof, ChannelsOK
  <2>2. ctrl' \in [Side -> Seq(Control)]
    BY <1>24, <1>t, SideFacts, ToldType DEF TakeEof, ChannelsOK, Control
  <2>3. ChannelsOK'
    BY <1>24, <1>t, <2>1, <2>2 DEF TakeEof, ChannelsOK
  <2>4. FrameLeft'
    BY <1>24, <1>t, SideFacts DEF TakeEof, CallsOK, Goto, FrameLeft
  <2> QED
    BY <1>24, <2>3, <2>4, SideFacts, Exchanged DEF TakeEof
<1>25. ASSUME ReceiveFails PROVE TypeInv'
  BY <1>25, <1>f, SideFacts, Moved DEF ReceiveFails
<1>26. ASSUME Linger PROVE TypeInv'
  BY <1>26, <1>f, SideFacts, Moved DEF Linger
<1>27. ASSUME NEW x \in Side, SeeFailure(x) PROVE TypeInv'
  BY <1>27, <1>f, Moved DEF SeeFailure, Early
<1>28. ASSUME NEW x \in Side, Close(x) PROVE TypeInv'
  BY <1>28, <1>f, ShutType DEF Close
<1>29. ASSUME NEW x \in Side, GiveUp(x) PROVE TypeInv'
  <2>1. PICK at \in {"ok", "failed"} : Goto(x, at)
    BY <1>29 DEF GiveUp
  <2> QED
    BY <1>29, <1>g, <2>1, Moved DEF GiveUp, Early
<1>30. ASSUME NEW x \in Side, CloseEarly(x) PROVE TypeInv'
  BY <1>30, <1>g, ShutType DEF CloseEarly
<1>31. ASSUME NEW x \in Side, Crash(x) PROVE TypeInv'
  BY <1>31, <1>g, ShutType DEF Crash
<1>32. ASSUME NEW x \in Side, SignalingLost(x) PROVE TypeInv'
  <2>1. /\ Append(sigq[x], "gone") \in Seq(Message)
        /\ Append(sigq[Other(x)], "left") \in Seq(Message)
        /\ sigq[Other(x)] \in Seq(Message)
    BY <1>t, SideFacts DEF SignalsOK, Message
  <2>2. sigq' \in [Side -> Seq(Message)]
    BY <1>32, <1>t, <2>1, SideFacts DEF SignalingLost, SignalsOK
  <2>3. SignalsOK'
    BY <1>32, <1>t, <2>2 DEF SignalingLost, SignalsOK
  <2> QED
    BY <1>32, <1>c, <1>g, <2>3, Signalled DEF SignalingLost, endVars
<1>33. ASSUME NetworkBreaks PROVE TypeInv'
  <2>1. SignalsOK'
    BY <1>33, <1>t DEF NetworkBreaks, SignalsOK, sigVars
  <2> QED
    BY <1>33, <1>c, <1>g, <2>1, Signalled DEF NetworkBreaks, sigVars, endVars
<1>35. ASSUME Intrude PROVE TypeInv'
  <2>1. /\ sent' = sent \/ (sent <= N /\ ~Full /\ sent' = sent + 1)
        /\ ~match /\ UNCHANGED <<pc, sigVars, link, ctrlRecv, arrived, queued, taken, bufLow>>
        /\ UNCHANGED <<endVars, match, faults>>
    BY <1>35 DEF Intrude
  <2>2. ctrl' \in [Side -> Seq(Control)]
    <3>1. <<"echo">> \in Seq(Control)
      BY DEF Control
    <3> QED
      BY <1>35, <1>t, <3>1 DEF Intrude, ChannelsOK
  <2>3. /\ sent' \in 0..(N + 1) /\ arrived' \in 0..sent'
        /\ sent' - arrived' <= MaxBuffered
    BY <1>t, <2>1, StreamAssumption, BufferAssumption DEF ChannelsOK, Full
  <2>4. ChannelsOK'
    BY <1>t, <2>1, <2>2, <2>3 DEF ChannelsOK
  <2>5. SignalsOK' /\ CallsOK'
    BY <1>t, <2>1, SignalsKept, CallsKept DEF sigVars
  <2> QED
    BY <2>1, <2>4, <2>5 DEF TypeInv, TypeOK, FrameLeft
<1>34. ASSUME UNCHANGED vars PROVE TypeInv'
  BY <1>34, <1>t, CallsKept, SignalsKept, ChannelsKept, LeftKept
     DEF vars, TypeInv, TypeOK, sigVars, dataVars
<1> QED
  BY <1>1, <1>2, <1>3, <1>4, <1>5, <1>6, <1>7, <1>8, <1>9, <1>10, <1>11, <1>12, <1>13,
     <1>14, <1>15, <1>16, <1>17, <1>18, <1>19, <1>20, <1>21, <1>22, <1>23, <1>24, <1>25,
     <1>26, <1>27, <1>28, <1>29, <1>30, <1>31, <1>32, <1>33, <1>34, <1>35
     DEF Next, Signaling, Call, Trouble

\* In every reachable state every variable has its range, no frame overtakes another,
\* and neither the send buffer nor recvCh is over its bound.
THEOREM TypeCorrect == Spec => []TypeOK
<1>1. Spec => []TypeInv
  BY Secret, TypeInit, TypeStep, PTL DEF Spec
<1> QED
  BY <1>1, PTL DEF TypeInv

-----------------------------------------------------------------------------
(* Success, where the secrets match.                                       *)

MacComes == ctrl["S"] \in {<<"mac">>, <<"mac", "ack">>}
AckComes == ctrl["S"] \in {<<"ack">>, <<"mac", "ack">>}

\* Nothing is on the sender's control channel but one MAC and one ACK, in this order,
\* and the MAC is gone from it when the sender waits for the ACK: awaitAck takes
\* whatever arrives for the ACK.
ControlOrder ==
  /\ MacComes \/ AckComes \/ ctrl["S"] = << >>
  /\ MacComes => ctrlRecv["S"] = None
  /\ MacComes \/ ctrlRecv["S"] = "mac" => pc["S"] \notin Sending
  /\ pc["R"] \in {"setup", "open", "verify"} =>
       ctrl["S"] = << >> /\ ctrlRecv["S"] = None /\ pc["S"] \notin Sending

\* The ACK, wherever it is, and success at either side stand for a whole stream.
AckIsWhole ==
  AckComes \/ ctrlRecv["S"] = "ack" \/ pc["R"] \in {"linger", "ok"} \/ pc["S"] = "ok"
    => taken = N + 1

\* The sender makes no ACK, and nobody gives a side its own MAC back.
Genuine == /\ ctrl["R"] \in Seq({"mac"})
           /\ ctrlRecv["R"] \in {None, "mac"} /\ ctrlRecv["S"] # "echo"

\* The strengthening of SuccessIsDelivery for sides with the same secret.
SafeInv == TypeOK /\ ControlOrder /\ AckIsWhole /\ Genuine /\ Roles

\* The control messages as sequences.
LEMMA TupleFacts ==
  /\ Append(<< >>, "mac") = <<"mac">> /\ Append(<< >>, "ack") = <<"ack">>
  /\ Append(<<"mac">>, "ack") = <<"mac", "ack">>
  /\ Head(<<"mac">>) = "mac" /\ Head(<<"ack">>) = "ack" /\ Head(<<"mac", "ack">>) = "mac"
  /\ Tail(<<"mac">>) = << >> /\ Tail(<<"ack">>) = << >> /\ Tail(<<"mac", "ack">>) = <<"ack">>
  /\ <<"mac">> # << >> /\ <<"ack">> # << >> /\ <<"mac", "ack">> # << >>
  /\ <<"mac">> # <<"ack">> /\ <<"mac">> # <<"mac", "ack">> /\ <<"ack">> # <<"mac", "ack">>
<1>1. Append(<< >>, "mac") = <<"mac">> /\ Append(<< >>, "ack") = <<"ack">>
  OBVIOUS
<1>7. Append(<<"mac">>, "ack") = <<"mac", "ack">>
  <2> DEFINE s == Append(<<"mac">>, "ack")
             t == <<"mac", "ack">>
  <2>1. <<"mac">> \in Seq({"mac", "ack"}) /\ t \in Seq({"mac", "ack"})
    OBVIOUS
  <2>2. s \in Seq({"mac", "ack"}) /\ Len(s) = 2 /\ Len(t) = 2
    BY <2>1
  <2>3. s[1] = "mac" /\ s[2] = "ack" /\ t[1] = "mac" /\ t[2] = "ack"
    BY <2>1
  <2>4. \A i \in 1..2 : s[i] = t[i]
    BY <2>3
  <2> HIDE DEF s, t
  <2>5. s = t
    BY <2>1, <2>2, <2>4
  <2> QED
    BY <2>5 DEF s, t
<1>2. Head(<<"mac">>) = "mac" /\ Head(<<"ack">>) = "ack" /\ Head(<<"mac", "ack">>) = "mac"
  OBVIOUS
<1>3. Tail(<<"mac">>) = << >> /\ Tail(<<"ack">>) = << >>
  OBVIOUS
<1>4. Tail(<<"mac", "ack">>) = <<"ack">>
  OBVIOUS
<1>5. <<"mac">> # << >> /\ <<"ack">> # << >> /\ <<"mac", "ack">> # << >>
  OBVIOUS
<1>6. <<"mac">> # <<"ack">> /\ <<"mac">> # <<"mac", "ack">> /\ <<"ack">> # <<"mac", "ack">>
  OBVIOUS
<1> QED
  BY <1>1, <1>2, <1>3, <1>4, <1>5, <1>6, <1>7

LEMMA SafeInit == Init => SafeInv
<1> SUFFICES ASSUME Init PROVE SafeInv
  OBVIOUS
<1>1. TypeOK
  BY TypeInit DEF TypeInv
<1>2. ctrl["S"] = << >> /\ ctrlRecv["S"] = None /\ pc["S"] = "setup" /\ pc["R"] = "setup"
  BY SideFacts DEF Init
<1>3. ControlOrder
  BY <1>2, TupleFacts DEF ControlOrder, MacComes, Sending, None
<1>4. AckIsWhole
  BY <1>2, TupleFacts DEF AckIsWhole, AckComes, None
<1>5. Roles
  BY <1>2 DEF Roles, Sending, Init
<1>6. Genuine
  <2>1. << >> \in Seq({"mac"})
    OBVIOUS
  <2> QED
    BY <2>1, SideFacts DEF Init, Genuine, None
<1> QED
  BY <1>1, <1>3, <1>4, <1>5, <1>6 DEF SafeInv

\* What a user's call may do that leaves the control channel alone.
Onwards(x, at) ==
  /\ Goto(x, at)
  /\ x = "S" => /\ at \notin {"recv", "linger", "ok"}
                /\ at \in Sending => pc["S"] \in Sending
  /\ x = "R" => /\ at \notin {"offer"} \cup Sending
                /\ at \in {"setup", "open", "verify"} => pc["R"] \in {"setup", "open", "verify"}
                /\ at \in {"linger", "ok"} => pc["R"] \in {"linger", "ok"}

\* A step that takes nothing from the control channel and puts nothing into it.
LEMMA SafeKept ==
  ASSUME SafeInv, TypeOK', UNCHANGED <<ctrlVars, match>>, taken' = taken \/ taken < N,
         sent' = sent \/ pc["S"] \in Sending,
         pc' = pc \/ \E x \in Side, at \in Place : Onwards(x, at)
  PROVE  SafeInv'
<1>1. pc \in [Side -> Place]
  BY DEF SafeInv, TypeOK, CallsOK, Place
<1>2. /\ pc'["S"] \in Sending => pc["S"] \in Sending
      /\ pc'["S"] = "ok" => pc["S"] = "ok"
      /\ pc'["S"] \in {"recv", "linger"} => pc["S"] \in {"recv", "linger"}
      /\ pc'["R"] \in {"offer"} \cup Sending => pc["R"] \in {"offer"} \cup Sending
      /\ pc'["R"] \in {"setup", "open", "verify"} => pc["R"] \in {"setup", "open", "verify"}
      /\ pc'["R"] \in {"linger", "ok"} => pc["R"] \in {"linger", "ok"}
  <2>1. CASE pc' = pc
    BY <2>1
  <2>2. CASE \E x \in Side, at \in Place : Onwards(x, at)
    <3>1. PICK x \in Side, at \in Place : Onwards(x, at)
      BY <2>2
    <3>2. CASE x = "S"
      BY <1>1, <3>1, <3>2, SideFacts DEF Onwards, Goto, Sending
    <3>3. CASE x = "R"
      BY <1>1, <3>1, <3>3, SideFacts DEF Onwards, Goto, Sending
    <3> QED
      BY <3>2, <3>3 DEF Side
  <2> QED
    BY <2>1, <2>2
<1>3. ctrl' = ctrl /\ ctrlRecv' = ctrlRecv /\ match' = match
  BY DEF ctrlVars
<1>4. ControlOrder'
  BY <1>2, <1>3 DEF SafeInv, ControlOrder, MacComes, AckComes
<1>5. taken = N + 1 => taken' = N + 1
  BY StreamAssumption
<1>6. AckIsWhole'
  BY <1>2, <1>3, <1>5 DEF SafeInv, AckIsWhole, AckComes
<1>7. Roles'
  BY <1>2, <1>3 DEF SafeInv, Roles
<1>8. Genuine'
  BY <1>3 DEF SafeInv, Genuine
<1> QED
  BY <1>4, <1>6, <1>7, <1>8 DEF SafeInv

\* Where the secrets match the control channels carry what the two sides have sent.
LEMMA GenuineStep ==
  ASSUME SafeInv, match, [Next]_vars
  PROVE  Genuine'
<1>g. /\ ctrl \in [Side -> Seq(Control)] /\ ctrlRecv \in [Side -> Control \cup {None}]
      /\ ctrl["R"] \in Seq({"mac"})
      /\ ctrlRecv["R"] \in {None, "mac"} /\ ctrlRecv["S"] # "echo"
  BY DEF SafeInv, TypeOK, ChannelsOK, Genuine
<1>1. ASSUME ctrlVars' = ctrlVars PROVE Genuine'
  BY <1>g, <1>1 DEF Genuine, ctrlVars
<1>2. ASSUME NEW x \in Side, SendMac(x) PROVE Genuine'
  <2>1. Append(ctrl["R"], "mac") \in Seq({"mac"})
    BY <1>g
  <2>2. ctrl'["R"] \in {ctrl["R"], Append(ctrl["R"], "mac")} /\ ctrlRecv' = ctrlRecv
    BY <1>2, <1>g, SideFacts DEF SendMac, Told
  <2> QED
    BY <1>g, <2>1, <2>2 DEF Genuine
<1>3. ASSUME NEW x \in Side, CtrlArrives(x) PROVE Genuine'
  <2>1. /\ ctrl[x] # << >>
        /\ ctrl' = [ctrl EXCEPT ![x] = Tail(@)]
        /\ ctrlRecv' = [ctrlRecv EXCEPT ![x] = Head(ctrl[x])]
    BY <1>3 DEF CtrlArrives
  <2>2. CASE x = "R"
    <3>1. Head(ctrl["R"]) = "mac" /\ Tail(ctrl["R"]) \in Seq({"mac"})
      BY <1>g, <2>1, <2>2
    <3> QED
      BY <1>g, <2>1, <2>2, <3>1, SideFacts DEF Genuine
  <2>3. CASE x = "S"
    <3>1. ctrl["S"] \in {<<"mac">>, <<"ack">>, <<"mac", "ack">>}
      BY <2>1, <2>3 DEF SafeInv, ControlOrder, MacComes, AckComes
    <3>2. Head(ctrl["S"]) # "echo"
      BY <3>1, TupleFacts
    <3> QED
      BY <1>g, <2>1, <2>3, <3>2, SideFacts DEF Genuine
  <2> QED
    BY <2>2, <2>3 DEF Side
<1>4. ASSUME NEW x \in Side, CheckMac(x) \/ (x = "S" /\ AwaitAck) PROVE Genuine'
  <2>1. ctrl' = ctrl /\ ctrlRecv' = [ctrlRecv EXCEPT ![x] = None]
    BY <1>4 DEF CheckMac, AwaitAck
  <2> QED
    BY <1>g, <2>1, SideFacts DEF Genuine, None
<1>5. ASSUME TakeEof PROVE Genuine'
  <2>1. ctrl'["R"] = ctrl["R"] /\ ctrlRecv' = ctrlRecv
    BY <1>5, <1>g, SideFacts DEF TakeEof, Told, Other
  <2> QED
    BY <1>g, <2>1 DEF Genuine
<1>6. ASSUME Intrude PROVE FALSE
  BY <1>6 DEF Intrude
<1>7. ASSUME NEW x \in Side,
             Signaling(x) \/ Emit(x) \/ IceFails(x) \/ Trouble(x)
               \/ Setup(x) \/ Open(x) \/ SeeFailure(x) \/ Close(x)
      PROVE  ctrlVars' = ctrlVars
  BY <1>7 DEF Signaling, HandleOffer, SendAnswer, HandleAnswer, HandleIce, HandleEnd, Emit,
     IceFails, Trouble, GiveUp, CloseEarly, Crash, SignalingLost, Setup, Open, SeeFailure,
     Close, Shut
<1>8. ASSUME SendOffer \/ NextChunk \/ Block \/ Wake \/ WriteFrame \/ Drain
               \/ TakeFrame \/ ReceiveFails \/ Linger
      PROVE  ctrlVars' = ctrlVars
  BY <1>8 DEF SendOffer, NextChunk, Block, Wake, WriteFrame, Drain, TakeFrame, ReceiveFails, Linger
<1>9. ASSUME LinkUp \/ Arrive \/ Enqueue \/ NetworkBreaks \/ UNCHANGED vars
      PROVE  ctrlVars' = ctrlVars
  BY <1>9 DEF LinkUp, Arrive, Enqueue, NetworkBreaks, vars
<1> QED
  BY <1>1, <1>2, <1>3, <1>4, <1>5, <1>6, <1>7, <1>8, <1>9 DEF Next, Call

LEMMA SafeStep == SafeInv /\ match /\ TypeOK' /\ [Next]_vars => SafeInv'
<1> SUFFICES ASSUME SafeInv, match, TypeOK', [Next]_vars PROVE SafeInv'
  OBVIOUS
<1>n. Genuine'
  BY GenuineStep
<1>p. pc \in [Side -> Place]
  BY DEF SafeInv, TypeOK, CallsOK, Place
<1>c. /\ ctrl \in [Side -> Seq(Control)]
      /\ ctrlRecv \in [Side -> Control \cup {None}]
  BY DEF SafeInv, TypeOK, ChannelsOK
<1>i. ControlOrder /\ AckIsWhole /\ Roles /\ Genuine
  BY DEF SafeInv
<1>1. ASSUME NEW x \in Side, Setup(x) PROVE SafeInv'
  <2>1. PICK at \in {"offer", "open"} : Goto(x, at) /\ (x = "R" => at = "open")
    BY <1>1 DEF Setup
  <2>2. Onwards(x, at)
    BY <1>1, <2>1 DEF Onwards, Setup, Sending
  <2> QED
    BY <1>1, <2>2, SafeKept DEF Setup, Place, dataVars
<1>2. ASSUME SendOffer PROVE SafeInv'
  <2>1. PICK at \in {"open", "failed"} : Onwards("S", at)
    BY <1>2 DEF SendOffer, Onwards, Sending
  <2> QED
    BY <1>2, <2>1, SafeKept, SideFacts DEF SendOffer, Place, Ended, dataVars
<1>3. ASSUME NEW x \in Side, Signaling(x) \/ Emit(x) \/ IceFails(x) \/ SignalingLost(x)
      PROVE SafeInv'
  <2>1. UNCHANGED <<pc, ctrlVars, sent, taken, match>>
    BY <1>3 DEF Signaling, HandleOffer, SendAnswer, HandleAnswer, HandleIce, HandleEnd,
       Emit, IceFails, SignalingLost, dataVars
  <2> QED
    BY <2>1, SafeKept
<1>4. ASSUME LinkUp \/ Arrive \/ Enqueue \/ NetworkBreaks \/ UNCHANGED vars
      PROVE SafeInv'
  <2>1. UNCHANGED <<pc, ctrlVars, sent, taken, match>>
    BY <1>4 DEF LinkUp, Arrive, Enqueue, NetworkBreaks, vars, dataVars
  <2> QED
    BY <2>1, SafeKept
<1>5. ASSUME NEW x \in Side, Open(x) PROVE SafeInv'
  <2>1. Onwards(x, "verify")
    BY <1>5 DEF Open, Onwards, Sending
  <2> QED
    BY <1>5, <2>1, SafeKept DEF Open, Place, dataVars
<1>6. ASSUME NEW x \in Side, SeeFailure(x) PROVE SafeInv'
  <2>1. Onwards(x, "failed")
    BY <1>6 DEF SeeFailure, Onwards, Sending
  <2> QED
    BY <1>6, <2>1, SafeKept DEF SeeFailure, Place, Ended, dataVars
<1>7. ASSUME NEW x \in Side, Close(x) \/ CloseEarly(x) PROVE SafeInv'
  <2>1. UNCHANGED <<pc, ctrlVars, sent, taken, match>>
    BY <1>7 DEF Close, CloseEarly, Shut, dataVars
  <2> QED
    BY <2>1, SafeKept
<1>8. ASSUME NEW x \in Side, Crash(x) PROVE SafeInv'
  <2>1. Onwards(x, "dead")
    BY <1>8 DEF Crash, Onwards, Sending
  <2> QED
    BY <1>8, <2>1, SafeKept DEF Crash, Shut, Place, Ended, dataVars
<1>9. ASSUME NEW x \in Side, GiveUp(x) PROVE SafeInv'
  <2>1. PICK at \in {"ok", "failed"} : Goto(x, at) /\ (at = "ok" => pc[x] = "linger")
    BY <1>9 DEF GiveUp
  <2>2. x = "S" => at = "failed"
    BY <1>i, <2>1 DEF Roles
  <2>3. Onwards(x, at)
    BY <2>1, <2>2 DEF Onwards, Sending
  <2> QED
    BY <1>9, <2>3, SafeKept DEF GiveUp, Place, Ended, dataVars
<1>10. ASSUME NextChunk \/ Block \/ Wake \/ WriteFrame \/ Drain PROVE SafeInv'
  <2>1. PICK at \in Sending \cup {"failed"} : Goto("S", at)
    BY <1>10 DEF NextChunk, Block, Wake, WriteFrame, Drain, Sending
  <2>2. pc["S"] \in Sending /\ UNCHANGED <<ctrlVars, match, taken>>
    BY <1>10 DEF NextChunk, Block, Wake, WriteFrame, Drain, Sending, dataVars
  <2>3. Onwards("S", at)
    BY <2>1, <2>2 DEF Onwards, Sending
  <2> QED
    BY <2>2, <2>3, SafeKept, SideFacts DEF Place, Ended, Sending
<1>11. ASSUME TakeFrame PROVE SafeInv'
  BY <1>11, SafeKept DEF TakeFrame
<1>12. ASSUME ReceiveFails \/ Linger PROVE SafeInv'
  <2>1. PICK at \in {"ok", "failed"} : Goto("R", at) /\ (at = "ok" => pc["R"] = "linger")
    BY <1>12 DEF ReceiveFails, Linger
  <2>2. Onwards("R", at)
    BY <2>1 DEF Onwards, Sending
  <2> QED
    BY <1>12, <2>2, SafeKept, SideFacts DEF ReceiveFails, Linger, Place, Ended, dataVars

<1>13. ASSUME NEW x \in Side, SendMac(x) PROVE SafeInv'
  <2>1. PICK at \in {"mac", "failed"} : Goto(x, at)
    BY <1>13 DEF SendMac
  <2>2. /\ pc[x] = "verify" /\ ctrl' = Told(x, "mac")
        /\ UNCHANGED <<ctrlRecv, sent, taken, match>>
    BY <1>13 DEF SendMac, dataVars
  <2>3. Onwards(x, at)
    BY <2>1, <2>2 DEF Onwards, Sending
  <2>4. CASE x = "S"
    <3>1. ctrl'["S"] = ctrl["S"] /\ pc'["R"] = pc["R"] /\ pc'["S"] = at
      BY <1>c, <1>p, <2>1, <2>2, <2>4, SideFacts DEF Told, Goto
    <3>2. ControlOrder'
      BY <1>i, <2>1, <2>2, <3>1 DEF ControlOrder, MacComes, AckComes, Sending
    <3>3. AckIsWhole'
      BY <1>i, <2>1, <2>2, <3>1 DEF AckIsWhole, AckComes
    <3>4. Roles'
      BY <1>i, <2>1, <2>2, <3>1 DEF Roles, Sending
    <3> QED
      BY <1>n, <3>2, <3>3, <3>4 DEF SafeInv
  <2>5. CASE x = "R"
    <3>1. /\ ctrl["S"] = << >> /\ ctrlRecv["S"] = None /\ pc["S"] \notin Sending
      BY <1>i, <2>2, <2>5 DEF ControlOrder
    <3>2. ctrl'["S"] \in {<< >>, <<"mac">>}
      BY <1>c, <2>2, <2>5, <3>1, SideFacts, TupleFacts DEF Told, Other
    <3>3. pc'["S"] = pc["S"] /\ pc'["R"] = at
      BY <1>p, <2>1, <2>5, SideFacts DEF Goto
    <3>4. ControlOrder'
      BY <2>1, <2>2, <3>1, <3>2, <3>3, TupleFacts
         DEF ControlOrder, MacComes, AckComes, None
    <3>5. AckIsWhole'
      BY <1>i, <2>1, <2>2, <3>2, <3>3, TupleFacts DEF AckIsWhole, AckComes
    <3>6. Roles'
      BY <1>i, <2>1, <2>2, <3>3 DEF Roles, Sending
    <3> QED
      BY <1>n, <3>4, <3>5, <3>6 DEF SafeInv
  <2> QED
    BY <2>4, <2>5 DEF Side
<1>14. ASSUME NEW x \in Side, CtrlArrives(x) PROVE SafeInv'
  <2>1. UNCHANGED <<pc, sent, taken, match>> /\ ctrl[x] # << >> /\ ctrlRecv[x] = None
    BY <1>14 DEF CtrlArrives, dataVars
  <2>2. CASE x = "R"
    <3>1. ctrl'["S"] = ctrl["S"] /\ ctrlRecv'["S"] = ctrlRecv["S"]
      BY <1>14, <1>c, <2>2, SideFacts DEF CtrlArrives
    <3>2. ControlOrder' /\ AckIsWhole' /\ Roles'
      BY <1>i, <2>1, <3>1 DEF ControlOrder, AckIsWhole, Roles, MacComes, AckComes
    <3> QED
      BY <1>n, <3>2 DEF SafeInv
  <2>3. CASE x = "S"
    <3>1. ctrl'["S"] = Tail(ctrl["S"]) /\ ctrlRecv'["S"] = Head(ctrl["S"])
      BY <1>14, <1>c, <2>3, SideFacts DEF CtrlArrives
    <3>2. CASE MacComes
      <4>1. ctrlRecv'["S"] = "mac" /\ ctrl'["S"] \in {<< >>, <<"ack">>}
        BY <3>1, <3>2, TupleFacts DEF MacComes
      <4>2. ctrl'["S"] = <<"ack">> => AckComes
        BY <3>1, <3>2, TupleFacts DEF MacComes, AckComes
      <4>3. ControlOrder'
        BY <1>i, <2>1, <2>3, <3>2, <4>1, TupleFacts DEF ControlOrder, MacComes, AckComes
      <4>4. AckIsWhole'
        BY <1>i, <2>1, <4>1, <4>2, TupleFacts DEF AckIsWhole, AckComes
      <4>5. Roles'
        BY <1>i, <2>1 DEF Roles
      <4> QED
        BY <1>n, <4>3, <4>4, <4>5 DEF SafeInv
    <3>3. CASE ~MacComes
      <4>1. ctrl["S"] = <<"ack">>
        BY <1>i, <2>1, <2>3, <3>3, TupleFacts DEF ControlOrder, MacComes, AckComes
      <4>2. ctrlRecv'["S"] = "ack" /\ ctrl'["S"] = << >> /\ AckComes
        BY <3>1, <4>1, TupleFacts DEF AckComes
      <4>3. ControlOrder'
        BY <1>i, <2>1, <4>1, <4>2, TupleFacts DEF ControlOrder, MacComes, AckComes
      <4>4. AckIsWhole'
        BY <1>i, <2>1, <4>2, TupleFacts DEF AckIsWhole, AckComes
      <4>5. Roles'
        BY <1>i, <2>1 DEF Roles
      <4> QED
        BY <1>n, <4>3, <4>4, <4>5 DEF SafeInv
    <3> QED
      BY <3>2, <3>3
  <2> QED
    BY <2>2, <2>3 DEF Side
<1>15. ASSUME NEW x \in Side, CheckMac(x) PROVE SafeInv'
  <2>1. PICK at \in {"failed", "next", "recv"} :
          /\ Goto(x, at) /\ (at = "next" => x = "S" /\ match)
          /\ (at = "recv" => x = "R")
    <3>1. CASE ~match
      BY <1>15, <3>1 DEF CheckMac
    <3>2. CASE match /\ x = "S"
      BY <1>15, <3>2 DEF CheckMac
    <3>3. CASE match /\ x = "R"
      BY <1>15, <3>3 DEF CheckMac
    <3> QED
      BY <3>1, <3>2, <3>3 DEF Side
  <2>2. /\ pc[x] = "mac" /\ ctrlRecv[x] # None
        /\ ctrlRecv' = [ctrlRecv EXCEPT ![x] = None]
        /\ UNCHANGED <<ctrl, sent, taken, match>>
    BY <1>15 DEF CheckMac, dataVars
  <2>3. CASE x = "R"
    <3>1. ctrlRecv'["S"] = ctrlRecv["S"] /\ pc'["S"] = pc["S"] /\ pc'["R"] = at
      BY <1>c, <1>p, <2>1, <2>2, <2>3, SideFacts DEF Goto
    <3>2. at \in {"failed", "recv"}
      BY <2>1, <2>3
    <3>3. ControlOrder' /\ AckIsWhole' /\ Roles'
      BY <1>i, <2>2, <3>1, <3>2
         DEF ControlOrder, AckIsWhole, Roles, MacComes, AckComes, Sending
    <3> QED
      BY <1>n, <3>3 DEF SafeInv
  <2>4. CASE x = "S"
    <3>1. ctrlRecv'["S"] = None /\ pc'["R"] = pc["R"] /\ pc'["S"] = at
      BY <1>c, <1>p, <2>1, <2>2, <2>4, SideFacts DEF Goto
    <3>2. at \in {"failed", "next"} /\ (at = "next" => match)
      BY <2>1, <2>4
    <3>3. ~MacComes /\ pc["R"] \notin {"setup", "open", "verify"}
      BY <1>i, <2>2, <2>4 DEF ControlOrder
    <3>4. ControlOrder'
      BY <1>i, <2>2, <3>1, <3>3 DEF ControlOrder, MacComes, AckComes, None
    <3>5. AckIsWhole'
      BY <1>i, <2>2, <3>1, <3>2 DEF AckIsWhole, AckComes, None
    <3>6. Roles'
      BY <1>i, <2>2, <3>1, <3>2 DEF Roles, Sending
    <3> QED
      BY <1>n, <3>4, <3>5, <3>6 DEF SafeInv
  <2> QED
    BY <2>3, <2>4 DEF Side
<1>16. ASSUME AwaitAck PROVE SafeInv'
  <2>1. /\ pc["S"] = "ack" /\ ctrlRecv["S"] # None /\ Goto("S", "ok")
        /\ ctrlRecv' = [ctrlRecv EXCEPT !["S"] = None]
        /\ UNCHANGED <<ctrl, sent, taken, match>>
    BY <1>16 DEF AwaitAck, dataVars
  <2>2. ctrlRecv'["S"] = None /\ pc'["R"] = pc["R"] /\ pc'["S"] = "ok"
    BY <1>c, <1>p, <2>1, SideFacts DEF Goto
  <2>3. ctrlRecv["S"] = "ack" /\ pc["R"] \notin {"setup", "open", "verify"} /\ ~MacComes
    BY <1>i, <1>c, <2>1, SideFacts DEF ControlOrder, Sending, Genuine, Control
  <2>4. ControlOrder'
    BY <1>i, <2>1, <2>2, <2>3 DEF ControlOrder, MacComes, AckComes, None
  <2>5. AckIsWhole'
    BY <1>i, <2>1, <2>3 DEF AckIsWhole
  <2>6. Roles'
    BY <1>i, <2>1, <2>2 DEF Roles, Sending
  <2> QED
    BY <1>n, <2>4, <2>5, <2>6 DEF SafeInv
<1>17. ASSUME TakeEof PROVE SafeInv'
  <2>1. /\ pc["R"] = "recv" /\ taken = N /\ taken' = taken + 1
        /\ ctrl' = Told("R", "ack") /\ Goto("R", "linger")
        /\ UNCHANGED <<ctrlRecv, sent, match>>
    BY <1>17 DEF TakeEof
  <2>2. pc'["S"] = pc["S"] /\ pc'["R"] = "linger" /\ taken' = N + 1
    BY <1>p, <2>1, SideFacts DEF Goto
  <2>3. ~AckComes /\ ctrl["S"] \in {<< >>, <<"mac">>}
    BY <1>i, <2>1, StreamAssumption, TupleFacts
       DEF ControlOrder, AckIsWhole, MacComes, AckComes
  <2>4. ctrl'["S"] \in {ctrl["S"], Append(ctrl["S"], "ack")}
    BY <1>c, <2>1, SideFacts DEF Told, Other
  <2>5. ControlOrder'
    <3>1. (MacComes' => MacComes) /\ (MacComes \/ AckComes \/ ctrl["S"] = << >>)'
      BY <2>3, <2>4, TupleFacts DEF MacComes, AckComes
    <3> QED
      BY <1>i, <2>1, <2>2, <3>1 DEF ControlOrder
  <2>6. AckIsWhole'
    BY <2>2 DEF AckIsWhole
  <2>7. Roles'
    BY <1>i, <2>1, <2>2 DEF Roles, Sending
  <2> QED
    BY <1>n, <2>5, <2>6, <2>7 DEF SafeInv
<1>18. ASSUME Intrude PROVE FALSE
  BY <1>18 DEF Intrude
<1> QED
  BY <1>1, <1>2, <1>3, <1>4, <1>5, <1>6, <1>7, <1>8, <1>9, <1>10, <1>11, <1>12, <1>13,
     <1>14, <1>15, <1>16, <1>17, <1>18 DEF Next, Call, Trouble

\* Nothing un-happens.
LEMMA FaultsRemain ==
  ASSUME TypeOK, [Next]_vars
  PROVE  match' = match /\ (faults' = 0 => faults = 0)
<1>1. faults \in Nat
  BY FaultAssumption DEF TypeOK, CallsOK
<1>2. match' = match /\ (faults' = faults \/ faults' = faults + 1)
  <2>1. ASSUME NEW x \in Side, Trouble(x) PROVE match' = match /\ faults' = faults + 1
    BY <2>1 DEF Trouble, GiveUp, CloseEarly, Crash, SignalingLost, Fault, Shut
  <2>2. ASSUME NetworkBreaks PROVE match' = match /\ faults' = faults + 1
    BY <2>2 DEF NetworkBreaks, Fault
  <2>3. ASSUME NEW x \in Side, Signaling(x) \/ Emit(x) \/ CtrlArrives(x) \/ IceFails(x)
        PROVE  match' = match /\ faults' = faults
    BY <2>3 DEF Signaling, HandleOffer, SendAnswer, HandleAnswer, HandleIce, HandleEnd, Emit,
       CtrlArrives, IceFails
  <2>4. ASSUME NEW x \in Side, Call(x) PROVE match' = match /\ faults' = faults
    <3>1. CASE Setup(x) \/ Open(x) \/ SendMac(x) \/ CheckMac(x) \/ SeeFailure(x) \/ Close(x)
      BY <3>1 DEF Setup, Open, SendMac, CheckMac, SeeFailure, Close, Shut
    <3>2. CASE SendOffer \/ NextChunk \/ Block \/ Wake \/ WriteFrame \/ Drain \/ AwaitAck
      BY <3>2 DEF SendOffer, NextChunk, Block, Wake, WriteFrame, Drain, AwaitAck
    <3>3. CASE TakeFrame \/ TakeEof \/ ReceiveFails \/ Linger
      BY <3>3 DEF TakeFrame, TakeEof, ReceiveFails, Linger
    <3> QED
      BY <2>4, <3>1, <3>2, <3>3 DEF Call
  <2>5. ASSUME LinkUp \/ Arrive \/ Enqueue \/ Intrude \/ UNCHANGED vars
        PROVE  match' = match /\ faults' = faults
    BY <2>5 DEF LinkUp, Arrive, Enqueue, Intrude, vars
  <2> QED
    BY <2>1, <2>2, <2>3, <2>4, <2>5 DEF Next
<1> QED
  BY <1>1, <1>2

LEMMA Safe == Spec => [](match => SafeInv)
<1>1. (match => SafeInv) /\ TypeOK /\ TypeOK' /\ [Next]_vars => (match => SafeInv)'
  BY SafeStep, FaultsRemain
<1> QED
  BY <1>1, TypeCorrect, SafeInit, PTL DEF Spec

\* Neither side reports success unless the receiver has written the whole stream.
THEOREM SuccessMeansDelivery == Spec => []SuccessIsDelivery
<1>1. (match => SafeInv) /\ SecretInv => SuccessIsDelivery
  BY SideFacts DEF SafeInv, AckIsWhole, SecretInv, Barred, SuccessIsDelivery, Side
<1> QED
  BY <1>1, Safe, Secret, PTL

-----------------------------------------------------------------------------
(* While nothing goes wrong.                                               *)

\* Connect is past the opening of the channels.
PastOpen == {"verify", "mac", "next", "write", "blocked", "drain", "ack", "recv", "linger"}

\* Nobody has left, and nobody can see a failure; once the stream is written the receiver
\* waits for the sender to leave.
Undisturbed ==
  /\ \A x \in Side : ~closed[x] /\ ~failed[x] /\ sock[x]
  /\ sigq \in [Side -> Seq({"offer", "answer", "ice"})]
  /\ link # "down"
  /\ \A x \in Side : pc[x] \notin Ended /\ (pc[x] \in PastOpen => link = "up")
  /\ taken = N + 1 => pc["R"] = "linger"

\* The sender leaves first, with the ACK in hand, and then the receiver has nothing to
\* do but to notice.
Calm == match /\ faults = 0 =>
  \/ pc["S"] = "ok" /\ pc["R"] \in {"linger", "ok"}
  \/ Undisturbed

Routine == {"offer", "answer", "ice"}

LEMMA PostedRoutine ==
  ASSUME sigq \in [Side -> Seq(Routine)], NEW x \in Side, NEW m \in Routine
  PROVE  Posted(x, m) \in [Side -> Seq(Routine)]
<1>1. Other(x) \in Side
  BY SideFacts
<1>2. Append(sigq[Other(x)], m) \in Seq(Routine)
  BY <1>1
<1> QED
  BY <1>1, <1>2 DEF Posted

LEMMA SignalRoutine ==
  ASSUME sigq \in [Side -> Seq(Routine)], NEW x \in Side, NEW m, Signal(x, m)
  PROVE  m \in Routine /\ sigq' \in [Side -> Seq(Routine)]
<1>1. Head(sigq[x]) \in Routine /\ Tail(sigq[x]) \in Seq(Routine)
  BY DEF Signal
<1> QED
  BY <1>1 DEF Signal

\* A step of a user's call, or none, that is no end of it.
LEMMA UndisturbedKept ==
  ASSUME Undisturbed, pc \in [Side -> Place], UNCHANGED <<closed, failed, sock, taken>>,
         link' = link \/ link' = "up", sigq' \in [Side -> Seq(Routine)],
         \/ pc' = pc
         \/ \E x \in Side, at \in Place \ Ended :
              /\ Goto(x, at)
              /\ at \in PastOpen => link = "up"
              /\ x = "R" => pc["R"] # "linger"
  PROVE  Undisturbed'
<1>1. \A x \in Side : ~closed'[x] /\ ~failed'[x] /\ sock'[x]
  BY DEF Undisturbed
<1>2. \A x \in Side : pc'[x] \notin Ended /\ (pc'[x] \in PastOpen => link' = "up")
  BY DEF Undisturbed, Goto
<1>3. taken' = N + 1 => pc'["R"] = "linger"
  BY SideFacts DEF Undisturbed, Goto
<1> QED
  BY <1>1, <1>2, <1>3 DEF Undisturbed, Routine

LEMMA UndisturbedStep ==
  ASSUME SafeInv, SecretInv, Undisturbed, match, faults' = 0, faults = 0, [Next]_vars
  PROVE  (pc["S"] = "ok" /\ pc["R"] \in {"linger", "ok"})' \/ Undisturbed'
<1>p. /\ pc \in [Side -> Place] /\ taken \in Nat
      /\ failed \in [Side -> BOOLEAN] /\ closed \in [Side -> BOOLEAN]
  BY StreamAssumption DEF SafeInv, TypeOK, CallsOK, ChannelsOK, Place
<1>u. /\ \A x \in Side : ~closed[x] /\ ~failed[x] /\ sock[x]
      /\ sigq \in [Side -> Seq(Routine)]
      /\ link # "down"
      /\ \A x \in Side : pc[x] \notin Ended /\ (pc[x] \in PastOpen => link = "up")
      /\ taken = N + 1 => pc["R"] = "linger"
  BY DEF Undisturbed, Routine
<1>f. ASSUME NEW kind, Fault(kind) PROVE FALSE
  BY <1>f DEF Fault
<1>1. ASSUME NEW x \in Side, Signaling(x) \/ Emit(x) PROVE Undisturbed'
  <2>1. UNCHANGED <<pc, closed, sock, taken, link>>
    BY <1>1 DEF Signaling, HandleOffer, SendAnswer, HandleAnswer, HandleIce, HandleEnd, Emit,
       dataVars, endVars
  <2>2. ~HandleEnd(x)
    <3>1. ASSUME NEW m \in {"left", "gone"}, Signal(x, m) PROVE FALSE
      <4>1. m \in Routine
        BY <1>u, <3>1, SignalRoutine
      <4> QED
        BY <3>1, <4>1 DEF Routine
    <3> QED
      BY <3>1 DEF HandleEnd
  <2>3. failed' = failed
    BY <1>1, <1>p, <1>u, <2>2 DEF Signaling, HandleOffer, SendAnswer, HandleAnswer, HandleIce,
       Emit, endVars
  <2>4. sigq' \in [Side -> Seq(Routine)]
    <3>1. CASE HandleOffer(x) \/ HandleAnswer(x) \/ HandleIce(x)
      BY <1>u, <3>1, SignalRoutine DEF HandleOffer, HandleAnswer, HandleIce
    <3>2. CASE SendAnswer(x) \/ Emit(x)
      BY <1>u, <3>2, PostedRoutine DEF SendAnswer, Emit, Routine
    <3> QED
      BY <1>1, <2>2, <3>1, <3>2 DEF Signaling
  <2> QED
    BY <1>p, <2>1, <2>3, <2>4, UndisturbedKept
<1>2. ASSUME NEW x \in Side, CtrlArrives(x) PROVE Undisturbed'
  BY <1>2, <1>p, <1>u, UndisturbedKept DEF CtrlArrives, sigVars, dataVars, endVars
<1>3. ASSUME NEW x \in Side, IceFails(x) \/ SeeFailure(x) \/ Close(x) \/ Trouble(x) PROVE FALSE
  BY <1>3, <1>u, <1>f DEF IceFails, SeeFailure, Close, Trouble, GiveUp, CloseEarly, Crash,
     SignalingLost, Ended
<1>4. ASSUME LinkUp \/ Arrive \/ Enqueue PROVE Undisturbed'
  BY <1>4, <1>p, <1>u, UndisturbedKept DEF LinkUp, Arrive, Enqueue, sigVars, dataVars, endVars
<1>5. ASSUME NetworkBreaks PROVE FALSE
  BY <1>5, <1>f DEF NetworkBreaks
<1>15. ASSUME Intrude PROVE FALSE
  BY <1>15 DEF Intrude
<1>6. ASSUME UNCHANGED vars PROVE Undisturbed'
  BY <1>6, <1>p, <1>u, UndisturbedKept DEF vars, sigVars, dataVars, endVars
<1>7. ASSUME NEW x \in Side, Setup(x) PROVE Undisturbed'
  <2>1. PICK at \in {"offer", "open"} : Goto(x, at)
    BY <1>7 DEF Setup
  <2>2. pc[x] = "setup"
    BY <1>7 DEF Setup
  <2> QED
    BY <1>7, <1>p, <1>u, <2>1, <2>2, UndisturbedKept
    DEF Setup, sigVars, dataVars, endVars, Place, Ended, PastOpen
<1>8. ASSUME SendOffer PROVE Undisturbed'
  <2>1. Goto("S", "open")
    BY <1>8, <1>u, SideFacts DEF SendOffer
  <2>2. sigq' \in [Side -> Seq(Routine)]
    BY <1>8, <1>u, SideFacts, PostedRoutine DEF SendOffer, Routine
  <2> QED
    BY <1>8, <1>p, <2>1, <2>2, SideFacts, UndisturbedKept
    DEF SendOffer, dataVars, endVars, Place, Ended, PastOpen
<1>9. ASSUME NEW x \in Side, Open(x) \/ SendMac(x) \/ CheckMac(x) PROVE Undisturbed'
  <2>1. link = "up"
    BY <1>9, <1>u DEF Open, SendMac, CheckMac, PastOpen
  <2>4. ASSUME CheckMac(x) PROVE ctrlRecv[x] = "mac"
    <3>1. pc[x] = "mac" /\ ctrlRecv[x] # None /\ ctrlRecv[x] \in Control \cup {None}
      BY <2>4 DEF CheckMac, SafeInv, TypeOK, ChannelsOK
    <3>2. CASE x = "R"
      BY <3>1, <3>2 DEF SafeInv, Genuine
    <3>3. CASE x = "S"
      <4>1. sent = 0 /\ taken \in 0..sent
        BY <3>1, <3>3, StreamAssumption
           DEF SecretInv, NothingUnverified, Unverified, SafeInv, TypeOK, ChannelsOK
      <4>2. taken # N + 1
        BY <4>1, StreamAssumption
      <4> QED
        BY <3>1, <3>3, <4>2 DEF SafeInv, AckIsWhole, Genuine, Control
    <3> QED
      BY <3>2, <3>3 DEF Side
  <2>2. PICK at \in {"verify", "mac", "next", "recv"} : Goto(x, at)
    <3>1. CASE Open(x) \/ SendMac(x)
      BY <2>1, <3>1 DEF Open, SendMac
    <3>2. CASE CheckMac(x)
      <4>1. match /\ ctrlRecv[x] = "mac"
        BY <2>4, <3>2
      <4>2. Goto(x, IF x = "S" THEN "next" ELSE "recv")
        BY <3>2, <4>1 DEF CheckMac
      <4> QED
        BY <4>2
    <3> QED
      BY <1>9, <3>1, <3>2
  <2>3. pc[x] # "linger" /\ UNCHANGED <<closed, failed, sock, taken, link, sigq>>
    BY <1>9 DEF Open, SendMac, CheckMac, sigVars, dataVars, endVars
  <2> QED
    BY <1>p, <1>u, <2>1, <2>2, <2>3, UndisturbedKept DEF Place, Ended
<1>10. ASSUME NextChunk \/ Block \/ Wake \/ WriteFrame \/ Drain PROVE Undisturbed'
  <2>1. link = "up"
    BY <1>10, <1>u, SideFacts DEF NextChunk, Block, Wake, WriteFrame, Drain, PastOpen
  <2>2. PICK at \in Sending : Goto("S", at)
    BY <1>10, <1>u, <2>1, SideFacts DEF NextChunk, Block, Wake, WriteFrame, Drain, Sending
  <2>3. UNCHANGED <<closed, failed, sock, taken, link, sigq>>
    BY <1>10 DEF NextChunk, Block, Wake, WriteFrame, Drain, sigVars, dataVars, endVars
  <2> QED
    BY <1>p, <1>u, <2>1, <2>2, <2>3, SideFacts, UndisturbedKept DEF Place, Ended, Sending
<1>11. ASSUME AwaitAck PROVE (pc["S"] = "ok" /\ pc["R"] \in {"linger", "ok"})'
  <2>1. pc["S"] = "ack" /\ ctrlRecv["S"] # None /\ Goto("S", "ok")
    BY <1>11 DEF AwaitAck
  <2>2. ctrlRecv["S"] = "ack"
    <3>1. ctrlRecv["S"] \in Control \cup {None}
      BY SideFacts DEF SafeInv, TypeOK, ChannelsOK
    <3> QED
      BY <2>1, <3>1 DEF SafeInv, ControlOrder, Genuine, Control, Sending
  <2>3. pc["R"] = "linger"
    BY <1>u, <2>2 DEF SafeInv, AckIsWhole
  <2> QED
    BY <1>p, <2>1, <2>3, SideFacts DEF Goto
<1>12. ASSUME TakeFrame PROVE Undisturbed'
  <2>1. /\ taken < N /\ taken' = taken + 1
        /\ UNCHANGED <<pc, closed, failed, sock, link, sigq>>
    BY <1>12 DEF TakeFrame, sigVars, endVars
  <2>2. taken' # N + 1
    BY <1>p, <2>1, StreamAssumption
  <2> QED
    BY <1>u, <2>1, <2>2 DEF Undisturbed, Routine
<1>13. ASSUME TakeEof PROVE Undisturbed'
  <2>1. /\ pc["R"] = "recv" /\ Goto("R", "linger")
        /\ UNCHANGED <<closed, failed, sock, link, sigq>>
    BY <1>13 DEF TakeEof, sigVars, endVars
  <2>2. pc'["R"] = "linger" /\ pc'["S"] = pc["S"] /\ link = "up"
    BY <1>p, <1>u, <2>1, SideFacts DEF Goto, PastOpen
  <2> QED
    BY <1>u, <2>1, <2>2 DEF Undisturbed, Routine, Side, Ended
<1>14. ASSUME ReceiveFails \/ Linger PROVE FALSE
  BY <1>14, <1>u, SideFacts DEF ReceiveFails, Linger
<1> QED
  BY <1>1, <1>2, <1>3, <1>4, <1>5, <1>6, <1>7, <1>8, <1>9, <1>10, <1>11, <1>12, <1>13, <1>14,
     <1>15
  DEF Next, Call

\* The sender has left with the ACK, so nothing is left to go wrong.
LEMMA AcknowledgedStep ==
  ASSUME TypeOK, pc["S"] = "ok", pc["R"] \in {"linger", "ok"}, faults = 0, faults' = 0, [Next]_vars
  PROVE  (pc["S"] = "ok" /\ pc["R"] \in {"linger", "ok"})'
<1>p. pc \in [Side -> Place]
  BY DEF TypeOK, CallsOK, Place
<1>f. ASSUME NEW kind, Fault(kind) PROVE FALSE
  BY <1>f DEF Fault
<1>s. \A x \in Side : pc[x] \in {"ok", "linger"}
  BY DEF Side
<1>1. ASSUME NEW x \in Side, Signaling(x) \/ Emit(x) \/ CtrlArrives(x) \/ IceFails(x) \/ Close(x)
      PROVE  pc' = pc
  BY <1>1 DEF Signaling, HandleOffer, SendAnswer, HandleAnswer, HandleIce, HandleEnd, Emit,
     CtrlArrives, IceFails, Close
<1>2. ASSUME NEW x \in Side, Setup(x) \/ Open(x) \/ SendMac(x) \/ CheckMac(x) \/ SeeFailure(x)
      PROVE  FALSE
  BY <1>2, <1>s DEF Setup, Open, SendMac, CheckMac, SeeFailure
<1>3. ASSUME SendOffer \/ NextChunk \/ Block \/ Wake \/ WriteFrame \/ Drain \/ AwaitAck
      PROVE  FALSE
  BY <1>3 DEF SendOffer, NextChunk, Block, Wake, WriteFrame, Drain, AwaitAck
<1>4. ASSUME TakeFrame \/ TakeEof \/ ReceiveFails PROVE FALSE
  BY <1>4 DEF TakeFrame, TakeEof, ReceiveFails
<1>5. ASSUME Linger PROVE (pc["S"] = "ok" /\ pc["R"] \in {"linger", "ok"})'
  BY <1>5, <1>p, SideFacts DEF Linger, Goto
<1>6. ASSUME NEW x \in Side, Trouble(x) PROVE FALSE
  BY <1>6, <1>f DEF Trouble, GiveUp, CloseEarly, Crash, SignalingLost
<1>7. ASSUME NetworkBreaks PROVE FALSE
  BY <1>7, <1>f DEF NetworkBreaks
<1>8. ASSUME LinkUp \/ Arrive \/ Enqueue \/ Intrude \/ UNCHANGED vars PROVE pc' = pc
  BY <1>8 DEF LinkUp, Arrive, Enqueue, Intrude, vars
<1> QED
  BY <1>1, <1>2, <1>3, <1>4, <1>5, <1>6, <1>7, <1>8 DEF Next, Call

LEMMA CalmInit == Init => Calm
<1> SUFFICES ASSUME Init PROVE Undisturbed
  BY DEF Calm
<1>1. << >> \in Seq({"offer", "answer", "ice"})
  OBVIOUS
<1>2. taken # N + 1
  BY StreamAssumption DEF Init
<1> QED
  BY <1>1, <1>2 DEF Init, Undisturbed, PastOpen, Ended

LEMMA CalmStep ==
  TypeOK /\ (match => SafeInv) /\ SecretInv /\ Calm /\ [Next]_vars => Calm'
<1> SUFFICES ASSUME TypeOK, match => SafeInv, SecretInv, Calm, [Next]_vars, match', faults' = 0
             PROVE  (pc["S"] = "ok" /\ pc["R"] \in {"linger", "ok"})' \/ Undisturbed'
  BY DEF Calm
<1>1. match /\ faults = 0
  BY FaultsRemain
<1>2. CASE pc["S"] = "ok" /\ pc["R"] \in {"linger", "ok"}
  BY <1>1, <1>2, AcknowledgedStep
<1>3. CASE Undisturbed
  BY <1>1, <1>3, UndisturbedStep
<1> QED
  BY <1>1, <1>2, <1>3 DEF Calm

\* As long as the secrets match and nothing goes wrong from outside, no interleaving of
\* the two calls, the callbacks, the relay and the channels makes either side report a
\* failure: the sender's leaving does not overtake the acknowledgement or the last frames.
THEOREM NothingFailsByItself == Spec => []NoSpuriousFailure
<1>1. Calm => NoSpuriousFailure
  BY DEF Calm, Undisturbed, NoSpuriousFailure, Ended, Side
<1>2. Spec => []Calm
  BY TypeCorrect, Safe, Secret, CalmInit, CalmStep, PTL DEF Spec
<1> QED
  BY <1>1, <1>2, PTL

=============================================================================
