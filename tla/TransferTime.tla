----------------------------- MODULE TransferTime -----------------------------
(***************************************************************************)
(* The deadlines of one transfer as the receiving end sets them            *)
(* (lanshare/receive.go and Download in broadcast.go): one for the whole   *)
(* transfer, from transferDeadline, before the stream, and one for each    *)
(* frame at the top of the loop that reads it.  A connection has one read  *)
(* and one write deadline; SetDeadline sets both, and SetReadDeadline      *)
(* replaces the first.                                                     *)
(*                                                                         *)
(* Time is counted in ticks (seconds) from the start of the stream.  How   *)
(* long the sender takes, how much it puts in a frame, whether it puts     *)
(* anything in it at all, and whether it keeps to the size it declared are *)
(* its own affair.                                                         *)
(***************************************************************************)
EXTENDS Integers

CONSTANTS
  MaxSize,       \* bound: the largest declared size, in blocks
  Grace,         \* transferGrace (10 min)
  MinRate,       \* transferMinBytesPerSecond, in blocks per tick (16 KiB/s)
  MaxDuration,   \* transferMaxDuration (12 h)
  FrameTimeout,  \* the deadline of one frame (60 s)
  DurationLimit  \* the first duration that does not fit time.Duration (2^63 ns)

ASSUME TimeAssumption ==
  /\ MaxSize \in Nat
  /\ MinRate \in Nat \ {0} /\ FrameTimeout \in Nat \ {0}
  /\ Grace \in Nat /\ MaxDuration \in Nat /\ Grace <= MaxDuration
  /\ DurationLimit \in Nat /\ Grace + MaxDuration < DurationLimit

Lesser(a, b) == IF a <= b THEN a ELSE b

\* time.Duration is a signed integer: what does not fit comes round as negative.
AsDuration(d) == ((d + DurationLimit) % (2 * DurationLimit)) - DurationLimit

\* A mutant of transferDeadline: the seconds are converted without a clamp.
transferDeadlineUnclamped(size) ==
  Lesser(AsDuration(Grace + AsDuration(size \div MinRate)), MaxDuration)

\* transferDeadline, less its start: the floor, and the time the size takes at the
\* slowest rate (clamped before it is converted to a Duration), under the cap.
transferDeadline(size) ==
  Lesser(AsDuration(Grace + AsDuration(Lesser(size \div MinRate, MaxDuration))), MaxDuration)

VARIABLES
  stage,    \* where the receiver is
  size,     \* the declared size
  got,      \* the blocks received
  elapsed,  \* time since the stream began, up to one tick past any deadline
  quiet,    \* time since the receiver began to wait for this frame, 0 when it has come
  readBy,   \* what is left of the read deadline
  answered  \* the done message was written

transferVars == <<stage, size, got, elapsed, quiet, readBy, answered>>

-----------------------------------------------------------------------------
\* SetDeadline(transferDeadline(now, size)).
Begin ==
  /\ stage = "loop"
  /\ size \in 0..MaxSize
  /\ got = 0 /\ elapsed = 0 /\ quiet = 0
  /\ readBy = transferDeadline(size)
  /\ answered = FALSE

\* The top of the loop: SetReadDeadline(now + 60 s), and readFrame blocks.
Arm ==
  /\ stage = "loop"
  /\ readBy' = FrameTimeout
  /\ quiet' = 0
  /\ stage' = "read"
  /\ UNCHANGED <<size, got, elapsed, answered>>

\* A mutant of TakeFrame: it waits for the next frame under the old deadline.
TakeFrameInPlace ==
  /\ stage = "read"
  /\ \E n \in 0..(size - got) : got' = got + n
  /\ quiet' = 0
  /\ UNCHANGED <<stage, size, elapsed, readBy, answered>>

\* A frame of data within the declared size.  readFrame accepts one with no payload,
\* which brings the transfer no further.
TakeFrame ==
  /\ stage = "read"
  /\ \E n \in 0..(size - got) : got' = got + n
  /\ stage' = "loop"
  /\ quiet' = 0
  /\ UNCHANGED <<size, elapsed, readBy, answered>>

EmptyFrame == TakeFrame /\ got' = got

\* More data than was declared, an end before all of it, or a frame of another type.
Refuse ==
  /\ stage = "read"
  /\ stage' = "refused"
  /\ UNCHANGED <<size, got, elapsed, quiet, readBy, answered>>

\* The stream is complete; the file is placed, and done is written unless the write
\* deadline, still that of the whole transfer, has passed.  The error is ignored.
Finish ==
  /\ stage = "read"
  /\ got = size
  /\ stage' = "placed"
  /\ answered' = (elapsed < transferDeadline(size))
  /\ UNCHANGED <<size, got, elapsed, quiet, readBy>>

\* A mutant of TimeOut: a quiet peer is waited for again.
TimeOutRetries ==
  /\ stage = "read"
  /\ readBy = 0
  /\ stage' = "loop"
  /\ UNCHANGED <<size, got, elapsed, quiet, readBy, answered>>

\* readFrame returns when the read deadline passes.
TimeOut ==
  /\ stage = "read"
  /\ readBy = 0
  /\ stage' = "failed"
  /\ UNCHANGED <<size, got, elapsed, quiet, readBy, answered>>

\* Time passes while readFrame blocks; all else takes none.
Wait ==
  /\ stage = "read"
  /\ readBy > 0
  /\ readBy' = readBy - 1
  /\ quiet' = quiet + 1
  /\ elapsed' = Lesser(elapsed + 1, MaxDuration + 1)
  /\ UNCHANGED <<stage, size, got, answered>>

TransferNext == Arm \/ TakeFrame \/ Refuse \/ Finish \/ TimeOut \/ Wait

TransferSpec == Begin /\ [][TransferNext]_transferVars

\* Nothing is asked of the sender.
FairTransfer ==
  /\ TransferSpec
  /\ WF_transferVars(Arm) /\ WF_transferVars(TimeOut) /\ WF_transferVars(Wait)

-----------------------------------------------------------------------------
(* Properties.                                                             *)

\* "A genuine transfer is never cut off" (transferMinBytesPerSecond): one that times
\* out has been quiet for as long as a single frame may take.
GenuineNotCutOff == stage = "failed" => quiet >= FrameTimeout

\* A file that was placed without a done was placed late for a reason its size gives:
\* never before the floor, and, the floor aside, slower than the slowest rate allowed,
\* unless the cap had been reached (transferDeadline, whatever the size).
AnswerInTime ==
  stage = "placed" /\ ~answered =>
    /\ elapsed >= Grace
    /\ elapsed >= MaxDuration \/ (elapsed - Grace + 1) * MinRate > size

\* The receiver is done with the transfer in the end, unless the sender keeps its
\* frames coming and empty frames are among them for ever (the deadline of each frame
\* starts anew at the top of the read loop).
TransferEnds ==
  []<><<EmptyFrame>>_transferVars \/ <>(stage \in {"placed", "failed", "refused"})

\* "Give the whole transfer a deadline ...": the receiver does not wait for a frame
\* once the deadline it has set for the transfer has passed.
EndsByDeadline == stage = "read" => elapsed <= transferDeadline(size)
=============================================================================
