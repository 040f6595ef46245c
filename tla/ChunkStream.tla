---------------------------- MODULE ChunkStream ----------------------------
(***************************************************************************)
(* The encrypted object format of crypto.go: EncryptStream cuts a source   *)
(* into chunks and seals them one at a time, DecryptStream reads whatever  *)
(* has become of an object since, in any of the three formats ever         *)
(* written.  The text of a chunk is a piece of one source: its bytes       *)
(* from + 1 to to.  A sealed box opens with the key, the nonce and the     *)
(* additional data it was sealed with and with no others (AES-GCM), and    *)
(* random salts and nonce bases are distinct: each is named by its stream. *)
(*                                                                         *)
(* An object may be cut short where it was written; storage and network    *)
(* may lose, repeat, reorder, mix up and damage chunks and headers.        *)
(***************************************************************************)
EXTENDS Integers, Sequences

CONSTANTS
  Key,        \* data keys
  Stream,     \* calls of EncryptStream, by this release or an earlier one
  KeyOf,      \* KeyOf[s]: the data key of a call
  Format,     \* Format[s]: the format its release writes, which is "hkdf" now
  NonceHead,  \* NonceHead[s]: the 4 random bytes a nonce keeps of a nonce base
  ChunkSize,
  Sizes       \* sizes of the sources

ASSUME KeyAssumption == KeyOf \in [Stream -> Key]
ASSUME FormatAssumption == Format \in [Stream -> {"legacy", "aead", "hkdf"}]
ASSUME SizeAssumption == ChunkSize \in Nat \ {0} /\ Sizes \subseteq Nat

VARIABLES
  size,   \* size[s]: the size of the source of s
  enc,    \* enc[s]: the call of EncryptStream
  obj,    \* obj[s]: the chunks it has written after the header
  dec     \* a call of DecryptStream

vars == <<size, enc, obj, dec>>

Formats == {"legacy", "aead", "hkdf", "unknown"}
Header == [format : Formats, random : Stream]
HeaderOf(s) == [format |-> Format[s], random |-> s]

Text(s, from, to) == [of |-> s, from |-> from, to |-> to]

-----------------------------------------------------------------------------
(* Keys, nonces, additional data.                                          *)

\* Mutants of deriveStreamKey and chunkAAD: the salt is forgotten, the flag left out.
deriveUnsalted(key, salt) == <<key>>
aadWithoutFlag(header, final) == <<header>>

deriveStreamKey(key, salt) == <<key, salt>>

streamNonce(counter) == <<counter>>

nonceFor(base, counter) == <<NonceHead[base], counter>>

chunkAAD(header, final) == <<header, final>>

\* What a header means to whoever seals or opens chunk number counter under it.
AeadKey(key, header) ==
  IF header.format = "hkdf" THEN deriveStreamKey(key, header.random) ELSE <<key>>

Nonce(header, counter) ==
  IF header.format = "hkdf" THEN streamNonce(counter)
  ELSE nonceFor(header.random, counter)

AAD(header, final) == IF header.format = "legacy" THEN <<>> ELSE chunkAAD(header, final)

Box(key, header, counter, final, text) ==
  [key |-> AeadKey(key, header), nonce |-> Nonce(header, counter),
   aad |-> AAD(header, final), text |-> text]

\* A chunk as it lies in an object: its flag beside the box.
Chunk(final, box) == [final |-> final, box |-> box]

Sealed(s, counter, final, text) ==
  Chunk(final, Box(KeyOf[s], HeaderOf(s), counter, final, text))

-----------------------------------------------------------------------------
(* EncryptStream.                                                          *)

\* readChunk fills a buffer from byte pos on, and says whether the source ended in it.
ReadEnd(s, pos) == IF size[s] - pos < ChunkSize THEN size[s] ELSE pos + ChunkSize
ReadEof(s, pos) == size[s] - pos < ChunkSize

Init ==
  /\ size \in [Stream -> Sizes]
  /\ enc = [s \in Stream |-> [pc |-> "new", count |-> 0, from |-> 0, to |-> 0, eof |-> FALSE]]
  /\ obj = [s \in Stream |-> <<>>]
  /\ dec = [pc |-> "idle"]

\* The header is written and the first chunk read.
StartEncrypt(s) ==
  /\ enc[s].pc = "new"
  /\ enc' = [enc EXCEPT ![s] = [pc |-> "loop", count |-> 0, from |-> 0,
                                 to |-> ReadEnd(s, 0), eof |-> ReadEof(s, 0)]]
  /\ UNCHANGED <<size, obj, dec>>

\* The chunk in hand is the last: the source ended in it, or the next read gets
\* nothing.
IsLast(s) ==
  \/ enc[s].eof
  \/ ReadEof(s, enc[s].to) /\ ReadEnd(s, enc[s].to) = enc[s].to

InHand(s, final) == Sealed(s, enc[s].count, final, Text(s, enc[s].from, enc[s].to))

\* A mutant of SealLast: the stream ends without its last chunk when that is empty.
SealLastIfAny(s) ==
  /\ enc[s].pc = "loop" /\ IsLast(s)
  /\ obj' = [obj EXCEPT ![s] = IF enc[s].from = enc[s].to THEN @ ELSE Append(@, InHand(s, TRUE))]
  /\ enc' = [enc EXCEPT ![s].pc = "done"]
  /\ UNCHANGED <<size, dec>>

SealLast(s) ==
  /\ enc[s].pc = "loop" /\ IsLast(s)
  /\ obj' = [obj EXCEPT ![s] = Append(@, InHand(s, TRUE))]
  /\ enc' = [enc EXCEPT ![s].pc = "done"]
  /\ UNCHANGED <<size, dec>>

SealNext(s) ==
  /\ enc[s].pc = "loop" /\ ~IsLast(s)
  /\ obj' = [obj EXCEPT ![s] = Append(@, InHand(s, FALSE))]
  /\ enc' = [enc EXCEPT ![s] = [pc |-> "loop", count |-> enc[s].count + 1, from |-> enc[s].to,
                                 to |-> ReadEnd(s, enc[s].to), eof |-> ReadEof(s, enc[s].to)]]
  /\ UNCHANGED <<size, dec>>

\* The source cannot be read or the object not be written: it stays as it is.
EncryptFails(s) ==
  /\ enc[s].pc = "loop"
  /\ enc' = [enc EXCEPT ![s].pc = "failed"]
  /\ UNCHANGED <<size, obj, dec>>

-----------------------------------------------------------------------------
(* DecryptStream.                                                          *)

\* A header has been read: that of an object, intact or damaged.  intact says that
\* a finished object is being read under its own key, so far as it was written.
StartDecrypt(k, s, header) ==
  /\ dec.pc = "idle"
  /\ enc[s].pc # "new"
  /\ dec' = [pc |-> IF header.format = "unknown" THEN "failed" ELSE "read",
             key |-> k, header |-> header, count |-> 0, out |-> <<>>,
             intact |-> k = KeyOf[s] /\ header = HeaderOf(s) /\ enc[s].pc = "done"]
  /\ UNCHANGED <<size, enc, obj>>

\* What lies where the next chunk is read.
IsNext(chunk) ==
  /\ dec.count < Len(obj[dec.header.random])
  /\ obj[dec.header.random][dec.count + 1] = chunk

\* A mutant of Opens: whoever reads counts from the chunk that is there.
OpensAnyCounter(chunk) ==
  /\ chunk.box.key = AeadKey(dec.key, dec.header)
  /\ chunk.box.aad = AAD(dec.header, chunk.final)

Opens(chunk) ==
  /\ chunk.box.key = AeadKey(dec.key, dec.header)
  /\ chunk.box.nonce = Nonce(dec.header, dec.count)
  /\ chunk.box.aad = AAD(dec.header, chunk.final)

\* aead.Open succeeds and the text is written; readSealedChunks returns after a
\* chunk flagged final, decryptStreamLegacy reads on.
TakeChunk(chunk) ==
  /\ dec.pc = "read"
  /\ Opens(chunk)
  /\ dec' = [dec EXCEPT
      !.pc = IF chunk.final /\ dec.header.format # "legacy" THEN "done" ELSE "read",
      !.count = @ + 1, !.out = Append(@, chunk.box.text),
      !.intact = @ /\ IsNext(chunk)]
  /\ UNCHANGED <<size, enc, obj>>

\* aead.Open fails.
RefuseChunk(chunk) ==
  /\ dec.pc = "read"
  /\ ~Opens(chunk)
  /\ dec' = [dec EXCEPT !.pc = "failed", !.intact = @ /\ IsNext(chunk)]
  /\ UNCHANGED <<size, enc, obj>>

\* The input ends, within a chunk or between two, or a length is out of range.
EndOfInput ==
  /\ dec.pc = "read"
  /\ dec' = [dec EXCEPT !.pc = "failed",
      !.intact = @ /\ dec.header.format # "legacy" /\ dec.count = Len(obj[dec.header.random])]
  /\ UNCHANGED <<size, enc, obj>>

\* A length of zero, which ends an object of the oldest format.
ZeroLength ==
  /\ dec.pc = "read"
  /\ dec' = [dec EXCEPT !.pc = IF dec.header.format = "legacy" THEN "done" ELSE "failed",
      !.intact = @ /\ dec.header.format = "legacy" /\ dec.count = Len(obj[dec.header.random])]
  /\ UNCHANGED <<size, enc, obj>>

\* Every chunk anywhere, its flag intact or damaged.
Arriving ==
  UNION {{Chunk(final, obj[s][i].box) : final \in BOOLEAN, i \in 1..Len(obj[s])} : s \in Stream}

Encrypt(s) == StartEncrypt(s) \/ SealLast(s) \/ SealNext(s) \/ EncryptFails(s)

Decrypt ==
  \/ \E k \in Key, s \in Stream, header \in Header : StartDecrypt(k, s, header)
  \/ \E chunk \in Arriving : TakeChunk(chunk) \/ RefuseChunk(chunk)
  \/ EndOfInput \/ ZeroLength

Next == (\E s \in Stream : Encrypt(s)) \/ Decrypt

Spec == Init /\ [][Next]_vars

-----------------------------------------------------------------------------
(* Properties.                                                             *)

Boxes == UNION {{obj[s][i].box : i \in 1..Len(obj[s])} : s \in Stream}

\* "No two chunks anywhere can share" a nonce under one key, even though a data key
\* may be used for many streams: what is sealed in the present format is sealed
\* under a key and nonce nothing else was.
NonceUsedOnce ==
  \A s \in Stream : Format[s] = "hkdf" =>
    \A i \in 1..Len(obj[s]) : \A box \in Boxes :
      box.key = obj[s][i].box.key /\ box.nonce = obj[s][i].box.nonce
        => box = obj[s][i].box

\* Reading in a format that authenticates its header.
Authenticated == dec.pc # "idle" /\ dec.header.format \in {"aead", "hkdf"}

\* Whatever the chunks went through, what has been written out is a beginning of the
\* one source the header belongs to: nothing is missing from its middle, repeated,
\* out of order or from elsewhere.
OnlyPrefix ==
  Authenticated => \A i \in 1..Len(dec.out) :
    /\ dec.out[i].of = dec.header.random
    /\ dec.out[i].from = IF i = 1 THEN 0 ELSE dec.out[i - 1].to

\* Success means the whole source: a truncated tail never passes for the end.
DoneIsWhole ==
  Authenticated /\ dec.pc = "done" =>
    /\ Len(dec.out) > 0
    /\ dec.out[Len(dec.out)].to = size[dec.header.random]

\* What was encrypted to the end and arrives as it was written is never refused,
\* whatever the size of the source and in every format.
IntactOpens == dec.pc = "failed" => ~dec.intact
=============================================================================
