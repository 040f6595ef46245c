------------------------- MODULE ChunkStream_proofs -------------------------
(***************************************************************************)
(* Proofs about ChunkStream: any number of streams, keys and formats, any  *)
(* chunk size, sources of any size, and nonce bases whose four kept bytes  *)
(* may coincide.                                                           *)
(***************************************************************************)
EXTENDS ChunkStream, TLAPS

Texts == [of : Stream, from : Nat, to : Nat]
BoxSet == {Box(k, h, c, f, t) : k \in Key, h \in Header, c \in Nat, f \in BOOLEAN, t \in Texts}
Chunks == [final : BOOLEAN, box : BoxSet]

Writers == [pc : {"new", "loop", "done", "failed"}, count : Nat, from : Nat, to : Nat,
            eof : BOOLEAN]
Readers == [pc : {"read", "done", "failed"}, key : Key, header : Header, count : Nat,
            out : Seq(Texts), intact : BOOLEAN]

TypeOK ==
  /\ size \in [Stream -> Nat]
  /\ enc \in [Stream -> Writers]
  /\ obj \in [Stream -> Seq(Chunks)]
  /\ dec = [pc |-> "idle"] \/ dec \in Readers

\* Where the chunk before chunk i of s ends.
EndBefore(s, i) == IF i = 1 THEN 0 ELSE obj[s][i - 1].box.text.to

\* Chunk i of an object was sealed as number i - 1 of its stream, over the text that
\* follows the text before, and only one that reaches the end is flagged.
Shape == \A s \in Stream : \A i \in 1 .. Len(obj[s]) :
  /\ obj[s][i] = Sealed(s, i - 1, obj[s][i].final, obj[s][i].box.text)
  /\ obj[s][i].box.text.of = s
  /\ obj[s][i].box.text.from = EndBefore(s, i)
  /\ obj[s][i].final => obj[s][i].box.text.to = size[s]

Writing == \A s \in Stream :
  /\ enc[s].pc = "new" => obj[s] = <<>>
  /\ enc[s].pc = "loop" =>
       /\ enc[s].count = Len(obj[s])
       /\ enc[s].from = EndBefore(s, Len(obj[s]) + 1)
       /\ enc[s].eof => enc[s].to = size[s]
  /\ enc[s].pc = "done" => Len(obj[s]) > 0 /\ obj[s][Len(obj[s])].final

\* What has been read under an authenticated header is a beginning of its object.
Reading == Authenticated =>
  /\ dec.count = Len(dec.out) /\ Len(dec.out) <= Len(obj[dec.header.random])
  /\ \A i \in 1 .. Len(dec.out) : dec.out[i] = obj[dec.header.random][i].box.text
  /\ dec.pc = "done" => Len(dec.out) > 0 /\ obj[dec.header.random][Len(dec.out)].final

\* Who reads an intact object has not come to its end yet.
Intact == dec.pc # "idle" /\ dec.intact =>
  /\ dec.pc # "failed"
  /\ dec.key = KeyOf[dec.header.random] /\ dec.header = HeaderOf(dec.header.random)
  /\ enc[dec.header.random].pc = "done"
  /\ dec.pc = "read" /\ dec.header.format # "legacy" =>
       /\ dec.count <= Len(obj[dec.header.random])
       /\ \A i \in 1 .. dec.count : ~obj[dec.header.random][i].final

IInv == TypeOK /\ Shape /\ Writing /\ Reading /\ Intact

-----------------------------------------------------------------------------
(* Boxes.                                                                  *)

LEMMA SealedParts ==
  ASSUME NEW s, NEW c, NEW f, NEW t
  PROVE  /\ Sealed(s, c, f, t).final = f
         /\ Sealed(s, c, f, t).box.key = AeadKey(KeyOf[s], HeaderOf(s))
         /\ Sealed(s, c, f, t).box.nonce = Nonce(HeaderOf(s), c)
         /\ Sealed(s, c, f, t).box.aad = AAD(HeaderOf(s), f)
         /\ Sealed(s, c, f, t).box.text = t
BY DEF Sealed, Chunk, Box

LEMMA HeaderParts ==
  ASSUME NEW s \in Stream
  PROVE  /\ HeaderOf(s) \in Header
         /\ HeaderOf(s).format = Format[s] /\ HeaderOf(s).random = s
         /\ Format[s] \in {"legacy", "aead", "hkdf"}
BY FormatAssumption DEF HeaderOf, Header, Formats

LEMMA SealedType ==
  ASSUME NEW s \in Stream, NEW c \in Nat, NEW f \in BOOLEAN, NEW t \in Texts
  PROVE  Sealed(s, c, f, t) \in Chunks
<1>1. KeyOf[s] \in Key /\ HeaderOf(s) \in Header
  BY HeaderParts, KeyAssumption
<1>2. Box(KeyOf[s], HeaderOf(s), c, f, t) \in BoxSet
  BY <1>1 DEF BoxSet
<1> QED
  BY <1>2 DEF Sealed, Chunk, Chunks

LEMMA ReaderType ==
  ASSUME TypeOK, dec.pc # "idle"
  PROVE  dec \in Readers
<1>1. dec = [pc |-> "idle"] => dec.pc = "idle"
  OBVIOUS
<1> QED
  BY <1>1 DEF TypeOK

(* A nonce tells the number of the chunk it was made for.                  *)
LEMMA NonceCounts ==
  ASSUME NEW h, NEW c, NEW d, Nonce(h, c) = Nonce(h, d)
  PROVE  c = d
BY DEF Nonce, streamNonce, nonceFor

(* Additional data tell the header and the flag they were made for.        *)
LEMMA DataIdentify ==
  ASSUME NEW h, NEW g, NEW e, NEW f, h.format # "legacy", AAD(g, e) = AAD(h, f)
  PROVE  g = h /\ e = f
BY DEF AAD, chunkAAD

(* A chunk that opens under an authenticated header is the one that comes  *)
(* next in the object the header belongs to, with the flag it was sealed   *)
(* with.                                                                   *)
LEMMA OpensOnlyNext ==
  ASSUME TypeOK, Shape, Authenticated,
         NEW s \in Stream, NEW i \in 1 .. Len(obj[s]), NEW f \in BOOLEAN,
         Opens(Chunk(f, obj[s][i].box))
  PROVE  /\ s = dec.header.random
         /\ i = dec.count + 1
         /\ f = obj[s][i].final
<1>1. obj[s][i] = Sealed(s, i - 1, obj[s][i].final, obj[s][i].box.text)
  BY DEF Shape
<1>2. /\ obj[s][i].box.nonce = Nonce(HeaderOf(s), i - 1)
      /\ obj[s][i].box.aad = AAD(HeaderOf(s), obj[s][i].final)
  BY <1>1, SealedParts
<1>3. /\ obj[s][i].box.nonce = Nonce(dec.header, dec.count)
      /\ obj[s][i].box.aad = AAD(dec.header, f)
  BY DEF Opens, Chunk
<1>4. dec.header.format # "legacy"
  BY DEF Authenticated
<1>5. HeaderOf(s) = dec.header /\ obj[s][i].final = f
  <2> DEFINE e == obj[s][i].final
             g == HeaderOf(s)
             h == dec.header
  <2>1. AAD(g, e) = AAD(h, f)
    BY <1>2, <1>3
  <2>2. h.format # "legacy"
    BY <1>4
  <2> HIDE DEF e, g, h
  <2>3. g = h /\ e = f
    BY <2>1, <2>2, DataIdentify, Zenon
  <2> QED
    BY <2>3 DEF e, g, h
<1>6. i - 1 = dec.count
  <2>1. Nonce(dec.header, i - 1) = Nonce(dec.header, dec.count)
    BY <1>2, <1>3, <1>5
  <2> QED
    BY <2>1, NonceCounts, Zenon
<1>7. s = dec.header.random
  BY <1>5, HeaderParts
<1>8. dec.count \in Nat
  BY ReaderType DEF Authenticated, Readers
<1> QED
  BY <1>5, <1>6, <1>7, <1>8

-----------------------------------------------------------------------------
(* EncryptStream.                                                          *)

\* Objects only get longer.
Grows == \A t \in Stream :
  /\ Len(obj[t]) <= Len(obj'[t])
  /\ \A i \in 1 .. Len(obj[t]) : obj'[t][i] = obj[t][i]

LEMMA ReadingKept ==
  ASSUME TypeOK, Reading, Grows, obj' \in [Stream -> Seq(Chunks)], dec' = dec
  PROVE  Reading'
<1> SUFFICES ASSUME Authenticated'
             PROVE  /\ dec.count = Len(dec.out) /\ Len(dec.out) <= Len(obj'[dec.header.random])
                    /\ \A i \in 1 .. Len(dec.out) :
                         dec.out[i] = obj'[dec.header.random][i].box.text
                    /\ dec.pc = "done" =>
                         Len(dec.out) > 0 /\ obj'[dec.header.random][Len(dec.out)].final
  BY DEF Reading
<1>1. Authenticated
  BY DEF Authenticated
<1>2. dec.header.random \in Stream /\ Len(dec.out) \in Nat
  BY <1>1, ReaderType DEF Authenticated, Readers, Header
<1>3. Len(obj[dec.header.random]) \in Nat /\ Len(obj'[dec.header.random]) \in Nat
      /\ Len(obj[dec.header.random]) <= Len(obj'[dec.header.random])
  BY <1>2 DEF Grows, TypeOK
<1>4. \A i \in 1 .. Len(dec.out) : obj'[dec.header.random][i] = obj[dec.header.random][i]
  BY <1>1, <1>2, <1>3 DEF Grows, Reading
<1>5. dec.pc = "done" => Len(dec.out) > 0 /\ obj'[dec.header.random][Len(dec.out)].final
  <2> SUFFICES ASSUME dec.pc = "done"
               PROVE  Len(dec.out) > 0 /\ obj'[dec.header.random][Len(dec.out)].final
    OBVIOUS
  <2>1. Len(dec.out) > 0 /\ obj[dec.header.random][Len(dec.out)].final
    BY <1>1 DEF Reading
  <2>2. obj'[dec.header.random][Len(dec.out)] = obj[dec.header.random][Len(dec.out)]
    BY <1>2, <1>4, <2>1
  <2> QED
    BY <2>1, <2>2
<1>6. /\ dec.count = Len(dec.out) /\ Len(dec.out) <= Len(obj[dec.header.random])
      /\ \A i \in 1 .. Len(dec.out) : dec.out[i] = obj[dec.header.random][i].box.text
  BY <1>1 DEF Reading
<1>7. \A i \in 1 .. Len(dec.out) : dec.out[i] = obj'[dec.header.random][i].box.text
  BY <1>4, <1>6
<1>8. dec.count = Len(dec.out) /\ Len(dec.out) <= Len(obj'[dec.header.random])
  BY <1>2, <1>3, <1>6
<1> QED
  BY <1>5, <1>7, <1>8, Zenon

LEMMA IntactKept ==
  ASSUME TypeOK, Intact, Grows, obj' \in [Stream -> Seq(Chunks)], dec' = dec,
         \A t \in Stream : enc[t].pc = "done" => enc'[t].pc = "done"
  PROVE  Intact'
<1> SUFFICES ASSUME dec.pc # "idle", dec.intact PROVE Intact'
  BY DEF Intact
<1>1. dec.header.random \in Stream /\ dec.count \in Nat
  BY ReaderType DEF Readers, Header
<1>2. \A i \in 1 .. Len(obj[dec.header.random]) :
        obj'[dec.header.random][i] = obj[dec.header.random][i]
  BY <1>1 DEF Grows
<1>3. Len(obj[dec.header.random]) \in Nat
      /\ Len(obj[dec.header.random]) <= Len(obj'[dec.header.random])
  BY <1>1 DEF Grows, TypeOK
<1>4. /\ dec.pc # "failed"
      /\ dec.key = KeyOf[dec.header.random] /\ dec.header = HeaderOf(dec.header.random)
      /\ enc'[dec.header.random].pc = "done"
  BY <1>1 DEF Intact
<1>5. ASSUME dec.pc = "read", dec.header.format # "legacy"
      PROVE  /\ dec.count <= Len(obj'[dec.header.random])
             /\ \A i \in 1 .. dec.count : ~obj'[dec.header.random][i].final
  <2>1. dec.count <= Len(obj[dec.header.random])
        /\ \A i \in 1 .. dec.count : ~obj[dec.header.random][i].final
    BY <1>5 DEF Intact
  <2>2. Len(obj'[dec.header.random]) \in Nat
    BY <1>1
  <2>3. dec.count <= Len(obj'[dec.header.random])
    BY <1>1, <1>3, <2>1, <2>2
  <2>4. \A i \in 1 .. dec.count : obj'[dec.header.random][i] = obj[dec.header.random][i]
    BY <1>1, <1>2, <1>3, <2>1
  <2> QED
    BY <2>1, <2>3, <2>4
<1> QED
  BY <1>4, <1>5 DEF Intact

\* What sealing the chunk in hand does to the objects.
LEMMA Sealing ==
  ASSUME TypeOK, Shape, Writing, size' = size,
         NEW s \in Stream, enc[s].pc = "loop",
         NEW f \in BOOLEAN, f => enc[s].to = size[s],
         obj' = [obj EXCEPT ![s] = Append(@, InHand(s, f))]
  PROVE  /\ obj' \in [Stream -> Seq(Chunks)]
         /\ Grows
         /\ Shape'
         /\ Len(obj'[s]) = Len(obj[s]) + 1
         /\ obj'[s][Len(obj[s]) + 1] = InHand(s, f)
         /\ \A t \in Stream \ {s} : obj'[t] = obj[t]
<1> DEFINE n == Len(obj[s])
           text == Text(s, enc[s].from, enc[s].to)
<1>1. obj[s] \in Seq(Chunks) /\ n \in Nat /\ enc[s] \in Writers
  BY DEF TypeOK
<1>2. text \in Texts /\ text.of = s /\ text.from = enc[s].from /\ text.to = enc[s].to
  BY <1>1 DEF Text, Texts, Writers
<1>3. InHand(s, f) = Sealed(s, n, f, text)
  BY DEF InHand, Writing
<1>4. InHand(s, f) \in Chunks
  BY <1>1, <1>2, <1>3, SealedType
<1>5. obj' \in [Stream -> Seq(Chunks)] /\ \A t \in Stream \ {s} : obj'[t] = obj[t]
  BY <1>1, <1>4 DEF TypeOK
<1>6. obj'[s] = Append(obj[s], InHand(s, f))
  BY DEF TypeOK
<1>7. /\ Len(obj'[s]) = n + 1 /\ obj'[s][n + 1] = InHand(s, f)
      /\ \A i \in 1 .. n : obj'[s][i] = obj[s][i]
  BY <1>1, <1>4, <1>6
<1>8. Grows
  <2> SUFFICES ASSUME NEW t \in Stream
               PROVE  /\ Len(obj[t]) <= Len(obj'[t])
                      /\ \A i \in 1 .. Len(obj[t]) : obj'[t][i] = obj[t][i]
    BY DEF Grows
  <2>1. CASE t = s
    BY <1>1, <1>7, <2>1
  <2>2. CASE t # s
    BY <1>5, <2>2 DEF TypeOK
  <2> QED
    BY <2>1, <2>2
<1>9. Shape'
  <2> SUFFICES ASSUME NEW t \in Stream, NEW i \in 1 .. Len(obj'[t])
               PROVE  /\ obj'[t][i] = Sealed(t, i - 1, obj'[t][i].final, obj'[t][i].box.text)
                      /\ obj'[t][i].box.text.of = t
                      /\ obj'[t][i].box.text.from = EndBefore(t, i)'
                      /\ obj'[t][i].final => obj'[t][i].box.text.to = size[t]
    BY DEF Shape
  <2>1. CASE t # s
    BY <1>5, <2>1 DEF Shape, EndBefore
  <2>2. CASE t = s /\ i # n + 1
    <3>1. i \in 1 .. n
      BY <1>1, <1>7, <2>2
    <3>2. obj'[s][i] = obj[s][i] /\ (i # 1 => obj'[s][i - 1] = obj[s][i - 1])
      BY <1>1, <1>7, <3>1
    <3> QED
      BY <2>2, <3>1, <3>2 DEF Shape, EndBefore
  <2>3. CASE t = s /\ i = n + 1
    <3>1. obj'[s][i] = Sealed(s, i - 1, f, text)
      BY <1>1, <1>3, <1>7, <2>3
    <3>2. obj'[s][i].final = f /\ obj'[s][i].box.text = text
      <4>1. Sealed(s, i - 1, f, text).final = f /\ Sealed(s, i - 1, f, text).box.text = text
        BY DEF Sealed, Chunk, Box
      <4> QED
        BY <3>1, <4>1
    <3>3. text.from = IF i = 1 THEN 0 ELSE obj[s][i - 1].box.text.to
      BY <1>2, <2>3 DEF Writing, EndBefore
    <3>4. i # 1 => obj'[s][i - 1] = obj[s][i - 1]
      BY <1>1, <1>7, <2>3
    <3>5. obj'[t][i] = Sealed(t, i - 1, obj'[t][i].final, obj'[t][i].box.text)
      BY <2>3, <3>1, <3>2
    <3>6. obj'[t][i].box.text.of = t /\ obj'[t][i].box.text.to = enc[s].to
      BY <1>2, <2>3, <3>2
    <3>7. obj'[t][i].box.text.from = EndBefore(t, i)'
      BY <2>3, <3>2, <3>3, <3>4 DEF EndBefore
    <3>8. obj'[t][i].final => obj'[t][i].box.text.to = size[t]
      BY <2>3, <3>2, <3>6
    <3> QED
      BY <3>5, <3>6, <3>7, <3>8, Zenon
  <2> QED
    BY <2>1, <2>2, <2>3
<1> QED
  BY <1>5, <1>7, <1>8, <1>9

LEMMA ReadEndType ==
  ASSUME TypeOK, NEW s \in Stream, NEW pos \in Nat
  PROVE  ReadEnd(s, pos) \in Nat /\ ReadEof(s, pos) \in BOOLEAN
         /\ (ReadEof(s, pos) => ReadEnd(s, pos) = size[s])
BY SizeAssumption DEF TypeOK, ReadEnd, ReadEof

\* A call that is at its last chunk has that chunk end where the source does.
LEMMA LastEnds ==
  ASSUME TypeOK, Writing, NEW s \in Stream, enc[s].pc = "loop", IsLast(s)
  PROVE  enc[s].to = size[s]
<1>1. CASE enc[s].eof
  BY <1>1 DEF Writing
<1>2. CASE ReadEof(s, enc[s].to) /\ ReadEnd(s, enc[s].to) = enc[s].to
  <2>1. enc[s].to \in Nat
    BY DEF TypeOK, Writers
  <2> QED
    BY <1>2, <2>1, ReadEndType
<1> QED
  BY <1>1, <1>2 DEF IsLast

LEMMA StartKeeps ==
  ASSUME IInv, NEW s \in Stream, StartEncrypt(s)
  PROVE  IInv'
<1> USE DEF IInv
<1>1. ReadEnd(s, 0) \in Nat /\ ReadEof(s, 0) \in BOOLEAN
      /\ (ReadEof(s, 0) => ReadEnd(s, 0) = size[s])
  BY ReadEndType
<1> DEFINE w == [pc |-> "loop", count |-> 0, from |-> 0, to |-> ReadEnd(s, 0), eof |-> ReadEof(s, 0)]
<1>2. w \in Writers
  BY <1>1 DEF Writers
<1>3. w.pc = "loop" /\ w.count = 0 /\ w.from = 0 /\ (w.eof => w.to = size[s])
  BY <1>1
<1> HIDE DEF w
<1>4. /\ enc' \in [Stream -> Writers] /\ enc'[s] = w
      /\ \A t \in Stream \ {s} : enc'[t] = enc[t]
      /\ size' = size /\ obj' = obj /\ dec' = dec
      /\ enc[s].pc = "new"
  BY <1>2 DEF StartEncrypt, TypeOK, w
<1>5. TypeOK'
  BY <1>4 DEF TypeOK
<1>6. Shape'
  BY <1>4 DEF Shape, EndBefore
<1>7. Writing'
  <2> SUFFICES ASSUME NEW t \in Stream
               PROVE  /\ enc'[t].pc = "new" => obj[t] = <<>>
                      /\ enc'[t].pc = "loop" =>
                           /\ enc'[t].count = Len(obj[t])
                           /\ enc'[t].from = EndBefore(t, Len(obj[t]) + 1)
                           /\ enc'[t].eof => enc'[t].to = size[t]
                      /\ enc'[t].pc = "done" => Len(obj[t]) > 0 /\ obj[t][Len(obj[t])].final
    BY <1>4 DEF Writing, EndBefore
  <2>1. CASE t # s
    BY <1>4, <2>1 DEF Writing
  <2>2. CASE t = s
    <3>1. obj[s] = <<>>
      BY <1>4 DEF Writing
    <3>2. Len(obj[s]) = 0 /\ EndBefore(s, Len(obj[s]) + 1) = 0
      BY <3>1 DEF EndBefore
    <3> QED
      BY <1>3, <1>4, <2>2, <3>2
  <2> QED
    BY <2>1, <2>2
<1>8. Grows
  BY <1>4 DEF Grows, TypeOK
<1>9. obj' \in [Stream -> Seq(Chunks)] /\ \A t \in Stream : enc[t].pc = "done" => enc'[t].pc = "done"
  BY <1>4 DEF TypeOK
<1> QED
  BY <1>4, <1>5, <1>6, <1>7, <1>8, <1>9, ReadingKept, IntactKept

LEMMA StopKeeps ==
  ASSUME IInv, NEW s \in Stream, EncryptFails(s)
  PROVE  IInv'
<1> USE DEF IInv
<1>1. /\ enc' \in [Stream -> Writers] /\ enc'[s].pc = "failed"
      /\ \A t \in Stream \ {s} : enc'[t] = enc[t]
      /\ size' = size /\ obj' = obj /\ dec' = dec
      /\ enc[s].pc = "loop"
  BY DEF EncryptFails, TypeOK, Writers
<1>2. TypeOK'
  BY <1>1 DEF TypeOK
<1>3. Shape'
  BY <1>1 DEF Shape, EndBefore
<1>4. Writing'
  BY <1>1 DEF Writing, EndBefore
<1>5. Grows
  BY <1>1 DEF Grows, TypeOK
<1>6. obj' \in [Stream -> Seq(Chunks)] /\ \A t \in Stream : enc[t].pc = "done" => enc'[t].pc = "done"
  BY <1>1 DEF TypeOK
<1> QED
  BY <1>1, <1>2, <1>3, <1>4, <1>5, <1>6, ReadingKept, IntactKept

LEMMA LastKeeps ==
  ASSUME IInv, NEW s \in Stream, SealLast(s)
  PROVE  IInv'
<1> USE DEF IInv
<1>1. /\ enc[s].pc = "loop" /\ IsLast(s)
      /\ obj' = [obj EXCEPT ![s] = Append(@, InHand(s, TRUE))]
      /\ enc' = [enc EXCEPT ![s].pc = "done"]
      /\ size' = size /\ dec' = dec
  BY DEF SealLast
<1>2. enc[s].to = size[s]
  BY <1>1, LastEnds
<1>3. /\ obj' \in [Stream -> Seq(Chunks)]
      /\ Grows
      /\ Shape'
      /\ Len(obj'[s]) = Len(obj[s]) + 1
      /\ obj'[s][Len(obj[s]) + 1] = InHand(s, TRUE)
      /\ \A t \in Stream \ {s} : obj'[t] = obj[t]
  BY <1>1, <1>2, Sealing
<1>4. /\ enc' \in [Stream -> Writers] /\ enc'[s].pc = "done"
      /\ \A t \in Stream \ {s} : enc'[t] = enc[t]
  BY <1>1 DEF TypeOK, Writers
<1>5. Writing'
  <2>1. InHand(s, TRUE).final
    BY DEF InHand, Sealed, Chunk
  <2>2. Len(obj'[s]) > 0 /\ obj'[s][Len(obj'[s])].final
    <3>1. Len(obj'[s]) > 0
      BY <1>3 DEF TypeOK
    <3>2. obj'[s][Len(obj'[s])] = InHand(s, TRUE)
      BY <1>3
    <3> QED
      BY <2>1, <3>1, <3>2, Zenon
  <2> SUFFICES ASSUME NEW t \in Stream
               PROVE  /\ enc'[t].pc = "new" => obj'[t] = <<>>
                      /\ enc'[t].pc = "loop" =>
                           /\ enc'[t].count = Len(obj'[t])
                           /\ enc'[t].from = EndBefore(t, Len(obj[t]) + 1)'
                           /\ enc'[t].eof => enc'[t].to = size'[t]
                      /\ enc'[t].pc = "done" => Len(obj'[t]) > 0 /\ obj'[t][Len(obj'[t])].final
    BY DEF Writing
  <2>3. CASE t # s
    BY <1>1, <1>3, <1>4, <2>3 DEF Writing, EndBefore
  <2>4. CASE t = s
    BY <1>4, <2>2, <2>4
  <2> QED
    BY <2>3, <2>4
<1>6. TypeOK'
  BY <1>1, <1>3, <1>4 DEF TypeOK
<1>7. \A t \in Stream : enc[t].pc = "done" => enc'[t].pc = "done"
  BY <1>4
<1> QED
  BY <1>1, <1>3, <1>5, <1>6, <1>7, ReadingKept, IntactKept

LEMMA NextKeeps ==
  ASSUME IInv, NEW s \in Stream, SealNext(s)
  PROVE  IInv'
<1> USE DEF IInv
<1> DEFINE w == [pc |-> "loop", count |-> enc[s].count + 1, from |-> enc[s].to,
                 to |-> ReadEnd(s, enc[s].to), eof |-> ReadEof(s, enc[s].to)]
<1>1. /\ enc[s].pc = "loop"
      /\ obj' = [obj EXCEPT ![s] = Append(@, InHand(s, FALSE))]
      /\ size' = size /\ dec' = dec
  BY DEF SealNext
<1>2. /\ obj' \in [Stream -> Seq(Chunks)]
      /\ Grows
      /\ Shape'
      /\ Len(obj'[s]) = Len(obj[s]) + 1
      /\ obj'[s][Len(obj[s]) + 1] = InHand(s, FALSE)
      /\ \A t \in Stream \ {s} : obj'[t] = obj[t]
  BY <1>1, Sealing
<1>3. enc[s] \in Writers /\ enc[s].to \in Nat
  BY DEF TypeOK, Writers
<1>4. ReadEnd(s, enc[s].to) \in Nat /\ ReadEof(s, enc[s].to) \in BOOLEAN
      /\ (ReadEof(s, enc[s].to) => ReadEnd(s, enc[s].to) = size[s])
  BY <1>3, ReadEndType
<1>5. w \in Writers
  BY <1>3, <1>4 DEF Writers
<1>6. w.pc = "loop" /\ w.count = enc[s].count + 1 /\ w.from = enc[s].to
      /\ (w.eof => w.to = size[s])
  BY <1>1, <1>3, <1>4 DEF Writers
<1>7. enc' = [enc EXCEPT ![s] = w]
  BY DEF SealNext
<1> HIDE DEF w
<1>8. /\ enc' \in [Stream -> Writers] /\ enc'[s] = w
      /\ \A t \in Stream \ {s} : enc'[t] = enc[t]
  BY <1>5, <1>7 DEF TypeOK
<1>9. Writing'
  <2>1. InHand(s, FALSE).box.text.to = enc[s].to
    BY DEF InHand, Sealed, Chunk, Box, Text
  <2>2. Len(obj[s]) \in Nat
    BY DEF TypeOK
  <2>3. w.count = Len(obj'[s]) /\ w.from = EndBefore(s, Len(obj[s]) + 1)'
    <3>1. w.count = Len(obj'[s])
      BY <1>1, <1>2, <1>6 DEF Writing
    <3>2. Len(obj'[s]) + 1 # 1 /\ (Len(obj'[s]) + 1) - 1 = Len(obj[s]) + 1
      BY <1>2, <2>2
    <3> QED
      BY <1>2, <1>6, <2>1, <3>1, <3>2 DEF EndBefore
  <2> SUFFICES ASSUME NEW t \in Stream
               PROVE  /\ enc'[t].pc = "new" => obj'[t] = <<>>
                      /\ enc'[t].pc = "loop" =>
                           /\ enc'[t].count = Len(obj'[t])
                           /\ enc'[t].from = EndBefore(t, Len(obj[t]) + 1)'
                           /\ enc'[t].eof => enc'[t].to = size'[t]
                      /\ enc'[t].pc = "done" => Len(obj'[t]) > 0 /\ obj'[t][Len(obj'[t])].final
    BY DEF Writing
  <2>4. CASE t # s
    BY <1>1, <1>2, <1>8, <2>4 DEF Writing, EndBefore
  <2>5. CASE t = s
    BY <1>1, <1>6, <1>8, <2>3, <2>5
  <2> QED
    BY <2>4, <2>5
<1>10. TypeOK'
  BY <1>1, <1>2, <1>8 DEF TypeOK
<1>11. \A t \in Stream : enc[t].pc = "done" => enc'[t].pc = "done"
  BY <1>1, <1>8
<1> QED
  BY <1>1, <1>2, <1>9, <1>10, <1>11, ReadingKept, IntactKept

-----------------------------------------------------------------------------
(* DecryptStream.                                                          *)

\* Reading changes no object.
LEMMA ObjectsStay ==
  ASSUME IInv, UNCHANGED <<size, enc, obj>>, dec' \in Readers
  PROVE  TypeOK' /\ Shape' /\ Writing'
<1>1. TypeOK'
  BY DEF IInv, TypeOK
<1>2. Shape'
  BY DEF IInv, Shape, EndBefore
<1>3. Writing'
  BY DEF IInv, Writing, EndBefore
<1> QED
  BY <1>1, <1>2, <1>3

LEMMA BeginKeeps ==
  ASSUME IInv, NEW k \in Key, NEW s \in Stream, NEW header \in Header, StartDecrypt(k, s, header)
  PROVE  IInv'
<1> DEFINE whole == k = KeyOf[s] /\ header = HeaderOf(s) /\ enc[s].pc = "done"
<1>1. UNCHANGED <<size, enc, obj>>
  BY DEF StartDecrypt
<1>2. dec' = [pc |-> IF header.format = "unknown" THEN "failed" ELSE "read",
              key |-> k, header |-> header, count |-> 0, out |-> <<>>, intact |-> whole]
  BY DEF StartDecrypt
<1>3. whole \in BOOLEAN /\ <<>> \in Seq(Texts) /\ Len(<<>>) = 0
  OBVIOUS
<1>4. whole => k = KeyOf[s] /\ header = HeaderOf(s) /\ enc[s].pc = "done"
  OBVIOUS
<1> HIDE DEF whole
<1>5. dec' \in Readers
  BY <1>2, <1>3 DEF Readers
<1>6. /\ dec'.pc = (IF header.format = "unknown" THEN "failed" ELSE "read")
      /\ dec'.key = k /\ dec'.header = header /\ dec'.count = 0 /\ dec'.out = <<>>
      /\ (dec'.intact => whole)
  BY <1>2
<1>7. header.random \in Stream /\ Len(obj[header.random]) \in Nat
  BY DEF Header, IInv, TypeOK
<1>8. Reading'
  BY <1>1, <1>3, <1>6, <1>7 DEF Reading, Authenticated
<1>9. Intact'
  <2>1. dec'.intact => header.random = s /\ header.format # "unknown"
    BY <1>4, <1>6, HeaderParts
  <2> QED
    BY <1>1, <1>4, <1>6, <1>7, <2>1 DEF Intact
<1> QED
  BY <1>1, <1>5, <1>8, <1>9, ObjectsStay DEF IInv

LEMMA ArrivingIs ==
  ASSUME TypeOK, NEW chunk \in Arriving
  PROVE  \E s \in Stream : \E i \in 1 .. Len(obj[s]) : \E f \in BOOLEAN :
           chunk = Chunk(f, obj[s][i].box) /\ chunk.final = f /\ obj[s][i] \in Chunks
<1>1. PICK s \in Stream : chunk \in {Chunk(final, obj[s][i].box) :
                                      final \in BOOLEAN, i \in 1 .. Len(obj[s])}
  BY DEF Arriving
<1>2. PICK f \in BOOLEAN, i \in 1 .. Len(obj[s]) : chunk = Chunk(f, obj[s][i].box)
  BY <1>1
<1>3. chunk.final = f
  BY <1>2 DEF Chunk
<1>4. obj[s][i] \in Chunks
  BY DEF TypeOK
<1> QED
  BY <1>2, <1>3, <1>4

LEMMA ReaderUpdate ==
  ASSUME NEW d \in Readers, NEW p \in {"read", "done", "failed"}, NEW c \in Nat,
         NEW o \in Seq(Texts), NEW b \in BOOLEAN
  PROVE  [d EXCEPT !.pc = p, !.count = c, !.out = o, !.intact = b] \in Readers
BY DEF Readers

LEMMA TakeKeeps ==
  ASSUME IInv, NEW chunk \in Arriving, TakeChunk(chunk)
  PROVE  IInv'
<1> USE DEF IInv
<1>0. PICK s \in Stream : \E i \in 1 .. Len(obj[s]) : \E f \in BOOLEAN :
        chunk = Chunk(f, obj[s][i].box) /\ chunk.final = f /\ obj[s][i] \in Chunks
  BY ArrivingIs
<1>1. PICK i \in 1 .. Len(obj[s]), f \in BOOLEAN :
        chunk = Chunk(f, obj[s][i].box) /\ chunk.final = f /\ obj[s][i] \in Chunks
  BY <1>0
<1>2. dec.pc = "read" /\ dec \in Readers /\ Opens(chunk)
  BY ReaderType DEF TakeChunk
<1> DEFINE r == dec.header.random
           next == IsNext(chunk)
           ends == chunk.final /\ dec.header.format # "legacy"
           text == chunk.box.text
<1>3. dec' = [dec EXCEPT !.pc = IF ends THEN "done" ELSE "read", !.count = @ + 1,
                         !.out = Append(@, text), !.intact = @ /\ next]
      /\ UNCHANGED <<size, enc, obj>>
  BY DEF TakeChunk
<1>4. text \in Texts /\ text = obj[s][i].box.text
  BY <1>1 DEF Chunk, Chunks, BoxSet, Box
<1> HIDE DEF next, ends, text
<1>5. /\ dec'.pc = (IF ends THEN "done" ELSE "read") /\ dec'.count = dec.count + 1
      /\ dec'.out = Append(dec.out, text) /\ dec'.key = dec.key /\ dec'.header = dec.header
  BY <1>2, <1>3 DEF Readers
<1>6. dec'.intact => dec.intact /\ next
  BY <1>2, <1>3 DEF Readers
<1>7. dec' \in Readers
  <2>1. dec.count + 1 \in Nat /\ Append(dec.out, text) \in Seq(Texts)
    BY <1>2, <1>4 DEF Readers
  <2>2. (dec.intact /\ next) \in BOOLEAN
    OBVIOUS
  <2>3. (IF ends THEN "done" ELSE "read") \in {"read", "done", "failed"}
    OBVIOUS
  <2> QED
    BY <1>2, <1>3, <2>1, <2>2, <2>3, ReaderUpdate
<1>8. r \in Stream /\ dec.count \in Nat /\ dec.out \in Seq(Texts) /\ obj[r] \in Seq(Chunks)
  BY <1>2 DEF Readers, Header, TypeOK
<1>9. Reading'
  <2> SUFFICES ASSUME Authenticated'
               PROVE  /\ dec'.count = Len(dec'.out) /\ Len(dec'.out) <= Len(obj[r])
                      /\ \A j \in 1 .. Len(dec'.out) : dec'.out[j] = obj[r][j].box.text
                      /\ dec'.pc = "done" => Len(dec'.out) > 0 /\ obj[r][Len(dec'.out)].final
    BY <1>3, <1>5 DEF Reading
  <2>1. Authenticated
    BY <1>2, <1>5 DEF Authenticated
  <2>2. s = r /\ i = dec.count + 1 /\ f = obj[s][i].final
    BY <1>1, <1>2, <2>1, OpensOnlyNext
  <2>3. dec.count = Len(dec.out) /\ \A j \in 1 .. Len(dec.out) : dec.out[j] = obj[r][j].box.text
    BY <2>1 DEF Reading
  <2>4. /\ Len(dec'.out) = dec.count + 1 /\ dec'.out[dec.count + 1] = text
        /\ \A j \in 1 .. dec.count : dec'.out[j] = dec.out[j]
    BY <1>4, <1>5, <1>8, <2>3
  <2>5. \A j \in 1 .. Len(dec'.out) : dec'.out[j] = obj[r][j].box.text
    <3>1. \A j \in 1 .. Len(dec'.out) : j \in 1 .. dec.count \/ j = dec.count + 1
      BY <1>8, <2>4
    <3>2. obj[r][dec.count + 1].box.text = text
      BY <1>4, <2>2
    <3> QED
      BY <2>3, <2>4, <3>1, <3>2
  <2>6. dec'.count = Len(dec'.out) /\ Len(dec'.out) <= Len(obj[r]) /\ Len(dec'.out) > 0
    BY <1>5, <1>8, <2>2, <2>4
  <2>7. dec'.pc = "done" => obj[r][Len(dec'.out)].final
    <3>1. dec'.pc = "done" => chunk.final
      BY <1>5 DEF ends
    <3>2. obj[r][Len(dec'.out)] = obj[s][i]
      BY <2>2, <2>4
    <3>3. chunk.final = obj[s][i].final
      BY <1>1, <2>2, Zenon
    <3> QED
      BY <3>1, <3>2, <3>3, Zenon
  <2> QED
    BY <2>5, <2>6, <2>7, Zenon
<1>10. Intact'
  <2> SUFFICES ASSUME dec'.intact
               PROVE  /\ dec'.pc # "failed"
                      /\ dec'.key = KeyOf[r] /\ dec'.header = HeaderOf(r)
                      /\ enc[r].pc = "done"
                      /\ dec'.pc = "read" /\ dec'.header.format # "legacy" =>
                           /\ dec'.count <= Len(obj[r])
                           /\ \A j \in 1 .. dec'.count : ~obj[r][j].final
    BY <1>3, <1>5 DEF Intact
  <2>1. dec.intact /\ dec.count < Len(obj[r]) /\ obj[r][dec.count + 1] = chunk
    BY <1>6 DEF next, IsNext
  <2>2. dec.key = KeyOf[r] /\ dec.header = HeaderOf(r) /\ enc[r].pc = "done"
    BY <1>2, <2>1 DEF Intact
  <2>3. dec'.pc # "failed"
    BY <1>5
  <2>4. ASSUME dec'.pc = "read", dec'.header.format # "legacy"
        PROVE  /\ dec'.count <= Len(obj[r])
               /\ \A j \in 1 .. dec'.count : ~obj[r][j].final
    <3>1. \A j \in 1 .. dec.count : ~obj[r][j].final
      BY <1>2, <1>5, <2>1, <2>4 DEF Intact
    <3>2. ~chunk.final
      BY <1>5, <2>4 DEF ends
    <3>3. ~obj[r][dec.count + 1].final
      BY <2>1, <3>2
    <3>4. dec'.count = dec.count + 1 /\ dec'.count <= Len(obj[r])
      BY <1>5, <1>8, <2>1
    <3>5. \A j \in 1 .. dec'.count : j \in 1 .. dec.count \/ j = dec.count + 1
      BY <1>8, <3>4
    <3> QED
      BY <3>1, <3>3, <3>4, <3>5, Zenon
  <2> QED
    BY <1>5, <2>2, <2>3, <2>4
<1> QED
  BY <1>3, <1>7, <1>9, <1>10, ObjectsStay

\* A reader that stops: with an error, unless it was reading the oldest format; and
\* never with an error while the object is intact.
LEMMA StopKeepsReading ==
  ASSUME IInv, dec.pc = "read", UNCHANGED <<size, enc, obj>>,
         NEW p \in {"done", "failed"}, NEW b \in BOOLEAN,
         dec' = [dec EXCEPT !.pc = p, !.intact = b],
         p = "done" => dec.header.format = "legacy",
         b => dec.intact /\ p = "done"
  PROVE  IInv'
<1> USE DEF IInv
<1>1. dec \in Readers
  BY ReaderType
<1>2. dec' \in Readers
  BY <1>1 DEF Readers
<1>3. /\ dec'.pc = p /\ dec'.key = dec.key /\ dec'.header = dec.header
      /\ dec'.count = dec.count /\ dec'.out = dec.out
  BY <1>1 DEF Readers
<1>4. dec'.intact => b
  BY <1>1 DEF Readers
<1>5. Reading'
  BY <1>3 DEF Reading, Authenticated
<1>6. Intact'
  BY <1>3, <1>4 DEF Intact
<1> QED
  BY <1>2, <1>5, <1>6, ObjectsStay

LEMMA RefuseKeeps ==
  ASSUME IInv, NEW chunk \in Arriving, RefuseChunk(chunk)
  PROVE  IInv'
<1> USE DEF IInv
<1> DEFINE b == dec.intact /\ IsNext(chunk)
           r == dec.header.random
<1>1. /\ dec.pc = "read" /\ ~Opens(chunk) /\ UNCHANGED <<size, enc, obj>>
      /\ dec' = [dec EXCEPT !.pc = "failed", !.intact = b]
  BY DEF RefuseChunk
<1>2. r \in Stream /\ dec.count \in Nat /\ Len(obj[r]) \in Nat
  BY <1>1, ReaderType DEF Readers, Header, TypeOK
<1>3. ASSUME b PROVE FALSE
  <2>1. dec.count < Len(obj[r]) /\ obj[r][dec.count + 1] = chunk
    BY <1>3 DEF IsNext
  <2>2. dec.key = KeyOf[r] /\ dec.header = HeaderOf(r)
    BY <1>1, <1>3 DEF Intact
  <2>3. dec.count + 1 \in 1 .. Len(obj[r]) /\ (dec.count + 1) - 1 = dec.count
    <3>1. \A n, len \in Nat : n < len => n + 1 \in 1 .. len /\ (n + 1) - 1 = n
      OBVIOUS
    <3>2. dec.count < Len(obj[r])
      BY <2>1, Zenon
    <3> QED
      BY <1>2, <3>1, <3>2, Zenon
  <2>4. chunk = Sealed(r, dec.count, chunk.final, chunk.box.text)
    BY <1>2, <2>1, <2>3 DEF Shape
  <2>5. /\ chunk.box.key = AeadKey(KeyOf[r], HeaderOf(r))
        /\ chunk.box.nonce = Nonce(HeaderOf(r), dec.count)
        /\ chunk.box.aad = AAD(HeaderOf(r), chunk.final)
    BY <2>4, SealedParts
  <2>6. Opens(chunk)
    BY <2>2, <2>5 DEF Opens
  <2> QED
    BY <1>1, <2>6
<1>4. b \in BOOLEAN
  OBVIOUS
<1> HIDE DEF b
<1> QED
  BY <1>1, <1>3, <1>4, StopKeepsReading

LEMMA EndKeeps ==
  ASSUME IInv, EndOfInput
  PROVE  IInv'
<1> USE DEF IInv
<1> DEFINE r == dec.header.random
           b == dec.intact /\ dec.header.format # "legacy" /\ dec.count = Len(obj[r])
<1>1. /\ dec.pc = "read" /\ UNCHANGED <<size, enc, obj>>
      /\ dec' = [dec EXCEPT !.pc = "failed", !.intact = b]
  BY DEF EndOfInput
<1>2. r \in Stream /\ dec.count \in Nat
  BY <1>1, ReaderType DEF Readers, Header
<1>3. ASSUME b PROVE FALSE
  <2>1. enc[r].pc = "done" /\ \A i \in 1 .. dec.count : ~obj[r][i].final
    BY <1>1, <1>3 DEF Intact
  <2>2. Len(obj[r]) > 0 /\ obj[r][Len(obj[r])].final
    BY <1>2, <2>1 DEF Writing
  <2>3. Len(obj[r]) \in 1 .. dec.count
    BY <1>2, <1>3, <2>2
  <2> QED
    BY <2>1, <2>2, <2>3
<1>4. b \in BOOLEAN
  OBVIOUS
<1> HIDE DEF b
<1> QED
  BY <1>1, <1>3, <1>4, StopKeepsReading

LEMMA ZeroKeeps ==
  ASSUME IInv, ZeroLength
  PROVE  IInv'
<1> DEFINE p == IF dec.header.format = "legacy" THEN "done" ELSE "failed"
           b == dec.intact /\ dec.header.format = "legacy" /\ dec.count = Len(obj[dec.header.random])
<1>1. /\ dec.pc = "read" /\ UNCHANGED <<size, enc, obj>>
      /\ dec' = [dec EXCEPT !.pc = p, !.intact = b]
  BY DEF ZeroLength
<1>2. /\ p \in {"done", "failed"} /\ b \in BOOLEAN
      /\ p = "done" => dec.header.format = "legacy"
      /\ b => dec.intact /\ p = "done"
  OBVIOUS
<1> HIDE DEF p, b
<1> QED
  BY <1>1, <1>2, StopKeepsReading

-----------------------------------------------------------------------------
(* The invariant, and what follows from it.                                *)

LEMMA InitEstablishes == Init => IInv
<1> SUFFICES ASSUME Init PROVE IInv
  OBVIOUS
<1>1. TypeOK
  <2>1. size \in [Stream -> Nat]
    BY SizeAssumption DEF Init
  <2>2. [pc |-> "new", count |-> 0, from |-> 0, to |-> 0, eof |-> FALSE] \in Writers
    BY DEF Writers
  <2>3. enc \in [Stream -> Writers]
    BY <2>2 DEF Init
  <2>4. obj \in [Stream -> Seq(Chunks)] /\ dec = [pc |-> "idle"]
    BY DEF Init
  <2> QED
    BY <2>1, <2>3, <2>4 DEF TypeOK
<1>2. \A s \in Stream : obj[s] = <<>> /\ Len(obj[s]) = 0 /\ enc[s].pc = "new"
  BY DEF Init
<1>3. Shape /\ Writing
  BY <1>2 DEF Shape, Writing
<1>4. dec.pc = "idle"
  BY DEF Init
<1>5. Reading /\ Intact
  BY <1>4 DEF Reading, Intact, Authenticated
<1> QED
  BY <1>1, <1>3, <1>5 DEF IInv

LEMMA StepPreserves == IInv /\ [Next]_vars => IInv'
<1> SUFFICES ASSUME IInv, [Next]_vars PROVE IInv'
  OBVIOUS
<1>1. CASE \E s \in Stream : Encrypt(s)
  BY <1>1, StartKeeps, LastKeeps, NextKeeps, StopKeeps DEF Encrypt
<1>2. CASE \E k \in Key, s \in Stream, header \in Header : StartDecrypt(k, s, header)
  BY <1>2, BeginKeeps
<1>3. CASE \E chunk \in Arriving : TakeChunk(chunk) \/ RefuseChunk(chunk)
  BY <1>3, TakeKeeps, RefuseKeeps
<1>4. CASE EndOfInput
  BY <1>4, EndKeeps
<1>5. CASE ZeroLength
  BY <1>5, ZeroKeeps
<1>6. CASE UNCHANGED vars
  <2>1. TypeOK'
    BY <1>6 DEF IInv, vars, TypeOK
  <2>2. Shape'
    BY <1>6 DEF IInv, vars, Shape, EndBefore
  <2>3. Writing'
    BY <1>6 DEF IInv, vars, Writing, EndBefore
  <2>4. Reading' /\ Intact'
    BY <1>6 DEF IInv, vars, Reading, Intact, Authenticated
  <2> QED
    BY <2>1, <2>2, <2>3, <2>4 DEF IInv
<1> QED
  BY <1>1, <1>2, <1>3, <1>4, <1>5, <1>6 DEF Next, Decrypt

LEMMA Invariance == Spec => []IInv
BY InitEstablishes, StepPreserves, PTL DEF Spec

(* Under one data key, however many streams it is used for and whatever    *)
(* the older ones drew, no two chunks of the present format share a key    *)
(* and a nonce (deriveStreamKey, streamNonce).                             *)
THEOREM NoncesAreUsedOnce == Spec => []NonceUsedOnce
<1>1. ASSUME IInv, NEW s \in Stream, Format[s] = "hkdf", NEW i \in 1 .. Len(obj[s]),
             NEW t \in Stream, NEW j \in 1 .. Len(obj[t]),
             obj[t][j].box.key = obj[s][i].box.key, obj[t][j].box.nonce = obj[s][i].box.nonce
      PROVE  obj[t][j].box = obj[s][i].box
  <2>1. /\ obj[s][i] = Sealed(s, i - 1, obj[s][i].final, obj[s][i].box.text)
        /\ obj[t][j] = Sealed(t, j - 1, obj[t][j].final, obj[t][j].box.text)
    BY <1>1 DEF IInv, Shape
  <2>2. /\ obj[s][i].box.key = AeadKey(KeyOf[s], HeaderOf(s))
        /\ obj[t][j].box.key = AeadKey(KeyOf[t], HeaderOf(t))
        /\ obj[s][i].box.nonce = Nonce(HeaderOf(s), i - 1)
        /\ obj[t][j].box.nonce = Nonce(HeaderOf(t), j - 1)
    BY <2>1, SealedParts
  <2>3. AeadKey(KeyOf[s], HeaderOf(s)) = <<KeyOf[s], s>>
    BY <1>1, HeaderParts DEF AeadKey, deriveStreamKey
  <2>4. AeadKey(KeyOf[t], HeaderOf(t)) = IF Format[t] = "hkdf" THEN <<KeyOf[t], t>> ELSE <<KeyOf[t]>>
    BY HeaderParts DEF AeadKey, deriveStreamKey
  <2>5. t = s
    BY <1>1, <2>2, <2>3, <2>4
  <2>6. i = j
    <3>1. Nonce(HeaderOf(s), i - 1) = Nonce(HeaderOf(s), j - 1)
      BY <1>1, <2>2, <2>5
    <3>2. i - 1 = j - 1
      BY <3>1, NonceCounts
    <3> QED
      BY <3>2
  <2> QED
    BY <2>5, <2>6
<1>2. IInv => NonceUsedOnce
  BY <1>1 DEF NonceUsedOnce, Boxes
<1> QED
  BY Invariance, <1>2, PTL

(* Whatever becomes of the chunks on their way, what DecryptStream has     *)
(* written out is a beginning of the one source, without gaps (chunkAAD    *)
(* and the nonces of readSealedChunks).                                    *)
THEOREM OutputIsAPrefix == Spec => []OnlyPrefix
<1>1. ASSUME IInv, Authenticated, NEW i \in 1 .. Len(dec.out)
      PROVE  /\ dec.out[i].of = dec.header.random
             /\ dec.out[i].from = IF i = 1 THEN 0 ELSE dec.out[i - 1].to
  <2> DEFINE r == dec.header.random
  <2>1. r \in Stream /\ Len(dec.out) \in Nat /\ Len(obj[r]) \in Nat
    BY <1>1, ReaderType DEF IInv, TypeOK, Authenticated, Readers, Header
  <2>2. /\ Len(dec.out) <= Len(obj[r])
        /\ \A j \in 1 .. Len(dec.out) : dec.out[j] = obj[r][j].box.text
    BY <1>1 DEF IInv, Reading
  <2>3. i \in 1 .. Len(obj[r]) /\ (i # 1 => i - 1 \in 1 .. Len(dec.out))
    BY <2>1, <2>2
  <2>4. obj[r][i].box.text.of = r /\ obj[r][i].box.text.from = EndBefore(r, i)
    BY <1>1, <2>1, <2>3 DEF IInv, Shape
  <2>5. dec.out[i] = obj[r][i].box.text /\ (i # 1 => dec.out[i - 1] = obj[r][i - 1].box.text)
    BY <2>2, <2>3
  <2> QED
    BY <2>4, <2>5 DEF EndBefore
<1>2. IInv => OnlyPrefix
  BY <1>1 DEF OnlyPrefix
<1> QED
  BY Invariance, <1>2, PTL

(* DecryptStream reports success only when all of the source is out: an    *)
(* object cut short at a chunk boundary is noticed.                        *)
THEOREM SuccessIsTheWhole == Spec => []DoneIsWhole
<1>1. ASSUME IInv, Authenticated, dec.pc = "done"
      PROVE  Len(dec.out) > 0 /\ dec.out[Len(dec.out)].to = size[dec.header.random]
  <2> DEFINE r == dec.header.random
             n == Len(dec.out)
  <2>1. r \in Stream /\ n \in Nat /\ Len(obj[r]) \in Nat
    BY <1>1, ReaderType DEF IInv, TypeOK, Authenticated, Readers, Header
  <2>2. n > 0 /\ obj[r][n].final /\ n <= Len(obj[r])
    BY <1>1 DEF IInv, Reading
  <2>3. dec.out[n] = obj[r][n].box.text
    BY <1>1, <2>1, <2>2 DEF IInv, Reading
  <2>4. obj[r][n].box.text.to = size[r]
    BY <1>1, <2>1, <2>2 DEF IInv, Shape
  <2> QED
    BY <2>2, <2>3, <2>4
<1>2. IInv => DoneIsWhole
  BY <1>1 DEF DoneIsWhole
<1> QED
  BY Invariance, <1>2, PTL

(* An object that arrives as EncryptStream wrote it is never refused, in   *)
(* any format and for any size, whole chunks and none included.            *)
THEOREM IntactObjectsOpen == Spec => []IntactOpens
<1>1. IInv => IntactOpens
  BY DEF IInv, Intact, IntactOpens
<1> QED
  BY Invariance, <1>1, PTL
=============================================================================
