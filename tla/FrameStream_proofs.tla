-------------------------- MODULE FrameStream_proofs -------------------------
(***************************************************************************)
(* Proofs about FrameStream, for all sets of frames, any number of them and *)
(* every limit on a payload: reader and writer never get out of step unless *)
(* a write gave up half way, and what is delivered is what was sent, whole,  *)
(* once and in order.                                                      *)
(***************************************************************************)
EXTENDS FrameStream, Frame_proofs

USE FrameStreamAssumption

-----------------------------------------------------------------------------
(***************************************************************************)
(* The invariant.  While the connection is up and reader and writer are in  *)
(* step, the wire holds, in order, the frames that were sent and not yet    *)
(* delivered, but for the part of the first one's header that is in the      *)
(* buffer, and then, perhaps, one that was cut and whatever followed it.    *)
(***************************************************************************)
Full(f) == Len(HeaderSent(f))

(* The part of the i-th frame on the wire that has been read.               *)
Done(i) == IF i = 1 THEN Len(buffer) ELSE 0

(* The packet p holds the frame f from the done-th byte on, whole ...       *)
Carries(p, f, done) ==
    /\ p.header = SubSeq(HeaderSent(f), done + 1, Full(f))
    /\ p.length = f.length
    /\ p.key = f.key

(* ... or so little of it that its end never comes.                        *)
CutShort(p, f, done) ==
    \E k \in done .. Full(f) :
        /\ p.header = SubSeq(HeaderSent(f), done + 1, k)
        /\ k < Full(f) \/ p.length < f.length

(* The buffer and the awaited size are those of a reader of f.              *)
Reading(f) ==
    /\ Len(buffer) <= Full(f)
    /\ buffer = SubSeq(HeaderSent(f), 1, Len(buffer))
    /\ \/ size \in {0, 2} /\ buffer = <<>>
       \/ size = NoHeader /\ Len(buffer) = Full(f) /\ f.length > 0
       \/ Len(buffer) >= 2 /\ size \in Len(buffer) + 1 .. Full(f)

(* After m whole frames the wire ends, or the cut one follows.              *)
Aligned(m) ==
    /\ Len(delivered) + m <= Len(sent)
    /\ \A i \in 1 .. m : Carries(wire[i], sent[Len(delivered) + i], Done(i))
    /\ m > 0 => Reading(sent[Len(delivered) + 1])
    /\ ~cut => m = Len(wire) /\ Len(delivered) + m = Len(sent)
    /\ ~cut /\ m = 0 => size = 0 /\ buffer = <<>>
    /\ cut => m < Len(wire) /\ \E f \in FramesSent :
                  CutShort(wire[m + 1], f, Done(m + 1)) /\ (m = 0 => Reading(f))

Inv ==
    /\ TypeOK
    /\ sent \in Seq(FramesSent)
    /\ ~inStep => cut
    /\ up /\ inStep => \E m \in 0 .. Len(wire) : Aligned(m)

-----------------------------------------------------------------------------
(* Headers and their prefixes.                                             *)

LEMMA HeaderFacts ==
    ASSUME NEW f \in Frames
    PROVE  /\ HeaderSent(f) = CreateHeader(f)
           /\ HeaderSent(f) \in Seq(Bytes)
           /\ Full(f) = HeaderSize(f.length, f.mask)
           /\ Full(f) \in {2, 4, 6, 8, 10, 14}
<1>1. /\ CreateHeader(f) \in Seq(Bytes)
      /\ Len(CreateHeader(f)) = HeaderSize(f.length, f.mask)
  BY HeaderFits, Zenon
<1>2. SubSeq(CreateHeader(f), 1, Len(CreateHeader(f))) = CreateHeader(f)
  BY <1>1, SubSeqFull, Zenon
<1>3. HeaderSent(f) = CreateHeader(f)
  BY <1>1, <1>2, Zenon DEF HeaderSent
<1>4. HeaderSize(f.length, f.mask) \in {2, 4, 6, 8, 10, 14}
  BY SMT DEF HeaderSize
<1> QED BY <1>1, <1>3, <1>4, Zenon DEF Full

(* A reader that has two bytes of f's header knows how long it is, and one  *)
(* that has the whole header knows f.                                       *)
LEMMA PrefixRead ==
    ASSUME NEW f \in Frames, NEW n \in 2 .. Full(f), NEW b,
           b = SubSeq(HeaderSent(f), 1, n)
    PROVE  /\ b \in Seq(Bytes) /\ Len(b) = n
           /\ LengthEnd(b) \in {2, 4, 10} /\ LengthEnd(b) <= Full(f)
           /\ HeaderEnd(b) = Full(f)
           /\ n = Full(f) => /\ Decoded(b) = f
                             /\ PayloadLen(b) = f.length
                             /\ MaskKey(b) = f.key
<1> DEFINE h == HeaderSent(f)
<1>1. /\ h = CreateHeader(f) /\ h \in Seq(Bytes)
      /\ Full(f) = HeaderSize(f.length, f.mask)
      /\ Full(f) \in {2, 4, 6, 8, 10, 14} /\ Full(f) = Len(h)
  BY HeaderFacts, Zenon DEF Full
<1>2. h[2] = Bit7(f.mask) + Field7(f.length)
  BY <1>1, HeaderParts, Zenon
<1> HIDE DEF h
<1>3. b = SubSeq(h, 1, n)
  BY DEF h
<1>4. b \in Seq(Bytes) /\ Len(b) = n /\ b[2] = h[2]
  BY <1>1, <1>3, SMT
<1>5. /\ Masked(b) = f.mask
      /\ LengthEnd(b) = 2 + Len(LengthBytes(f.length))
      /\ HeaderEnd(b) = HeaderSize(f.length, f.mask)
  BY <1>2, <1>4, PartsRead, Zenon
<1>6. LengthEnd(b) \in {2, 4, 10} /\ LengthEnd(b) <= HeaderEnd(b)
  BY SMT DEF LengthEnd, HeaderEnd
<1>7. ASSUME n = Full(f)
      PROVE  Decoded(b) = f /\ PayloadLen(b) = f.length /\ MaskKey(b) = f.key
  <2>1. b = CreateHeader(f)
    BY <1>1, <1>3, <1>7, SubSeqFull, Zenon
  <2>2. Decoded(b) = f
    BY <2>1, RoundTrip, Zenon
  <2>3. Decoded(b).length = PayloadLen(b) /\ Decoded(b).key = MaskKey(b)
    BY SMT DEF Decoded
  <2> QED BY <2>2, <2>3, Zenon
<1> QED BY <1>1, <1>4, <1>5, <1>6, <1>7, SMT

(* Reading n of the bytes on their way to a reader that has d.              *)
LEMMA BytesMove ==
    ASSUME NEW h \in Seq(Bytes), NEW d \in Nat, NEW k \in Nat, NEW n \in Nat \ {0},
           d + n <= k, k <= Len(h), NEW p, p = SubSeq(h, d + 1, k)
    PROVE  /\ Len(p) = k - d
           /\ SubSeq(h, 1, d) \o SubSeq(p, 1, n) = SubSeq(h, 1, d + n)
           /\ SubSeq(p, n + 1, Len(p)) = SubSeq(h, d + n + 1, k)
<1> HIDE DEF Bytes
<1>1. Len(h) \in Nat /\ d + 1 \in 1 .. Len(h) /\ k \in 1 .. Len(h)
  BY LenProperties, SMT
<1>2. p \in Seq(Bytes) /\ Len(p) = k - d
  BY <1>1, SMT
<1>3. SubSeq(p, 1, n) = SubSeq(h, d + 1, d + n)
  BY <1>1, SMT
<1>4. SubSeq(h, 1, d) \o SubSeq(h, d + 1, d + n) = SubSeq(h, 1, d + n)
  <2>1. 1 \in 1 .. Len(h) + 1 /\ d \in 1 - 1 .. Len(h) /\ d + n \in d .. Len(h)
    BY <1>1, SMT
  <2> QED BY <2>1, ConcatAdjacentSubSeq, Zenon
<1>5. SubSeq(p, n + 1, k - d) = SubSeq(h, d + n + 1, k)
  <2>1. CASE d + n = k
    <3>1. SubSeq(p, n + 1, k - d) = <<>>
      <4>1. n + 1 \in Int /\ k - d \in Int /\ k - d < n + 1
        BY <2>1, SMT
      <4> QED BY <4>1, SubSeqEmpty, Zenon
    <3>2. SubSeq(h, d + n + 1, k) = <<>>
      <4>1. d + n + 1 \in Int /\ k \in Int /\ k < d + n + 1
        BY <2>1, SMT
      <4> QED BY <4>1, SubSeqEmpty, Zenon
    <3> QED BY <3>1, <3>2, Zenon
  <2>2. CASE d + n < k
    BY <2>2, <1>1, SMT
  <2> QED BY <2>1, <2>2, SMT
<1> QED BY <1>2, <1>3, <1>4, <1>5, Zenon

-----------------------------------------------------------------------------
(* The first packet on the wire.                                           *)

(* It holds the bytes of f's header from those in the buffer to the k-th.   *)
First(f, k) ==
    /\ Reading(f)
    /\ k \in Len(buffer) .. Full(f)
    /\ Head(wire).header = SubSeq(HeaderSent(f), Len(buffer) + 1, k)

(* It is whole, and so are m - 1 more; or it is the cut one.                *)
Whole(f, m, k) ==
    /\ m > 0
    /\ f = sent[Len(delivered) + 1]
    /\ k = Full(f)
    /\ Head(wire).length = f.length
    /\ Head(wire).key = f.key

Cut(f, m, k) ==
    /\ m = 0
    /\ cut
    /\ k < Full(f) \/ Head(wire).length < f.length

LEMMA Types ==
    ASSUME Inv
    PROVE  /\ Len(wire) \in Nat /\ Len(buffer) \in 0 .. 14
           /\ Len(delivered) \in Nat /\ Len(sent) \in Nat
           /\ delivered \in Seq(Frames) /\ sent \in Seq(Frames)
           /\ sent \in Seq(FramesSent) /\ wire \in Seq(Packets) /\ buffer \in Seq(Bytes)
           /\ size \in {NoHeader, 0, 2, 4, 6, 8, 10, 14}
<1>1. TypeOK /\ sent \in Seq(FramesSent)
  BY Zenon DEF Inv
<1>2. /\ wire \in Seq(Packets) /\ buffer \in Seq(Bytes) /\ Len(buffer) <= MaxHeaderSize
      /\ delivered \in Seq(Frames) /\ sent \in Seq(Frames)
  BY <1>1, SMT DEF TypeOK
<1>3. size \in {NoHeader, 0, 2, 4, 6, 8, 10, 14}
  BY <1>1, SMT DEF TypeOK
<1>4. Len(wire) \in Nat
  BY <1>2, LenProperties, Zenon
<1>5. Len(buffer) \in Nat
  BY <1>2, LenProperties, Zenon
<1>6. Len(delivered) \in Nat
  BY <1>2, LenProperties, Zenon
<1>7. Len(sent) \in Nat
  BY <1>2, LenProperties, Zenon
<1>8. Len(buffer) <= MaxHeaderSize
  BY <1>2, Zenon
<1>9. Len(buffer) \in 0 .. 14
  <2> DEFINE n == Len(buffer)
  <2> HIDE DEF n
  <2>1. n \in Nat /\ n <= MaxHeaderSize
    BY <1>5, <1>8 DEF n
  <2>2. n \in 0 .. 14
    BY <2>1, SMT DEF MaxHeaderSize
  <2> QED BY <2>2 DEF n
<1> HIDE DEF NoHeader
<1> QED BY <1>1, <1>2, <1>3, <1>4, <1>6, <1>7, <1>9, SMT

LEMMA FramesSentFull ==
    ASSUME NEW f \in FramesSent
    PROVE  /\ f \in Frames
           /\ Full(f) \in {2, 4, 6, 8, 10, 14}
           /\ HeaderSent(f) \in Seq(Bytes)
           /\ Len(HeaderSent(f)) = Full(f)
BY HeaderFacts, Zenon DEF Full

LEMMA FirstPacket ==
    ASSUME Inv, up, inStep, wire # <<>>
    PROVE  \E f \in FramesSent, m \in 0 .. Len(wire), k \in 0 .. 14 :
               Aligned(m) /\ First(f, k) /\ (Whole(f, m, k) \/ Cut(f, m, k))
<1>1. PICK m \in 0 .. Len(wire) : Aligned(m)
  BY Zenon DEF Inv
<1>2. Len(wire) \in Nat \ {0} /\ Head(wire) = wire[1]
  BY Types, EmptySeq, SMT
<1>3. CASE m > 0
  <2> DEFINE f == sent[Len(delivered) + 1]
  <2>1. f \in FramesSent
    BY <1>1, <1>2, <1>3, Types, ElementOfSeq, SMT DEF Aligned
  <2>2. Carries(wire[1], f, Len(buffer)) /\ Reading(f)
    BY <1>1, <1>2, <1>3, Types, SMT DEF Aligned, Done
  <2> HIDE DEF f
  <2>3. Len(buffer) \in 0 .. Full(f) /\ Full(f) \in {2, 4, 6, 8, 10, 14}
    BY <2>1, <2>2, Types, FramesSentFull, SMT DEF Reading
  <2>4. First(f, Full(f)) /\ Whole(f, m, Full(f))
    BY <1>2, <1>3, <2>2, <2>3, SMT DEF First, Whole, Carries, f
  <2>5. Full(f) \in 0 .. 14
    BY <2>3, SMT
  <2> QED BY <1>1, <2>1, <2>4, <2>5, Zenon
<1>4. CASE m = 0
  <2>1. cut
    BY <1>1, <1>2, <1>4, SMT DEF Aligned
  <2>2. PICK f \in FramesSent : CutShort(wire[1], f, Len(buffer)) /\ Reading(f)
    <3>1. m + 1 = 1
      BY <1>4, SMT
    <3> QED BY <1>1, <1>4, <2>1, <3>1, Zenon DEF Aligned, Done
  <2>3. PICK k \in Len(buffer) .. Full(f) :
            /\ wire[1].header = SubSeq(HeaderSent(f), Len(buffer) + 1, k)
            /\ k < Full(f) \/ wire[1].length < f.length
    BY <2>2, Zenon DEF CutShort
  <2>4. First(f, k) /\ Cut(f, m, k)
    BY <1>2, <1>4, <2>1, <2>2, <2>3, Zenon DEF First, Cut
  <2>5. k \in 0 .. 14
    <3>1. Full(f) \in {2, 4, 6, 8, 10, 14} /\ Len(buffer) \in 0 .. 14
      BY Types, FramesSentFull, Zenon
    <3> QED BY <3>1, SMT
  <2> QED BY <1>1, <2>4, <2>5, Zenon
<1> QED BY <1>1, <1>3, <1>4, SMT

-----------------------------------------------------------------------------
(* The two things the reader does to what is on the wire.                  *)

LEMMA FirstRead ==
    ASSUME NEW f, NEW k, First(f, k)
    PROVE  Reading(f) /\ k \in Len(buffer) .. Full(f)
BY Zenon DEF First

(* It takes the bytes of the first packet's header up to the s-th ...       *)
LEMMA Advanced ==
    ASSUME Inv, wire # <<>>, wire \in Seq(Packets), wire' \in Seq(Packets),
           NEW f \in FramesSent, NEW m \in 0 .. Len(wire), NEW k \in 0 .. 14,
           NEW s \in 0 .. 14, s <= k, k <= Full(f),
           Aligned(m), Whole(f, m, k) \/ Cut(f, m, k),
           Len(wire') = Len(wire),
           wire'[1].header = SubSeq(HeaderSent(f), s + 1, k),
           wire'[1].length = Head(wire).length,
           wire'[1].key = Head(wire).key,
           \A i \in 2 .. Len(wire) : wire'[i] = wire[i],
           Len(buffer') = s, Reading(f)',
           UNCHANGED <<delivered, sent, cut>>
    PROVE  Aligned(m)'
<1>1. Len(wire) \in Nat \ {0} /\ Len(delivered) \in Nat /\ Len(sent) \in Nat
  BY Types, EmptySeq, SMT
<1>2. Full(f) \in 0 .. 14
  BY FramesSentFull, SMT
<1>3. Done(1)' = s /\ \A i \in 2 .. Len(wire) + 1 : Done(i)' = 0 /\ Done(i) = 0
  BY <1>1, SMT DEF Done
<1>4. Len(delivered') + m <= Len(sent')
  BY Zenon DEF Aligned
<1>5. ASSUME NEW i \in 1 .. m
      PROVE  Carries(wire'[i], sent'[Len(delivered') + i], Done(i)')
  <2>1. Whole(f, m, k)
    BY <1>5, <1>1, SMT DEF Cut
  <2>2. CASE i = 1
    <3>1. sent'[Len(delivered') + i] = f /\ k = Full(f)
      BY <2>1, <2>2, Zenon DEF Whole
    <3>2. Carries(wire'[1], f, s)
      BY <2>1, <3>1, Zenon DEF Carries, Whole
    <3> QED BY <2>2, <3>1, <3>2, <1>3, Zenon
  <2>3. CASE i # 1
    <3>1. i \in 2 .. Len(wire)
      BY <1>1, <1>5, <2>3, SMT
    <3>2. Carries(wire[i], sent[Len(delivered) + i], Done(i))
      BY <1>5, Zenon DEF Aligned
    <3>3. Done(i)' = Done(i)
      BY <3>1, <1>1, SMT DEF Done
    <3> QED BY <3>1, <3>2, <3>3, Zenon
  <2> QED BY <2>2, <2>3
<1>6. m > 0 => Reading(sent[Len(delivered) + 1])'
  <2>1. ASSUME m > 0 PROVE sent[Len(delivered) + 1] = f
    BY <2>1, SMT DEF Whole, Cut
  <2>2. ASSUME m > 0 PROVE sent'[Len(delivered') + 1] = f
    BY <2>1, <2>2
  <2> QED BY <2>2, Zenon
<1>7. ~cut' => m = Len(wire') /\ Len(delivered') + m = Len(sent')
  BY Zenon DEF Aligned
<1>8. ~cut' /\ m = 0 => size' = 0 /\ buffer' = <<>>
  BY SMT DEF Whole, Cut
<1>9. ASSUME cut' PROVE m < Len(wire')
  BY <1>9, Zenon DEF Aligned
<1>10. ASSUME cut'
       PROVE  \E g \in FramesSent : CutShort(wire'[m + 1], g, Done(m + 1)') /\ (m = 0 => Reading(g)')
  <2>1. CASE m = 0
    <3>1. k < Full(f) \/ wire'[1].length < f.length
      BY <2>1, SMT DEF Whole, Cut
    <3>2. k \in s .. Full(f)
      BY <1>2, SMT
    <3>3. CutShort(wire'[1], f, s)
      BY <3>1, <3>2, Zenon DEF CutShort
    <3>4. m + 1 = 1
      BY <2>1, SMT
    <3> QED BY <2>1, <3>3, <3>4, <1>3, Zenon
  <2>2. CASE m # 0
    <3>1. m + 1 \in 2 .. Len(wire)
      BY <2>2, <1>1, <1>10, <1>9, SMT
    <3>2. PICK g \in FramesSent : CutShort(wire[m + 1], g, Done(m + 1))
      BY <1>10, Zenon DEF Aligned
    <3>3. Done(m + 1)' = Done(m + 1)
      BY <3>1, <1>1, SMT DEF Done
    <3>4. CutShort(wire'[m + 1], g, Done(m + 1)')
      BY <3>1, <3>2, <3>3, Zenon
    <3> QED BY <2>2, <3>4, Zenon
  <2> QED BY <2>1, <2>2
<1> QED BY <1>4, <1>5, <1>6, <1>7, <1>8, <1>9, <1>10, Zenon DEF Aligned

LEMMA ReadingFresh ==
    ASSUME NEW f \in FramesSent, buffer' = <<>>, size' \in {0, 2}
    PROVE  Reading(f)'
<1>1. HeaderSent(f) \in Seq(Bytes) /\ Full(f) \in {2, 4, 6, 8, 10, 14}
  BY FramesSentFull, Zenon
<1>2. Len(buffer') = 0
  BY SMT
<1>3. SubSeq(HeaderSent(f), 1, 0) = <<>>
  <2>1. 1 \in Int /\ 0 \in Int /\ 0 < 1
    BY SMT
  <2> QED BY <2>1, SubSeqEmpty, Zenon
<1>4. buffer' = SubSeq(HeaderSent(f), 1, Len(buffer'))
  BY <1>2, <1>3, Zenon
<1>5. Len(buffer') <= Full(f)
  BY <1>1, <1>2, SMT
<1> QED BY <1>4, <1>5, Zenon DEF Reading

(* ... or the whole of the first packet, and delivers its frame.            *)
LEMMA Popped ==
    ASSUME Inv, wire # <<>>, wire \in Seq(Packets),
           NEW f \in FramesSent, NEW m \in 0 .. Len(wire), NEW k \in 0 .. 14,
           Aligned(m), Whole(f, m, k),
           wire' = Tail(wire),
           delivered' = Append(delivered, f), buffer' = <<>>, size' = 0,
           UNCHANGED <<sent, cut>>
    PROVE  Aligned(m - 1)'
<1>1. /\ Len(wire) \in Nat \ {0} /\ Len(delivered) \in Nat /\ Len(sent) \in Nat
      /\ sent \in Seq(FramesSent) /\ delivered \in Seq(Frames)
  BY Types, EmptySeq, SMT
<1>2. m \in 1 .. Len(wire)
  BY <1>1, SMT DEF Whole
<1>3. Len(wire') = Len(wire) - 1 /\ \A i \in 1 .. Len(wire) - 1 : wire'[i] = wire[i + 1]
  BY <1>1, HeadTailProperties, Zenon
<1>4. Len(delivered') = Len(delivered) + 1
  <2>1. f \in Frames
    BY FramesSentFull, Zenon
  <2>2. Len(Append(delivered, f)) = Len(delivered) + 1
    BY <2>1, <1>1, AppendProperties, Zenon
  <2> QED BY <2>2
<1>5. \A i \in Nat \ {0} : Done(i)' = 0 /\ Done(i + 1) = 0
  BY SMT DEF Done
<1>6. /\ Len(delivered) + m <= Len(sent)
      /\ \A i \in 1 .. m : Carries(wire[i], sent[Len(delivered) + i], Done(i))
      /\ ~cut => m = Len(wire) /\ Len(delivered) + m = Len(sent)
      /\ cut => m < Len(wire) /\ \E g \in FramesSent : CutShort(wire[m + 1], g, Done(m + 1))
  BY Zenon DEF Aligned
<1>7. Len(delivered') + (m - 1) <= Len(sent')
  BY <1>1, <1>2, <1>4, <1>6, SMT
<1>8. ASSUME NEW i \in 1 .. m - 1
      PROVE  Carries(wire'[i], sent'[Len(delivered') + i], Done(i)')
  <2>1. i + 1 \in 1 .. m /\ i \in 1 .. Len(wire) - 1 /\ i \in Nat \ {0}
    BY <1>1, <1>2, SMT
  <2>2. Carries(wire[i + 1], sent[Len(delivered) + (i + 1)], Done(i + 1))
    BY <2>1, <1>6, Zenon
  <2>3. Len(delivered') + i = Len(delivered) + (i + 1)
    BY <1>1, <1>4, <2>1, SMT
  <2>4. Done(i)' = Done(i + 1)
    BY <1>5, <2>1, Zenon
  <2>5. wire'[i] = wire[i + 1]
    BY <1>3, <2>1, Zenon
  <2> QED BY <2>2, <2>3, <2>4, <2>5, Zenon
<1>9. m - 1 > 0 => Reading(sent[Len(delivered) + 1])'
  <2>1. ASSUME m - 1 > 0 PROVE sent'[Len(delivered') + 1] \in FramesSent
    BY <2>1, <1>1, <1>2, <1>4, <1>6, ElementOfSeq, SMT
  <2> DEFINE g == sent'[Len(delivered') + 1]
  <2>2. ASSUME NEW h \in FramesSent PROVE Reading(h)'
    <3>1. size' \in {0, 2}
      OBVIOUS
    <3> QED BY <3>1, ReadingFresh, Zenon
  <2> QED BY <2>1, <2>2, Zenon DEF Reading
<1>10. ASSUME ~cut' PROVE m - 1 = Len(wire') /\ Len(delivered') + (m - 1) = Len(sent')
  <2>1. m = Len(wire) /\ Len(delivered) + m = Len(sent)
    BY <1>6, <1>10, Zenon
  <2>2. Len(sent') = Len(sent)
    OBVIOUS
  <2> QED BY <2>1, <2>2, <1>1, <1>2, <1>3, <1>4, SMT
<1>11. ~cut' /\ m - 1 = 0 => size' = 0 /\ buffer' = <<>>
  OBVIOUS
<1>12. ASSUME cut' PROVE m - 1 < Len(wire')
  BY <1>1, <1>2, <1>3, <1>6, <1>12, SMT
<1>13. ASSUME cut'
       PROVE  \E g \in FramesSent :
                 CutShort(wire'[(m - 1) + 1], g, Done((m - 1) + 1)') /\ (m - 1 = 0 => Reading(g)')
  <2>1. (m - 1) + 1 = m /\ m \in Nat \ {0} /\ m \in 1 .. Len(wire) - 1
    BY <1>1, <1>2, <1>6, <1>13, SMT
  <2>2. PICK g \in FramesSent : CutShort(wire[m + 1], g, Done(m + 1))
    BY <1>6, <1>13, Zenon
  <2>3. CutShort(wire'[m], g, Done(m)')
    <3>1. wire'[m] = wire[m + 1]
      BY <1>3, <2>1, Zenon
    <3>2. Done(m)' = Done(m + 1)
      BY <1>5, <2>1, Zenon
    <3> QED BY <2>2, <3>1, <3>2, Zenon
  <2>4. Reading(g)'
    <3>1. size' \in {0, 2}
      OBVIOUS
    <3> QED BY <3>1, ReadingFresh, Zenon
  <2> QED BY <2>1, <2>3, <2>4, Zenon
<1> QED BY <1>7, <1>8, <1>9, <1>10, <1>11, <1>12, <1>13, Zenon DEF Aligned

-----------------------------------------------------------------------------
(* What is on the wire stays a sequence of packets.                        *)

(* The first packet's header is now h.                                     *)
Taken(h) == wire' = [wire EXCEPT ![1].header = h]

LEMMA WireTaken ==
    ASSUME Inv, wire # <<>>, NEW h \in Seq(Bytes), Taken(h)
    PROVE  /\ wire' \in Seq(Packets) /\ Len(wire') = Len(wire)
           /\ wire'[1].header = h
           /\ wire'[1].length = Head(wire).length
           /\ wire'[1].key = Head(wire).key
           /\ \A i \in 2 .. Len(wire) : wire'[i] = wire[i]
<1>1. wire \in Seq(Packets) /\ Len(wire) \in Nat \ {0} /\ Head(wire) = wire[1]
  BY Types, EmptySeq, SMT
<1>2. wire[1] \in Packets
  BY <1>1, ElementOfSeq, SMT
<1> DEFINE p == [wire[1] EXCEPT !.header = h]
<1>3. /\ p \in Packets /\ p.header = h /\ p.length = wire[1].length /\ p.key = wire[1].key
  BY <1>2, SMT DEF Packets
<1>4. wire' = [wire EXCEPT ![1] = p]
  BY DEF Taken
<1> HIDE DEF p
<1>5. 1 \in 1 .. Len(wire)
  BY <1>1, SMT
<1>6. /\ wire' \in Seq(Packets) /\ Len(wire') = Len(wire)
      /\ \A j \in 1 .. Len(wire) : wire'[j] = IF j = 1 THEN p ELSE wire[j]
  <2> DEFINE w == [wire EXCEPT ![1] = p]
  <2>1. /\ w \in Seq(Packets) /\ Len(w) = Len(wire)
        /\ \A j \in 1 .. Len(wire) : w[j] = IF j = 1 THEN p ELSE wire[j]
    <3>1. wire \in Seq(Packets) /\ p \in Packets /\ 1 \in 1 .. Len(wire)
      BY <1>1, <1>3, <1>5, Zenon
    <3> QED BY <3>1, ExceptSeq, SMT
  <2> HIDE DEF w
  <2> QED BY <1>4, <2>1, Zenon DEF w
<1>7. wire'[1] = p
  BY <1>5, <1>6, Zenon
<1>8. \A i \in 2 .. Len(wire) : wire'[i] = wire[i]
  <2>1. \A i \in 2 .. Len(wire) : i \in 1 .. Len(wire) /\ i # 1
    BY <1>1, SMT
  <2> QED BY <1>6, <2>1, Zenon
<1> QED BY <1>1, <1>3, <1>6, <1>7, <1>8, Zenon

LEMMA Appended ==
    ASSUME NEW S, NEW s \in Seq(S), NEW e \in S, NEW t, t = Append(s, e)
    PROVE  /\ t \in Seq(S) /\ Len(t) = Len(s) + 1
           /\ \A i \in 1 .. Len(s) : t[i] = s[i]
           /\ t[Len(s) + 1] = e
<1>1. /\ Append(s, e) \in Seq(S) /\ Len(Append(s, e)) = Len(s) + 1
      /\ \A i \in 1 .. Len(s) : Append(s, e)[i] = s[i]
      /\ Append(s, e)[Len(s) + 1] = e
  BY AppendProperties, SMT
<1> QED BY <1>1, Zenon

LEMMA WireGrows ==
    ASSUME Inv, NEW p \in Packets, wire' = Append(wire, p)
    PROVE  /\ wire' \in Seq(Packets) /\ Len(wire') = Len(wire) + 1
           /\ \A i \in 1 .. Len(wire) : wire'[i] = wire[i]
           /\ wire'[Len(wire) + 1] = p
<1>1. wire \in Seq(Packets)
  BY Types
<1> QED BY <1>1, Appended, SMT

LEMMA HeadLength ==
    ASSUME Inv, wire # <<>>
    PROVE  Head(wire) \in Packets /\ Head(wire).length \in Nat
<1>1. wire \in Seq(Packets)
  BY Types
<1>2. Head(wire) \in Packets
  BY <1>1, HeadTailProperties, Zenon
<1>3. Head(wire).length \in Sizes
  BY <1>2, SMT DEF Packets
<1> QED BY <1>2, <1>3, SizeMaxNat, SMT DEF Sizes

-----------------------------------------------------------------------------
(* The writer.                                                             *)

LEMMA InitInv == Init => Inv
<1> SUFFICES ASSUME Init PROVE Inv
  OBVIOUS
<1>1. wire = <<>> /\ buffer = <<>> /\ sent = <<>> /\ delivered = <<>> /\ size = 0
  BY DEF Init
<1>2. TypeOK
  <2>1. up \in BOOLEAN /\ inStep \in BOOLEAN /\ cut \in BOOLEAN
    BY Zenon DEF Init
  <2>2. /\ wire \in Seq(Packets) /\ buffer \in Seq(Bytes)
        /\ delivered \in Seq(Frames) /\ sent \in Seq(Frames)
    BY <1>1, EmptySeq, Zenon
  <2>3. Len(buffer) <= MaxHeaderSize
    BY <1>1, SMT DEF MaxHeaderSize
  <2>4. size \in {NoHeader, 0, 2, 4, 6, 8, 10, 14}
    BY <1>1, SMT
  <2> QED BY <2>1, <2>2, <2>3, <2>4, Zenon DEF TypeOK
<1>3. sent \in Seq(FramesSent)
  BY <1>1, EmptySeq, Zenon
<1>4. ~inStep => cut
  BY DEF Init
<1>5. Aligned(0) /\ 0 \in 0 .. Len(wire)
  <2>1. ~cut
    BY DEF Init
  <2> QED BY <1>1, <2>1, SMT DEF Aligned
<1> QED BY <1>2, <1>3, <1>4, <1>5, Zenon DEF Inv

LEMMA SendFrameInv == ASSUME Inv, NEW f \in FramesSent, SendFrame(f) PROVE Inv'
<1> DEFINE p == [header |-> HeaderSent(f), length |-> f.length, key |-> f.key]
<1>1. /\ up /\ sent' = Append(sent, f) /\ wire' = Append(wire, p)
      /\ UNCHANGED <<up, buffer, size, inStep, delivered, cut>>
  BY Zenon DEF SendFrame
<1>2. /\ f \in Frames /\ HeaderSent(f) \in Seq(Bytes)
      /\ Len(HeaderSent(f)) = Full(f) /\ Full(f) \in {2, 4, 6, 8, 10, 14}
      /\ f.length \in Sizes /\ f.key \in Keys
  BY FramesSentFull, FrameFields, Zenon
<1>3. p \in Packets /\ Carries(p, f, 0)
  <2>1. SubSeq(HeaderSent(f), 1, Full(f)) = HeaderSent(f)
    BY <1>2, SubSeqFull, Zenon
  <2>2. 0 + 1 = 1
    BY SMT
  <2>3. Carries(p, f, 0)
    BY <2>1, <2>2, Zenon DEF Carries
  <2> QED BY <1>2, <2>3, Zenon DEF Packets
<1> HIDE DEF p
<1>4. /\ wire' \in Seq(Packets) /\ Len(wire') = Len(wire) + 1
      /\ \A i \in 1 .. Len(wire) : wire'[i] = wire[i]
      /\ wire'[Len(wire) + 1] = p
  BY <1>1, <1>3, WireGrows, Zenon
<1>5. /\ Len(wire) \in Nat /\ Len(delivered) \in Nat /\ Len(sent) \in Nat
      /\ sent \in Seq(FramesSent) /\ sent \in Seq(Frames)
  BY Types
<1>6. /\ sent' \in Seq(FramesSent) /\ Len(sent') = Len(sent) + 1
      /\ \A i \in 1 .. Len(sent) : sent'[i] = sent[i]
      /\ sent'[Len(sent) + 1] = f
  BY <1>1, <1>5, Appended, SMT
<1>7. sent' \in Seq(Frames)
  BY <1>1, <1>2, <1>5, Appended, SMT
<1>8. TypeOK'
  BY <1>1, <1>4, <1>7, Zenon DEF Inv, TypeOK
<1>9. ~inStep' => cut'
  BY <1>1, Zenon DEF Inv
<1>10. ASSUME inStep' PROVE \E m \in 0 .. Len(wire') : Aligned(m)'
  <2>1. PICK m \in 0 .. Len(wire) : Aligned(m)
    BY <1>1, <1>10, Zenon DEF Inv
  <2>2. ASSUME NEW i PROVE Done(i)' = Done(i)
    BY <1>1, Zenon DEF Done
  <2>3. ASSUME NEW i \in 1 .. m
        PROVE  Carries(wire'[i], sent'[Len(delivered') + i], Done(i)')
    <3>1. i \in 1 .. Len(wire) /\ Len(delivered) + i \in 1 .. Len(sent)
      BY <2>1, <1>5, SMT DEF Aligned
    <3>2. Carries(wire[i], sent[Len(delivered) + i], Done(i))
      BY <2>1, Zenon DEF Aligned
    <3>3. wire'[i] = wire[i] /\ sent'[Len(delivered') + i] = sent[Len(delivered) + i]
      BY <3>1, <1>1, <1>4, <1>6, Zenon
    <3> QED BY <3>2, <3>3, <2>2, Zenon
  <2>4. ASSUME m > 0 PROVE Reading(sent[Len(delivered) + 1])'
    <3>1. Reading(sent[Len(delivered) + 1])
      BY <2>1, <2>4, Zenon DEF Aligned
    <3>2. Len(delivered) + 1 \in 1 .. Len(sent)
      BY <2>1, <2>4, <1>5, SMT DEF Aligned
    <3>3. sent'[Len(delivered') + 1] = sent[Len(delivered) + 1]
      BY <3>2, <1>1, <1>6, Zenon
    <3> QED BY <3>1, <3>3, <1>1, Zenon DEF Reading
  <2>5. CASE cut
    <3>1. Len(delivered') + m <= Len(sent')
      BY <2>1, <1>1, <1>5, <1>6, SMT DEF Aligned
    <3>2. m < Len(wire') /\ m + 1 \in 1 .. Len(wire)
      BY <2>1, <2>5, <1>4, <1>5, SMT DEF Aligned
    <3>3. PICK g \in FramesSent :
              CutShort(wire[m + 1], g, Done(m + 1)) /\ (m = 0 => Reading(g))
      BY <2>1, <2>5, Zenon DEF Aligned
    <3>4. CutShort(wire'[m + 1], g, Done(m + 1)')
      BY <3>2, <3>3, <2>2, <1>4, Zenon
    <3>5. m = 0 => Reading(g)'
      BY <3>3, <1>1, Zenon DEF Reading
    <3>6. cut'
      BY <2>5, <1>1
    <3>7. Aligned(m)'
      BY <3>1, <3>2, <3>4, <3>5, <3>6, <2>3, <2>4, Zenon DEF Aligned
    <3>8. m \in 0 .. Len(wire')
      BY <1>4, <1>5, <2>1, SMT
    <3> QED BY <3>7, <3>8, Zenon
  <2>6. CASE ~cut
    <3>1. m = Len(wire) /\ Len(delivered) + m = Len(sent)
      BY <2>1, <2>6, Zenon DEF Aligned
    <3>2. Len(delivered') + (m + 1) = Len(sent') /\ m + 1 = Len(wire')
      BY <3>1, <1>1, <1>4, <1>5, <1>6, SMT
    <3>3. m = 0 => size' = 0 /\ buffer' = <<>>
      BY <2>1, <2>6, <1>1, Zenon DEF Aligned
    <3>4. Done(m + 1)' = 0
      BY <3>3, <2>1, <1>5, SMT DEF Done
    <3>5. Carries(wire'[m + 1], sent'[Len(delivered') + (m + 1)], Done(m + 1)')
      <4>1. Len(delivered') + (m + 1) = Len(sent) + 1
        BY <3>1, <1>1, <1>5, SMT
      <4> QED BY <4>1, <3>1, <3>4, <1>3, <1>4, <1>6, Zenon
    <3>6. \A i \in 1 .. m + 1 : Carries(wire'[i], sent'[Len(delivered') + i], Done(i)')
      <4>1. \A i \in 1 .. m + 1 : i \in 1 .. m \/ i = m + 1
        BY <2>1, <1>5, SMT
      <4> QED BY <4>1, <3>5, <2>3, Zenon
    <3>7. m + 1 > 0 => Reading(sent[Len(delivered) + 1])'
      <4>1. CASE m > 0
        BY <4>1, <2>4
      <4>2. CASE m = 0
        <5>1. sent'[Len(delivered') + 1] = f
          BY <4>2, <3>1, <1>1, <1>5, <1>6, SMT
        <5>2. buffer' = <<>> /\ size' \in {0, 2}
          BY <4>2, <3>3
        <5>3. Reading(f)'
          BY <5>2, ReadingFresh, Zenon
        <5> QED BY <5>1, <5>3, Zenon DEF Reading
      <4> QED BY <4>1, <4>2, <2>1, <1>5, SMT
    <3>8. Len(delivered') + (m + 1) <= Len(sent') /\ m + 1 # 0 /\ m + 1 \in 0 .. Len(wire')
      BY <3>1, <3>2, <1>1, <1>5, <1>6, <2>1, <1>4, SMT
    <3>9. ~cut'
      BY <2>6, <1>1
    <3>10. Aligned(m + 1)'
      BY <3>2, <3>6, <3>7, <3>8, <3>9, Zenon DEF Aligned
    <3> QED BY <3>8, <3>10, Zenon
  <2> QED BY <2>5, <2>6
<1> QED BY <1>6, <1>8, <1>9, <1>10, Zenon DEF Inv

(* The frame that is cut follows the whole ones.                           *)
LEMMA WriteGivesUpInv ==
    ASSUME Inv, NEW f \in FramesSent, NEW k \in 0 .. HeaderSize(f.length, f.mask),
           NEW n \in {0, f.length, f.length - 1} \cap Nat, WriteGivesUp(f, k, n)
    PROVE  Inv'
<1> DEFINE p == [header |-> SubSeq(HeaderSent(f), 1, k), length |-> n, key |-> f.key]
<1>1. /\ up /\ cut' = TRUE /\ wire' = Append(wire, p)
      /\ k < HeaderSize(f.length, f.mask) \/ n < f.length
      /\ UNCHANGED <<up, buffer, size, inStep, delivered, sent>>
  BY Zenon DEF WriteGivesUp
<1>2. /\ f \in Frames /\ HeaderSent(f) \in Seq(Bytes)
      /\ Len(HeaderSent(f)) = Full(f) /\ Full(f) \in {2, 4, 6, 8, 10, 14}
      /\ Full(f) = HeaderSize(f.length, f.mask)
      /\ f.length \in Sizes /\ f.key \in Keys
  BY FramesSentFull, HeaderFacts, FrameFields, Zenon
<1>3. k \in 0 .. Full(f) /\ n \in Sizes /\ (k < Full(f) \/ n < f.length)
  BY <1>1, <1>2, SizeMaxNat, SMT DEF Sizes
<1>4. SubSeq(HeaderSent(f), 1, k) \in Seq(Bytes)
  <2> HIDE DEF Bytes
  <2> QED BY <1>2, <1>3, SMT
<1>5. p \in Packets /\ CutShort(p, f, 0)
  <2>1. p \in Packets
    BY <1>2, <1>3, <1>4, Zenon DEF Packets
  <2>2. 0 + 1 = 1
    BY SMT
  <2> QED BY <1>3, <2>1, <2>2, Zenon DEF CutShort
<1> HIDE DEF p
<1>6. /\ wire' \in Seq(Packets) /\ Len(wire') = Len(wire) + 1
      /\ \A i \in 1 .. Len(wire) : wire'[i] = wire[i]
      /\ wire'[Len(wire) + 1] = p
  BY <1>1, <1>5, WireGrows, Zenon
<1>7. /\ Len(wire) \in Nat /\ Len(delivered) \in Nat /\ Len(sent) \in Nat
      /\ sent' \in Seq(FramesSent)
  BY <1>1, Types
<1>8. TypeOK'
  BY <1>1, <1>6, Zenon DEF Inv, TypeOK
<1>9. ASSUME inStep' PROVE \E m \in 0 .. Len(wire') : Aligned(m)'
  <2>1. PICK m \in 0 .. Len(wire) : Aligned(m)
    BY <1>1, <1>9, Zenon DEF Inv
  <2>2. m = Len(wire) /\ Len(delivered) + m = Len(sent)
    <3>1. ~cut
      BY Zenon DEF WriteGivesUp
    <3> QED BY <2>1, <3>1, Zenon DEF Aligned
  <2>3. ASSUME NEW i PROVE Done(i)' = Done(i)
    BY <1>1, Zenon DEF Done
  <2>4. ASSUME NEW i \in 1 .. m
        PROVE  Carries(wire'[i], sent'[Len(delivered') + i], Done(i)')
    <3>1. Carries(wire[i], sent[Len(delivered) + i], Done(i))
      BY <2>1, Zenon DEF Aligned
    <3>2. wire'[i] = wire[i]
      BY <2>2, <1>6, Zenon
    <3> QED BY <3>1, <3>2, <2>3, <1>1, Zenon
  <2>5. m > 0 => Reading(sent[Len(delivered) + 1])'
    BY <2>1, <1>1, Zenon DEF Aligned, Reading
  <2>6. m = 0 => size' = 0 /\ buffer' = <<>>
    <3>1. ~cut
      BY Zenon DEF WriteGivesUp
    <3> QED BY <2>1, <3>1, <1>1, Zenon DEF Aligned
  <2>7. Done(m + 1)' = 0
    BY <2>2, <2>6, <1>7, SMT DEF Done
  <2>8. m = 0 => Reading(f)'
    <3>1. ASSUME m = 0 PROVE size' \in {0, 2} /\ buffer' = <<>>
      BY <2>6, <3>1
    <3> QED BY <3>1, ReadingFresh, Zenon
  <2>9. CutShort(wire'[m + 1], f, Done(m + 1)')
    BY <2>2, <2>7, <1>5, <1>6, Zenon
  <2>10. m < Len(wire') /\ m \in 0 .. Len(wire') /\ Len(delivered') + m <= Len(sent')
    BY <2>2, <1>1, <1>6, <1>7, SMT
  <2>11. Aligned(m)'
    BY <2>4, <2>5, <2>8, <2>9, <2>10, <1>1, Zenon DEF Aligned
  <2> QED BY <2>10, <2>11, Zenon
<1> QED BY <1>1, <1>7, <1>8, <1>9, Zenon DEF Inv

-----------------------------------------------------------------------------
(* The reader.                                                             *)

LEMMA StartFrameInv == ASSUME Inv, StartFrame PROVE Inv'
<1>1. /\ size = 0 /\ buffer = <<>> /\ wire # <<>> /\ size' = 2
      /\ UNCHANGED <<up, wire, buffer, inStep, delivered, sent, cut>>
  BY Zenon DEF StartFrame
<1>2. Len(wire) \in Nat \ {0}
  BY <1>1, Types, EmptySeq, SMT
<1>3. TypeOK'
  <2>1. size' \in {NoHeader, 0, 2, 4, 6, 8, 10, 14}
    BY <1>1, SMT
  <2> QED BY <1>1, <2>1, Zenon DEF Inv, TypeOK
<1>4. \A g \in FramesSent : Reading(g)'
  <2>1. buffer' = <<>> /\ size' \in {0, 2}
    BY <1>1
  <2> QED BY <2>1, ReadingFresh, Zenon
<1>5. ASSUME NEW m \in 0 .. Len(wire), Aligned(m) PROVE Aligned(m)'
  <2>1. ASSUME NEW i PROVE Done(i)' = Done(i)
    BY <1>1, Zenon DEF Done
  <2>2. m > 0 => Reading(sent[Len(delivered) + 1])'
    <3>1. ASSUME m > 0 PROVE sent[Len(delivered) + 1] \in FramesSent
      <4>1. Len(delivered) + 1 \in 1 .. Len(sent) /\ sent \in Seq(FramesSent)
        BY <3>1, <1>5, Types, SMT DEF Aligned
      <4> QED BY <4>1, ElementOfSeq, Zenon
    <3>2. ASSUME m > 0 PROVE sent'[Len(delivered') + 1] \in FramesSent
      BY <3>1, <3>2, <1>1
    <3> QED BY <3>2, <1>4, Zenon DEF Reading
  <2>3. cut \/ m # 0
    BY <1>2, <1>5, SMT DEF Aligned
  <2> QED BY <2>1, <2>2, <2>3, <1>1, <1>4, <1>5, Zenon DEF Aligned
<1> QED BY <1>1, <1>3, <1>5, Zenon DEF Inv

LEMMA GivenUp ==
    ASSUME Inv, wire' \in Seq(Packets), GiveUp, UNCHANGED <<inStep, delivered, sent, cut>>
    PROVE  Inv'
<1>1. /\ buffer' \in Seq(Bytes) /\ size' \in {NoHeader, 0, 2, 4, 6, 8, 10, 14}
      /\ up' \in BOOLEAN /\ ~up'
  <2>1. buffer' = <<>> /\ size' = 0 /\ up' = FALSE
    BY DEF GiveUp
  <2>2. buffer' \in Seq(Bytes)
    BY <2>1, EmptySeq, Zenon
  <2>3. size' \in {NoHeader, 0, 2, 4, 6, 8, 10, 14}
    BY <2>1, SMT
  <2> QED BY <2>1, <2>2, <2>3, Zenon
<1>2. Len(buffer') <= MaxHeaderSize
  BY SMT DEF GiveUp, MaxHeaderSize
<1> QED BY <1>1, <1>2, Zenon DEF Inv, TypeOK

(* The frame delivered is the one after the last one.                       *)
DeliversNext ==
    /\ Len(delivered) < Len(sent)
    /\ delivered' = Append(delivered, sent[Len(delivered) + 1])
    /\ UNCHANGED up

LEMMA FrameReadInv ==
    ASSUME Inv, wire # <<>>,
           NEW f \in FramesSent, NEW m \in 0 .. Len(wire), NEW k \in 0 .. 14,
           Aligned(m), Whole(f, m, k),
           wire' = Tail(wire), FrameRead(f), UNCHANGED <<inStep, sent, cut>>
    PROVE  Inv' /\ (delivered' = delivered \/ DeliversNext)
<1>1. /\ Len(wire) \in Nat \ {0} /\ Len(delivered) \in Nat /\ Len(sent) \in Nat
      /\ delivered \in Seq(Frames) /\ wire \in Seq(Packets)
  BY Types, EmptySeq, SMT
<1>2. wire' \in Seq(Packets) /\ Len(wire') = Len(wire) - 1
  BY <1>1, HeadTailProperties, Zenon
<1>3. CASE f.opcode \in Received
  <2>1. /\ delivered' = Append(delivered, f) /\ buffer' = <<>> /\ size' = 0
        /\ UNCHANGED up
    BY <1>3, Zenon DEF FrameRead
  <2>2. Aligned(m - 1)'
    BY <1>1, <2>1, Popped, Zenon
  <2>3. m - 1 \in 0 .. Len(wire')
    BY <1>1, <1>2, SMT DEF Whole
  <2>4. delivered' \in Seq(Frames)
    <3>1. f \in Frames
      BY FramesSentFull, Zenon
    <3> QED BY <1>1, <2>1, <3>1, AppendProperties, Zenon
  <2>5. buffer' \in Seq(Bytes)
    BY <2>1, EmptySeq, Zenon
  <2>6. Len(buffer') <= MaxHeaderSize
    BY <2>1, SMT DEF MaxHeaderSize
  <2>7. size' \in {NoHeader, 0, 2, 4, 6, 8, 10, 14}
    BY <2>1, SMT
  <2>8. TypeOK'
    BY <1>2, <2>1, <2>4, <2>5, <2>6, <2>7, Zenon DEF Inv, TypeOK
  <2>9. Inv'
    BY <2>2, <2>3, <2>8, Zenon DEF Inv
  <2>10. Len(delivered) < Len(sent)
    BY <1>1, SMT DEF Aligned, Whole
  <2> QED BY <2>1, <2>9, <2>10, Zenon DEF DeliversNext, Whole
<1>4. CASE f.opcode \notin Received
  <2>1. GiveUp /\ UNCHANGED delivered
    BY <1>4, Zenon DEF FrameRead
  <2> QED BY <1>2, <2>1, GivenUp, Zenon
<1> QED BY <1>3, <1>4

(* The reader of f has read up to the awaited size and asks for more.       *)
LEMMA ReadingOn ==
    ASSUME NEW f \in FramesSent, NEW s \in 2 .. Full(f),
           buffer' = SubSeq(HeaderSent(f), 1, s), Len(buffer') = s,
           \/ size' \in s + 1 .. Full(f)
           \/ size' = NoHeader /\ s = Full(f) /\ f.length > 0
    PROVE  Reading(f)'
<1>1. Full(f) \in {2, 4, 6, 8, 10, 14}
  BY FramesSentFull, Zenon
<1>2. s <= Full(f) /\ s >= 2
  BY <1>1, SMT
<1>3. Len(buffer') <= Full(f) /\ buffer' = SubSeq(HeaderSent(f), 1, Len(buffer'))
  BY <1>2, Zenon
<1>4. \/ size' = NoHeader /\ Len(buffer') = Full(f) /\ f.length > 0
      \/ Len(buffer') >= 2 /\ size' \in Len(buffer') + 1 .. Full(f)
  BY <1>2, Zenon
<1> QED BY <1>3, <1>4, Zenon DEF Reading

LEMMA MoreWanted ==
    ASSUME Inv, wire # <<>>,
           NEW f \in FramesSent, NEW m \in 0 .. Len(wire), NEW k \in 0 .. 14,
           NEW s \in 2 .. Full(f), s <= k, k <= Full(f),
           Aligned(m), Whole(f, m, k) \/ Cut(f, m, k),
           Taken(SubSeq(HeaderSent(f), s + 1, k)),
           buffer' = SubSeq(HeaderSent(f), 1, s),
           \/ size' \in s + 1 .. Full(f)
           \/ size' = NoHeader /\ s = Full(f) /\ f.length > 0,
           size' \in {NoHeader, 4, 6, 8, 10, 14},
           UNCHANGED <<up, delivered, inStep, sent, cut>>
    PROVE  Inv'
<1>1. /\ HeaderSent(f) \in Seq(Bytes) /\ Len(HeaderSent(f)) = Full(f)
      /\ Full(f) \in {2, 4, 6, 8, 10, 14}
  BY FramesSentFull, Zenon
<1>2. s \in 0 .. 14 /\ s \in 2 .. 14
  BY <1>1, SMT
<1>3. SubSeq(HeaderSent(f), s + 1, k) \in Seq(Bytes)
  <2>1. s + 1 \in Int /\ k \in Int /\ \A i \in s + 1 .. k : i \in 1 .. Len(HeaderSent(f))
    BY <1>1, <1>2, SMT
  <2>2. \A i \in s + 1 .. k : HeaderSent(f)[i] \in Bytes
    BY <1>1, <2>1, ElementOfSeq, Zenon
  <2> QED BY <2>1, <2>2, SubSeqProperties, Zenon
<1>4. buffer' \in Seq(Bytes) /\ Len(buffer') = s
  <2> HIDE DEF Bytes
  <2> QED BY <1>1, <1>2, SMT
<1>5. /\ wire' \in Seq(Packets) /\ Len(wire') = Len(wire)
      /\ wire'[1].header = SubSeq(HeaderSent(f), s + 1, k)
      /\ wire'[1].length = Head(wire).length
      /\ wire'[1].key = Head(wire).key
      /\ \A i \in 2 .. Len(wire) : wire'[i] = wire[i]
  BY <1>3, WireTaken, Zenon
<1>6. Reading(f)'
  BY <1>4, ReadingOn, Zenon
<1>7. wire \in Seq(Packets)
  BY Types
<1>8. Aligned(m)'
  BY <1>2, <1>4, <1>5, <1>6, <1>7, Advanced, Zenon
<1>9. m \in 0 .. Len(wire')
  BY <1>5
<1>10. Len(buffer') <= MaxHeaderSize
  BY <1>2, <1>4, SMT DEF MaxHeaderSize
<1>11. size' \in {NoHeader, 0, 2, 4, 6, 8, 10, 14}
  BY SMT
<1>12. TypeOK'
  BY <1>4, <1>5, <1>10, <1>11, Zenon DEF Inv, TypeOK
<1> QED BY <1>8, <1>9, <1>12, Zenon DEF Inv

(* The awaited size, seen by a reader of f that waits for header bytes.     *)
LEMMA AwaitedSize ==
    ASSUME Inv, NEW f \in FramesSent, Reading(f), size > 0
    PROVE  /\ size \in 2 .. Full(f) /\ size \in 2 .. 14
           /\ size - Len(buffer) \in Nat \ {0}
           /\ Len(buffer) \in Nat /\ Len(buffer) < size
<1>1. /\ Len(buffer) \in 0 .. 14 /\ size \in {NoHeader, 0, 2, 4, 6, 8, 10, 14}
  BY Types, Zenon
<1>2. Full(f) \in {2, 4, 6, 8, 10, 14}
  BY FramesSentFull, Zenon
<1>3. size \in {2, 4, 6, 8, 10, 14}
  BY <1>1, SMT DEF NoHeader
<1>4. CASE size = 2 /\ buffer = <<>>
  <2>1. Len(buffer) = 0
    BY <1>4
  <2> QED BY <2>1, <1>2, <1>4, SMT
<1>5. CASE Len(buffer) >= 2 /\ size \in Len(buffer) + 1 .. Full(f)
  <2> DEFINE d == Len(buffer)
  <2>1. d \in 0 .. 14 /\ d >= 2 /\ size \in d + 1 .. Full(f)
    BY <1>1, <1>5
  <2> HIDE DEF d
  <2>2. /\ size \in 2 .. Full(f) /\ size \in 2 .. 14
        /\ size - d \in Nat \ {0} /\ d \in Nat /\ d < size
    BY <2>1, <1>2, SMT
  <2> QED BY <2>2, Zenon DEF d
<1>6. \/ size = 2 /\ buffer = <<>>
      \/ Len(buffer) >= 2 /\ size \in Len(buffer) + 1 .. Full(f)
  <2>1. \/ size \in {0, 2} /\ buffer = <<>>
        \/ size = NoHeader
        \/ Len(buffer) >= 2 /\ size \in Len(buffer) + 1 .. Full(f)
    BY Zenon DEF Reading
  <2>2. size # NoHeader /\ (size \in {0, 2} => size = 2)
    BY <1>3, SMT DEF NoHeader
  <2> QED BY <2>1, <2>2, Zenon
<1> QED BY <1>4, <1>5, <1>6

(* What the reader has after reading up to the awaited size, and what it    *)
(* leaves.                                                                 *)
LEMMA BytesRead ==
    ASSUME Inv, wire # <<>>, size > 0,
           NEW f \in FramesSent, NEW k \in 0 .. 14, First(f, k),
           Len(Head(wire).header) >= size - Len(buffer)
    PROVE  LET n == size - Len(buffer)
               h == Head(wire).header
           IN  /\ size <= k /\ k <= Full(f)
               /\ Len(h) = n <=> size = k
               /\ buffer \o SubSeq(h, 1, n) = SubSeq(HeaderSent(f), 1, size)
               /\ SubSeq(h, n + 1, Len(h)) = SubSeq(HeaderSent(f), size + 1, k)
<1> DEFINE h == Head(wire).header
           d == Len(buffer)
           n == size - d
           hs == HeaderSent(f)
<1>1. /\ size \in 2 .. Full(f) /\ n \in Nat \ {0} /\ d \in Nat /\ d < size
  BY AwaitedSize, Zenon DEF First
<1>2. /\ hs \in Seq(Bytes) /\ Len(hs) = Full(f) /\ Full(f) \in {2, 4, 6, 8, 10, 14}
  BY FramesSentFull, Zenon
<1>3. /\ k \in d .. Full(f)
      /\ h = SubSeq(hs, d + 1, k)
      /\ buffer = SubSeq(hs, 1, d)
  BY Zenon DEF First, Reading
<1>4. Len(h) >= n
  OBVIOUS
<1>5. n = size - d
  OBVIOUS
<1> HIDE DEF h, d, n, hs
<1>6. Len(h) = k - d
  <2>1. h \in Seq(Bytes) /\ Len(h) = IF d + 1 <= k THEN k - (d + 1) + 1 ELSE 0
    <3>1. d + 1 \in Int /\ k \in Int /\ \A i \in d + 1 .. k : i \in 1 .. Len(hs)
      BY <1>1, <1>2, <1>3, SMT
    <3>2. \A i \in d + 1 .. k : hs[i] \in Bytes
      BY <1>2, <3>1, ElementOfSeq, Zenon
    <3>3. /\ SubSeq(hs, d + 1, k) \in Seq(Bytes)
          /\ Len(SubSeq(hs, d + 1, k)) = IF d + 1 <= k THEN k - (d + 1) + 1 ELSE 0
      BY <3>1, <3>2, SubSeqProperties, SMT
    <3> QED BY <3>3, <1>3, Zenon
  <2> DEFINE l == Len(h)
  <2>2. l = IF d + 1 <= k THEN k - (d + 1) + 1 ELSE 0
    BY <2>1
  <2> HIDE DEF l
  <2>3. l = k - d
    BY <2>2, <1>1, <1>3, SMT
  <2> QED BY <2>3 DEF l
<1>7. k - d >= n
  BY <1>4, <1>6
<1>8. d + n = size /\ d + n <= k /\ k <= Full(f) /\ k \in Nat /\ (k - d = n <=> size = k)
  BY <1>1, <1>2, <1>3, <1>5, <1>7, SMT
<1>9. /\ SubSeq(hs, 1, d) \o SubSeq(h, 1, n) = SubSeq(hs, 1, d + n)
      /\ SubSeq(h, n + 1, Len(h)) = SubSeq(hs, d + n + 1, k)
  <2>1. k <= Len(hs)
    BY <1>2, <1>8, Zenon
  <2>2. h = SubSeq(hs, d + 1, k) /\ d + n <= k /\ k \in Nat
    BY <1>3, <1>8, Zenon
  <2>3. hs \in Seq(Bytes) /\ d \in Nat /\ n \in Nat \ {0}
    BY <1>1, <1>2, Zenon
  <2> QED BY <2>1, <2>2, <2>3, BytesMove, SMT
<1>10. /\ buffer \o SubSeq(h, 1, n) = SubSeq(hs, 1, size)
       /\ SubSeq(h, n + 1, Len(h)) = SubSeq(hs, size + 1, k)
  BY <1>3, <1>8, <1>9, Zenon
<1>11. Len(h) = n <=> size = k
  BY <1>6, <1>8
<1>12. size <= k /\ k <= Full(f)
  BY <1>8, Zenon
<1> QED BY <1>10, <1>11, <1>12, Zenon DEF h, d, n, hs

(* A cut packet never yields a whole frame.                                 *)
LEMMA CutNotWhole ==
    ASSUME Inv, wire # <<>>,
           NEW f \in FramesSent, NEW m, NEW k \in 0 .. 14,
           Whole(f, m, k) \/ Cut(f, m, k),
           k >= Full(f), Head(wire).length = f.length
    PROVE  Whole(f, m, k)
<1>1. Full(f) \in {2, 4, 6, 8, 10, 14} /\ f.length \in Sizes
  BY FramesSentFull, FrameFields, Zenon
<1>2. ~(k < Full(f)) /\ ~(Head(wire).length < f.length)
  BY <1>1, SizeMaxNat, SMT DEF Sizes
<1> QED BY <1>2, Zenon DEF Cut

LEMMA ReadHeaderInv ==
    ASSUME Inv, ReadHeader
    PROVE  Inv' /\ (delivered' = delivered \/ DeliversNext)
<1> DEFINE h == Head(wire).header
           n == size - Len(buffer)
           b == buffer \o SubSeq(h, 1, n)
<1>1. /\ up /\ size > 0 /\ inStep /\ wire # <<>>
      /\ Len(h) >= n
      /\ wire' = IF Len(h) = n /\ Head(wire).length = 0 /\ NoPayload(b)
                 THEN Tail(wire)
                 ELSE [wire EXCEPT ![1].header = SubSeq(@, n + 1, Len(@))]
      /\ NextPart(b)
      /\ UNCHANGED <<inStep, sent, cut>>
  BY Zenon DEF ReadHeader
<1>2. PICK f \in FramesSent, m \in 0 .. Len(wire), k \in 0 .. 14 :
          Aligned(m) /\ First(f, k) /\ (Whole(f, m, k) \/ Cut(f, m, k))
  BY <1>1, FirstPacket, Zenon
<1>3. /\ size <= k /\ k <= Full(f)
      /\ Len(h) = n <=> size = k
      /\ b = SubSeq(HeaderSent(f), 1, size)
      /\ SubSeq(h, n + 1, Len(h)) = SubSeq(HeaderSent(f), size + 1, k)
  BY <1>1, <1>2, BytesRead, Zenon
<1>4. /\ size \in 2 .. Full(f) /\ size \in 2 .. 14
      /\ Full(f) \in {2, 4, 6, 8, 10, 14} /\ f.length \in Sizes
  BY <1>1, <1>2, AwaitedSize, FramesSentFull, FrameFields, Zenon DEF First
<1>5. /\ b \in Seq(Bytes) /\ Len(b) = size
      /\ LengthEnd(b) \in {2, 4, 10} /\ LengthEnd(b) <= Full(f)
      /\ HeaderEnd(b) = Full(f)
      /\ size = Full(f) => Decoded(b) = f /\ PayloadLen(b) = f.length
  <2>1. f \in Frames
    BY FramesSentFull, Zenon
  <2> HIDE DEF b
  <2> QED BY <2>1, <1>3, <1>4, PrefixRead, Zenon
<1>6. ASSUME ~(Len(h) = n /\ Head(wire).length = 0 /\ NoPayload(b))
      PROVE  Taken(SubSeq(HeaderSent(f), size + 1, k))
  <2>1. Head(wire) = wire[1]
    BY <1>1, Types, SMT
  <2>2. wire' = [wire EXCEPT ![1].header = SubSeq(@, n + 1, Len(@))]
    BY <1>1, <1>6, Zenon
  <2>3. wire' = [wire EXCEPT ![1].header = SubSeq(h, n + 1, Len(h))]
    BY <2>1, <2>2, Zenon
  <2> QED BY <2>3, <1>3, Zenon DEF Taken
<1>7. wire' \in Seq(Packets)
  <2>1. CASE Len(h) = n /\ Head(wire).length = 0 /\ NoPayload(b)
    BY <2>1, <1>1, Types, HeadTailProperties, Zenon
  <2>2. CASE ~(Len(h) = n /\ Head(wire).length = 0 /\ NoPayload(b))
    <3>1. SubSeq(HeaderSent(f), size + 1, k) \in Seq(Bytes)
      <4> DEFINE hs == HeaderSent(f)
      <4>1. hs \in Seq(Bytes) /\ Len(hs) = Full(f)
        BY FramesSentFull, Zenon
      <4> HIDE DEF hs
      <4>2. /\ size + 1 \in Int /\ k \in Int
            /\ \A i \in size + 1 .. k : i \in 1 .. Len(hs)
        BY <4>1, <1>3, <1>4, SMT
      <4>3. \A i \in size + 1 .. k : hs[i] \in Bytes
        BY <4>1, <4>2, ElementOfSeq, Zenon
      <4>4. SubSeq(hs, size + 1, k) \in Seq(Bytes)
        BY <4>2, <4>3, SubSeqProperties, SMT
      <4> QED BY <4>4 DEF hs
    <3> QED BY <3>1, <2>2, <1>1, <1>6, WireTaken, Zenon
  <2> QED BY <2>1, <2>2, Zenon
<1> HIDE DEF b, n, h
<1>8. CASE /\ Len(b) < LengthEnd(b) /\ buffer' = b /\ size' = LengthEnd(b)
           /\ UNCHANGED <<up, delivered>>
  <2>1. /\ size' \in size + 1 .. Full(f) /\ size' \in {NoHeader, 4, 6, 8, 10, 14}
        /\ Len(b) < HeaderEnd(b)
    BY <1>4, <1>5, <1>8, SMT
  <2>2. ~NoPayload(b)
    BY <2>1, <1>4, <1>5, SMT DEF NoPayload
  <2>3. buffer' = SubSeq(HeaderSent(f), 1, size)
    BY <1>3, <1>8, Zenon
  <2>4. Inv'
    BY <1>1, <1>2, <1>3, <1>4, <1>6, <1>8, <2>1, <2>2, <2>3, MoreWanted, Zenon
  <2> QED BY <1>8, <2>4, Zenon
<1>9. CASE PayloadLen(b) > MaxDataSize /\ GiveUp /\ UNCHANGED delivered
  BY <1>1, <1>7, <1>9, GivenUp, Zenon
<1>10. CASE /\ Len(b) < HeaderEnd(b) /\ buffer' = b /\ size' = HeaderEnd(b)
            /\ UNCHANGED <<up, delivered>>
  <2>1. size' \in size + 1 .. Full(f) /\ size' \in {NoHeader, 4, 6, 8, 10, 14}
    BY <1>4, <1>5, <1>10, SMT
  <2>2. ~NoPayload(b)
    BY <1>10, <1>4, <1>5, SMT DEF NoPayload
  <2>3. buffer' = SubSeq(HeaderSent(f), 1, size)
    BY <1>3, <1>10, Zenon
  <2>4. Inv'
    BY <1>1, <1>2, <1>3, <1>4, <1>6, <1>10, <2>1, <2>2, <2>3, MoreWanted, Zenon
  <2> QED BY <1>10, <2>4, Zenon
<1>11. CASE /\ Len(b) >= HeaderEnd(b) /\ PayloadLen(b) \in 1 .. MaxDataSize
            /\ buffer' = b /\ size' = NoHeader
            /\ UNCHANGED <<up, delivered>>
  <2>1. size = Full(f)
    BY <1>4, <1>5, <1>11, SMT
  <2>2. f.length > 0 /\ PayloadLen(b) # 0
    <3>1. f.length \in 1 .. MaxDataSize
      BY <2>1, <1>5, <1>11, Zenon
    <3> QED BY <3>1, <2>1, <1>5, <1>11, SMT
  <2>3. ~NoPayload(b)
    BY <2>2, Zenon DEF NoPayload
  <2>4. buffer' = SubSeq(HeaderSent(f), 1, size) /\ size' \in {NoHeader, 4, 6, 8, 10, 14}
    BY <1>3, <1>11, Zenon
  <2>5. Inv'
    BY <1>1, <1>2, <1>3, <1>4, <1>6, <1>11, <2>1, <2>2, <2>3, <2>4, MoreWanted, Zenon
  <2> QED BY <1>11, <2>5, Zenon
<1>12. CASE Len(b) >= HeaderEnd(b) /\ GiveUp /\ UNCHANGED delivered
  BY <1>1, <1>7, <1>12, GivenUp, Zenon
<1>13. CASE /\ Len(b) >= HeaderEnd(b) /\ PayloadLen(b) = 0
            /\ FrameRead(Decoded(b))
  <2>1. size = Full(f) /\ k = Full(f)
    BY <1>3, <1>4, <1>5, <1>13, SMT
  <2>2. Decoded(b) = f /\ f.length = 0
    BY <2>1, <1>5, <1>13, Zenon
  <2>3. Whole(f, m, k)
    <3>1. ~(k < Full(f))
      BY <2>1, <1>4, SMT
    <3>2. ~(Head(wire).length < f.length)
      BY <1>1, <2>2, HeadLength, SMT
    <3> QED BY <3>1, <3>2, <1>2, Zenon DEF Cut
  <2>4. Head(wire).length = 0
    BY <2>2, <2>3, Zenon DEF Whole
  <2>5. wire' = Tail(wire)
    BY <2>1, <2>4, <1>1, <1>3, <1>13, Zenon DEF NoPayload
  <2>6. FrameRead(f)
    BY <2>2, <1>13, Zenon
  <2> QED BY <2>3, <2>5, <2>6, <1>1, <1>2, FrameReadInv, Zenon
<1> QED BY <1>1, <1>8, <1>9, <1>10, <1>11, <1>12, <1>13, Zenon DEF NextPart

(* A reader of f that waits for the payload has all of f's header.          *)
LEMMA HeaderRead ==
    ASSUME Inv, NEW f \in FramesSent, Reading(f), size = NoHeader
    PROVE  /\ Len(buffer) = Full(f)
           /\ Decoded(buffer) = f /\ PayloadLen(buffer) = f.length /\ MaskKey(buffer) = f.key
<1>1. Full(f) \in {2, 4, 6, 8, 10, 14} /\ f \in Frames
  BY FramesSentFull, Zenon
<1>2. /\ buffer = SubSeq(HeaderSent(f), 1, Len(buffer))
      /\ \/ size \in {0, 2}
         \/ Len(buffer) = Full(f)
         \/ size \in Len(buffer) + 1 .. Full(f)
  BY Zenon DEF Reading
<1>3. size \notin {0, 2}
  BY SMT DEF NoHeader
<1>4. size \notin Len(buffer) + 1 .. Full(f)
  <2> DEFINE d == Len(buffer)
  <2>1. d \in 0 .. 14
    BY Types, Zenon
  <2> HIDE DEF d
  <2>2. size \notin d + 1 .. Full(f)
    BY <2>1, <1>1, SMT DEF NoHeader
  <2> QED BY <2>2, Zenon DEF d
<1>5. buffer = SubSeq(HeaderSent(f), 1, Full(f)) /\ Len(buffer) = Full(f)
  BY <1>2, <1>3, <1>4, Zenon
<1>6. Full(f) \in 2 .. Full(f)
  BY <1>1, SMT
<1> QED BY <1>1, <1>5, <1>6, PrefixRead, Zenon

LEMMA ReadPayloadInv ==
    ASSUME Inv, ReadPayload
    PROVE  Inv' /\ (delivered' = delivered \/ DeliversNext)
<1>1. /\ up /\ inStep /\ size = NoHeader /\ wire # <<>>
      /\ Head(wire).length = PayloadLen(buffer)
      /\ wire' = Tail(wire) /\ FrameRead(Decoded(buffer))
      /\ UNCHANGED <<inStep, sent, cut>>
  BY Zenon DEF ReadPayload
<1>2. PICK f \in FramesSent, m \in 0 .. Len(wire), k \in 0 .. 14 :
          Aligned(m) /\ First(f, k) /\ (Whole(f, m, k) \/ Cut(f, m, k))
  BY <1>1, FirstPacket, Zenon
<1>3. Full(f) \in {2, 4, 6, 8, 10, 14} /\ f \in Frames
  BY FramesSentFull, Zenon
<1>4. Len(buffer) = Full(f) /\ Decoded(buffer) = f /\ PayloadLen(buffer) = f.length
  BY <1>1, <1>2, HeaderRead, Zenon DEF First
<1>5. Whole(f, m, k)
  <2>1. k \in Full(f) .. Full(f)
    BY <1>2, <1>4, Zenon DEF First
  <2>2. k >= Full(f)
    BY <2>1, <1>3, SMT
  <2> QED BY <2>2, <1>1, <1>2, <1>4, CutNotWhole, Zenon
<1>6. FrameRead(f)
  BY <1>1, <1>4, Zenon
<1> QED BY <1>1, <1>2, <1>5, <1>6, FrameReadInv, Zenon

(* The reader of a whole frame finds every part where it looks for it.      *)
LEMMA OutOfStepCut == ASSUME Inv, OutOfStep PROVE cut
<1>1. /\ up /\ inStep /\ wire # <<>>
      /\ \/ size > 0 /\ Len(Head(wire).header) < size - Len(buffer)
         \/ /\ size = NoHeader
            /\ \/ Head(wire).header # <<>>
               \/ Head(wire).length # PayloadLen(buffer)
               \/ Head(wire).key # MaskKey(buffer)
  BY Zenon DEF OutOfStep
<1>2. PICK f \in FramesSent, m \in 0 .. Len(wire), k \in 0 .. 14 :
          Aligned(m) /\ First(f, k) /\ (Whole(f, m, k) \/ Cut(f, m, k))
  BY <1>1, FirstPacket, Zenon
<1>3. CASE Cut(f, m, k)
  BY <1>3, Zenon DEF Cut
<1>4. CASE Whole(f, m, k)
  <2>1. /\ Full(f) \in {2, 4, 6, 8, 10, 14} /\ f \in Frames
        /\ HeaderSent(f) \in Seq(Bytes) /\ Len(HeaderSent(f)) = Full(f)
    BY FramesSentFull, Zenon
  <2>2. Head(wire).header = SubSeq(HeaderSent(f), Len(buffer) + 1, Full(f))
    BY <1>2, <1>4, Zenon DEF First, Whole
  <2>3. CASE size > 0 /\ Len(Head(wire).header) < size - Len(buffer)
    <3> DEFINE d == Len(buffer)
               hs == HeaderSent(f)
    <3>1. /\ size \in 2 .. Full(f) /\ d \in Nat /\ d < size
      BY <1>2, <2>3, AwaitedSize, Zenon DEF First
    <3>2. hs \in Seq(Bytes) /\ Len(hs) = Full(f)
      BY <2>1
    <3>3. Head(wire).header = SubSeq(hs, d + 1, Full(f))
      BY <2>2
    <3>4. Len(Head(wire).header) < size - d
      BY <2>3
    <3> HIDE DEF d, hs
    <3>5. /\ d + 1 \in Int /\ Full(f) \in Int
          /\ \A i \in d + 1 .. Full(f) : i \in 1 .. Len(hs)
      BY <2>1, <3>1, <3>2, SMT
    <3>6. \A i \in d + 1 .. Full(f) : hs[i] \in Bytes
      BY <3>2, <3>5, ElementOfSeq, Zenon
    <3>7. Len(SubSeq(hs, d + 1, Full(f)))
            = IF d + 1 <= Full(f) THEN Full(f) - (d + 1) + 1 ELSE 0
      BY <3>5, <3>6, SubSeqProperties, SMT
    <3> DEFINE l == Len(SubSeq(hs, d + 1, Full(f)))
    <3>8. l < size - d /\ l = IF d + 1 <= Full(f) THEN Full(f) - (d + 1) + 1 ELSE 0
      BY <3>3, <3>4, <3>7
    <3> HIDE DEF l
    <3> QED BY <3>1, <3>8, <2>1, SMT
  <2>4. CASE size = NoHeader
    <3>1. /\ Len(buffer) = Full(f)
          /\ PayloadLen(buffer) = f.length /\ MaskKey(buffer) = f.key
      BY <1>2, <2>4, HeaderRead, Zenon DEF First
    <3>2. Head(wire).header = <<>>
      <4>1. Full(f) + 1 \in Int /\ Full(f) \in Int /\ Full(f) < Full(f) + 1
        BY <2>1, SMT
      <4> QED BY <4>1, <2>2, <3>1, SubSeqEmpty, Zenon
    <3>3. Head(wire).length = f.length /\ Head(wire).key = f.key
      BY <1>4, Zenon DEF Whole
    <3>4. ~(size > 0)
      BY <2>4, SMT DEF NoHeader
    <3> QED BY <1>1, <3>1, <3>2, <3>3, <3>4, Zenon
  <2> QED BY <1>1, <2>3, <2>4, Zenon
<1> QED BY <1>2, <1>3, <1>4, Zenon

-----------------------------------------------------------------------------
(* The invariant holds.                                                    *)

LEMMA NextInv == ASSUME Inv, [Next]_vars PROVE Inv'
<1>1. CASE \E f \in FramesSent : SendFrame(f)
  BY <1>1, SendFrameInv, Zenon
<1>2. CASE \E f \in FramesSent : \E k \in 0 .. HeaderSize(f.length, f.mask),
               n \in {0, f.length, f.length - 1} \cap Nat : WriteGivesUp(f, k, n)
  BY <1>2, WriteGivesUpInv, Zenon
<1>3. CASE Breaks
  <2>1. up' = FALSE /\ UNCHANGED <<wire, buffer, size, inStep, delivered, sent, cut>>
    BY <1>3, Zenon DEF Breaks
  <2>2. up' \in BOOLEAN /\ ~up'
    BY <2>1
  <2> QED BY <2>1, <2>2, Zenon DEF Inv, TypeOK
<1>4. CASE StartFrame
  BY <1>4, StartFrameInv, Zenon
<1>5. CASE ReadHeader
  BY <1>5, ReadHeaderInv, Zenon
<1>6. CASE ReadPayload
  BY <1>6, ReadPayloadInv, Zenon
<1>7. CASE OutOfStep
  <2>1. cut
    BY <1>7, OutOfStepCut, Zenon
  <2>2. /\ inStep' = FALSE
        /\ UNCHANGED <<up, wire, buffer, size, delivered, sent, cut>>
    BY <1>7, Zenon DEF OutOfStep
  <2>3. inStep' \in BOOLEAN /\ ~inStep' /\ cut'
    BY <2>1, <2>2
  <2> QED BY <2>2, <2>3, Zenon DEF Inv, TypeOK
<1>8. CASE ReadTimeout
  <2>1. GiveUp /\ UNCHANGED <<wire, inStep, delivered, sent, cut>>
    BY <1>8, Zenon DEF ReadTimeout
  <2>2. wire' \in Seq(Packets)
    BY <2>1, Types, Zenon
  <2> QED BY <2>1, <2>2, GivenUp, Zenon
<1>9. CASE UNCHANGED vars
  <2>1. UNCHANGED <<up, wire, buffer, size, inStep, delivered, sent, cut>>
    BY <1>9, Zenon DEF vars
  <2>2. ASSUME NEW m, Aligned(m) PROVE Aligned(m)'
    BY <2>1, <2>2, Zenon DEF Aligned, Reading, Done
  <2> QED BY <2>1, <2>2, Zenon DEF Inv, TypeOK
<1> QED BY <1>1, <1>2, <1>3, <1>4, <1>5, <1>6, <1>7, <1>8, <1>9, Zenon DEF Next, Read

(* While the connection is up and nothing was cut, the wire holds exactly   *)
(* the frames that were sent and not delivered, whatever part of the first  *)
(* handleWebsocketCb has already read.                                     *)
THEOREM Invariance == Spec => []Inv
<1>1. Init => Inv
  BY InitInv, Zenon
<1>2. Inv /\ [Next]_vars => Inv'
  BY NextInv, Zenon
<1> QED BY <1>1, <1>2, PTL DEF Spec

(* Every variable keeps its type; above all, the header bytes never exceed   *)
(* cWsHeader and the size awaited is one of those the code can ask for.     *)
THEOREM TypeCorrect == Spec => []TypeOK
<1>1. Inv => TypeOK
  BY Zenon DEF Inv
<1> QED BY <1>1, Invariance, PTL

(* Reader and writer are out of step only after a write that gave up in     *)
(* the middle of a frame, for all frames and every length of payload.       *)
THEOREM InStepHolds == Spec => []InStep
<1>1. Inv => InStep
  BY Zenon DEF Inv, InStep
<1> QED BY <1>1, Invariance, PTL

-----------------------------------------------------------------------------
(***************************************************************************)
(* The abstract channel.  The frames delivered are those sent, so the only  *)
(* steps of FrameStream it sees are: a frame sent, the next one delivered,  *)
(* and the end of what is usable.                                          *)
(***************************************************************************)

(* The end: it was open, and is no longer.                                 *)
LEMMA EndStep ==
    ASSUME up, inStep, ~up' \/ ~inStep', UNCHANGED <<sent, delivered>>
    PROVE  Channel!Next
<1>1. (up /\ inStep) /\ (up' /\ inStep') = FALSE
  BY Zenon
<1> QED BY <1>1, Zenon DEF Channel!Next, Channel!End

(* A read that delivers the next frame, gives up, or goes on.              *)
LEMMA ReadStep ==
    ASSUME up, inStep, UNCHANGED <<inStep, sent>>, up' \in BOOLEAN,
           delivered' = delivered \/ DeliversNext
    PROVE  Channel!Next \/ UNCHANGED <<up /\ inStep, sent, delivered>>
<1>1. CASE DeliversNext
  <2>1. /\ Len(delivered) < Len(sent)
        /\ delivered' = Append(delivered, sent[Len(delivered) + 1])
        /\ UNCHANGED up
    BY <1>1, Zenon DEF DeliversNext
  <2>2. (up' /\ inStep') = (up /\ inStep)
    BY <2>1
  <2>3. Channel!Deliver
    BY <2>1, <2>2, Zenon DEF Channel!Deliver
  <2> QED BY <2>3, Zenon DEF Channel!Next
<1>2. CASE delivered' = delivered /\ ~up'
  BY <1>2, EndStep, Zenon
<1>3. CASE delivered' = delivered /\ up'
  <2>1. (up' /\ inStep') = (up /\ inStep)
    BY <1>3, Zenon
  <2> QED BY <1>3, <2>1, Zenon
<1> QED BY <1>1, <1>2, <1>3, Zenon

LEMMA ChannelStep ==
    ASSUME Inv, Inv', [Next]_vars
    PROVE  Channel!Next \/ UNCHANGED <<up /\ inStep, sent, delivered>>
<1>1. up' \in BOOLEAN /\ inStep' \in BOOLEAN
  BY Zenon DEF Inv, TypeOK
<1>2. ASSUME NEW f \in FramesSent, SendFrame(f) PROVE Channel!Next
  <2>1. sent' = Append(sent, f) /\ UNCHANGED <<up, inStep, delivered>>
    BY <1>2, Zenon DEF SendFrame
  <2>2. (up' /\ inStep') = (up /\ inStep)
    BY <2>1
  <2>3. Channel!Send(f)
    BY <2>1, <2>2, Zenon DEF Channel!Send
  <2> QED BY <2>3, Zenon DEF Channel!Next
<1>3. ASSUME NEW f \in FramesSent, NEW k, NEW n, WriteGivesUp(f, k, n)
      PROVE  UNCHANGED <<up /\ inStep, sent, delivered>>
  BY <1>3 DEF WriteGivesUp
<1>4. CASE Breaks
  <2>1. up /\ ~up' /\ UNCHANGED <<inStep, sent, delivered>>
    BY <1>4 DEF Breaks
  <2>2. CASE inStep
    BY <2>1, <2>2, EndStep, Zenon
  <2>3. CASE ~inStep
    <3>1. (up' /\ inStep') = (up /\ inStep)
      BY <2>1, <2>3
    <3> QED BY <2>1, <3>1, Zenon
  <2> QED BY <2>2, <2>3
<1>5. CASE StartFrame
  BY <1>5 DEF StartFrame
<1>6. CASE ReadHeader
  BY <1>1, <1>6, ReadHeaderInv, ReadStep, Zenon DEF ReadHeader
<1>7. CASE ReadPayload
  BY <1>1, <1>7, ReadPayloadInv, ReadStep, Zenon DEF ReadPayload
<1>8. CASE OutOfStep
  <2>1. up /\ inStep /\ ~inStep' /\ UNCHANGED <<sent, delivered>>
    BY <1>8 DEF OutOfStep
  <2> QED BY <2>1, EndStep, Zenon
<1>9. CASE ReadTimeout
  <2>1. up /\ ~up' /\ UNCHANGED <<inStep, sent, delivered>>
    BY <1>9 DEF ReadTimeout, GiveUp
  <2>2. CASE inStep
    BY <2>1, <2>2, EndStep, Zenon
  <2>3. CASE ~inStep
    <3>1. (up' /\ inStep') = (up /\ inStep)
      BY <2>1, <2>3
    <3> QED BY <2>1, <3>1, Zenon
  <2> QED BY <2>2, <2>3
<1>10. CASE UNCHANGED vars
  BY <1>10 DEF vars
<1> QED BY <1>2, <1>3, <1>4, <1>5, <1>6, <1>7, <1>8, <1>9, <1>10, Zenon DEF Next, Read

(* One direction of a connection is a channel of whole messages: what        *)
(* messageReceived is called with is what sendFrame said it sent, in order,  *)
(* nothing twice and nothing left out, until the connection ends or a frame  *)
(* was cut.                                                                *)
THEOREM MessageChannelImplemented == Spec => ChannelSpec
<1>1. Init => Channel!Init
  <2> SUFFICES ASSUME Init PROVE Channel!Init
    OBVIOUS
  <2>1. (up /\ inStep) = TRUE /\ sent = <<>> /\ delivered = <<>>
    BY Zenon DEF Init
  <2> QED BY <2>1, Zenon DEF Channel!Init
<1>2. Inv /\ Inv' /\ [Next]_vars => [Channel!Next]_<<up /\ inStep, sent, delivered>>
  BY ChannelStep, Zenon
<1> QED BY <1>1, <1>2, Invariance, PTL DEF Spec, ChannelSpec, Channel!Spec
=============================================================================
