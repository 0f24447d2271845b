---------------------------- MODULE Frame_proofs ----------------------------
(***************************************************************************)
(* The header of a frame, for every length, opcode and key: createHeader    *)
(* writes as many bytes as sendFrame reserved, never more than the buffer   *)
(* holds, and handleWebsocketCb reads back what was written.                *)
(***************************************************************************)
EXTENDS Frame, SequenceTheorems, TLAPS

-----------------------------------------------------------------------------
(* Arithmetic of bytes.                                                    *)

LEMMA SizeMaxNat == SizeMax \in Nat
BY SizeAssumption

LEMMA ByteRange == ASSUME NEW n \in Nat PROVE n % 256 \in Bytes
BY DEF Bytes

LEMMA Split256 == ASSUME NEW n \in Nat
                  PROVE  n = (n \div 256) * 256 + (n % 256) /\ n \div 256 \in Nat
OBVIOUS

LEMMA DivTwice16 == ASSUME NEW n \in Nat
                    PROVE  n \div 65536 = (n \div 256) \div 256
OBVIOUS

LEMMA DivTwice24 == ASSUME NEW n \in Nat
                    PROVE  n \div 16777216 = (n \div 65536) \div 256
OBVIOUS

LEMMA TwoBytes == ASSUME NEW n \in Nat, n < 65536
                  PROVE  ((n \div 256) % 256) * 256 + (n % 256) = n
OBVIOUS

LEMMA DivMonotonic == ASSUME NEW m \in Nat, NEW n \in 0 .. m
                      PROVE  n \div 65536 <= m \div 65536 /\ n \div 65536 \in Nat
OBVIOUS

LEMMA SizeLimit == ASSUME NEW n \in Sizes PROVE n \div 65536 < 65536
<1>1. n \in Nat /\ n \in 0 .. SizeMax
  BY SizeMaxNat, SMT DEF Sizes
<1>2. n \div 65536 <= SizeMax \div 65536 /\ n \div 65536 \in Nat /\ SizeMax \div 65536 \in Nat
  BY <1>1, SizeMaxNat, DivMonotonic, SMT
<1>3. SizeMax \div 65536 < 65536
  BY SizeAssumption, SMT
<1> QED BY <1>2, <1>3, SMT

(* A size has four bytes, and they are its digits.                          *)
LEMMA FourBytes ==
    ASSUME NEW n \in Sizes
    PROVE  ((n \div 16777216) % 256) * 16777216 + ((n \div 65536) % 256) * 65536
             + ((n \div 256) % 256) * 256 + (n % 256) = n
<1> DEFINE a == n \div 256
           b == n \div 65536
           c == n \div 16777216
<1>1. n \in Nat /\ a \in Nat /\ b \in Nat /\ c \in Nat
  <2>1. n \in Nat
    BY SizeMaxNat DEF Sizes
  <2> QED BY <2>1
<1>2. n = a * 256 + (n % 256)
  BY <1>1
<1>3. a = b * 256 + (a % 256)
  BY <1>1, DivTwice16, Split256
<1>4. b = c * 256 + (b % 256)
  BY <1>1, DivTwice24, Split256
<1>5. c < 256
  <2>1. b < 65536
    BY SizeLimit, SMT
  <2> QED BY <2>1, <1>1
<1>6. c % 256 = c
  BY <1>1, <1>5
<1>7. n % 256 \in Nat /\ a % 256 \in Nat /\ b % 256 \in Nat
  BY <1>1
<1> HIDE DEF a, b, c
<1> QED BY <1>1, <1>2, <1>3, <1>4, <1>6, <1>7 DEF a, b, c

(* A flag in bit 7 leaves the other seven bits alone.                       *)
LEMMA FlagBit ==
    ASSUME NEW flag \in BOOLEAN, NEW n \in 0 .. 127
    PROVE  /\ Bit7(flag) + n \in Bytes
           /\ (Bit7(flag) + n) % 128 = n
           /\ ((Bit7(flag) + n) \div 128 = 1) = flag
BY DEF Bit7, Bytes

LEMMA Byte1 ==
    ASSUME NEW flag \in BOOLEAN, NEW n \in Sizes
    PROVE  /\ (Bit7(flag) + Field7(n)) % 128 = Field7(n)
           /\ ((Bit7(flag) + Field7(n)) \div 128 = 1) = flag
<1>1. Field7(n) \in 0 .. 127
  BY SMT DEF Field7, Sizes
<1> QED BY <1>1, FlagBit, Zenon

LEMMA Opcode4 ==
    ASSUME NEW flag \in BOOLEAN, NEW op \in Opcodes
    PROVE  (Bit7(flag) + op) % 16 = op
BY DEF Bit7, Opcodes

-----------------------------------------------------------------------------
(* The bytes createHeader writes.                                          *)

LEMMA FrameFields ==
    ASSUME NEW f \in Frames
    PROVE  /\ f.fin \in BOOLEAN /\ f.mask \in BOOLEAN
           /\ f.opcode \in Opcodes /\ f.length \in Sizes /\ f.key \in Keys
           /\ ~f.mask => f.key = NoKey
<1> DEFINE Records == [fin : BOOLEAN, opcode : Opcodes, mask : BOOLEAN, length : Sizes, key : Keys]
<1>1. f \in Records /\ (~f.mask => f.key = NoKey)
  BY Zenon DEF Frames
<1>2. f.fin \in BOOLEAN
  BY <1>1, Zenon
<1>3. f.mask \in BOOLEAN
  BY <1>1, Zenon
<1>4. f.opcode \in Opcodes /\ f.length \in Sizes /\ f.key \in Keys
  BY <1>1, SMT
<1> QED BY <1>1, <1>2, <1>3, <1>4, Zenon

LEMMA KeyBytes ==
    ASSUME NEW key \in Keys
    PROVE  key \in Seq(Bytes) /\ Len(key) = 4 /\ \A i \in 1 .. 4 : key[i] \in Bytes
<1>1. key \in [1 .. 4 -> Bytes]
  BY DEF Keys
<1> HIDE DEF Bytes
<1>2. key \in Seq(Bytes)
  <2>1. 4 \in Nat
    OBVIOUS
  <2>2. key \in UNION {[1 .. n -> Bytes] : n \in Nat}
    BY <1>1, <2>1, SMT
  <2> QED BY <2>2, SeqDef, Zenon
<1>3. DOMAIN key = 1 .. 4
  BY <1>1
<1>4. Len(key) = 4
  BY <1>2, <1>3, LenProperties, SMT
<1> QED BY <1>1, <1>2, <1>4

(* The length of the length.                                               *)
LengthSize(n) == IF n < 126 THEN 0 ELSE IF n < 65535 THEN 2 ELSE 8

LEMMA LengthBytesType ==
    ASSUME NEW n \in Sizes
    PROVE  /\ LengthBytes(n) \in Seq(Bytes)
           /\ Len(LengthBytes(n)) = LengthSize(n)
<1>1. n \in Nat /\ n \div 256 \in Nat /\ n \div 65536 \in Nat /\ n \div 16777216 \in Nat
  BY SizeMaxNat, SMT DEF Sizes
<1>2. /\ n % 256 \in Bytes /\ (n \div 256) % 256 \in Bytes
      /\ (n \div 65536) % 256 \in Bytes /\ (n \div 16777216) % 256 \in Bytes
      /\ 0 \in Bytes
  BY <1>1, ByteRange, SMT DEF Bytes
<1> HIDE DEF Bytes
<1>3. CASE n < 126
  BY <1>3, SMT DEF LengthBytes, LengthSize
<1>4. CASE 126 <= n /\ n < 65535
  BY <1>1, <1>2, <1>4, SMT DEF LengthBytes, LengthSize
<1>5. CASE 65535 <= n
  BY <1>1, <1>2, <1>5, SMT DEF LengthBytes, LengthSize
<1> QED BY <1>1, <1>3, <1>4, <1>5

(* createHeader's three parts, one after the other.                         *)
Flags(f) == <<Bit7(f.fin) + f.opcode, Bit7(f.mask) + Field7(f.length)>>
KeyPart(f) == IF f.mask THEN f.key ELSE <<>>

LEMMA HeaderParts ==
    ASSUME NEW f \in Frames
    PROVE  LET h == CreateHeader(f)
               n == 2 + Len(LengthBytes(f.length))
           IN  /\ h \in Seq(Bytes)
               /\ Len(h) = n + (IF f.mask THEN 4 ELSE 0)
               /\ h[1] = Bit7(f.fin) + f.opcode
               /\ h[2] = Bit7(f.mask) + Field7(f.length)
               /\ \A i \in 1 .. Len(LengthBytes(f.length)) : h[2 + i] = LengthBytes(f.length)[i]
               /\ f.mask => \A i \in 1 .. 4 : h[n + i] = f.key[i]
<1> DEFINE s == Flags(f)
           t == LengthBytes(f.length)
           k == KeyPart(f)
<1>1. /\ f.fin \in BOOLEAN /\ f.mask \in BOOLEAN
      /\ f.opcode \in Opcodes /\ f.length \in Sizes /\ f.key \in Keys
  BY FrameFields
<1>2. Bit7(f.fin) + f.opcode \in Bytes
  BY <1>1, SMT DEF Bit7, Bytes, Opcodes
<1>3. Bit7(f.mask) + Field7(f.length) \in Bytes
  BY <1>1, SMT DEF Bit7, Bytes, Field7, Sizes
<1> HIDE DEF Bytes
<1>4. /\ s \in Seq(Bytes) /\ Len(s) = 2
      /\ s[1] = Bit7(f.fin) + f.opcode
      /\ s[2] = Bit7(f.mask) + Field7(f.length)
  BY <1>2, <1>3, SMT DEF Flags
<1>5. t \in Seq(Bytes) /\ Len(t) \in Nat
  BY <1>1, LengthBytesType, SMT
<1>6. k \in Seq(Bytes) /\ Len(k) = (IF f.mask THEN 4 ELSE 0) /\ (f.mask => k = f.key)
  <2>1. CASE f.mask
    BY <2>1, <1>1, KeyBytes, SMT DEF KeyPart
  <2>2. CASE ~f.mask
    BY <2>2, SMT DEF KeyPart
  <2> QED BY <2>1, <2>2
<1>7. CreateHeader(f) = (s \o t) \o k
  BY Zenon DEF CreateHeader, Flags, KeyPart
<1> HIDE DEF s, t, k
<1>8. /\ s \o t \in Seq(Bytes) /\ Len(s \o t) = 2 + Len(t)
      /\ \A i \in 1 .. 2 + Len(t) : (s \o t)[i] = IF i <= 2 THEN s[i] ELSE t[i - 2]
  <2>1. /\ s \o t \in Seq(Bytes) /\ Len(s \o t) = Len(s) + Len(t)
        /\ \A i \in 1 .. Len(s) + Len(t) :
              (s \o t)[i] = IF i <= Len(s) THEN s[i] ELSE t[i - Len(s)]
    BY <1>4, <1>5, ConcatProperties, Zenon
  <2> QED BY <1>4, <2>1, Zenon
<1> DEFINE st == s \o t
<1> HIDE DEF st
<1>9. /\ st \o k \in Seq(Bytes) /\ Len(st \o k) = 2 + Len(t) + Len(k)
      /\ \A i \in 1 .. 2 + Len(t) + Len(k) :
            (st \o k)[i] = IF i <= 2 + Len(t) THEN st[i] ELSE k[i - (2 + Len(t))]
  <2>1. /\ st \o k \in Seq(Bytes) /\ Len(st \o k) = Len(st) + Len(k)
        /\ \A i \in 1 .. Len(st) + Len(k) :
              (st \o k)[i] = IF i <= Len(st) THEN st[i] ELSE k[i - Len(st)]
    <3>1. st \in Seq(Bytes)
      BY <1>8, Zenon DEF st
    <3> QED BY <1>6, <3>1, ConcatProperties, Zenon
  <2>2. Len(st) = 2 + Len(t)
    BY <1>8, Zenon DEF st
  <2> QED BY <2>1, <2>2, Zenon
<1> DEFINE h == st \o k
<1> HIDE DEF h
<1>10. h = CreateHeader(f)
  BY <1>7, Zenon DEF h, st
<1>11. h[1] = s[1] /\ h[2] = s[2]
  BY <1>5, <1>6, <1>8, <1>9, SMT DEF h, st
<1>12. \A i \in 1 .. Len(t) : h[2 + i] = t[i]
  BY <1>5, <1>6, <1>8, <1>9, SMT DEF h, st
<1>13. f.mask => \A i \in 1 .. 4 : h[2 + Len(t) + i] = k[i]
  BY <1>5, <1>6, <1>9, SMT DEF h
<1>14. h \in Seq(Bytes) /\ Len(h) = 2 + Len(t) + (IF f.mask THEN 4 ELSE 0)
  BY <1>6, <1>9, Zenon DEF h
<1> QED BY <1>4, <1>6, <1>10, <1>11, <1>12, <1>13, <1>14, Zenon DEF t

-----------------------------------------------------------------------------
(* The header is as long as the size sendFrame computed, which is where the *)
(* payload is put, and fits cWsHeader and sendFrame's buffer.               *)
THEOREM HeaderFits ==
    ASSUME NEW f \in Frames
    PROVE  /\ CreateHeader(f) \in Seq(Bytes)
           /\ Len(CreateHeader(f)) = HeaderSize(f.length, f.mask)
           /\ HeaderSize(f.length, f.mask) \in 2 .. MaxHeaderSize
<1>1. f.length \in Sizes /\ f.mask \in BOOLEAN
  BY FrameFields
<1>2. Len(LengthBytes(f.length)) = LengthSize(f.length)
  BY <1>1, LengthBytesType, Zenon
<1>3. /\ CreateHeader(f) \in Seq(Bytes)
      /\ Len(CreateHeader(f)) = 2 + Len(LengthBytes(f.length)) + (IF f.mask THEN 4 ELSE 0)
  BY HeaderParts, Zenon
<1> QED BY <1>1, <1>2, <1>3, SMT DEF HeaderSize, LengthSize, MaxHeaderSize, Sizes

(* What the first two bytes of f's header make the reader wait for.         *)
LEMMA PartsRead ==
    ASSUME NEW f \in Frames, NEW b,
           b[2] = Bit7(f.mask) + Field7(f.length)
    PROVE  /\ Masked(b) = f.mask
           /\ Length7(b) = Field7(f.length)
           /\ LengthEnd(b) = 2 + Len(LengthBytes(f.length))
           /\ HeaderEnd(b) = HeaderSize(f.length, f.mask)
<1>1. f.length \in Sizes /\ f.mask \in BOOLEAN
  BY FrameFields
<1>2. /\ (Bit7(f.mask) + Field7(f.length)) % 128 = Field7(f.length)
      /\ ((Bit7(f.mask) + Field7(f.length)) \div 128 = 1) = f.mask
  BY <1>1, Byte1, Zenon
<1>3. Masked(b) = f.mask
  BY <1>2, Zenon DEF Masked
<1>4. Length7(b) = Field7(f.length)
  BY <1>2, Zenon DEF Length7
<1>5. Len(LengthBytes(f.length)) = LengthSize(f.length)
  BY <1>1, LengthBytesType, Zenon
<1>6. LengthEnd(b) = 2 + Len(LengthBytes(f.length))
  BY <1>1, <1>4, <1>5, SMT DEF LengthEnd, LengthSize, Field7, Sizes
<1>7. LengthEnd(b) = IF f.length < 126 THEN 2 ELSE IF f.length < 65535 THEN 4 ELSE 10
  BY <1>5, <1>6, SMT DEF LengthSize
<1>8. HeaderEnd(b) = HeaderSize(f.length, f.mask)
  <2>1. CASE f.mask
    <3>1. Masked(b)
      BY <2>1, <1>3
    <3> QED BY <2>1, <3>1, <1>7, SMT DEF HeaderEnd, HeaderSize
  <2>2. CASE ~f.mask
    <3>1. ~Masked(b)
      BY <2>2, <1>3
    <3> QED BY <2>2, <3>1, <1>7, SMT DEF HeaderEnd, HeaderSize
  <2> QED BY <2>1, <2>2, <1>1
<1> QED BY <1>3, <1>4, <1>6, <1>8

(* handleWebsocketCb reads from a header what createHeader put there: the   *)
(* three forms of the length, the mask bit and the key do not get in each   *)
(* other's way for any frame.                                              *)
THEOREM RoundTrip ==
    ASSUME NEW f \in Frames
    PROVE  /\ Decoded(CreateHeader(f)) = f
           /\ HeaderEnd(CreateHeader(f)) = Len(CreateHeader(f))
<1> DEFINE h == CreateHeader(f)
           n == f.length
           t == LengthBytes(n)
<1>1. /\ f.fin \in BOOLEAN /\ f.mask \in BOOLEAN
      /\ f.opcode \in Opcodes /\ n \in Sizes /\ f.key \in Keys
      /\ ~f.mask => f.key = NoKey
  BY FrameFields
<1>2. /\ h[1] = Bit7(f.fin) + f.opcode
      /\ h[2] = Bit7(f.mask) + Field7(n)
      /\ \A i \in 1 .. Len(t) : h[2 + i] = t[i]
      /\ f.mask => \A i \in 1 .. 4 : h[2 + Len(t) + i] = f.key[i]
  BY HeaderParts, Zenon
<1> HIDE DEF h
<1>3. /\ Masked(h) = f.mask
      /\ Length7(h) = Field7(n)
      /\ LengthEnd(h) = 2 + Len(t)
      /\ HeaderEnd(h) = HeaderSize(n, f.mask)
  BY <1>2, PartsRead, Zenon
<1>4. HeaderEnd(h) = Len(h)
  BY <1>3, HeaderFits, Zenon DEF h
<1>5. f.opcode \in 0 .. 127
  BY <1>1, SMT DEF Opcodes
<1>6. (h[1] \div 128 = 1) = f.fin
  <2>1. ((Bit7(f.fin) + f.opcode) \div 128 = 1) = f.fin
    BY <1>1, <1>5, FlagBit, Zenon
  <2> QED BY <2>1, <1>2, Zenon
<1>7. h[1] % 16 = f.opcode
  <2>1. (Bit7(f.fin) + f.opcode) % 16 = f.opcode
    BY <1>1, Opcode4, Zenon
  <2> QED BY <2>1, <1>2, Zenon
<1>8. PayloadLen(h) = n
  <2>1. CASE n < 126
    BY <2>1, <1>1, <1>3, SMT DEF PayloadLen, Field7, Sizes
  <2>2. CASE 126 <= n /\ n < 65535
    <3>1. t = <<(n \div 256) % 256, n % 256>> /\ n \in Nat
      BY <2>2, <1>1, SizeMaxNat, SMT DEF LengthBytes, Sizes
    <3>2. h[3] = (n \div 256) % 256 /\ h[4] = n % 256
      BY <1>2, <3>1, SMT
    <3>3. Length7(h) = 126
      BY <2>2, <3>1, <1>3, SMT DEF Field7
    <3>4. ((n \div 256) % 256) * 256 + (n % 256) = n
      BY <2>2, <3>1, TwoBytes, SMT
    <3> QED BY <3>2, <3>3, <3>4, SMT DEF PayloadLen
  <2>3. CASE 65535 <= n
    <3>0. ~(n < 126) /\ ~(n < 65535)
      BY <2>3, <1>1, SizeMaxNat, SMT DEF Sizes
    <3>1. t = <<0, 0, 0, 0, (n \div 16777216) % 256, (n \div 65536) % 256,
                (n \div 256) % 256, n % 256>>
      <4> HIDE DEF n
      <4> QED BY <3>0, SMT DEF LengthBytes
    <3>2. \A i \in 3 .. 6 : h[i] = 0
      <4>1. \A i \in 1 .. 4 : h[2 + i] = 0
        BY <1>2, <3>1, SMT
      <4> QED BY <4>1, SMT
    <3>3. /\ h[7] = (n \div 16777216) % 256 /\ h[8] = (n \div 65536) % 256
          /\ h[9] = (n \div 256) % 256 /\ h[10] = n % 256
      BY <1>2, <3>1, SMT
    <3>4. Length7(h) = 127
      BY <3>0, <1>3, SMT DEF Field7
    <3>5. h[7] * 16777216 + h[8] * 65536 + h[9] * 256 + h[10] = n
      BY <3>3, <1>1, FourBytes, SMT
    <3> QED BY <3>2, <3>4, <3>5, SMT DEF PayloadLen
  <2> QED BY <2>1, <2>2, <2>3, <1>1, SMT DEF Sizes
<1>9. MaskKey(h) = f.key
  <2>1. CASE f.mask
    <3>1. MaskKey(h) = [i \in 1 .. 4 |-> h[2 + Len(t) + i]]
      BY <2>1, <1>3, Zenon DEF MaskKey
    <3>2. f.key = [i \in 1 .. 4 |-> f.key[i]]
      BY <1>1, Zenon DEF Keys
    <3> QED BY <2>1, <3>1, <3>2, <1>2, Zenon
  <2>2. CASE ~f.mask
    BY <2>2, <1>1, <1>3, Zenon DEF MaskKey
  <2> QED BY <2>1, <2>2
<1>10. Decoded(h) = [fin |-> f.fin, opcode |-> f.opcode, mask |-> f.mask,
                     length |-> n, key |-> f.key]
  BY <1>3, <1>6, <1>7, <1>8, <1>9, Zenon DEF Decoded
<1>11. f = [fin |-> f.fin, opcode |-> f.opcode, mask |-> f.mask, length |-> n, key |-> f.key]
  BY SMT DEF Frames
<1> QED BY <1>4, <1>10, <1>11, Zenon DEF h
=============================================================================
