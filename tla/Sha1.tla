-------------------------------- MODULE Sha1 --------------------------------
(***************************************************************************)
(* src/src/libsha1/libsha1.c, the SHA-1 of the builds whose core has none. *)
(*                                                                         *)
(* SHA1Update and SHA1Final pass every block to SHA1Transform as soon as   *)
(* it is full; here a context keeps the blocks, to be transformed in their *)
(* order.  A 32-bit word is a pair of 16-bit halves.                       *)
(* The two counters of the context have WordMod values each (2^32 in the   *)
(* code), so that a short message carries from one into the other.         *)
(***************************************************************************)
EXTENDS Integers, Sequences

CONSTANT WordMod

ASSUME WordAssumption == WordMod \in Nat /\ WordMod >= 1024 /\ WordMod % 1024 = 0

Half == 65536

-----------------------------------------------------------------------------
(* SHA1Transform.                                                          *)

Plus(v, w) ==
    LET low == v[2] + w[2]
    IN  <<(v[1] + w[1] + low \div Half) % Half, low % Half>>

Sum5(u, v, w, x, y) == Plus(u, Plus(v, Plus(w, Plus(x, y))))

(* The bits two halves have in common, four at a time; the others follow.   *)
CommonFour ==
    [p \in (0 .. 15) \X (0 .. 15) |->
        LET bit(n) == ((p[1] \div n) % 2) * ((p[2] \div n) % 2)
        IN  bit(1) + 2 * bit(2) + 4 * bit(4) + 8 * bit(8)]

Common(x, y) ==
    LET four(n) == CommonFour[<<(x \div n) % 16, (y \div n) % 16>>]
    IN  four(1) + 16 * four(16) + 256 * four(256) + 4096 * four(4096)

BitAnd(v, w) == <<Common(v[1], w[1]), Common(v[2], w[2])>>
BitXor(v, w) == <<v[1] + w[1] - 2 * Common(v[1], w[1]), v[2] + w[2] - 2 * Common(v[2], w[2])>>
BitOr(v, w)  == <<v[1] + w[1] - Common(v[1], w[1]), v[2] + w[2] - Common(v[2], w[2])>>

RolShort(w, bits) ==
    LET up(high, low) == ((high * 2 ^ bits) % Half) + low \div 2 ^ (16 - bits)
    IN  <<up(w[1], w[2]), up(w[2], w[1])>>

Rol(w, bits) == IF bits < 16 THEN RolShort(w, bits) ELSE RolShort(<<w[2], w[1]>>, bits - 16)

(* Mutant of Blk: the rotation that tells SHA-1 from its predecessor.      *)
BlkUnrotated(block, i) ==
    BitXor(BitXor(block[(i + 13) % 16], block[(i + 8) % 16]),
           BitXor(block[(i + 2) % 16], block[i % 16]))

(* blk0 and blk: the words of the block, then the expansion of them in a    *)
(* ring of 16.                                                              *)
Blk0(bytes, i) ==
    <<bytes[4 * i + 1] * 256 + bytes[4 * i + 2], bytes[4 * i + 3] * 256 + bytes[4 * i + 4]>>

Blk(block, i) ==
    Rol(BitXor(BitXor(block[(i + 13) % 16], block[(i + 8) % 16]),
               BitXor(block[(i + 2) % 16], block[i % 16])), 1)

(* The functions and constants of R0 and R1, R2, R3, R4.                   *)
RoundFunction(i, w, x, y) ==
    CASE i < 20            -> BitXor(BitAnd(w, BitXor(x, y)), y)
      [] i \in 20 .. 39    -> BitXor(BitXor(w, x), y)
      [] i \in 40 .. 59    -> BitOr(BitAnd(BitOr(w, x), y), BitAnd(w, x))
      [] OTHER             -> BitXor(BitXor(w, x), y)

RoundConstant(i) ==
    CASE i < 20            -> <<\h5A82, \h7999>>
      [] i \in 20 .. 39    -> <<\h6ED9, \hEBA1>>
      [] i \in 40 .. 59    -> <<\h8F1B, \hBCDC>>
      [] OTHER             -> <<\hCA62, \hC1D6>>

(* Line i of the unrolled loop: the five variables change places.          *)
Round(s, i) ==
    LET at(n)  == (n - i) % 5
        block  == IF i < 16 THEN s.block
                  ELSE [s.block EXCEPT ![i % 16] = Blk(s.block, i)]
        var(n) == s.vars[at(n)]
    IN  [block |-> block,
         vars  |-> [s.vars EXCEPT
                      ![at(4)] = Sum5(@, RoundFunction(i, var(1), var(2), var(3)),
                                      block[i % 16], RoundConstant(i), Rol(var(0), 5)),
                      ![at(1)] = Rol(@, 30)]]

SHA1Transform(state, bytes) ==
    LET start == [block |-> [i \in 0 .. 15 |-> Blk0(bytes, i)], vars |-> state]
        after[i \in 0 .. 80] == IF i = 0 THEN start ELSE Round(after[i - 1], i - 1)
    IN  [n \in 0 .. 4 |-> Plus(state[n], after[80].vars[n])]

-----------------------------------------------------------------------------
(* SHA1Init, SHA1Update and SHA1Final.                                     *)

InitialState ==
    [n \in 0 .. 4 |-> CASE n = 0 -> <<\h6745, \h2301>>
                        [] n = 1 -> <<\hEFCD, \hAB89>>
                        [] n = 2 -> <<\h98BA, \hDCFE>>
                        [] n = 3 -> <<\h1032, \h5476>>
                        [] n = 4 -> <<\hC3D2, \hE1F0>>]

(* The buffer is not initialized.                                          *)
Garbage == -1

SHA1Init == [blocks |-> <<>>, count |-> <<0, 0>>, buffer |-> [k \in 1 .. 64 |-> Garbage]]

Copied(buffer, at, data) ==
    [k \in 1 .. 64 |-> IF k \in at + 1 .. at + Len(data) THEN data[k - at] ELSE buffer[k]]

(* Mutant of Counted: the lengths above 2^29 are forgotten.                *)
CountedLow(count, len) ==
    LET low   == (count[1] + len * 8) % WordMod
        carry == IF low < count[1] THEN 1 ELSE 0
    IN  <<low, (count[2] + carry) % WordMod>>

(* count[0] += len << 3, its carry, and the bits that shift lost.          *)
Counted(count, len) ==
    LET low   == (count[1] + len * 8) % WordMod
        carry == IF low < count[1] THEN 1 ELSE 0
    IN  <<low, (count[2] + carry + len \div (WordMod \div 8)) % WordMod>>

(* Mutant of FillsBuffer: a buffer that has become full waits.             *)
OverflowsBuffer(j, len) == j + len > 64

FillsBuffer(j, len) == j + len > 63

SHA1Update(c, data) ==
    LET len    == Len(data)
        j      == (c.count[1] \div 8) % 64
        i      == 64 - j
        first  == Copied(c.buffer, j, SubSeq(data, 1, i))
        whole  == (len - i) \div 64
        middle == [b \in 1 .. whole |-> SubSeq(data, i + 64 * (b - 1) + 1, i + 64 * b)]
        rest   == SubSeq(data, i + 64 * whole + 1, len)
    IN  IF FillsBuffer(j, len)
        THEN [blocks |-> (c.blocks \o <<first>>) \o middle,
              count  |-> Counted(c.count, len),
              buffer |-> Copied(first, 0, rest)]
        ELSE [c EXCEPT !.count = Counted(@, len), !.buffer = Copied(@, j, data)]

(* finalcount: both counters, the most significant byte first.             *)
WordBytes(n) == <<(n \div 2 ^ 24) % 256, (n \div 2 ^ 16) % 256, (n \div 256) % 256, n % 256>>

FinalCount(count) == WordBytes(count[2]) \o WordBytes(count[1])

(* The bit that ends the message, zero bytes one at a time while            *)
(* (count[0] & 504) != 448, which takes 63 at most, and the counts.         *)
SHA1Final(c) ==
    LET padded[n \in 0 .. 63] ==
            IF n = 0 THEN SHA1Update(c, <<128>>)
            ELSE LET p == padded[n - 1]
                 IN  IF p.count[1] % 512 = 448 THEN p ELSE SHA1Update(p, <<0>>)
    IN  SHA1Update(padded[63], FinalCount(c.count)).blocks

(* The digest: the five words of the state, the high byte first.           *)
HalfBytes(h) == <<h \div 256, h % 256>>
Word(w)      == HalfBytes(w[1]) \o HalfBytes(w[2])

DigestBytes(state) ==
    (Word(state[0]) \o Word(state[1])) \o (Word(state[2]) \o Word(state[3])) \o Word(state[4])
=============================================================================
