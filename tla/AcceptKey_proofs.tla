--------------------------- MODULE AcceptKey_proofs ---------------------------
(***************************************************************************)
(* Proofs about AcceptKey, Base64 and Sha1.  What a text becomes is an     *)
(* induction over its bytes: SetInduction and the lemmas behind it say     *)
(* that a recursion and a fold run step by step, the rest of the module    *)
(* finds for each coder and for SHA-1's buffer what is true after every    *)
(* number of bytes.                                                        *)
(***************************************************************************)
EXTENDS AcceptKey, SequenceTheorems, WellFoundedInduction, TLAPS

-----------------------------------------------------------------------------
(* Induction and recursion.                                                *)

(* Induction over the naturals, with a set in the place of the property.   *)
LEMMA SetInduction ==
    ASSUME NEW T, 0 \in T, \A n \in Nat : n \in T => n + 1 \in T
    PROVE  \A n \in Nat : n \in T
<1> DEFINE Out == {n \in Nat : n \notin T}
<1>1. SUFFICES ASSUME Out # {} PROVE FALSE
  OBVIOUS
<1>2. PICK x \in Out : \A y \in Out : <<y, x>> \notin OpToRel(<, Nat)
  <2>1. Out \subseteq Nat
    OBVIOUS
  <2> HIDE DEF Out
  <2> QED
    BY <1>1, <2>1, NatLessThanWellFounded, WFMin
<1>3. x \in Nat /\ x # 0 /\ x - 1 \in Nat /\ x - 1 < x /\ x = (x - 1) + 1
  OBVIOUS
<1>4. x - 1 \in T
  BY <1>2, <1>3 DEF OpToRel
<1> QED
  BY <1>3, <1>4

(* The same up to a bound.                                                 *)
LEMMA UpTo ==
    ASSUME NEW m \in Nat, NEW T, 0 \in T, \A k \in 0 .. m - 1 : k \in T => k + 1 \in T
    PROVE  \A k \in 0 .. m : k \in T
<1> DEFINE U == {n \in Nat : n \in T \/ n > m}
<1>1. 0 \in U
  OBVIOUS
<1>2. \A n \in Nat : n \in U => n + 1 \in U
  OBVIOUS
<1>3. \A n \in Nat : n \in U
  <2> HIDE DEF U
  <2> QED
    BY <1>1, <1>2, SetInduction
<1> QED
  BY <1>3

(* A non-empty set of positions has a greatest one.                        *)
LEMMA MaxIn ==
    ASSUME NEW m \in Nat, NEW S \in SUBSET (1 .. m), S # {}
    PROVE  Max(S) \in S /\ \A y \in S : Max(S) >= y
<1> DEFINE T == {k \in Nat : \A R \in SUBSET (1 .. k) : R # {} => \E x \in R : \A y \in R : x >= y}
<1>1. 0 \in T
  <2>1. 1 .. 0 = {}
    OBVIOUS
  <2> QED
    BY <2>1
<1>2. ASSUME NEW k \in Nat, k \in T
      PROVE  k + 1 \in T
  <2>1. ASSUME NEW R \in SUBSET (1 .. k + 1), R # {}
        PROVE  \E x \in R : \A y \in R : x >= y
    <3>1. CASE k + 1 \in R
      BY <3>1
    <3>2. CASE k + 1 \notin R
      <4>1. R \in SUBSET (1 .. k)
        BY <3>2
      <4> QED
        BY <1>2, <2>1, <4>1
    <3> QED
      BY <3>1, <3>2
  <2> QED
    BY <2>1
<1>3. m \in T
  <2> HIDE DEF T
  <2> QED
    BY <1>1, <1>2, SetInduction
<1> QED
  BY <1>3, Zenon DEF Max

(* A run of step from c, and a fold over the positions 1 .. m that takes    *)
(* the greatest one last.                                                  *)
IsRun(f, V, c, m, step) ==
    /\ f \in [0 .. m -> V]
    /\ f[0] = c
    /\ \A k \in 1 .. m : f[k] = step[<<f[k - 1], k>>]

EndsWith(f, m, v) == f[m] = v

IsFold(g, V, c, m, step) ==
    /\ g[{}] = c
    /\ \A S \in SUBSET (1 .. m) :
           S # {} /\ g[S \ {Max(S)}] \in V => g[S] = step[<<g[S \ {Max(S)}], Max(S)>>]

(* There is a run, a value for each step, ...                              *)
LEMMA RunExists ==
    ASSUME NEW V, NEW c \in V, NEW m \in Nat, NEW step \in [V \X (1 .. m) -> V]
    PROVE  \E f : IsRun(f, V, c, m, step)
<1> DEFINE Run(f, n) == f[0] = c /\ \A k \in 1 .. n : f[k] = step[<<f[k - 1], k>>]
           T == {n \in Nat : \E f \in [0 .. n -> V] : Run(f, n)}
<1>1. 0 \in T
  <2>1. [i \in 0 .. 0 |-> c] \in [0 .. 0 -> V] /\ Run([i \in 0 .. 0 |-> c], 0)
    OBVIOUS
  <2> QED
    BY <2>1
<1>2. ASSUME NEW n \in 0 .. m - 1, n \in T
      PROVE  n + 1 \in T
  <2>1. PICK f \in [0 .. n -> V] : Run(f, n)
    BY <1>2
  <2>2. step[<<f[n], n + 1>>] \in V
    OBVIOUS
  <2> DEFINE g == [i \in 0 .. n + 1 |-> IF i = n + 1 THEN step[<<f[n], n + 1>>] ELSE f[i]]
  <2>3. g \in [0 .. n + 1 -> V]
    BY <2>2
  <2>4. g[0] = c
    BY <2>1
  <2>5. ASSUME NEW k \in 1 .. n + 1
        PROVE  g[k] = step[<<g[k - 1], k>>]
    <3>1. CASE k = n + 1
      <4>1. g[k] = step[<<f[n], n + 1>>] /\ g[k - 1] = f[n]
        BY <3>1
      <4> QED
        BY <3>1, <4>1
    <3>2. CASE k # n + 1
      <4>1. k \in 1 .. n /\ g[k] = f[k] /\ g[k - 1] = f[k - 1]
        BY <3>2
      <4> QED
        BY <2>1, <4>1
    <3> QED
      BY <3>1, <3>2
  <2> HIDE DEF g
  <2>6. n + 1 \in Nat /\ Run(g, n + 1)
    BY <2>4, <2>5
  <2>7. n + 1 \in Nat /\ \E h \in [0 .. n + 1 -> V] : Run(h, n + 1)
    BY <2>3, <2>6
  <2> HIDE DEF Run
  <2> QED
    BY <2>7
<1>3. m \in T
  <2> HIDE DEF T
  <2> QED
    BY <1>1, <1>2, UpTo
<1> QED
  BY <1>3 DEF IsRun

(* ... and a fold.                                                         *)
LEMMA FoldExists ==
    ASSUME NEW V, NEW c \in V, NEW m \in Nat, NEW step \in [V \X (1 .. m) -> V]
    PROVE  \E g : g \in [SUBSET (1 .. m) -> V] /\ IsFold(g, V, c, m, step)
<1> DEFINE Fold(g, n) ==
               /\ g[{}] = c
               /\ \A S \in SUBSET (1 .. n) : S # {} => g[S] = step[<<g[S \ {Max(S)}], Max(S)>>]
           T == {n \in Nat : \E g \in [SUBSET (1 .. n) -> V] : Fold(g, n)}
<1>1. 0 \in T
  <2>0. 1 .. 0 = {}
    OBVIOUS
  <2>1. [S \in SUBSET (1 .. 0) |-> c] \in [SUBSET (1 .. 0) -> V]
        /\ Fold([S \in SUBSET (1 .. 0) |-> c], 0)
    BY <2>0
  <2> QED
    BY <2>1
<1>2. ASSUME NEW n \in 0 .. m - 1, n \in T
      PROVE  n + 1 \in T
  <2>1. PICK g \in [SUBSET (1 .. n) -> V] : Fold(g, n)
    BY <1>2
  <2> DEFINE h == [S \in SUBSET (1 .. n + 1) |->
                      IF n + 1 \in S THEN step[<<g[S \ {n + 1}], n + 1>>] ELSE g[S]]
  <2>2. ASSUME NEW S \in SUBSET (1 .. n + 1), n + 1 \in S
        PROVE  /\ S \ {n + 1} \in SUBSET (1 .. n)
               /\ Max(S) = n + 1
               /\ h[S] = step[<<h[S \ {Max(S)}], Max(S)>>]
               /\ h[S] \in V
    <3>1. S \ {n + 1} \in SUBSET (1 .. n)
      OBVIOUS
    <3>2. Max(S) = n + 1
      <4>1. n + 1 \in Nat /\ S # {}
        BY <2>2
      <4>2. Max(S) \in S /\ \A y \in S : Max(S) >= y
        BY <4>1, MaxIn
      <4>3. Max(S) \in 1 .. n + 1 /\ Max(S) >= n + 1
        BY <2>2, <4>2
      <4> QED
        BY <4>3
    <3>3. h[S] = step[<<g[S \ {n + 1}], n + 1>>]
      BY <2>2
    <3>4. h[S \ {n + 1}] = g[S \ {n + 1}]
      BY <3>1
    <3>5. g[S \ {n + 1}] \in V /\ n + 1 \in 1 .. m
      BY <3>1
    <3> QED
      BY <3>1, <3>2, <3>3, <3>4, <3>5
  <2>3. ASSUME NEW S \in SUBSET (1 .. n + 1), n + 1 \notin S
        PROVE  S \in SUBSET (1 .. n) /\ h[S] = g[S]
    BY <2>3
  <2>4. h \in [SUBSET (1 .. n + 1) -> V]
    <3>1. \A S \in SUBSET (1 .. n + 1) : h[S] \in V
      BY <2>2, <2>3
    <3> QED
      BY <3>1
  <2>5. h[{}] = c
    BY <2>1
  <2>6. ASSUME NEW S \in SUBSET (1 .. n + 1), S # {}
        PROVE  h[S] = step[<<h[S \ {Max(S)}], Max(S)>>]
    <3>1. CASE n + 1 \in S
      BY <2>2, <3>1
    <3>2. CASE n + 1 \notin S
      <4>1. S \ {Max(S)} \in SUBSET (1 .. n) /\ n + 1 \notin S \ {Max(S)}
        BY <2>3, <3>2
      <4>2. h[S \ {Max(S)}] = g[S \ {Max(S)}]
        BY <4>1
      <4> HIDE DEF h
      <4> QED
        BY <2>1, <2>3, <2>6, <3>2, <4>2
    <3> QED
      BY <3>1, <3>2
  <2> HIDE DEF h
  <2>7. n + 1 \in Nat /\ Fold(h, n + 1)
    BY <2>5, <2>6
  <2> HIDE DEF Fold
  <2> QED
    BY <2>4, <2>7
<1>3. m \in T
  <2> HIDE DEF T
  <2> QED
    BY <1>1, <1>2, UpTo
<1> QED
  BY <1>3 DEF IsFold

(* A function that folds over the sets of positions is such a run, taken    *)
(* at the sets 1 .. k.                                                     *)
LEMMA FoldRuns ==
    ASSUME NEW V, NEW c \in V, NEW m \in Nat, NEW step \in [V \X (1 .. m) -> V],
           NEW g, IsFold(g, V, c, m, step)
    PROVE  \E f : IsRun(f, V, c, m, step) /\ EndsWith(f, m, g[1 .. m])
<1> DEFINE T == {n \in Nat : g[1 .. n] \in V}
<1>1. 0 \in T /\ g[1 .. 0] = c
  <2>1. 1 .. 0 = {}
    OBVIOUS
  <2> QED
    BY <2>1 DEF IsFold
<1>2. ASSUME NEW k \in 1 .. m, k - 1 \in T
      PROVE  g[1 .. k] = step[<<g[1 .. k - 1], k>>] /\ k \in T
  <2>1. 1 .. k \in SUBSET (1 .. m) /\ 1 .. k # {} /\ k \in 1 .. k
    OBVIOUS
  <2>2. Max(1 .. k) \in 1 .. k /\ Max(1 .. k) >= k
    BY <2>1, MaxIn
  <2>3. Max(1 .. k) = k
    BY <2>2
  <2>4. (1 .. k) \ {k} = 1 .. k - 1
    OBVIOUS
  <2>5. g[1 .. k - 1] \in V
    BY <1>2
  <2>6. g[1 .. k] = step[<<g[1 .. k - 1], k>>]
    BY <2>1, <2>3, <2>4, <2>5 DEF IsFold
  <2>7. step[<<g[1 .. k - 1], k>>] \in V
    BY <2>5
  <2> QED
    BY <2>6, <2>7
<1>3. \A k \in 0 .. m : k \in T
  <2>1. ASSUME NEW k \in 0 .. m - 1, k \in T
        PROVE  k + 1 \in T
    <3>1. k + 1 \in 1 .. m /\ (k + 1) - 1 = k
      OBVIOUS
    <3> HIDE DEF T
    <3> QED
      BY <1>2, <2>1, <3>1
  <2> HIDE DEF T
  <2> QED
    BY <1>1, <2>1, UpTo
<1> DEFINE f == [k \in 0 .. m |-> g[1 .. k]]
<1>4. f \in [0 .. m -> V]
  BY <1>3
<1>5. f[0] = c /\ f[m] = g[1 .. m]
  BY <1>1
<1>6. ASSUME NEW k \in 1 .. m
      PROVE  f[k] = step[<<f[k - 1], k>>]
  <2>1. k - 1 \in 0 .. m
    OBVIOUS
  <2>2. k - 1 \in T
    BY <1>3, <2>1
  <2> HIDE DEF T
  <2> QED
    BY <1>2, <2>1, <2>2
<1> HIDE DEF f
<1> QED
  BY <1>4, <1>5, <1>6 DEF IsRun, EndsWith

-----------------------------------------------------------------------------
(* Base64: lengths, and groups of three bytes.                             *)

Digits64 == 0 .. 63

(* What base64_encode writes, the line feeds and the NUL included, fits     *)
(* into what it has allocated, for every length but 4 and 7: 1.6 bytes per  *)
(* byte are more than the 4/3 of the code and the 1/54 of its line feeds,   *)
(* and the minimum of 5 pays for the shortest.                             *)
THEOREM CodeFits ==
    ASSUME NEW length \in Nat, length \notin {4, 7}
    PROVE  CodeLength(length) <= BufferSize(length)
<1> DEFINE groups == (length + 2) \div 3
           lines  == length \div 54
           room   == (8 * length) \div 5
<1>1. CodeLength(length) = 4 * groups + lines + 1
  BY SMT DEF CodeLength, GroupsPerLine
<1>2. /\ groups \in Nat /\ 3 * groups <= length + 2
      /\ lines \in Nat /\ 54 * lines <= length
      /\ room \in Nat /\ 5 * room + 4 >= 8 * length
  BY SMT
<1>3. BufferSize(length) >= room + 1 /\ BufferSize(length) >= 5 /\ BufferSize(length) \in Int
  BY <1>2, SMT DEF BufferSize
<1> HIDE DEF groups, lines, room
<1>4. CASE length > 30
  <2>1. 60 * groups <= 20 * length + 40
    BY <1>2, SMT
  <2>2. 270 * (4 * groups + lines) <= 365 * length + 720
    BY <1>2, SMT
  <2>3. 270 * room >= 432 * length - 216
    BY <1>2, SMT
  <2>4. 432 * length - 216 >= 365 * length + 720
    BY <1>4, SMT
  <2> QED  BY <1>1, <1>2, <1>3, <2>2, <2>3, <2>4, SMT
<1>5. CASE length <= 30
  <2>1. lines = 0
    BY <1>2, <1>5, SMT
  <2>2. length \in 0 .. 30
    BY <1>5
  <2>3. \A n \in 0 .. 30 : n \notin {4, 7} =>
            4 * ((n + 2) \div 3) + 1 <= (IF (8 * n) \div 5 + 1 > 5 THEN (8 * n) \div 5 + 1 ELSE 5)
    BY SMT
  <2>4. 4 * ((length + 2) \div 3) + 1 <= BufferSize(length)
    BY <2>2, <2>3, SMT DEF BufferSize
  <2>5. groups = (length + 2) \div 3
    BY DEF groups
  <2> QED  BY <1>1, <1>2, <2>1, <2>4, <2>5, SMT
<1> QED  BY <1>4, <1>5, SMT

(* The alphabet: the characters the encoder writes are those the decoder    *)
(* reads, and neither padding nor the line feed is one of them.            *)
LEMMA AlphabetRead ==
    ASSUME NEW v \in Digits64
    PROVE  DecodeValue(EncodeValue(v)) = v
BY SMT DEF Digits64, EncodeValue, DecodeValue, Pad

(* The decoder skips padding, the line feed and the NUL.                   *)
LEMMA NotRead ==
    DecodeValue(Pad) < 0 /\ DecodeValue(Newline) < 0 /\ DecodeValue(Nul) < 0
BY SMT DEF DecodeValue, Pad, Newline, Nul

(* The six bits of each character, cut out of three bytes, and the bytes    *)
(* put together from them.                                                 *)
LEMMA Cut ==
    ASSUME NEW a \in Bytes, NEW b \in Bytes, NEW c \in Bytes
    PROVE  /\ a \div 4 \in Digits64
           /\ (a % 4) * 16 + b \div 16 \in Digits64
           /\ (b % 16) * 4 + c \div 64 \in Digits64
           /\ c % 64 \in Digits64
BY SMT DEF Bytes, Digits64

(* The bytes again, from the bits of the four characters.                  *)
LEMMA Joined ==
    ASSUME NEW a \in Bytes, NEW b \in Bytes, NEW c \in Bytes
    PROVE  /\ (((a \div 4) % 64) * 4) + (((((a % 4) * 16) + (b \div 16)) \div 16) % 4) = a
           /\ (((((a % 4) * 16) + (b \div 16)) % 16) * 16)
                 + (((((b % 16) * 4) + (c \div 64)) \div 4) % 16) = b
           /\ (((((b % 16) * 4) + (c \div 64)) % 4) * 64) + ((c % 64) % 64) = c
<1> DEFINE q == a \div 4  r == a % 4  t == b \div 16  u == b % 16  x == c \div 64  y == c % 64
<1>1. /\ q \in 0 .. 63 /\ r \in 0 .. 3 /\ a = 4 * q + r
      /\ t \in 0 .. 15 /\ u \in 0 .. 15 /\ b = 16 * t + u
      /\ x \in 0 .. 3 /\ y \in 0 .. 63 /\ c = 64 * x + y
  BY SMT DEF Bytes
<1> HIDE DEF q, r, t, u, x, y
<1>2. ((q % 64) * 4) + ((((r * 16) + t) \div 16) % 4) = a
  BY <1>1, SMT
<1>3. ((((r * 16) + t) % 16) * 16) + ((((u * 4) + x) \div 4) % 16) = b
  BY <1>1, SMT
<1>4. ((((u * 4) + x) % 4) * 64) + (y % 64) = c
  BY <1>1, SMT
<1> QED  BY <1>2, <1>3, <1>4 DEF q, r, t, u, x, y

Encoders == [step : {"A", "B", "C"}, result : Int, stepcount : 0 .. GroupsPerLine - 1, out : Seq(Int)]

(* A character is a number.                                                *)
LEMMA EncodedType ==
    ASSUME NEW v \in Digits64
    PROVE  EncodeValue(v) \in Int
BY SMT DEF Digits64, EncodeValue, Pad

(* What the first two bytes of a group leave in the state.                 *)
LEMMA Stepped ==
    ASSUME NEW s \in Encoders, NEW n \in {"A", "B", "C"}, NEW y \in Int, NEW z \in Seq(Int)
    PROVE  [s EXCEPT !.step = n, !.result = y, !.out = z] \in Encoders
BY DEF Encoders

(* Case A of the switch, as a record.                                      *)
LEMMA EncodesA ==
    ASSUME NEW s \in Encoders, NEW byte \in Bytes,
           EncodeValue(byte \div 4) \in Int, (byte % 4) * 16 \in Int
    PROVE  /\ EncodeA(s, byte) \in Encoders
           /\ EncodeA(s, byte).out = Append(s.out, EncodeValue(byte \div 4))
           /\ EncodeA(s, byte).result = (byte % 4) * 16
           /\ EncodeA(s, byte).stepcount = s.stepcount
<1>1. Append(s.out, EncodeValue(byte \div 4)) \in Seq(Int)
  BY DEF Encoders
<1>2. [s EXCEPT !.step = "B", !.result = (byte % 4) * 16,
                !.out = Append(s.out, EncodeValue(byte \div 4))] \in Encoders
  BY <1>1, Stepped
<1>3. EncodeA(s, byte) \in Encoders
  BY <1>2 DEF EncodeA
<1> QED BY <1>3 DEF EncodeA, Encoders

(* Case B.                                                                 *)
LEMMA EncodesB ==
    ASSUME NEW s \in Encoders, NEW byte \in Bytes,
           EncodeValue(s.result + byte \div 16) \in Int, (byte % 16) * 4 \in Int
    PROVE  /\ EncodeB(s, byte) \in Encoders
           /\ EncodeB(s, byte).out = Append(s.out, EncodeValue(s.result + byte \div 16))
           /\ EncodeB(s, byte).result = (byte % 16) * 4
           /\ EncodeB(s, byte).stepcount = s.stepcount
<1>1. Append(s.out, EncodeValue(s.result + byte \div 16)) \in Seq(Int)
  BY DEF Encoders
<1>2. [s EXCEPT !.step = "C", !.result = (byte % 16) * 4,
                !.out = Append(s.out, EncodeValue(s.result + byte \div 16))] \in Encoders
  BY <1>1, Stepped
<1>3. EncodeB(s, byte) \in Encoders
  BY <1>2 DEF EncodeB
<1> QED BY <1>3 DEF EncodeB, Encoders

(* A group of three bytes, and its characters.                             *)
Group(s, a, b, c) == EncodeC(EncodeB(EncodeA(s, a), b), c)

Characters(a, b, c) ==
    [one   |-> EncodeValue(a \div 4),
     two   |-> EncodeValue((a % 4) * 16 + b \div 16),
     three |-> EncodeValue((b % 16) * 4 + c \div 64),
     four  |-> EncodeValue(c % 64)]

(* What base64_decode_block reads of the four characters that               *)
(* base64_encode_block writes for three bytes is these bytes, for all of    *)
(* them and wherever in a text the group is: the characters, and the line    *)
(* feed behind the last group of a line, ...                               *)
THEOREM GroupWritten ==
    ASSUME NEW s \in Encoders, NEW a \in Bytes, NEW b \in Bytes, NEW c \in Bytes
    PROVE  LET k == Characters(a, b, c)
               four == Append(Append(s.out, k.one), k.two) \o <<k.three, k.four>>
           IN  Group(s, a, b, c).out =
                   four \o (IF s.stepcount = GroupsPerLine - 1 THEN <<Newline>> ELSE <<>>)
<1> DEFINE k  == Characters(a, b, c)
           s1 == EncodeA(s, a)
           s2 == EncodeB(s1, b)
<1>1. /\ k.one = EncodeValue(a \div 4)
      /\ k.two = EncodeValue((a % 4) * 16 + b \div 16)
      /\ k.three = EncodeValue((b % 16) * 4 + c \div 64)
      /\ k.four = EncodeValue(c % 64)
  BY DEF Characters
<1>2. k.one \in Int /\ k.two \in Int /\ (a % 4) * 16 \in Int /\ (b % 16) * 4 \in Int
  <2>1. k.one \in Int
    BY <1>1, Cut, EncodedType
  <2>2. k.two \in Int
    BY <1>1, Cut, EncodedType
  <2>3. (a % 4) * 16 \in Int /\ (b % 16) * 4 \in Int
    BY SMT DEF Bytes
  <2> QED  BY <2>1, <2>2, <2>3
<1>3. /\ s1 \in Encoders /\ s1.out = Append(s.out, k.one)
      /\ s1.result = (a % 4) * 16 /\ s1.stepcount = s.stepcount
  BY <1>1, <1>2, EncodesA DEF s1
<1>4. /\ s2 \in Encoders /\ s2.out = Append(Append(s.out, k.one), k.two)
      /\ s2.result = (b % 16) * 4 /\ s2.stepcount = s.stepcount
  <2>1. s1.result + (b \div 16) = (a % 4) * 16 + (b \div 16)
    BY <1>3
  <2>2. EncodeValue(s1.result + (b \div 16)) = k.two
    BY <1>1, <2>1, Zenon
  <2> HIDE DEF s1, k
  <2> QED  BY <1>2, <1>3, <2>2, EncodesB, ZenonT(60) DEF s2
<1>5. NextLine(s.stepcount) = 0 <=> s.stepcount = GroupsPerLine - 1
  BY SMTT(30) DEF NextLine, GroupsPerLine, Encoders
<1>6. Group(s, a, b, c) = EncodeC(s2, c)
  BY DEF Group
<1> HIDE DEF s1, s2, k
<1>7. EncodeC(s2, c).out =
        (s2.out \o <<k.three, k.four>>)
          \o (IF NextLine(s.stepcount) = 0 THEN <<Newline>> ELSE <<>>)
  BY <1>1, <1>4 DEF EncodeC, Encoders
<1> QED  BY <1>4, <1>5, <1>6, <1>7 DEF k

(* ... and what the decoder makes of them.                                 *)
THEOREM GroupReadBack ==
    ASSUME NEW out \in Seq(Bytes), NEW junk \in Int,
           NEW a \in Bytes, NEW b \in Bytes, NEW c \in Bytes
    PROVE  LET k == Characters(a, b, c)
               s0 == [step |-> "a", plainchar |-> junk, out |-> out]
               s4 == DecodeChar(DecodeChar(DecodeChar(DecodeChar(s0, k.one), k.two), k.three), k.four)
           IN  s4 = [step |-> "a", plainchar |-> 0, out |-> Append(Append(Append(out, a), b), c)]
<1> DEFINE v1 == a \div 4
           v2 == (a % 4) * 16 + b \div 16
           v3 == (b % 16) * 4 + c \div 64
           v4 == c % 64
           k  == Characters(a, b, c)
           s0 == [step |-> "a", plainchar |-> junk, out |-> out]
           s1 == [step |-> "b", plainchar |-> (v1 % 64) * 4, out |-> out]
           s2 == [step |-> "c", plainchar |-> (v2 % 16) * 16, out |-> Append(out, a)]
           s3 == [step |-> "d", plainchar |-> (v3 % 4) * 64, out |-> Append(Append(out, a), b)]
<1>1. v1 \in Digits64 /\ v2 \in Digits64 /\ v3 \in Digits64 /\ v4 \in Digits64
  BY Cut
<1>2. /\ ((v1 % 64) * 4) + ((v2 \div 16) % 4) = a
      /\ ((v2 % 16) * 16) + ((v3 \div 4) % 16) = b
      /\ ((v3 % 4) * 64) + (v4 % 64) = c
  BY Joined
<1>3. /\ k.one = EncodeValue(v1) /\ k.two = EncodeValue(v2)
      /\ k.three = EncodeValue(v3) /\ k.four = EncodeValue(v4)
  BY DEF Characters
<1> HIDE DEF v1, v2, v3, v4, k
<1>4. ASSUME NEW s, NEW v \in Digits64
      PROVE  DecodeChar(s, EncodeValue(v)) = DecodeFragment(s, v)
  <2>1. DecodeValue(EncodeValue(v)) = v
    BY AlphabetRead
  <2>2. ~(v < 0)
    BY SMT DEF Digits64
  <2> QED  BY <2>1, <2>2 DEF DecodeChar
<1>5. DecodeFragment(s0, v1) = s1
  BY DEF DecodeFragment
<1>6. DecodeFragment(s1, v2) = s2
  BY <1>2 DEF DecodeFragment
<1>7. DecodeFragment(s2, v3) = s3
  BY <1>2 DEF DecodeFragment
<1>8. DecodeFragment(s3, v4) =
        [step |-> "a", plainchar |-> 0, out |-> Append(Append(Append(out, a), b), c)]
  BY <1>2 DEF DecodeFragment
<1> HIDE DEF s0, s1, s2, s3
<1>9. DecodeChar(s0, k.one) = s1
  BY <1>1, <1>3, <1>4, <1>5
<1>10. DecodeChar(s1, k.two) = s2
  BY <1>1, <1>3, <1>4, <1>6
<1>11. DecodeChar(s2, k.three) = s3
  BY <1>1, <1>3, <1>4, <1>7
<1>12. DecodeChar(s3, k.four) =
         [step |-> "a", plainchar |-> 0, out |-> Append(Append(Append(out, a), b), c)]
  BY <1>1, <1>3, <1>4, <1>8
<1> QED  BY <1>9, <1>10, <1>11, <1>12 DEF s0, k

-----------------------------------------------------------------------------
(* base64_encode_block, byte by byte.                                      *)

(* Each case of the encoder leaves an encoder.                             *)
LEMMA EncodeByteType ==
    ASSUME NEW s \in Encoders, NEW byte \in Bytes
    PROVE  EncodeByte(s, byte) \in Encoders
<1>1. \A v \in Int : EncodeValue(v) \in Int
  BY SMT DEF EncodeValue, Pad
<1>2. s.result \in Int /\ s.stepcount \in 0 .. 17 /\ s.out \in Seq(Int)
      /\ s.step \in {"A", "B", "C"} /\ byte \in Int
  BY DEF Encoders, GroupsPerLine, Bytes
<1>3. CASE s.step = "A"
  <2>1. EncodeValue(byte \div 4) \in Int /\ (byte % 4) * 16 \in Int
    BY <1>1, <1>2
  <2> QED
    BY <1>3, <2>1, EncodesA DEF EncodeByte
<1>4. CASE s.step = "B"
  <2>1. s.result + byte \div 16 \in Int /\ (byte % 16) * 4 \in Int
    BY <1>2
  <2>2. EncodeValue(s.result + byte \div 16) \in Int
    BY <1>1, <2>1
  <2> QED
    BY <1>4, <2>1, <2>2, EncodesB DEF EncodeByte
<1>5. CASE s.step = "C"
  <2>a. s.result + byte \div 64 \in Int /\ byte % 64 \in Int
    BY <1>2
  <2>1. EncodeValue(s.result + byte \div 64) \in Int /\ EncodeValue(byte % 64) \in Int
    BY <1>1, <2>a
  <2>b. \A n \in 0 .. 17 : NextLine(n) \in 0 .. 17
    BY DEF NextLine, GroupsPerLine
  <2>2. NextLine(s.stepcount) \in 0 .. 17
    BY <1>2, <2>b
  <2> DEFINE more == <<EncodeValue(s.result + byte \div 64), EncodeValue(byte % 64)>>
             feed == IF NextLine(s.stepcount) = 0 THEN <<Newline>> ELSE <<>>
             all  == (s.out \o more) \o feed
  <2>3. more \in Seq(Int) /\ feed \in Seq(Int)
    BY <2>1 DEF Newline
  <2>4. all \in Seq(Int)
    BY <1>2, <2>3
  <2>5. EncodeC(s, byte) =
            [step |-> "A", result |-> byte % 64, stepcount |-> NextLine(s.stepcount), out |-> all]
    BY DEF EncodeC
  <2> HIDE DEF all
  <2>6. EncodeC(s, byte) \in Encoders
    BY <2>a, <2>2, <2>4, <2>5 DEF Encoders, GroupsPerLine
  <2> QED
    BY <1>5, <2>6 DEF EncodeByte
<1> QED
  BY <1>2, <1>3, <1>4, <1>5

(* FoldLeft calls EncodeByte for one byte after the other.                 *)
LEMMA EncodeBlockRuns ==
    ASSUME NEW s \in Encoders, NEW plain \in Seq(Bytes)
    PROVE  \E f \in [0 .. Len(plain) -> Encoders] :
               /\ f[0] = s
               /\ \A k \in 1 .. Len(plain) : f[k] = EncodeByte(f[k - 1], plain[k])
               /\ EncodeBlock(s, plain) = f[Len(plain)]
<1> DEFINE m == Len(plain)
           step == [p \in Encoders \X (1 .. m) |-> EncodeByte(p[1], plain[p[2]])]
           Folds(g) == g = [S \in SUBSET DOMAIN plain |->
                               IF S = {} THEN s ELSE EncodeByte(g[S \ {Max(S)}], plain[Max(S)])]
<1>1. m \in Nat /\ DOMAIN plain = 1 .. m /\ \A k \in 1 .. m : plain[k] \in Bytes
  OBVIOUS
<1>a. step \in [Encoders \X (1 .. m) -> Encoders]
  BY <1>1, EncodeByteType
<1>2. \A e \in Encoders, k \in 1 .. m : step[<<e, k>>] = EncodeByte(e, plain[k])
  OBVIOUS
<1>b. m \in Nat
  OBVIOUS
<1> HIDE DEF m, step
<1>3. \A S \in SUBSET (1 .. m) : S # {} => Max(S) \in 1 .. m /\ S \ {Max(S)} \in SUBSET (1 .. m)
  BY <1>1, MaxIn
<1>4. \E g : Folds(g)
  <2>a. PICK g : g \in [SUBSET (1 .. m) -> Encoders] /\ IsFold(g, Encoders, s, m, step)
    BY <1>a, <1>b, FoldExists
  <2>1. /\ g \in [SUBSET (1 .. m) -> Encoders]
        /\ g[{}] = s
        /\ \A S \in SUBSET (1 .. m) : S # {} => g[S] = step[<<g[S \ {Max(S)}], Max(S)>>]
    BY <1>3, <2>a DEF IsFold
  <2>2. ASSUME NEW S \in SUBSET (1 .. m), S # {}
        PROVE  g[S] = EncodeByte(g[S \ {Max(S)}], plain[Max(S)])
    <3>1. g[S \ {Max(S)}] \in Encoders /\ Max(S) \in 1 .. m
      BY <1>3, <2>1, <2>2
    <3> QED
      BY <1>2, <2>1, <2>2, <3>1
  <2>3. Folds(g)
    BY <1>1, <2>1, <2>2
  <2> QED
    BY <2>3
<1> DEFINE g == CHOOSE h : Folds(h)
<1>5. Folds(g)
  BY <1>4, Zenon
<1>6. EncodeBlock(s, plain) = g[DOMAIN plain]
  BY DEF EncodeBlock, FoldLeft, MapThenFoldSet
<1> HIDE DEF g
<1>7. g[{}] = s
      /\ \A S \in SUBSET (1 .. m) : S # {} => g[S] = EncodeByte(g[S \ {Max(S)}], plain[Max(S)])
  BY <1>1, <1>5
<1> HIDE DEF Folds
<1>8. IsFold(g, Encoders, s, m, step)
  BY <1>2, <1>3, <1>7 DEF IsFold
<1>c. PICK f : IsRun(f, Encoders, s, m, step) /\ EndsWith(f, m, g[1 .. m])
  BY <1>a, <1>b, <1>8, FoldRuns
<1>9. /\ f \in [0 .. m -> Encoders] /\ f[0] = s /\ f[m] = g[1 .. m]
      /\ \A k \in 1 .. m : f[k] = step[<<f[k - 1], k>>]
  BY <1>c DEF IsRun, EndsWith
<1>10. ASSUME NEW k \in 1 .. m
       PROVE  f[k] = EncodeByte(f[k - 1], plain[k])
  <2>1. f[k - 1] \in Encoders
    BY <1>1, <1>9
  <2> QED
    BY <1>2, <1>9, <2>1
<1> QED
  BY <1>1, <1>6, <1>9, <1>10 DEF m

-----------------------------------------------------------------------------
(* base64_decode_block, character by character.                            *)

Decoders == [step : {"a", "b", "c", "d"}, plainchar : Int, out : Seq(Int)]

(* Each case of the decoder leaves a decoder.                              *)
LEMMA DecodeCharType ==
    ASSUME NEW s \in Decoders, NEW c \in Int
    PROVE  DecodeChar(s, c) \in Decoders
<1>1. DecodeValue(c) \in Int
  BY SMT DEF DecodeValue, Pad
<1>2. s.plainchar \in Int /\ s.out \in Seq(Int) /\ s.step \in {"a", "b", "c", "d"}
  BY DEF Decoders
<1>3. ASSUME NEW v \in Int
      PROVE  DecodeFragment(s, v) \in Decoders
  <2>1. CASE s.step = "a"
    <3>1. (v % 64) * 4 \in Int
      OBVIOUS
    <3>2. [s EXCEPT !.step = "b", !.plainchar = (v % 64) * 4] \in Decoders
      BY <3>1 DEF Decoders
    <3> QED
      BY <2>1, <3>2 DEF DecodeFragment
  <2>2. CASE s.step = "b"
    <3>1. Append(s.out, s.plainchar + ((v \div 16) % 4)) \in Seq(Int)
      BY <1>2
    <3> QED
      BY <1>2, <2>2, <3>1 DEF DecodeFragment, Decoders
  <2>3. CASE s.step = "c"
    <3>1. Append(s.out, s.plainchar + ((v \div 4) % 16)) \in Seq(Int)
      BY <1>2
    <3> QED
      BY <1>2, <2>3, <3>1 DEF DecodeFragment, Decoders
  <2>4. CASE s.step = "d"
    <3>1. Append(s.out, s.plainchar + (v % 64)) \in Seq(Int)
      BY <1>2
    <3> QED
      BY <1>2, <2>4, <3>1 DEF DecodeFragment, Decoders
  <2> QED
    BY <1>2, <2>1, <2>2, <2>3, <2>4
<1> QED
  BY <1>1, <1>3 DEF DecodeChar

(* FoldLeft calls DecodeChar for one character after the other.            *)
LEMMA DecodeBlockRuns ==
    ASSUME NEW s \in Decoders, NEW text \in Seq(Int)
    PROVE  \E f \in [0 .. Len(text) -> Decoders] :
               /\ f[0] = s
               /\ \A k \in 1 .. Len(text) : f[k] = DecodeChar(f[k - 1], text[k])
               /\ DecodeBlock(s, text) = f[Len(text)]
<1> DEFINE m == Len(text)
           step == [p \in Decoders \X (1 .. m) |-> DecodeChar(p[1], text[p[2]])]
           Folds(g) == g = [S \in SUBSET DOMAIN text |->
                               IF S = {} THEN s ELSE DecodeChar(g[S \ {Max(S)}], text[Max(S)])]
<1>1. m \in Nat /\ DOMAIN text = 1 .. m /\ \A k \in 1 .. m : text[k] \in Int
  OBVIOUS
<1>2. m \in Nat
  OBVIOUS
<1>3. step \in [Decoders \X (1 .. m) -> Decoders]
  BY <1>1, DecodeCharType
<1>4. \A e \in Decoders, k \in 1 .. m : step[<<e, k>>] = DecodeChar(e, text[k])
  OBVIOUS
<1> HIDE DEF m, step
<1>5. \A S \in SUBSET (1 .. m) : S # {} => Max(S) \in 1 .. m /\ S \ {Max(S)} \in SUBSET (1 .. m)
  BY <1>1, MaxIn
<1>6. \E g : Folds(g)
  <2>1. PICK g : g \in [SUBSET (1 .. m) -> Decoders] /\ IsFold(g, Decoders, s, m, step)
    BY <1>2, <1>3, FoldExists
  <2>2. /\ g \in [SUBSET (1 .. m) -> Decoders]
        /\ g[{}] = s
        /\ \A S \in SUBSET (1 .. m) : S # {} => g[S] = step[<<g[S \ {Max(S)}], Max(S)>>]
    BY <1>5, <2>1 DEF IsFold
  <2>3. ASSUME NEW S \in SUBSET (1 .. m), S # {}
        PROVE  g[S] = DecodeChar(g[S \ {Max(S)}], text[Max(S)])
    <3>1. g[S \ {Max(S)}] \in Decoders /\ Max(S) \in 1 .. m
      BY <1>5, <2>2, <2>3
    <3> QED
      BY <1>4, <2>2, <2>3, <3>1
  <2>4. Folds(g)
    BY <1>1, <2>2, <2>3
  <2> QED
    BY <2>4
<1> DEFINE g == CHOOSE h : Folds(h)
<1>7. Folds(g)
  BY <1>6, Zenon
<1>8. DecodeBlock(s, text) = g[DOMAIN text]
  BY DEF DecodeBlock, FoldLeft, MapThenFoldSet
<1> HIDE DEF g
<1>9. g[{}] = s
      /\ \A S \in SUBSET (1 .. m) : S # {} => g[S] = DecodeChar(g[S \ {Max(S)}], text[Max(S)])
  BY <1>1, <1>7
<1> HIDE DEF Folds
<1>10. IsFold(g, Decoders, s, m, step)
  BY <1>4, <1>5, <1>9 DEF IsFold
<1>11. PICK f : IsRun(f, Decoders, s, m, step) /\ EndsWith(f, m, g[1 .. m])
  BY <1>2, <1>3, <1>10, FoldRuns
<1>12. /\ f \in [0 .. m -> Decoders] /\ f[0] = s /\ f[m] = g[1 .. m]
       /\ \A k \in 1 .. m : f[k] = step[<<f[k - 1], k>>]
  BY <1>11 DEF IsRun, EndsWith
<1>13. ASSUME NEW k \in 1 .. m
       PROVE  f[k] = DecodeChar(f[k - 1], text[k])
  <2>1. f[k - 1] \in Decoders
    BY <1>1, <1>12
  <2> QED
    BY <1>4, <1>12, <2>1
<1> QED
  BY <1>1, <1>8, <1>12, <1>13 DEF m

-----------------------------------------------------------------------------
(* The letters of a text by their definition, and by the bytes they are     *)
(* cut from.                                                               *)

(* The alphabet of the definition is that of the table encoding[].         *)
LEMMA AlphabetIsEncoded ==
    ASSUME NEW v \in Digits64
    PROVE  Alphabet[v] = EncodeValue(v)
BY SMT DEF Digits64, Alphabet, EncodeValue, Pad

(* The four digits of three bytes are the bits the encoder shifts out of   *)
(* them.                                                                   *)
LEMMA TripleCut ==
    ASSUME NEW a \in Bytes, NEW b \in Bytes, NEW c \in Bytes,
           NEW t, t = a * 65536 + b * 256 + c
    PROVE  /\ (t \div 262144) % 64 = a \div 4
           /\ (t \div 4096) % 64 = (a % 4) * 16 + b \div 16
           /\ (t \div 64) % 64 = (b % 16) * 4 + c \div 64
           /\ t % 64 = c % 64
<1> DEFINE q == a \div 4  r == a % 4  u == b \div 16  w == b % 16  x == c \div 64  y == c % 64
<1>1. /\ q \in 0 .. 63 /\ r \in 0 .. 3 /\ a = 4 * q + r
      /\ u \in 0 .. 15 /\ w \in 0 .. 15 /\ b = 16 * u + w
      /\ x \in 0 .. 3 /\ y \in 0 .. 63 /\ c = 64 * x + y
  BY SMT DEF Bytes
<1> HIDE DEF q, r, u, w, x, y
<1>2. t = 262144 * q + 4096 * (16 * r + u) + 64 * (4 * w + x) + y
  BY <1>1, SMT
<1>3. 16 * r + u \in 0 .. 63 /\ 4 * w + x \in 0 .. 63
  BY <1>1, SMT
<1>4. t \in Int /\ q \in Int /\ 16 * r + u \in Int /\ 4 * w + x \in Int /\ y \in Int
  BY <1>1, <1>2, <1>3, SMT
<1>5. /\ t \div 262144 = q /\ t \div 4096 = 64 * q + (16 * r + u)
      /\ t \div 64 = 64 * (64 * q + (16 * r + u)) + (4 * w + x) /\ t % 64 = y
  <2> DEFINE d2 == 16 * r + u
             d3 == 4 * w + x
  <2>1. d2 \in 0 .. 63 /\ d3 \in 0 .. 63 /\ t = 262144 * q + 4096 * d2 + 64 * d3 + y
    BY <1>2, <1>3
  <2> HIDE DEF d2, d3
  <2>2. t \div 262144 = q
    BY <1>1, <2>1, SMT
  <2>3. t \div 4096 = 64 * q + d2
    BY <1>1, <2>1, SMT
  <2>4. t \div 64 = 64 * (64 * q + d2) + d3
    BY <1>1, <2>1, SMT
  <2>5. t % 64 = y
    BY <1>1, <2>1, SMT
  <2> QED  BY <2>2, <2>3, <2>4, <2>5 DEF d2, d3
<1>6. \A n \in Int, d \in 0 .. 63 : (64 * n + d) % 64 = d
  BY SMT
<1>7. \A d \in 0 .. 63 : d % 64 = d
  BY SMT
<1>8. (t \div 262144) % 64 = q /\ (t \div 4096) % 64 = r * 16 + u
      /\ (t \div 64) % 64 = w * 4 + x
  <2>1. (t \div 262144) % 64 = q
    BY <1>1, <1>5, <1>7, SMT
  <2>2. (t \div 4096) % 64 = r * 16 + u
    BY <1>1, <1>3, <1>5, <1>6, SMT
  <2>3. (t \div 64) % 64 = w * 4 + x
    BY <1>1, <1>3, <1>5, <1>6, SMT
  <2> QED  BY <2>1, <2>2, <2>3
<1> QED  BY <1>5, <1>8 DEF q, r, u, w, x, y

(* Behind the end of the text the definition reads zeros.                  *)
LEMMA ByteAtIn ==
    ASSUME NEW s \in Seq(Bytes), NEW n \in Int
    PROVE  ByteAt(s, n) \in Bytes
<1>1. 0 \in Bytes
  BY DEF Bytes
<1>2. n \in 1 .. Len(s) => s[n] \in Bytes
  OBVIOUS
<1> QED
  BY <1>1, <1>2 DEF ByteAt

(* Three bytes are a number.                                               *)
LEMMA TripleIn ==
    ASSUME NEW a \in Bytes, NEW b \in Bytes, NEW c \in Bytes,
           NEW t, t = a * 65536 + b * 256 + c
    PROVE  t \in Nat
<1>1. a \in Nat /\ b \in Nat /\ c \in Nat
  BY DEF Bytes
<1> QED
  BY <1>1

BytesOf(s, g, a, b, c) ==
    /\ g \in Nat
    /\ a = ByteAt(s, 3 * g + 1) /\ b = ByteAt(s, 3 * g + 2) /\ c = ByteAt(s, 3 * g + 3)

(* The letters of group g, from its three bytes.                           *)
LEMMA LettersAt ==
    ASSUME NEW s \in Seq(Bytes), NEW g, NEW a, NEW b, NEW c, BytesOf(s, g, a, b, c)
    PROVE  /\ Letters(s, 4 * g + 1) = EncodeValue(a \div 4)
           /\ Letters(s, 4 * g + 2) = EncodeValue((a % 4) * 16 + b \div 16)
           /\ Letters(s, 4 * g + 3) = EncodeValue((b % 16) * 4 + c \div 64)
           /\ Letters(s, 4 * g + 4) = EncodeValue(c % 64)
<1> DEFINE t == Triple(s, g)
<1>a. g \in Nat /\ a = ByteAt(s, 3 * g + 1) /\ b = ByteAt(s, 3 * g + 2) /\ c = ByteAt(s, 3 * g + 3)
  BY DEF BytesOf
<1>1. a \in Bytes /\ b \in Bytes /\ c \in Bytes
  <2>1. 3 * g + 1 \in Int /\ 3 * g + 2 \in Int /\ 3 * g + 3 \in Int
    BY <1>a
  <2> QED
    BY <1>a, <2>1, ByteAtIn
<1>2. t = a * 65536 + b * 256 + c
  BY <1>a DEF Triple
<1>3. t \in Nat
  <2> HIDE DEF t
  <2> QED
    BY <1>1, <1>2, TripleIn
<1>4. /\ (t \div 262144) % 64 = a \div 4
      /\ (t \div 4096) % 64 = (a % 4) * 16 + b \div 16
      /\ (t \div 64) % 64 = (b % 16) * 4 + c \div 64
      /\ t % 64 = c % 64
  BY <1>1, <1>2, TripleCut
<1>5. Digits(s, g) = [d \in 1 .. 4 |-> Alphabet[(t \div 64 ^ (4 - d)) % 64]]
  BY DEF Digits
<1>6. 64 ^ (4 - 1) = 262144 /\ 64 ^ (4 - 2) = 4096 /\ 64 ^ (4 - 3) = 64 /\ 64 ^ (4 - 4) = 1
  BY SMT
<1> HIDE DEF t
<1>7. /\ Digits(s, g)[1] = Alphabet[(t \div 262144) % 64]
      /\ Digits(s, g)[2] = Alphabet[(t \div 4096) % 64]
      /\ Digits(s, g)[3] = Alphabet[(t \div 64) % 64]
      /\ Digits(s, g)[4] = Alphabet[(t \div 1) % 64]
  BY <1>5, <1>6
<1>8. t \div 1 = t
  BY <1>3
<1>9. /\ Digits(s, g)[1] = EncodeValue(a \div 4)
      /\ Digits(s, g)[2] = EncodeValue((a % 4) * 16 + b \div 16)
      /\ Digits(s, g)[3] = EncodeValue((b % 16) * 4 + c \div 64)
      /\ Digits(s, g)[4] = EncodeValue(c % 64)
  BY <1>1, <1>4, <1>7, <1>8, Cut, AlphabetIsEncoded
<1>10. \A d \in 1 .. 4 : Letters(s, 4 * g + d) = Digits(s, g)[d]
  <2>1. ASSUME NEW d \in 1 .. 4
        PROVE  ((4 * g + d) - 1) \div 4 = g /\ (((4 * g + d) - 1) % 4) + 1 = d
    BY <1>a
  <2> QED
    BY <2>1 DEF Letters
<1> QED
  BY <1>9, <1>10

(* Two elements, one after the other.                                      *)
LEMMA AppendTwo ==
    ASSUME NEW q \in Seq(Int), NEW x \in Int, NEW y \in Int
    PROVE  q \o <<x, y>> = Append(Append(q, x), y)
<1> DEFINE l == Append(<<x>>, y)
           r == <<x, y>>
<1>1. l \in Seq(Int) /\ Len(l) = 2 /\ l[1] = x /\ l[2] = y
  <2>1. PICK t : t = <<x>>
    OBVIOUS
  <2>2. t \in Seq(Int) /\ Len(t) = 1 /\ t[1] = x
    BY <2>1
  <2>3. l = Append(t, y)
    BY <2>1
  <2> HIDE DEF l
  <2>4. Append(t, y) \in Seq(Int) /\ Len(Append(t, y)) = Len(t) + 1
    BY <2>2, AppendProperties
  <2>5. Append(t, y)[Len(t) + 1] = y
    BY <2>2, AppendProperties, ZenonT(60)
  <2>6. Append(t, y)[1] = t[1]
    BY <2>2, AppendProperties
  <2> QED
    BY <2>2, <2>3, <2>4, <2>5, <2>6
<1>2. r \in Seq(Int) /\ Len(r) = 2 /\ r[1] = x /\ r[2] = y
  OBVIOUS
<1>3. l = <<x>> \o <<y>>
  BY AppendIsConcat
<1> HIDE DEF l, r
<1>4. l = r
  <2>1. \A i \in 1 .. Len(l) : l[i] = r[i]
    BY <1>1, <1>2
  <2> QED
    BY <1>1, <1>2, <2>1, SeqEqual
<1>5. Append(q, x) = q \o <<x>> /\ Append(q, x) \in Seq(Int)
  BY AppendIsConcat
<1>6. Append(Append(q, x), y) = (q \o <<x>>) \o <<y>>
  BY <1>5, AppendIsConcat
<1>7. (q \o <<x>>) \o <<y>> = q \o (<<x>> \o <<y>>)
  <2>1. <<x>> \in Seq(Int) /\ <<y>> \in Seq(Int)
    OBVIOUS
  <2> QED
    BY <2>1, ConcatAssociative
<1> QED
  BY <1>3, <1>4, <1>6, <1>7 DEF r

(* Character i of a code, before its end is reached.                       *)
Sign(s, i) == IF i % 73 = 0 THEN Newline ELSE Letters(s, i - i \div 73)

IsCode(out, s, length) ==
    /\ out \in Seq(Int)
    /\ Len(out) = length
    /\ \A i \in 1 .. length : out[i] = Sign(s, i)

(* One character more.                                                     *)
LEMMA CodeAppend ==
    ASSUME NEW s, NEW length \in Nat, NEW out, IsCode(out, s, length),
           NEW v \in Int, v = Sign(s, length + 1)
    PROVE  IsCode(Append(out, v), s, length + 1)
<1>1. out \in Seq(Int) /\ Len(out) = length /\ \A i \in 1 .. length : out[i] = Sign(s, i)
  BY DEF IsCode
<1>2. Append(out, v) \in Seq(Int) /\ Len(Append(out, v)) = length + 1
  BY <1>1
<1>3. ASSUME NEW i \in 1 .. length + 1
      PROVE  Append(out, v)[i] = Sign(s, i)
  <2>1. CASE i = length + 1
    BY <1>1, <2>1
  <2>2. CASE i # length + 1
    <3>1. i \in 1 .. length /\ Append(out, v)[i] = out[i]
      BY <1>1, <2>2
    <3> QED
      BY <1>1, <3>1
  <2> QED
    BY <2>1, <2>2
<1> QED
  BY <1>2, <1>3 DEF IsCode

(* A line is 18 groups and the line feed behind them: where the letters of  *)
(* group 18 * l + r are.                                                   *)
InLine(l, r, d) == l \in Nat /\ r \in 0 .. 17 /\ d \in 1 .. 4

(* Letter d of group r in line l of the code.                              *)
LEMMA Place ==
    ASSUME NEW l, NEW r, NEW d, InLine(l, r, d)
    PROVE  /\ (73 * l + 4 * r + d) % 73 # 0
           /\ (73 * l + 4 * r + d) \div 73 = l
           /\ (73 * l + 4 * r + d) - l = 4 * (18 * l + r) + d
<1> DEFINE x == 4 * r + d
<1>a. l \in Nat /\ r \in 0 .. 17 /\ d \in 1 .. 4
  BY DEF InLine
<1>1. x \in 1 .. 72 /\ 73 * l + 4 * r + d = 73 * l + x
  BY <1>a
<1> HIDE DEF x
<1>2. (73 * l + x) % 73 = x /\ (73 * l + x) \div 73 = l
  BY <1>a, <1>1
<1>3. (73 * l + 4 * r + d) - l = 4 * (18 * l + r) + d
  BY <1>a
<1> QED
  BY <1>1, <1>2, <1>3

(* What is at that place.                                                  *)
LEMMA SignAt ==
    ASSUME NEW s, NEW l \in Nat, NEW r \in 0 .. 17, NEW d \in 1 .. 4
    PROVE  Sign(s, 73 * l + 4 * r + d) = Letters(s, 4 * (18 * l + r) + d)
<1> DEFINE i == 73 * l + 4 * r + d
<1>a. InLine(l, r, d)
  BY DEF InLine
<1>1. i % 73 # 0 /\ i \div 73 = l /\ i - l = 4 * (18 * l + r) + d
  BY <1>a, Place
<1> HIDE DEF i
<1>2. i - i \div 73 = 4 * (18 * l + r) + d
  BY <1>1
<1>3. Sign(s, i) = Letters(s, i - i \div 73)
  BY <1>1 DEF Sign
<1> QED
  BY <1>2, <1>3 DEF i

(* A line feed ends the line.                                              *)
LEMMA SignFeed ==
    ASSUME NEW s, NEW l \in Nat
    PROVE  Sign(s, 73 * l + 73) = Newline
<1>1. (73 * l + 73) % 73 = 0
  OBVIOUS
<1> QED
  BY <1>1 DEF Sign

(* The state of the encoder after n bytes of s.                            *)
Written(n) == 4 * (n \div 3) + (n % 3) + n \div 54

EncodedAs(e, s, n) ==
    /\ e \in Encoders
    /\ n % 3 = 0 => e.step = "A"
    /\ n % 3 = 1 => (e.step = "B" /\ e.result = (s[n] % 4) * 16)
    /\ n % 3 = 2 => (e.step = "C" /\ e.result = (s[n] % 16) * 4)
    /\ e.stepcount = (n \div 3) % 18
    /\ IsCode(e.out, s, Written(n))

(* Where byte number n + 1 is: in group 18 * l + r, as its byte k.         *)
IsPlace(n, l, r, k) == l \in Nat /\ r \in 0 .. 17 /\ k \in 0 .. 2 /\ n = 54 * l + 3 * r + k

(* Every byte of a text is byte k of group r of a line l.                  *)
LEMMA BytePlace ==
    ASSUME NEW n \in Nat
    PROVE  \E l, r, k : IsPlace(n, l, r, k)
<1>1. n = 54 * (n \div 54) + 3 * ((n % 54) \div 3) + ((n % 54) % 3)
  <2> DEFINE l == n \div 54
             m == n % 54
  <2>1. n = 54 * l + m /\ l \in Nat /\ m \in 0 .. 53
    OBVIOUS
  <2> HIDE DEF l, m
  <2>2. m = 3 * (m \div 3) + (m % 3)
    BY <2>1
  <2> QED
    BY <2>1, <2>2 DEF l, m
<1>2. n \div 54 \in Nat /\ (n % 54) \div 3 \in 0 .. 17 /\ (n % 54) % 3 \in 0 .. 2
  <2>1. n % 54 \in 0 .. 53 /\ n \div 54 \in Nat
    OBVIOUS
  <2>2. \A m \in 0 .. 53 : m \div 3 \in 0 .. 17 /\ m % 3 \in 0 .. 2
    OBVIOUS
  <2> QED
    BY <2>1, <2>2
<1> QED
  BY <1>1, <1>2 DEF IsPlace

(* How many characters there are in front of that byte.                    *)
LEMMA WrittenAt ==
    ASSUME NEW l, NEW r, NEW k, NEW n, IsPlace(n, l, r, k)
    PROVE  /\ n \div 3 = 18 * l + r /\ n % 3 = k /\ n \div 54 = l
           /\ (n \div 3) % 18 = r
           /\ Written(n) = 73 * l + 4 * r + k
<1>a. l \in Nat /\ r \in 0 .. 17 /\ k \in 0 .. 2 /\ n = 54 * l + 3 * r + k
  BY DEF IsPlace
<1>1. n = 3 * (18 * l + r) + k
  BY <1>a
<1>2. n \div 3 = 18 * l + r /\ n % 3 = k
  <2> DEFINE g == 18 * l + r
  <2>1. g \in Nat
    BY <1>a
  <2> HIDE DEF g
  <2>2. (3 * g + k) \div 3 = g /\ (3 * g + k) % 3 = k
    BY <1>a, <2>1
  <2> QED
    BY <1>1, <2>2 DEF g
<1>3. n \div 54 = l
  <2> DEFINE x == 3 * r + k
  <2>1. x \in 0 .. 53 /\ n = 54 * l + x
    BY <1>a
  <2> HIDE DEF x
  <2>2. (54 * l + x) \div 54 = l
    BY <1>a, <2>1
  <2> QED
    BY <2>1, <2>2
<1>4. (18 * l + r) % 18 = r
  BY <1>a
<1>5. Written(n) = 4 * (18 * l + r) + k + l
  BY <1>2, <1>3 DEF Written
<1> QED
  BY <1>a, <1>2, <1>3, <1>4, <1>5

(* One byte more.                                                          *)
LEMMA EncodedNext ==
    ASSUME NEW s \in Seq(Bytes), NEW n \in 0 .. Len(s) - 1, NEW e, EncodedAs(e, s, n)
    PROVE  EncodedAs(EncodeByte(e, s[n + 1]), s, n + 1)
<1>1. n \in Nat /\ n + 1 \in 1 .. Len(s)
  OBVIOUS
<1>a. PICK l, r, k : IsPlace(n, l, r, k)
  BY <1>1, BytePlace
<1>2. l \in Nat /\ r \in 0 .. 17 /\ k \in 0 .. 2 /\ n = 54 * l + 3 * r + k
  BY <1>a DEF IsPlace
<1> DEFINE g == 18 * l + r
           a == ByteAt(s, 3 * g + 1)
           b == ByteAt(s, 3 * g + 2)
           c == ByteAt(s, 3 * g + 3)
           byte == s[n + 1]
           next == EncodeByte(e, byte)
<1>3. /\ n \div 3 = g /\ n % 3 = k /\ (n \div 3) % 18 = r
      /\ Written(n) = 73 * l + 4 * r + k
  BY <1>a, WrittenAt
<1>4. n = 3 * g + k /\ g \in Nat
  BY <1>2
<1>5. e \in Encoders /\ e.stepcount = r /\ IsCode(e.out, s, 73 * l + 4 * r + k)
  BY <1>3 DEF EncodedAs
<1>6. byte \in Bytes /\ byte = ByteAt(s, n + 1)
  BY <1>1 DEF ByteAt
<1>7. /\ Letters(s, 4 * g + 1) = EncodeValue(a \div 4)
      /\ Letters(s, 4 * g + 2) = EncodeValue((a % 4) * 16 + b \div 16)
      /\ Letters(s, 4 * g + 3) = EncodeValue((b % 16) * 4 + c \div 64)
      /\ Letters(s, 4 * g + 4) = EncodeValue(c % 64)
  <2>1. BytesOf(s, g, a, b, c)
    BY <1>4 DEF BytesOf
  <2> HIDE DEF a, b, c, g
  <2> QED
    BY <2>1, LettersAt
<1>8. \A d \in 1 .. 4 : Sign(s, 73 * l + 4 * r + d) = Letters(s, 4 * g + d)
  BY <1>2, SignAt
<1>9. 73 * l + 4 * r \in Nat
  BY <1>2
<1>10. a \in Bytes /\ b \in Bytes /\ c \in Bytes
  <2>1. 3 * g + 1 \in Int /\ 3 * g + 2 \in Int /\ 3 * g + 3 \in Int
    BY <1>4
  <2> QED
    BY <2>1, ByteAtIn
<1>11. /\ EncodeValue(a \div 4) \in Int
       /\ EncodeValue((a % 4) * 16 + b \div 16) \in Int
       /\ EncodeValue((b % 16) * 4 + c \div 64) \in Int
       /\ EncodeValue(c % 64) \in Int
  BY <1>10, Cut, EncodedType
<1>12. next \in Encoders
  BY <1>5, <1>6, EncodeByteType
<1>13. byte \in Int
  <2>1. Bytes \subseteq Int
    BY DEF Bytes
  <2> HIDE DEF byte
  <2> QED
    BY <1>6, <2>1
<1>14. CASE k = 0
  <2>1. IsPlace(n + 1, l, r, 1)
    BY <1>2, <1>14 DEF IsPlace
  <2>2. /\ (n + 1) % 3 = 1 /\ ((n + 1) \div 3) % 18 = r
        /\ Written(n + 1) = 73 * l + 4 * r + 1
    BY <2>1, WrittenAt
  <2>3. byte = a
    BY <1>4, <1>6, <1>14
  <2>4. e.step = "A"
    BY <1>3, <1>14 DEF EncodedAs
  <2>5. (byte % 4) * 16 \in Int
    BY <1>13
  <2>6. next = EncodeA(e, byte)
    BY <2>4 DEF EncodeByte
  <2>7. /\ next.out = Append(e.out, EncodeValue(a \div 4))
        /\ next.result = (byte % 4) * 16
        /\ next.stepcount = r
    BY <1>5, <1>6, <1>11, <2>3, <2>5, <2>6, EncodesA
  <2>8. next.step = "B"
    BY <1>5, <2>6 DEF EncodeA, Encoders
  <2> HIDE DEF next, g, a, b, c, byte
  <2>9. IsCode(next.out, s, (73 * l + 4 * r) + 1)
    <3>1. IsCode(e.out, s, 73 * l + 4 * r)
      BY <1>5, <1>9, <1>14
    <3>2. Sign(s, (73 * l + 4 * r) + 1) = EncodeValue(a \div 4)
      BY <1>7, <1>8
    <3> QED
      BY <1>9, <1>11, <2>7, <3>1, <3>2, CodeAppend
  <2> QED
    BY <1>12, <2>2, <2>7, <2>8, <2>9 DEF EncodedAs, byte, next
<1>15. CASE k = 1
  <2>1. IsPlace(n + 1, l, r, 2)
    BY <1>2, <1>15 DEF IsPlace
  <2>2. /\ (n + 1) % 3 = 2 /\ ((n + 1) \div 3) % 18 = r
        /\ Written(n + 1) = 73 * l + 4 * r + 2
    BY <2>1, WrittenAt
  <2>3. byte = b /\ s[n] = a
    <3>1. n \in 1 .. Len(s) /\ n = 3 * g + 1
      BY <1>1, <1>4, <1>15
    <3> QED
      BY <1>4, <1>6, <1>15, <3>1 DEF ByteAt
  <2>4. e.step = "B" /\ e.result = (a % 4) * 16
    BY <1>3, <1>15, <2>3 DEF EncodedAs
  <2>5. (byte % 16) * 4 \in Int
    BY <1>13
  <2>6. next = EncodeB(e, byte)
    BY <2>4 DEF EncodeByte
  <2>7. EncodeValue(e.result + byte \div 16) = EncodeValue((a % 4) * 16 + b \div 16)
    BY <2>3, <2>4
  <2>8. /\ next.out = Append(e.out, EncodeValue((a % 4) * 16 + b \div 16))
        /\ next.result = (byte % 16) * 4
        /\ next.stepcount = r
    BY <1>5, <1>6, <1>11, <2>5, <2>6, <2>7, EncodesB
  <2>9. next.step = "C"
    BY <1>5, <2>6 DEF EncodeB, Encoders
  <2> HIDE DEF next, g, a, b, c, byte
  <2>10. IsCode(next.out, s, (73 * l + 4 * r + 1) + 1)
    <3>1. IsCode(e.out, s, 73 * l + 4 * r + 1)
      BY <1>5, <1>15
    <3>2. (73 * l + 4 * r + 1) + 1 = 73 * l + 4 * r + 2
      BY <1>9
    <3>3. Sign(s, (73 * l + 4 * r + 1) + 1) = EncodeValue((a % 4) * 16 + b \div 16)
      BY <1>7, <1>8, <3>2
    <3>4. 73 * l + 4 * r + 1 \in Nat
      BY <1>9
    <3> QED
      BY <1>11, <2>8, <3>1, <3>3, <3>4, CodeAppend
  <2>11. (73 * l + 4 * r + 1) + 1 = 73 * l + 4 * r + 2
    BY <1>9
  <2> QED
    BY <1>12, <2>2, <2>8, <2>9, <2>10, <2>11 DEF EncodedAs, byte, next
<1>16. CASE k = 2
  <2>1. byte = c /\ s[n] = b
    <3>1. n \in 1 .. Len(s) /\ n = 3 * g + 2
      BY <1>1, <1>4, <1>16
    <3> QED
      BY <1>4, <1>6, <1>16, <3>1 DEF ByteAt
  <2>2. e.step = "C" /\ e.result = (b % 16) * 4
    BY <1>3, <1>16, <2>1 DEF EncodedAs
  <2>3. next = EncodeC(e, byte)
    BY <2>2 DEF EncodeByte
  <2> DEFINE x == EncodeValue((b % 16) * 4 + c \div 64)
             y == EncodeValue(c % 64)
             feed == IF NextLine(r) = 0 THEN <<Newline>> ELSE <<>>
             both == Append(Append(e.out, x), y)
             at == 73 * l + 4 * r
  <2>4. EncodeValue(e.result + byte \div 64) = x /\ EncodeValue(byte % 64) = y
    BY <2>1, <2>2
  <2> HIDE DEF x, y, byte
  <2>5. next = [step |-> "A", result |-> byte % 64, stepcount |-> NextLine(r),
                out |-> (e.out \o <<x, y>>) \o feed]
    BY <1>5, <2>3, <2>4 DEF EncodeC
  <2> HIDE DEF next, feed
  <2>6. /\ next.step = "A" /\ next.stepcount = NextLine(r)
        /\ next.out = (e.out \o <<x, y>>) \o feed
    BY <2>5
  <2>7. x \in Int /\ y \in Int /\ e.out \in Seq(Int) /\ at \in Nat
    BY <1>5, <1>9, <1>11 DEF Encoders, x, y
  <2>8. Sign(s, (at + 2) + 1) = x /\ Sign(s, (at + 3) + 1) = y
    <3>1. (at + 2) + 1 = 73 * l + 4 * r + 3 /\ (at + 3) + 1 = 73 * l + 4 * r + 4
      BY <1>9
    <3> QED
      BY <1>7, <1>8, <3>1 DEF x, y
  <2> HIDE DEF g, a, b, c
  <2>9. IsCode(e.out, s, at + 2)
    BY <1>5, <1>16
  <2> HIDE DEF at
  <2>10. IsCode(both, s, at + 4)
    <3>1. at + 2 \in Nat /\ at + 3 \in Nat /\ (at + 2) + 1 = at + 3 /\ (at + 3) + 1 = at + 4
      BY <2>7
    <3>2. IsCode(Append(e.out, x), s, at + 3)
      BY <2>7, <2>8, <2>9, <3>1, CodeAppend
    <3> QED
      BY <2>7, <2>8, <3>1, <3>2, CodeAppend
  <2>11. e.out \o <<x, y>> = both
    BY <2>7, AppendTwo
  <2>12. both \in Seq(Int)
    BY <2>7
  <2> HIDE DEF both
  <2>13. CASE r = 17
    <3>1. IsPlace(n + 1, l + 1, 0, 0)
      BY <1>2, <1>16, <2>13 DEF IsPlace
    <3>2. /\ (n + 1) % 3 = 0 /\ ((n + 1) \div 3) % 18 = 0
          /\ Written(n + 1) = 73 * (l + 1) + 4 * 0 + 0
      BY <3>1, WrittenAt
    <3>3. NextLine(r) = 0
      BY <2>13 DEF NextLine, GroupsPerLine
    <3>4. next.out = Append(both, Newline)
      <4>1. feed = <<Newline>>
        BY <3>3 DEF feed
      <4>2. Append(both, Newline) = both \o <<Newline>>
        BY <2>12, AppendIsConcat DEF Newline
      <4> QED
        BY <2>6, <2>11, <4>1, <4>2
    <3>5. (at + 4) + 1 = 73 * l + 73 /\ (at + 4) + 1 = Written(n + 1) /\ at + 4 \in Nat
      BY <1>2, <2>13, <3>2 DEF at
    <3>6. Sign(s, (at + 4) + 1) = Newline /\ Newline \in Int
      BY <1>2, <3>5, SignFeed DEF Newline
    <3>7. IsCode(next.out, s, Written(n + 1))
      BY <2>10, <3>4, <3>5, <3>6, CodeAppend
    <3>8. next.step = "A" /\ next.stepcount = ((n + 1) \div 3) % 18
      BY <2>6, <3>2, <3>3
    <3> QED
      BY <1>12, <3>2, <3>7, <3>8 DEF EncodedAs, next, byte
  <2>14. CASE r # 17
    <3>1. IsPlace(n + 1, l, r + 1, 0)
      BY <1>2, <1>16, <2>14 DEF IsPlace
    <3>2. /\ (n + 1) % 3 = 0 /\ ((n + 1) \div 3) % 18 = r + 1
          /\ Written(n + 1) = 73 * l + 4 * (r + 1) + 0
      BY <3>1, WrittenAt
    <3>3. NextLine(r) = r + 1 /\ NextLine(r) # 0
      BY <1>2, <2>14 DEF NextLine, GroupsPerLine
    <3>4. next.out = both
      <4>1. feed = <<>>
        BY <3>3 DEF feed
      <4>2. both \o <<>> = both
        BY <2>12, ConcatEmptySeq
      <4> QED
        BY <2>6, <2>11, <4>1, <4>2
    <3>5. at + 4 = Written(n + 1)
      BY <1>2, <3>2 DEF at
    <3>6. IsCode(next.out, s, Written(n + 1))
      BY <2>10, <3>4, <3>5
    <3>7. next.step = "A" /\ next.stepcount = ((n + 1) \div 3) % 18
      BY <2>6, <3>2, <3>3
    <3> QED
      BY <1>12, <3>2, <3>6, <3>7 DEF EncodedAs, next, byte
  <2> QED
    BY <2>13, <2>14
<1> QED
  BY <1>2, <1>14, <1>15, <1>16

(* What base64_init_encodestate leaves.                                    *)
LEMMA EncodedStart ==
    ASSUME NEW s
    PROVE  EncodedAs(InitEncode, s, 0)
<1>1. 0 % 3 = 0 /\ 0 \div 3 = 0 /\ 0 \div 54 = 0 /\ 0 % 18 = 0
  OBVIOUS
<1>2. InitEncode \in Encoders /\ InitEncode.step = "A" /\ InitEncode.stepcount = 0
      /\ InitEncode.out = <<>>
  BY DEF InitEncode, Encoders, GroupsPerLine
<1>3. Written(0) = 0
  BY <1>1 DEF Written
<1>4. IsCode(<<>>, s, 0)
  <2>1. 1 .. 0 = {}
    OBVIOUS
  <2> QED
    BY <2>1 DEF IsCode
<1> QED
  BY <1>1, <1>2, <1>3, <1>4 DEF EncodedAs

(* A call of base64_encode_block.                                          *)
LEMMA EncodedBlock ==
    ASSUME NEW s \in Seq(Bytes), NEW p \in 0 .. Len(s), NEW upto \in p .. Len(s),
           NEW e, EncodedAs(e, s, p)
    PROVE  EncodedAs(EncodeBlock(e, SubSeq(s, p + 1, upto)), s, upto)
<1> DEFINE plain == SubSeq(s, p + 1, upto)
           m == Len(plain)
<1>1. e \in Encoders
  BY DEF EncodedAs
<1>2. /\ plain \in Seq(Bytes) /\ m = upto - p
      /\ \A k \in 1 .. m : plain[k] = s[p + k]
  <2>1. \A i \in p + 1 .. upto : s[i] \in Bytes
    OBVIOUS
  <2>2. p + 1 \in Int /\ upto \in Int
    OBVIOUS
  <2>3. /\ plain \in Seq(Bytes)
        /\ Len(plain) = IF p + 1 <= upto THEN upto - (p + 1) + 1 ELSE 0
        /\ \A i \in 1 .. upto - (p + 1) + 1 : plain[i] = s[(p + 1) + i - 1]
    BY <2>1, <2>2, SubSeqProperties
  <2> HIDE DEF plain
  <2>4. m = upto - p /\ upto - (p + 1) + 1 = m
    BY <2>3
  <2>5. ASSUME NEW k \in 1 .. m
        PROVE  plain[k] = s[p + k]
    <3>1. (p + 1) + k - 1 = p + k
      BY <2>4
    <3> QED
      BY <2>3, <2>4, <3>1
  <2> QED
    BY <2>3, <2>4, <2>5
<1>3. m \in Nat
  OBVIOUS
<1> HIDE DEF plain
<1>4. PICK f \in [0 .. m -> Encoders] :
          /\ f[0] = e
          /\ \A k \in 1 .. m : f[k] = EncodeByte(f[k - 1], plain[k])
          /\ EncodeBlock(e, plain) = f[m]
  BY <1>1, <1>2, EncodeBlockRuns
<1> DEFINE T == {k \in 0 .. m : EncodedAs(f[k], s, p + k)}
<1>5. 0 \in T
  BY <1>3, <1>4
<1>6. ASSUME NEW k \in 0 .. m - 1, k \in T
      PROVE  k + 1 \in T
  <2>1. EncodedAs(f[k], s, p + k) /\ p + k \in 0 .. Len(s) - 1
    BY <1>2, <1>6
  <2>2. k + 1 \in 1 .. m /\ (k + 1) - 1 = k /\ p + (k + 1) = (p + k) + 1
    BY <1>3
  <2>3. f[k + 1] = EncodeByte(f[k], s[(p + k) + 1])
    BY <1>2, <1>4, <2>2
  <2>4. EncodedAs(f[k + 1], s, (p + k) + 1)
    BY <2>1, <2>3, EncodedNext
  <2> QED
    BY <2>2, <2>4
<1>7. m \in T
  <2> HIDE DEF T, m
  <2>1. \A k \in 0 .. m : k \in T
    BY <1>3, <1>5, <1>6, UpTo
  <2> QED
    BY <1>3, <2>1
<1>8. p + m = upto
  BY <1>2
<1> QED
  BY <1>4, <1>7, <1>8 DEF plain

(* A concatenation, element by element.                                    *)
LEMMA Behind ==
    ASSUME NEW S, NEW q \in Seq(S), NEW t \in Seq(S)
    PROVE  /\ q \o t \in Seq(S) /\ Len(q \o t) = Len(q) + Len(t)
           /\ \A i \in 1 .. Len(q) : (q \o t)[i] = q[i]
           /\ \A j \in 1 .. Len(t) : (q \o t)[Len(q) + j] = t[j]
<1>1. q \o t \in Seq(S) /\ Len(q \o t) = Len(q) + Len(t)
  OBVIOUS
<1>2. ASSUME NEW i \in 1 .. Len(q) PROVE (q \o t)[i] = q[i]
  OBVIOUS
<1>3. ASSUME NEW j \in 1 .. Len(t) PROVE (q \o t)[Len(q) + j] = t[j]
  OBVIOUS
<1> QED
  BY <1>1, <1>2, <1>3

(* The same with a name for the whole.                                     *)
IsBoth(both, q, t) == both = q \o t

HasBoth(both, S, q, t) ==
    /\ both \in Seq(S) /\ Len(both) = Len(q) + Len(t)
    /\ \A i \in 1 .. Len(q) : both[i] = q[i]
    /\ \A j \in 1 .. Len(t) : both[Len(q) + j] = t[j]

(* The name stands for both.                                               *)
LEMMA BehindIs ==
    ASSUME NEW S, NEW q \in Seq(S), NEW t \in Seq(S), NEW both, IsBoth(both, q, t)
    PROVE  HasBoth(both, S, q, t)
<1>1. HasBoth(q \o t, S, q, t)
  BY Behind DEF HasBoth
<1>2. both = q \o t
  BY DEF IsBoth
<1> QED
  BY <1>1, <1>2, Zenon

(* There is no letter in front of a place that does not belong in front    *)
(* of it.                                                                  *)
LEMMA LettersBefore ==
    ASSUME NEW l \in Nat, NEW x \in 0 .. 72, NEW i \in 1 .. 73 * l + x
    PROVE  i - i \div 73 <= 72 * l + x
<1> DEFINE q == i \div 73
           y == i % 73
<1>1. i = 73 * q + y /\ q \in Nat /\ y \in 0 .. 72
  OBVIOUS
<1> HIDE DEF q, y
<1>2. i - q = 72 * q + y
  BY <1>1
<1>3. q < l \/ (q = l /\ y <= x)
  BY <1>1
<1>4. 72 * q + y <= 72 * l + x
  BY <1>1, <1>3
<1> QED
  BY <1>2, <1>4 DEF q

(* The length of the whole code of a text that ends there.                 *)
LEMMA CodeLengthAt ==
    ASSUME NEW n, NEW l, NEW r, NEW k, IsPlace(n, l, r, k)
    PROVE  /\ CodeLength(n) = 73 * l + 4 * r + (IF k = 0 THEN 0 ELSE 4) + 1
           /\ (4 * n + 2) \div 3 = 4 * (18 * l + r) + (IF k = 0 THEN 0 ELSE k + 1)
<1>1. l \in Nat /\ r \in 0 .. 17 /\ k \in 0 .. 2 /\ n = 54 * l + 3 * r + k
  BY DEF IsPlace
<1> DEFINE g == 18 * l + r
<1>2. g \in Nat /\ n = 3 * g + k
  BY <1>1
<1>3. n \div 54 = l
  BY WrittenAt
<1> HIDE DEF g
<1>4. (n + 2) \div 3 = IF k = 0 THEN g ELSE g + 1
  BY <1>1, <1>2
<1>5. (4 * n + 2) \div 3 = 4 * g + (IF k = 0 THEN 0 ELSE k + 1)
  BY <1>1, <1>2
<1>6. CodeLength(n) = 4 * (IF k = 0 THEN g ELSE g + 1) + l + 1
  BY <1>3, <1>4 DEF CodeLength, GroupsPerLine
<1>7. CodeLength(n) = 73 * l + 4 * r + (IF k = 0 THEN 0 ELSE 4) + 1
  BY <1>1, <1>6 DEF g
<1> QED
  BY <1>5, <1>7 DEF g

IsSpelled(c, s) ==
    /\ c \in Seq(Int)
    /\ Len(c) = CodeLength(Len(s))
    /\ \A i \in 1 .. CodeLength(Len(s)) : c[i] = Spelled(s, i)

(* The letters written before the end.                                     *)
LEMMA SpelledBefore ==
    ASSUME NEW s \in Seq(Bytes), NEW l, NEW r, NEW k, IsPlace(Len(s), l, r, k),
           NEW i \in 1 .. 73 * l + 4 * r + k
    PROVE  Spelled(s, i) = Sign(s, i)
<1>1. l \in Nat /\ r \in 0 .. 17 /\ k \in 0 .. 2
  BY DEF IsPlace
<1>2. i # CodeLength(Len(s))
  <2>1. i <= 73 * l + 4 * r + k /\ i \in Int
    BY <1>1
  <2>2. CodeLength(Len(s)) = 73 * l + 4 * r + (IF k = 0 THEN 0 ELSE 4) + 1
    BY CodeLengthAt
  <2> QED
    BY <1>1, <2>1, <2>2
<1>3. i - i \div 73 <= SignificantLetters(s)
  <2> DEFINE x == 4 * r + k
  <2>1. x \in 0 .. 72 /\ i \in 1 .. 73 * l + x
    BY <1>1
  <2>2. i - i \div 73 <= 72 * l + x
    BY <1>1, <2>1, LettersBefore
  <2>3. SignificantLetters(s) = 4 * (18 * l + r) + (IF k = 0 THEN 0 ELSE k + 1)
    BY CodeLengthAt DEF SignificantLetters
  <2>4. i - i \div 73 \in Int
    BY <1>1
  <2> QED
    BY <1>1, <2>2, <2>3, <2>4
<1> QED
  BY <1>2, <1>3 DEF Spelled, Sign

(* The letter and the padding of an unfinished group.                      *)
LEMMA SpelledLast ==
    ASSUME NEW s \in Seq(Bytes), NEW l, NEW r, NEW k, IsPlace(Len(s), l, r, k), k # 0,
           NEW d \in 1 .. 4
    PROVE  Spelled(s, 73 * l + 4 * r + d) =
               IF d <= k + 1 THEN Letters(s, 4 * (18 * l + r) + d) ELSE Pad
<1> DEFINE i == 73 * l + 4 * r + d
<1>1. l \in Nat /\ r \in 0 .. 17 /\ k \in 1 .. 2
  BY DEF IsPlace
<1>2. i # CodeLength(Len(s))
  <2>1. CodeLength(Len(s)) = 73 * l + 4 * r + (IF k = 0 THEN 0 ELSE 4) + 1
    BY CodeLengthAt
  <2> QED
    BY <1>1, <2>1
<1>3. i % 73 # 0 /\ i \div 73 = l /\ i - l = 4 * (18 * l + r) + d
  <2>1. InLine(l, r, d)
    BY <1>1 DEF InLine
  <2> QED
    BY <2>1, Place
<1>4. SignificantLetters(s) = 4 * (18 * l + r) + (IF k = 0 THEN 0 ELSE k + 1)
  BY CodeLengthAt DEF SignificantLetters
<1>5. i - i \div 73 <= SignificantLetters(s) <=> d <= k + 1
  <2> HIDE DEF i
  <2>1. i - i \div 73 = 4 * (18 * l + r) + d
    BY <1>3
  <2>2. 4 * (18 * l + r) \in Int
    BY <1>1
  <2>3. k # 0 /\ k + 1 \in Int
    BY <1>1
  <2> QED
    BY <1>4, <2>1, <2>2, <2>3
<1> HIDE DEF i
<1>6. i - i \div 73 = 4 * (18 * l + r) + d
  BY <1>3
<1>7. Spelled(s, i) = IF d <= k + 1 THEN Letters(s, i - i \div 73) ELSE Pad
  BY <1>2, <1>3, <1>5 DEF Spelled
<1> QED
  BY <1>6, <1>7 DEF i

(* The NUL is last.                                                        *)
LEMMA SpelledEnd ==
    ASSUME NEW s
    PROVE  Spelled(s, CodeLength(Len(s))) = Nul
BY DEF Spelled

(* A text in two parts.                                                    *)
LEMMA SpelledInTwo ==
    ASSUME NEW s, NEW q \in Seq(Int), NEW t \in Seq(Int),
           Len(q) + Len(t) = CodeLength(Len(s)),
           \A i \in 1 .. Len(q) : q[i] = Spelled(s, i),
           \A j \in 1 .. Len(t) : t[j] = Spelled(s, Len(q) + j)
    PROVE  IsSpelled(q \o t, s)
<1>1. /\ q \o t \in Seq(Int) /\ Len(q \o t) = CodeLength(Len(s))
      /\ \A i \in 1 .. Len(q) : (q \o t)[i] = q[i]
      /\ \A j \in 1 .. Len(t) : (q \o t)[Len(q) + j] = t[j]
  BY Behind
<1>2. ASSUME NEW i \in 1 .. CodeLength(Len(s))
      PROVE  (q \o t)[i] = Spelled(s, i)
  <2>1. CASE i <= Len(q)
    <3>1. i \in 1 .. Len(q)
      BY <2>1
    <3> QED
      BY <1>1, <3>1
  <2>2. CASE i > Len(q)
    <3>1. PICK j \in 1 .. Len(t) : i = Len(q) + j
      <4>1. i - Len(q) \in 1 .. Len(t) /\ i = Len(q) + (i - Len(q))
        BY <2>2
      <4> QED
        BY <4>1
    <3> QED
      BY <1>1, <3>1
  <2> QED
    BY <2>1, <2>2
<1> QED
  BY <1>1, <1>2 DEF IsSpelled

(* base64_encode_blockend writes what is missing.                          *)
LEMMA EncodedEnd ==
    ASSUME NEW s \in Seq(Bytes), NEW e, EncodedAs(e, s, Len(s))
    PROVE  IsSpelled(EncodeBlockEnd(e), s)
<1> DEFINE n == Len(s)
           q == e.out
<1>1. n \in Nat
  OBVIOUS
<1>2. PICK l, r, k : IsPlace(n, l, r, k)
  BY <1>1, BytePlace
<1>3. l \in Nat /\ r \in 0 .. 17 /\ k \in 0 .. 2 /\ n = 54 * l + 3 * r + k
  BY <1>2 DEF IsPlace
<1> DEFINE g == 18 * l + r
           a == ByteAt(s, 3 * g + 1)
           b == ByteAt(s, 3 * g + 2)
           c == ByteAt(s, 3 * g + 3)
<1>4. n = 3 * g + k /\ g \in Nat /\ n % 3 = k /\ Written(n) = 73 * l + 4 * r + k
  <2>1. /\ n \div 3 = 18 * l + r /\ n % 3 = k /\ Written(n) = 73 * l + 4 * r + k
    BY <1>2, WrittenAt
  <2> QED
    BY <1>3, <2>1
<1>5. CodeLength(n) = 73 * l + 4 * r + (IF k = 0 THEN 0 ELSE 4) + 1
  BY <1>2, CodeLengthAt
<1>6. q \in Seq(Int) /\ Len(q) = 73 * l + 4 * r + k
      /\ \A i \in 1 .. Len(q) : q[i] = Sign(s, i)
  BY <1>4 DEF EncodedAs, IsCode
<1>7. \A i \in 1 .. Len(q) : q[i] = Spelled(s, i)
  BY <1>2, <1>6, SpelledBefore
<1>8. /\ Letters(s, 4 * g + 2) = EncodeValue((a % 4) * 16 + b \div 16)
      /\ Letters(s, 4 * g + 3) = EncodeValue((b % 16) * 4 + c \div 64)
  <2>1. BytesOf(s, g, a, b, c)
    BY <1>4 DEF BytesOf
  <2> HIDE DEF a, b, c, g
  <2> QED
    BY <2>1, LettersAt
<1>9. a \in Bytes /\ b \in Bytes /\ c \in Bytes
  <2>1. 3 * g + 1 \in Int /\ 3 * g + 2 \in Int /\ 3 * g + 3 \in Int
    BY <1>4
  <2> QED
    BY <2>1, ByteAtIn
<1>10. EncodeValue((a % 4) * 16 + b \div 16) \in Int /\ EncodeValue((b % 16) * 4 + c \div 64) \in Int
  BY <1>9, Cut, EncodedType
<1>11. Spelled(s, CodeLength(n)) = Nul
  BY SpelledEnd
<1>12. CASE k = 0
  <2>1. EncodeBlockEnd(e) = Append(q, Nul)
    BY <1>4, <1>12 DEF EncodedAs, EncodeBlockEnd
  <2>2. Append(q, Nul) = q \o <<Nul>>
    <3>1. Nul \in Int
      BY DEF Nul
    <3> HIDE DEF q
    <3> QED
      BY <1>6, <3>1, AppendIsConcat
  <2>3. <<Nul>> \in Seq(Int) /\ Len(<<Nul>>) = 1 /\ <<Nul>>[1] = Nul
    BY DEF Nul
  <2>4. Len(q) + 1 = CodeLength(n)
    BY <1>3, <1>5, <1>6, <1>12
  <2> HIDE DEF q, n
  <2>5. ASSUME NEW j \in 1 .. Len(<<Nul>>)
        PROVE  <<Nul>>[j] = Spelled(s, Len(q) + j)
    BY <1>11, <2>3, <2>4
  <2>6. Len(q) + Len(<<Nul>>) = CodeLength(Len(s))
    BY <2>3, <2>4 DEF n
  <2>7. IsSpelled(q \o <<Nul>>, s)
    BY <1>6, <1>7, <2>3, <2>5, <2>6, SpelledInTwo
  <2> QED
    BY <2>1, <2>2, <2>7
<1>13. CASE k = 1
  <2>1. b = 0 /\ s[n] = a
    BY <1>1, <1>4, <1>13 DEF ByteAt
  <2>2. e.step = "B" /\ e.result = (a % 4) * 16
    BY <1>4, <1>13, <2>1 DEF EncodedAs
  <2> DEFINE v == EncodeValue((a % 4) * 16 + b \div 16)
             t == <<v, Pad, Pad, Nul>>
  <2>3. EncodeValue(e.result) = v
    <3>1. b \div 16 = 0
      BY <2>1
    <3>2. (a % 4) * 16 \in Int
      <4> HIDE DEF a, b, c
      <4> QED
        BY <1>9 DEF Bytes
    <3> HIDE DEF a, b, c
    <3>3. (a % 4) * 16 + b \div 16 = (a % 4) * 16
      BY <3>1, <3>2
    <3> QED
      BY <2>2, <3>3
  <2>4. EncodeBlockEnd(e) = q \o t
    BY <2>2, <2>3 DEF EncodeBlockEnd
  <2>5. v \in Int /\ v = Letters(s, 4 * g + 2)
    BY <1>8, <1>10
  <2> HIDE DEF v, a, b, c
  <2>6. t \in Seq(Int) /\ Len(t) = 4 /\ t[1] = v /\ t[2] = Pad /\ t[3] = Pad /\ t[4] = Nul
    BY <2>5 DEF Pad, Nul
  <2>7. /\ Spelled(s, 73 * l + 4 * r + 2) = v
        /\ Spelled(s, 73 * l + 4 * r + 3) = Pad
        /\ Spelled(s, 73 * l + 4 * r + 4) = Pad
    BY <1>2, <1>13, <2>5, SpelledLast
  <2>8. Spelled(s, 73 * l + 4 * r + 5) = Nul
    BY <1>3, <1>5, <1>11, <1>13
  <2> HIDE DEF t, q, g
  <2>9. ASSUME NEW j \in 1 .. Len(t)
        PROVE  t[j] = Spelled(s, Len(q) + j)
    <3>1. Len(q) + 1 = 73 * l + 4 * r + 2 /\ Len(q) + 2 = 73 * l + 4 * r + 3
          /\ Len(q) + 3 = 73 * l + 4 * r + 4 /\ Len(q) + 4 = 73 * l + 4 * r + 5
      BY <1>3, <1>6, <1>13
    <3>2. j = 1 \/ j = 2 \/ j = 3 \/ j = 4
      BY <2>6
    <3> QED
      BY <2>6, <2>7, <2>8, <3>1, <3>2
  <2>10. Len(q) + Len(t) = CodeLength(Len(s))
    BY <1>3, <1>5, <1>6, <1>13, <2>6
  <2>11. IsSpelled(q \o t, s)
    BY <1>6, <1>7, <2>6, <2>9, <2>10, SpelledInTwo
  <2> QED
    BY <2>4, <2>11
<1>14. CASE k = 2
  <2>1. c = 0 /\ s[n] = b
    BY <1>1, <1>4, <1>14 DEF ByteAt
  <2>2. e.step = "C" /\ e.result = (b % 16) * 4
    BY <1>4, <1>14, <2>1 DEF EncodedAs
  <2> DEFINE v == EncodeValue((b % 16) * 4 + c \div 64)
             t == <<v, Pad, Nul>>
  <2>3. EncodeValue(e.result) = v
    <3>1. c \div 64 = 0
      BY <2>1
    <3>2. (b % 16) * 4 \in Int
      <4> HIDE DEF a, b, c
      <4> QED
        BY <1>9 DEF Bytes
    <3> HIDE DEF a, b, c
    <3>3. (b % 16) * 4 + c \div 64 = (b % 16) * 4
      BY <3>1, <3>2
    <3> QED
      BY <2>2, <3>3
  <2>4. EncodeBlockEnd(e) = q \o t
    BY <2>2, <2>3 DEF EncodeBlockEnd
  <2>5. v \in Int /\ v = Letters(s, 4 * g + 3)
    BY <1>8, <1>10
  <2> HIDE DEF v, a, b, c
  <2>6. t \in Seq(Int) /\ Len(t) = 3 /\ t[1] = v /\ t[2] = Pad /\ t[3] = Nul
    BY <2>5 DEF Pad, Nul
  <2>7. /\ Spelled(s, 73 * l + 4 * r + 3) = v
        /\ Spelled(s, 73 * l + 4 * r + 4) = Pad
    BY <1>2, <1>14, <2>5, SpelledLast
  <2>8. Spelled(s, 73 * l + 4 * r + 5) = Nul
    BY <1>3, <1>5, <1>11, <1>14
  <2> HIDE DEF t, q, g
  <2>9. ASSUME NEW j \in 1 .. Len(t)
        PROVE  t[j] = Spelled(s, Len(q) + j)
    <3>1. Len(q) + 1 = 73 * l + 4 * r + 3 /\ Len(q) + 2 = 73 * l + 4 * r + 4
          /\ Len(q) + 3 = 73 * l + 4 * r + 5
      BY <1>3, <1>6, <1>14
    <3>2. j = 1 \/ j = 2 \/ j = 3
      BY <2>6
    <3> QED
      BY <2>6, <2>7, <2>8, <3>1, <3>2
  <2>10. Len(q) + Len(t) = CodeLength(Len(s))
    BY <1>3, <1>5, <1>6, <1>14, <2>6
  <2>11. IsSpelled(q \o t, s)
    BY <1>6, <1>7, <2>6, <2>9, <2>10, SpelledInTwo
  <2> QED
    BY <2>4, <2>11
<1> QED
  BY <1>3, <1>12, <1>13, <1>14

-----------------------------------------------------------------------------
(* The decoder, after m of the letters.                                    *)

IsPlain(out, s, length) ==
    /\ out \in Seq(Int)
    /\ Len(out) = length
    /\ \A i \in 1 .. length : out[i] = ByteAt(s, i)

(* One byte more.                                                          *)
LEMMA PlainAppend ==
    ASSUME NEW s, NEW length \in Nat, NEW out, IsPlain(out, s, length),
           NEW v \in Int, v = ByteAt(s, length + 1)
    PROVE  IsPlain(Append(out, v), s, length + 1)
<1>1. out \in Seq(Int) /\ Len(out) = length /\ \A i \in 1 .. length : out[i] = ByteAt(s, i)
  BY DEF IsPlain
<1>2. Append(out, v) \in Seq(Int) /\ Len(Append(out, v)) = length + 1
  BY <1>1
<1>3. ASSUME NEW i \in 1 .. length + 1
      PROVE  Append(out, v)[i] = ByteAt(s, i)
  <2>1. CASE i = length + 1
    BY <1>1, <2>1
  <2>2. CASE i # length + 1
    <3>1. i \in 1 .. length /\ Append(out, v)[i] = out[i]
      BY <1>1, <2>2
    <3> QED
      BY <1>1, <3>1
  <2> QED
    BY <2>1, <2>2
<1> QED
  BY <1>2, <1>3 DEF IsPlain

Held(d, s, g, j, a, b, c) ==
    /\ j \in 0 .. 3
    /\ BytesOf(s, g, a, b, c)
    /\ d \in Decoders
    /\ IsPlain(d.out, s, 3 * g + (IF j = 0 THEN 0 ELSE j - 1))
    /\ j = 0 => d.step = "a"
    /\ j = 1 => (d.step = "b" /\ d.plainchar = ((a \div 4) % 64) * 4)
    /\ j = 2 => (d.step = "c" /\ d.plainchar = (((a % 4) * 16 + b \div 16) % 16) * 16)
    /\ j = 3 => (d.step = "d" /\ d.plainchar = (((b % 16) * 4 + c \div 64) % 4) * 64)

DecodedAs(d, s, m) == \E g, j, a, b, c : Held(d, s, g, j, a, b, c) /\ m = 4 * g + j

(* What base64_init_decodestate leaves.                                    *)
LEMMA DecodedStart ==
    ASSUME NEW s
    PROVE  DecodedAs(InitDecode, s, 0)
<1> DEFINE a == ByteAt(s, 3 * 0 + 1)  b == ByteAt(s, 3 * 0 + 2)  c == ByteAt(s, 3 * 0 + 3)
<1>1. BytesOf(s, 0, a, b, c)
  BY DEF BytesOf
<1>2. InitDecode \in Decoders /\ InitDecode.step = "a" /\ InitDecode.out = <<>>
  BY DEF InitDecode, Decoders
<1>3. IsPlain(<<>>, s, 0)
  <2>1. 1 .. 0 = {}
    OBVIOUS
  <2> QED
    BY <2>1 DEF IsPlain
<1> HIDE DEF a, b, c
<1>4. Held(InitDecode, s, 0, 0, a, b, c)
  BY <1>1, <1>2, <1>3 DEF Held
<1> QED
  BY <1>4 DEF DecodedAs

(* A letter is read as the six bits it was written for.                    *)
LEMMA LetterRead ==
    ASSUME NEW d, NEW v \in Digits64
    PROVE  DecodeChar(d, EncodeValue(v)) = DecodeFragment(d, v)
<1>1. DecodeValue(EncodeValue(v)) = v
  BY AlphabetRead
<1>2. ~(v < 0)
  BY SMT DEF Digits64
<1> QED
  BY <1>1, <1>2 DEF DecodeChar

(* One letter more.                                                        *)
LEMMA DecodedNext ==
    ASSUME NEW s \in Seq(Bytes), NEW d, NEW m, DecodedAs(d, s, m)
    PROVE  DecodedAs(DecodeChar(d, Letters(s, m + 1)), s, m + 1)
<1>1. PICK g, j, a, b, c : Held(d, s, g, j, a, b, c) /\ m = 4 * g + j
  BY DEF DecodedAs
<1>2. /\ j \in 0 .. 3 /\ BytesOf(s, g, a, b, c) /\ d \in Decoders
      /\ IsPlain(d.out, s, 3 * g + (IF j = 0 THEN 0 ELSE j - 1))
  BY <1>1 DEF Held
<1>3. /\ g \in Nat /\ a = ByteAt(s, 3 * g + 1) /\ b = ByteAt(s, 3 * g + 2)
      /\ c = ByteAt(s, 3 * g + 3)
  BY <1>2 DEF BytesOf
<1>4. a \in Bytes /\ b \in Bytes /\ c \in Bytes
  <2>1. 3 * g + 1 \in Int /\ 3 * g + 2 \in Int /\ 3 * g + 3 \in Int
    BY <1>3
  <2> QED
    BY <1>3, <2>1, ByteAtIn
<1>5. a \in Int /\ b \in Int /\ c \in Int
  BY <1>4 DEF Bytes
<1> DEFINE v1 == a \div 4
           v2 == (a % 4) * 16 + b \div 16
           v3 == (b % 16) * 4 + c \div 64
           v4 == c % 64
           next == DecodeChar(d, Letters(s, m + 1))
<1>6. /\ Letters(s, 4 * g + 1) = EncodeValue(v1) /\ Letters(s, 4 * g + 2) = EncodeValue(v2)
      /\ Letters(s, 4 * g + 3) = EncodeValue(v3) /\ Letters(s, 4 * g + 4) = EncodeValue(v4)
  BY <1>2, LettersAt
<1>7. v1 \in Digits64 /\ v2 \in Digits64 /\ v3 \in Digits64 /\ v4 \in Digits64
  BY <1>4, Cut
<1>8. /\ ((v1 % 64) * 4) + ((v2 \div 16) % 4) = a
      /\ ((v2 % 16) * 16) + ((v3 \div 4) % 16) = b
      /\ ((v3 % 4) * 64) + (v4 % 64) = c
  BY <1>4, Joined
<1>9. /\ j = 0 => d.step = "a"
      /\ j = 1 => (d.step = "b" /\ d.plainchar = (v1 % 64) * 4)
      /\ j = 2 => (d.step = "c" /\ d.plainchar = (v2 % 16) * 16)
      /\ j = 3 => (d.step = "d" /\ d.plainchar = (v3 % 4) * 64)
  BY <1>1 DEF Held
<1> HIDE DEF v1, v2, v3, v4
<1>a. v1 \in Int /\ v2 \in Int /\ v3 \in Int /\ v4 \in Int
  BY <1>7 DEF Digits64
<1>10. CASE j = 0
  <2>1. next = DecodeFragment(d, v1) /\ m + 1 = 4 * g + 1
    <3>1. m + 1 = 4 * g + 1
      BY <1>1, <1>3, <1>10
    <3> QED
      BY <1>6, <1>7, <3>1, LetterRead
  <2> HIDE DEF next
  <2>2. (v1 % 64) * 4 \in Int
    BY <1>a
  <2>3. next = [d EXCEPT !.step = "b", !.plainchar = (v1 % 64) * 4]
    BY <1>9, <1>10, <2>1 DEF DecodeFragment
  <2>4. /\ next \in Decoders /\ next.step = "b" /\ next.plainchar = (v1 % 64) * 4
        /\ next.out = d.out
    BY <1>2, <2>2, <2>3 DEF Decoders
  <2>5. IsPlain(next.out, s, 3 * g + 0)
    BY <1>2, <1>10, <2>4
  <2>6. Held(next, s, g, 1, a, b, c)
    BY <1>2, <2>4, <2>5 DEF Held, v1
  <2> QED
    BY <2>1, <2>6 DEF DecodedAs, next
<1>11. CASE j = 1
  <2>1. next = DecodeFragment(d, v2) /\ m + 1 = 4 * g + 2
    <3>1. m + 1 = 4 * g + 2
      BY <1>1, <1>3, <1>11
    <3> QED
      BY <1>6, <1>7, <3>1, LetterRead
  <2> HIDE DEF next
  <2>2. (v2 % 16) * 16 \in Int
    BY <1>a
  <2>3. next = [step |-> "c", plainchar |-> (v2 % 16) * 16, out |-> Append(d.out, a)]
    BY <1>8, <1>9, <1>11, <2>1 DEF DecodeFragment
  <2>4. next.step = "c" /\ next.plainchar = (v2 % 16) * 16 /\ next.out = Append(d.out, a)
    BY <2>3
  <2>5. IsPlain(next.out, s, 3 * g + 1)
    <3>1. IsPlain(d.out, s, 3 * g) /\ 3 * g \in Nat
      BY <1>2, <1>3, <1>11
    <3> QED
      BY <1>3, <1>5, <2>4, <3>1, PlainAppend
  <2>6. next \in Decoders
    <3>1. Append(d.out, a) \in Seq(Int)
      BY <2>4, <2>5 DEF IsPlain
    <3> QED
      BY <2>2, <2>3, <3>1 DEF Decoders
  <2>7. Held(next, s, g, 2, a, b, c)
    BY <1>2, <2>4, <2>5, <2>6 DEF Held, v2
  <2> QED
    BY <2>1, <2>7 DEF DecodedAs, next
<1>12. CASE j = 2
  <2>1. next = DecodeFragment(d, v3) /\ m + 1 = 4 * g + 3
    <3>1. m + 1 = 4 * g + 3
      BY <1>1, <1>3, <1>12
    <3> QED
      BY <1>6, <1>7, <3>1, LetterRead
  <2> HIDE DEF next
  <2>2. (v3 % 4) * 64 \in Int
    BY <1>a
  <2>3. next = [step |-> "d", plainchar |-> (v3 % 4) * 64, out |-> Append(d.out, b)]
    BY <1>8, <1>9, <1>12, <2>1 DEF DecodeFragment
  <2>4. next.step = "d" /\ next.plainchar = (v3 % 4) * 64 /\ next.out = Append(d.out, b)
    BY <2>3
  <2>5. IsPlain(next.out, s, 3 * g + 2)
    <3>1. IsPlain(d.out, s, 3 * g + 1) /\ 3 * g + 1 \in Nat /\ (3 * g + 1) + 1 = 3 * g + 2
      BY <1>2, <1>3, <1>12
    <3> QED
      BY <1>3, <1>5, <2>4, <3>1, PlainAppend
  <2>6. next \in Decoders
    <3>1. Append(d.out, b) \in Seq(Int)
      BY <2>4, <2>5 DEF IsPlain
    <3> QED
      BY <2>2, <2>3, <3>1 DEF Decoders
  <2>7. Held(next, s, g, 3, a, b, c)
    BY <1>2, <2>4, <2>5, <2>6 DEF Held, v3
  <2> QED
    BY <2>1, <2>7 DEF DecodedAs, next
<1>13. CASE j = 3
  <2>1. next = DecodeFragment(d, v4) /\ m + 1 = 4 * (g + 1) + 0
    <3>1. m + 1 = 4 * g + 4 /\ 4 * g + 4 = 4 * (g + 1) + 0
      BY <1>1, <1>3, <1>13
    <3> QED
      BY <1>6, <1>7, <3>1, LetterRead
  <2> HIDE DEF next
  <2>2. next = [step |-> "a", plainchar |-> 0, out |-> Append(d.out, c)]
    BY <1>8, <1>9, <1>13, <2>1 DEF DecodeFragment
  <2>3. next.step = "a" /\ next.out = Append(d.out, c)
    BY <2>2
  <2>4. IsPlain(next.out, s, 3 * (g + 1) + 0)
    <3>1. IsPlain(d.out, s, 3 * g + 2) /\ 3 * g + 2 \in Nat /\ (3 * g + 2) + 1 = 3 * g + 3
          /\ 3 * (g + 1) + 0 = 3 * g + 3
      BY <1>2, <1>3, <1>13
    <3> QED
      BY <1>3, <1>5, <2>3, <3>1, PlainAppend
  <2>5. next \in Decoders
    <3>1. Append(d.out, c) \in Seq(Int)
      BY <2>3, <2>4 DEF IsPlain
    <3> QED
      BY <2>2, <3>1 DEF Decoders
  <2> DEFINE a1 == ByteAt(s, 3 * (g + 1) + 1)
             b1 == ByteAt(s, 3 * (g + 1) + 2)
             c1 == ByteAt(s, 3 * (g + 1) + 3)
  <2>6. BytesOf(s, g + 1, a1, b1, c1)
    BY <1>3 DEF BytesOf
  <2> HIDE DEF a1, b1, c1
  <2>7. Held(next, s, g + 1, 0, a1, b1, c1)
    BY <2>3, <2>4, <2>5, <2>6 DEF Held
  <2> QED
    BY <2>1, <2>7 DEF DecodedAs, next
<1> QED
  BY <1>2, <1>10, <1>11, <1>12, <1>13

(* How many of the letters are among the first p characters of the code.   *)
LettersIn(s, p) ==
    IF p - p \div 73 <= SignificantLetters(s) THEN p - p \div 73 ELSE SignificantLetters(s)

(* One character more, of any kind.                                        *)
LEMMA DecodedChar ==
    ASSUME NEW s \in Seq(Bytes), NEW p \in 0 .. CodeLength(Len(s)) - 1, NEW d,
           DecodedAs(d, s, LettersIn(s, p))
    PROVE  DecodedAs(DecodeChar(d, Spelled(s, p + 1)), s, LettersIn(s, p + 1))
<1> DEFINE n == Len(s)
           x == p - p \div 73
           y == (p + 1) - (p + 1) \div 73
           most == SignificantLetters(s)
           next == DecodeChar(d, Spelled(s, p + 1))
<1>1. PICK l, r, k : IsPlace(n, l, r, k)
  <2>1. n \in Nat
    OBVIOUS
  <2> QED
    BY <2>1, BytePlace
<1>2. l \in Nat /\ r \in 0 .. 17 /\ k \in 0 .. 2
  BY <1>1 DEF IsPlace
<1>3. CodeLength(n) = 73 * l + 4 * r + (IF k = 0 THEN 0 ELSE 4) + 1
  BY <1>1, CodeLengthAt
<1>4. most = 4 * (18 * l + r) + (IF k = 0 THEN 0 ELSE k + 1)
  BY <1>1, CodeLengthAt DEF SignificantLetters
<1>5. most \in Nat
  BY <1>2, <1>4
<1>6. p \in Nat /\ p < CodeLength(n)
  BY <1>2, <1>3
<1>7. /\ x \in Nat /\ y \in Nat
      /\ (p + 1) % 73 = 0 => y = x
      /\ (p + 1) % 73 # 0 => y = x + 1
  <2>1. \A q \in Nat : /\ q - q \div 73 \in Nat
                       /\ (q + 1) % 73 = 0 => (q + 1) \div 73 = q \div 73 + 1
                       /\ (q + 1) % 73 # 0 => (q + 1) \div 73 = q \div 73
    OBVIOUS
  <2>2. p \div 73 \in Int /\ p + 1 \in Nat
    BY <1>6
  <2> QED
    BY <1>6, <2>1, <2>2
<1>8. /\ LettersIn(s, p) = IF x <= most THEN x ELSE most
      /\ LettersIn(s, p + 1) = IF y <= most THEN y ELSE most
  BY DEF LettersIn
<1>9. DecodeValue(Pad) < 0 /\ DecodeValue(Newline) < 0 /\ DecodeValue(Nul) < 0
  BY NotRead
<1> HIDE DEF x, most
<1>10. CASE p + 1 = CodeLength(n)
  <2>1. Spelled(s, p + 1) = Nul
    BY <1>10 DEF Spelled
  <2>2. next = d
    BY <1>9, <2>1 DEF DecodeChar
  <2>3. x >= most
    <3>1. p = 73 * l + 4 * r + (IF k = 0 THEN 0 ELSE 4)
      BY <1>2, <1>3, <1>6, <1>10
    <3> DEFINE z == 4 * r + (IF k = 0 THEN 0 ELSE 4)
    <3>2. z \in 0 .. 72 /\ p = 73 * l + z
      BY <1>2, <3>1
    <3> HIDE DEF z
    <3>3. p \div 73 = l
      BY <1>2, <3>2
    <3>4. x = 72 * l + z
      BY <1>2, <3>2, <3>3 DEF x
    <3> QED
      BY <1>2, <1>4, <3>4 DEF z
  <2> HIDE DEF y
  <2>4. LettersIn(s, p + 1) = LettersIn(s, p)
    BY <1>5, <1>7, <1>8, <2>3
  <2> QED
    BY <2>2, <2>4
<1>11. CASE p + 1 # CodeLength(n) /\ (p + 1) % 73 = 0
  <2>1. Spelled(s, p + 1) = Newline
    BY <1>11 DEF Spelled
  <2>2. next = d
    BY <1>9, <2>1 DEF DecodeChar
  <2> HIDE DEF y
  <2>3. LettersIn(s, p + 1) = LettersIn(s, p)
    BY <1>7, <1>8, <1>11
  <2> QED
    BY <2>2, <2>3
<1>12. CASE p + 1 # CodeLength(n) /\ (p + 1) % 73 # 0 /\ y <= most
  <2>1. Spelled(s, p + 1) = Letters(s, y)
    BY <1>12 DEF Spelled, most
  <2> HIDE DEF y
  <2>2. LettersIn(s, p) = x /\ LettersIn(s, p + 1) = x + 1 /\ y = x + 1
    BY <1>5, <1>7, <1>8, <1>12
  <2>3. DecodedAs(DecodeChar(d, Letters(s, x + 1)), s, x + 1)
    BY <2>2, DecodedNext
  <2> QED
    BY <2>1, <2>2, <2>3
<1>13. CASE p + 1 # CodeLength(n) /\ (p + 1) % 73 # 0 /\ ~(y <= most)
  <2>1. Spelled(s, p + 1) = Pad
    BY <1>13 DEF Spelled, most
  <2>2. next = d
    BY <1>9, <2>1 DEF DecodeChar
  <2> HIDE DEF y
  <2>3. LettersIn(s, p + 1) = LettersIn(s, p)
    BY <1>5, <1>7, <1>8, <1>13
  <2> QED
    BY <2>2, <2>3
<1> QED
  BY <1>10, <1>11, <1>12, <1>13

(* A call of base64_decode_block.                                          *)
LEMMA DecodedBlock ==
    ASSUME NEW s \in Seq(Bytes), NEW text, IsSpelled(text, s),
           NEW p \in 0 .. Len(text), NEW upto \in p .. Len(text),
           NEW d, DecodedAs(d, s, LettersIn(s, p))
    PROVE  DecodedAs(DecodeBlock(d, SubSeq(text, p + 1, upto)), s, LettersIn(s, upto))
<1> DEFINE piece == SubSeq(text, p + 1, upto)
           m == Len(piece)
<1>a. /\ text \in Seq(Int) /\ Len(text) = CodeLength(Len(s))
      /\ \A i \in 1 .. Len(text) : text[i] = Spelled(s, i)
  BY DEF IsSpelled
<1>1. d \in Decoders
  BY DEF DecodedAs, Held
<1>2. /\ piece \in Seq(Int) /\ m = upto - p
      /\ \A k \in 1 .. m : piece[k] = text[p + k]
  <2>1. \A i \in p + 1 .. upto : text[i] \in Int
    BY <1>a
  <2>2. p + 1 \in Int /\ upto \in Int
    OBVIOUS
  <2>3. /\ piece \in Seq(Int)
        /\ Len(piece) = IF p + 1 <= upto THEN upto - (p + 1) + 1 ELSE 0
        /\ \A i \in 1 .. upto - (p + 1) + 1 : piece[i] = text[(p + 1) + i - 1]
    BY <2>1, <2>2, SubSeqProperties
  <2> HIDE DEF piece
  <2>4. m = upto - p /\ upto - (p + 1) + 1 = m
    BY <2>3
  <2>5. ASSUME NEW k \in 1 .. m
        PROVE  piece[k] = text[p + k]
    <3>1. (p + 1) + k - 1 = p + k
      BY <2>4
    <3> QED
      BY <2>3, <2>4, <3>1
  <2> QED
    BY <2>3, <2>4, <2>5
<1>3. m \in Nat
  BY <1>2
<1> HIDE DEF piece
<1>4. PICK f \in [0 .. m -> Decoders] :
          /\ f[0] = d
          /\ \A k \in 1 .. m : f[k] = DecodeChar(f[k - 1], piece[k])
          /\ DecodeBlock(d, piece) = f[m]
  BY <1>1, <1>2, DecodeBlockRuns
<1> DEFINE T == {k \in 0 .. m : DecodedAs(f[k], s, LettersIn(s, p + k))}
<1>5. 0 \in T
  <2>1. p + 0 = p
    OBVIOUS
  <2> QED
    BY <1>3, <1>4, <2>1
<1>6. ASSUME NEW k \in 0 .. m - 1, k \in T
      PROVE  k + 1 \in T
  <2>1. DecodedAs(f[k], s, LettersIn(s, p + k)) /\ p + k \in 0 .. CodeLength(Len(s)) - 1
    BY <1>a, <1>2, <1>6, SMTT(30)
  <2>2. k + 1 \in 1 .. m /\ (k + 1) - 1 = k /\ p + (k + 1) = (p + k) + 1
        /\ (p + k) + 1 \in 1 .. Len(text)
    BY <1>a, <1>2, <1>3
  <2>3. f[k + 1] = DecodeChar(f[k], Spelled(s, (p + k) + 1))
    BY <1>a, <1>2, <1>4, <2>2
  <2>4. DecodedAs(f[k + 1], s, LettersIn(s, (p + k) + 1))
    BY <2>1, <2>3, DecodedChar
  <2> QED
    BY <2>2, <2>4
<1>7. m \in T
  <2> HIDE DEF T, m
  <2>1. \A k \in 0 .. m : k \in T
    BY <1>3, <1>5, <1>6, UpTo
  <2> QED
    BY <1>3, <2>1
<1>8. p + m = upto
  BY <1>2
<1> QED
  BY <1>4, <1>7, <1>8 DEF piece

(* All of them have been read when the code has.                           *)
LEMMA DecodedEnd ==
    ASSUME NEW s \in Seq(Bytes), NEW d, DecodedAs(d, s, LettersIn(s, CodeLength(Len(s))))
    PROVE  d.out = s
<1> DEFINE n == Len(s)
           p == CodeLength(n)
<1>1. PICK l, r, k : IsPlace(n, l, r, k)
  <2>1. n \in Nat
    OBVIOUS
  <2> QED
    BY <2>1, BytePlace
<1>2. l \in Nat /\ r \in 0 .. 17 /\ k \in 0 .. 2 /\ n = 54 * l + 3 * r + k
  BY <1>1 DEF IsPlace
<1>3. p = 73 * l + 4 * r + (IF k = 0 THEN 0 ELSE 4) + 1
  BY <1>1, CodeLengthAt
<1>4. SignificantLetters(s) = 4 * (18 * l + r) + (IF k = 0 THEN 0 ELSE k + 1)
  BY <1>1, CodeLengthAt DEF SignificantLetters
<1> HIDE DEF p
<1>5. LettersIn(s, p) = SignificantLetters(s)
  <2>1. p - p \div 73 >= SignificantLetters(s)
    <3> DEFINE z == 4 * r + (IF k = 0 THEN 0 ELSE 4) + 1
    <3>1. z \in 0 .. 73 /\ p = 73 * l + z
      BY <1>2, <1>3
    <3>2. z >= 4 * r + (IF k = 0 THEN 0 ELSE k + 1) + (IF z = 73 THEN 1 ELSE 0)
      BY <1>2
    <3> HIDE DEF z
    <3>3. p \div 73 = l + (IF z = 73 THEN 1 ELSE 0)
      BY <1>2, <3>1
    <3> QED
      BY <1>2, <1>4, <3>1, <3>2, <3>3
  <2>2. SignificantLetters(s) \in Int /\ p - p \div 73 \in Int
    BY <1>2, <1>3, <1>4
  <2> QED
    BY <2>1, <2>2 DEF LettersIn
<1>6. PICK g, j, a, b, c :
          Held(d, s, g, j, a, b, c) /\ SignificantLetters(s) = 4 * g + j
  BY <1>5 DEF DecodedAs, p
<1>7. g \in Nat /\ j \in 0 .. 3
      /\ IsPlain(d.out, s, 3 * g + (IF j = 0 THEN 0 ELSE j - 1))
  BY <1>6 DEF Held, BytesOf
<1>8. 3 * g + (IF j = 0 THEN 0 ELSE j - 1) = n
  <2>1. g = 18 * l + r /\ j = (IF k = 0 THEN 0 ELSE k + 1)
    BY <1>2, <1>4, <1>6, <1>7
  <2> QED
    BY <1>2, <2>1
<1>9. /\ d.out \in Seq(Int) /\ Len(d.out) = n
      /\ \A i \in 1 .. n : d.out[i] = ByteAt(s, i)
  BY <1>7, <1>8 DEF IsPlain
<1>10. \A i \in 1 .. Len(s) : d.out[i] = s[i]
  BY <1>9 DEF ByteAt
<1>11. s \in Seq(Int)
  <2>1. Bytes \subseteq Int
    BY DEF Bytes
  <2> QED
    BY <2>1, SeqMonotonic
<1> QED
  BY <1>9, <1>10, <1>11, SeqEqual

-----------------------------------------------------------------------------
(* SHA-1: the counters and the buffer.                                     *)

IsDivided(x, w, q, r) == w \in Nat \ {0} /\ q \in Int /\ r \in 0 .. w - 1 /\ x = w * q + r

(* Quotient and remainder are determined, ...                              *)
LEMMA DivModIs ==
    ASSUME NEW x, NEW w, NEW q, NEW r, IsDivided(x, w, q, r)
    PROVE  x \div w = q /\ x % w = r
BY DEF IsDivided

(* ... and there are such.                                                 *)
LEMMA DivModOf ==
    ASSUME NEW w \in Nat \ {0}, NEW x \in Int
    PROVE  IsDivided(x, w, x \div w, x % w)
BY DEF IsDivided

(* WordMod is a multiple of 1024.                                          *)
LEMMA WordModIs ==
    /\ WordMod \in Nat \ {0}
    /\ \E v \in Nat \ {0} : WordMod = 1024 * v
<1>1. WordMod \in Nat /\ WordMod >= 1024 /\ WordMod % 1024 = 0
  BY WordAssumption
<1>2. WordMod = 1024 * (WordMod \div 1024) /\ WordMod \div 1024 \in Nat \ {0}
  BY <1>1
<1> QED
  BY <1>1, <1>2

(* The two counters are the number of bits, for every number of bytes.     *)
BitsOf(length) == <<(8 * length) % WordMod, ((8 * length) \div WordMod) % WordMod>>

(* How far into a block these bits reach.                                  *)
InBlock(count, length) ==
    /\ (count[1] \div 8) % 64 = length % 64
    /\ count[1] % 512 = 8 * (length % 64)

(* The low counter alone tells how far into a block the bytes reach.       *)
LEMMA BytesInBlock ==
    ASSUME NEW length \in Nat
    PROVE  InBlock(BitsOf(length), length)
<1>1. PICK v \in Nat \ {0} : WordMod = 1024 * v
  BY WordModIs
<1> DEFINE x == 8 * length
           q == x \div WordMod
           r == x % WordMod
<1>2. q \in Int /\ r \in 0 .. WordMod - 1 /\ x = WordMod * q + r
  <2>1. x \in Int /\ WordMod \in Nat \ {0}
    BY WordModIs
  <2> HIDE DEF x
  <2> QED
    BY <2>1, DivModOf DEF IsDivided
<1>3. BitsOf(length)[1] = r
  BY DEF BitsOf
<1>4. PICK p \in Int : WordMod * q = 1024 * p
  <2> HIDE DEF q
  <2>1. WordMod * q = 1024 * (v * q) /\ v * q \in Int
    BY <1>1, <1>2
  <2> QED
    BY <2>1
<1>5. r = 8 * length - 1024 * p /\ r \in Int
  BY <1>2, <1>4
<1> HIDE DEF x, q, r
<1>6. r \div 8 = length - 128 * p
  BY <1>5
<1>7. (length - 128 * p) % 64 = length % 64
  OBVIOUS
<1>8. (8 * length - 1024 * p) % 512 = 8 * (length % 64)
  <2> DEFINE a == length \div 64  b == length % 64
  <2>1. length = 64 * a + b /\ a \in Int /\ b \in 0 .. 63
    OBVIOUS
  <2> HIDE DEF a, b
  <2>2. 8 * length - 1024 * p = 512 * (a - 2 * p) + 8 * b
    BY <2>1
  <2>3. 8 * b \in 0 .. 511 /\ a - 2 * p \in Int
    BY <2>1
  <2> QED
    BY <2>2, <2>3 DEF b
<1> QED
  BY <1>3, <1>5, <1>6, <1>7, <1>8 DEF InBlock

(* count[0] += len << 3, its carry, and count[1] += len >> 29 count the    *)
(* bits of both lengths.                                                   *)
LEMMA CountedBits ==
    ASSUME NEW length \in Nat, NEW more \in Nat
    PROVE  Counted(BitsOf(length), more) = BitsOf(length + more)
<1>1. PICK v \in Nat \ {0} : WordMod = 1024 * v
  BY WordModIs
<1> DEFINE w == WordMod
           u == 128 * v
           x == 8 * length
           q == x \div w
           r == x % w
           h == more \div u
           t == more % u
           y == 8 * (length + more)
           count == BitsOf(length)
           low == (r + more * 8) % w
           carry == IF low < r THEN 1 ELSE 0
<1>2. w \in Nat \ {0} /\ u \in Nat \ {0} /\ w = 8 * u
  BY <1>1
<1>3. w \div 8 = u
  BY <1>2
<1>4. q \in Int /\ r \in 0 .. w - 1 /\ x = w * q + r
  <2>1. x \in Int
    OBVIOUS
  <2> HIDE DEF w, x
  <2> QED
    BY <1>2, <2>1, DivModOf, ZenonT(60) DEF IsDivided
<1> HIDE DEF w, u
<1>5. h \in Int /\ t \in 0 .. u - 1 /\ more = u * h + t
  BY <1>2, DivModOf DEF IsDivided
<1> HIDE DEF q, r, h, t
<1>6. 8 * more = w * h + 8 * t /\ 8 * t \in 0 .. w - 8
  <2>1. 8 * more = 8 * (u * h) + 8 * t
    BY <1>2, <1>5
  <2>2. 8 * (u * h) = w * h
    BY <1>2, <1>5
  <2>3. 8 * t \in 0 .. w - 8
    BY <1>2, <1>5
  <2> QED
    BY <2>1, <2>2, <2>3
<1>7. y = w * (q + h) + (r + 8 * t) /\ r + more * 8 = w * h + (r + 8 * t)
  <2>1. y = x + 8 * more
    OBVIOUS
  <2>2. w * (q + h) = w * q + w * h
    BY <1>2, <1>4, <1>5
  <2>3. w * q \in Int /\ w * h \in Int
    BY <1>2, <1>4, <1>5
  <2> HIDE DEF x, y
  <2> QED
    BY <1>4, <1>5, <1>6, <2>1, <2>2, <2>3
<1> HIDE DEF x, y
<1>8. low = y % w /\ y \div w = q + (carry + h)
  <2>1. CASE r + 8 * t < w
    <3>1. r + 8 * t \in 0 .. w - 1 /\ q + h \in Int
      BY <1>2, <1>4, <1>5, <1>6, <2>1
    <3>2. low = r + 8 * t
      <4>1. IsDivided(r + more * 8, w, h, r + 8 * t)
        BY <1>2, <1>5, <1>7, <3>1 DEF IsDivided
      <4> QED
        BY <4>1, DivModIs
    <3>3. y % w = r + 8 * t /\ y \div w = q + h
      <4>1. IsDivided(y, w, q + h, r + 8 * t)
        BY <1>2, <1>7, <3>1 DEF IsDivided
      <4> QED
        BY <4>1, DivModIs
    <3>4. carry = 0
      BY <1>4, <1>6, <3>2
    <3> HIDE DEF low, carry
    <3> QED
      BY <1>4, <1>5, <3>2, <3>3, <3>4
  <2>2. CASE r + 8 * t >= w
    <3>1. (r + 8 * t) - w \in 0 .. w - 1 /\ q + h + 1 \in Int /\ h + 1 \in Int
      BY <1>2, <1>4, <1>5, <1>6, <2>2
    <3>2. y = w * (q + h + 1) + ((r + 8 * t) - w)
      <4>1. w * (q + h + 1) = w * (q + h) + w /\ w * (q + h) \in Int
        BY <1>2, <1>4, <1>5
      <4> QED
        BY <1>2, <1>4, <1>6, <1>7, <4>1
    <3>3. r + more * 8 = w * (h + 1) + ((r + 8 * t) - w)
      <4>1. w * (h + 1) = w * h + w /\ w * h \in Int
        BY <1>2, <1>5
      <4> QED
        BY <1>2, <1>4, <1>6, <1>7, <4>1
    <3>4. low = (r + 8 * t) - w
      <4>1. IsDivided(r + more * 8, w, h + 1, (r + 8 * t) - w)
        BY <1>2, <3>1, <3>3 DEF IsDivided
      <4> QED
        BY <4>1, DivModIs
    <3>5. y % w = (r + 8 * t) - w /\ y \div w = q + h + 1
      <4>1. IsDivided(y, w, q + h + 1, (r + 8 * t) - w)
        BY <1>2, <3>1, <3>2 DEF IsDivided
      <4> QED
        BY <4>1, DivModIs
    <3>6. carry = 1
      BY <1>2, <1>4, <1>6, <3>4
    <3> HIDE DEF low, carry
    <3> QED
      BY <1>4, <1>5, <3>4, <3>5, <3>6
  <2> QED
    BY <1>2, <1>4, <1>6, <2>1, <2>2
<1>9. ((q % w) + carry + h) % w = (q + (carry + h)) % w
  <2>1. q % w \in 0 .. w - 1 /\ q \div w \in Int /\ q = w * (q \div w) + (q % w)
    BY <1>2, <1>4, DivModOf DEF IsDivided
  <2>2. carry + h \in Int
    BY <1>5
  <2> DEFINE a == q \div w  b == q % w  d == carry + h  e == (b + d) \div w  f == (b + d) % w
  <2>3. a \in Int /\ b \in 0 .. w - 1 /\ q = w * a + b
    BY <2>1
  <2> HIDE DEF a, b, carry
  <2>4. d \in Int
    BY <2>2
  <2> HIDE DEF d
  <2>5. e \in Int /\ f \in 0 .. w - 1 /\ b + d = w * e + f
    <3>1. b + d \in Int
      BY <1>2, <2>3, <2>4
    <3> QED
      BY <1>2, <3>1, DivModOf DEF IsDivided
  <2> HIDE DEF e, f
  <2>6. q + d = w * (a + e) + f
    <3>1. w * (a + e) = w * a + w * e /\ w * a \in Int /\ w * e \in Int
      BY <1>2, <2>3, <2>5
    <3> QED
      BY <1>2, <2>3, <2>4, <2>5, <3>1
  <2>7. (q + d) % w = f
    <3>1. IsDivided(q + d, w, a + e, f)
      BY <1>2, <2>3, <2>5, <2>6 DEF IsDivided
    <3> QED
      BY <3>1, DivModIs
  <2>8. (b + d) % w = f
    BY DEF f
  <2>9. b + carry + h = b + d
    BY <1>5, <2>3 DEF d, carry
  <2> QED
    BY <2>7, <2>8, <2>9 DEF b, d
<1>10. count[1] = r /\ count[2] = q % w
  BY DEF BitsOf, r, q, x, w
<1>11. BitsOf(length + more) = <<y % w, (y \div w) % w>>
  BY DEF BitsOf, y, w
<1>12. Counted(count, more) = <<low, ((q % w) + carry + h) % w>>
  BY <1>3, <1>10 DEF Counted, h, w
<1> QED
  BY <1>8, <1>9, <1>11, <1>12

(* What the context holds after the bytes m: their number, the blocks that  *)
(* are full, and behind them the bytes of the next one.                    *)
Block == [1 .. 64 -> Int]
BlockOf(m, b) == [k \in 1 .. 64 |-> m[64 * (b - 1) + k]]
BlocksOf(m, n) == [b \in 1 .. n |-> BlockOf(m, b)]
Contexts == [blocks : Seq(Block), count : Int \X Int, buffer : Block]

IsCut(m, n, j) ==
    /\ m \in Seq(Bytes) /\ Len(m) \in Nat
    /\ n \in Nat /\ j \in 0 .. 63
    /\ Len(m) = 64 * n + j

Holds(c, m, n, j) ==
    /\ IsCut(m, n, j)
    /\ c \in Contexts
    /\ c.count = BitsOf(Len(m))
    /\ \A k \in 1 .. j : c.buffer[k] = m[64 * n + k]
    /\ c.blocks = BlocksOf(m, n)

(* A function on 1 .. n is a sequence.                                     *)
LEMMA SeqMade ==
    ASSUME NEW S, NEW n \in Nat, NEW f \in [1 .. n -> S]
    PROVE  f \in Seq(S) /\ Len(f) = n
OBVIOUS

(* A piece of a text, as a function.                                       *)
LEMMA SubSeqIs ==
    ASSUME NEW m \in Seq(Bytes), NEW low \in Nat, NEW n \in Nat, low + n <= Len(m)
    PROVE  SubSeq(m, low + 1, low + n) = [k \in 1 .. n |-> m[low + k]]
<1> DEFINE l == SubSeq(m, low + 1, low + n)
           r == [k \in 1 .. n |-> m[low + k]]
<1>1. \A i \in low + 1 .. low + n : m[i] \in Bytes
  OBVIOUS
<1>2. low + 1 \in Int /\ low + n \in Int
  OBVIOUS
<1>3. /\ l \in Seq(Bytes)
      /\ Len(l) = IF low + 1 <= low + n THEN low + n - (low + 1) + 1 ELSE 0
      /\ \A i \in 1 .. low + n - (low + 1) + 1 : l[i] = m[(low + 1) + i - 1]
  BY <1>1, <1>2, SubSeqProperties
<1> HIDE DEF l
<1>4. Len(l) = n /\ low + n - (low + 1) + 1 = n
  BY <1>3
<1>5. ASSUME NEW k \in 1 .. n
      PROVE  l[k] = m[low + k]
  <2>1. (low + 1) + k - 1 = low + k
    OBVIOUS
  <2> QED
    BY <1>3, <1>4, <2>1
<1>6. r \in [1 .. n -> Bytes]
  OBVIOUS
<1>7. \A k \in 1 .. n : r[k] = m[low + k]
  OBVIOUS
<1> HIDE DEF r
<1>8. r \in Seq(Bytes) /\ Len(r) = n
  BY <1>6, SeqMade
<1>9. l = r
  BY <1>3, <1>4, <1>5, <1>7, <1>8, SeqEqual
<1> QED
  BY <1>9 DEF l, r

(* Each of the full blocks is a block, ...                                 *)
LEMMA BlockOfType ==
    ASSUME NEW m, NEW n, NEW j, IsCut(m, n, j), NEW b \in 1 .. n
    PROVE  BlockOf(m, b) \in Block
<1>1. m \in Seq(Bytes) /\ n \in Nat /\ j \in 0 .. 63 /\ Len(m) = 64 * n + j
  BY DEF IsCut
<1>2. \A k \in 1 .. 64 : m[64 * (b - 1) + k] \in Int
  <2>1. ASSUME NEW k \in 1 .. 64
        PROVE  64 * (b - 1) + k \in 1 .. Len(m)
    BY <1>1
  <2>2. \A x \in 1 .. Len(m) : m[x] \in Bytes
    BY <1>1
  <2>3. Bytes \subseteq Int
    BY DEF Bytes
  <2> QED
    BY <2>1, <2>2, <2>3
<1> QED
  BY <1>2 DEF BlockOf, Block

(* ... and they are a sequence.                                            *)
LEMMA BlocksOfType ==
    ASSUME NEW m, NEW n, NEW j, IsCut(m, n, j)
    PROVE  /\ BlocksOf(m, n) \in Seq(Block) /\ Len(BlocksOf(m, n)) = n
           /\ \A b \in 1 .. n : BlocksOf(m, n)[b] = BlockOf(m, b)
<1>1. n \in Nat
  BY DEF IsCut
<1>2. BlocksOf(m, n) \in [1 .. n -> Block]
  BY BlockOfType DEF BlocksOf
<1>3. \A b \in 1 .. n : BlocksOf(m, n)[b] = BlockOf(m, b)
  BY DEF BlocksOf
<1> QED
  BY <1>1, <1>2, <1>3, SeqMade

(* memcpy into the buffer.                                                 *)
LEMMA CopiedType ==
    ASSUME NEW buffer \in Block, NEW at \in 0 .. 63, NEW data \in Seq(Bytes),
           at + Len(data) <= 64
    PROVE  /\ Copied(buffer, at, data) \in Block
           /\ \A k \in 1 .. at : Copied(buffer, at, data)[k] = buffer[k]
           /\ \A x \in 1 .. Len(data) : Copied(buffer, at, data)[at + x] = data[x]
<1>1. ASSUME NEW k \in 1 .. 64
      PROVE  (IF k \in at + 1 .. at + Len(data) THEN data[k - at] ELSE buffer[k]) \in Int
  <2>1. Bytes \subseteq Int
    BY DEF Bytes
  <2>2. k \in at + 1 .. at + Len(data) => data[k - at] \in Bytes
    OBVIOUS
  <2>3. buffer[k] \in Int
    BY DEF Block
  <2> QED
    BY <2>1, <2>2, <2>3
<1>2. Copied(buffer, at, data) \in Block
  BY <1>1 DEF Copied, Block
<1>3. ASSUME NEW k \in 1 .. at
      PROVE  Copied(buffer, at, data)[k] = buffer[k]
  <2>1. k \in 1 .. 64 /\ k \notin at + 1 .. at + Len(data)
    OBVIOUS
  <2> QED
    BY <2>1 DEF Copied
<1>4. ASSUME NEW x \in 1 .. Len(data)
      PROVE  Copied(buffer, at, data)[at + x] = data[x]
  <2>1. at + x \in 1 .. 64 /\ at + x \in at + 1 .. at + Len(data) /\ (at + x) - at = x
    OBVIOUS
  <2> QED
    BY <2>1 DEF Copied
<1> QED
  BY <1>2, <1>3, <1>4

(* SHA1Init holds nothing.                                                 *)
LEMMA HeldStart ==
    Holds(SHA1Init, <<>>, 0, 0)
<1>1. IsCut(<<>>, 0, 0) /\ Len(<<>>) = 0 /\ 1 .. 0 = {}
  BY DEF IsCut
<1>2. SHA1Init.count = BitsOf(0)
  <2>1. WordMod \in Nat \ {0} /\ 0 = WordMod * 0 + 0
    BY WordModIs
  <2>2. IsDivided(0, WordMod, 0, 0)
    BY <2>1 DEF IsDivided
  <2>3. 0 % WordMod = 0 /\ 0 \div WordMod = 0
    BY <2>2, DivModIs
  <2> QED
    BY <2>3 DEF SHA1Init, BitsOf
<1>3. SHA1Init \in Contexts
  <2>1. [k \in 1 .. 64 |-> Garbage] \in Block
    BY DEF Block, Garbage
  <2>2. <<>> \in Seq(Block)
    OBVIOUS
  <2> QED
    BY <2>1, <2>2 DEF SHA1Init, Contexts
<1>4. BlocksOf(<<>>, 0) = <<>> /\ SHA1Init.blocks = <<>>
  BY <1>1 DEF BlocksOf, SHA1Init
<1> QED
  BY <1>1, <1>2, <1>3, <1>4 DEF Holds

(* Bytes behind the others leave the full blocks as they are.              *)
Joins(u, m, d) ==
    /\ u \in Seq(Bytes) /\ Len(u) = Len(m) + Len(d)
    /\ \A k \in 1 .. Len(m) : u[k] = m[k]
    /\ \A x \in 1 .. Len(d) : u[Len(m) + x] = d[x]

(* Concatenation joins two texts.                                          *)
LEMMA JoinsText ==
    ASSUME NEW m \in Seq(Bytes), NEW d \in Seq(Bytes)
    PROVE  Joins(m \o d, m, d)
BY Behind DEF Joins

(* The blocks that were full are the same blocks of the longer text.       *)
LEMMA BlocksStay ==
    ASSUME NEW m, NEW d, NEW u, Joins(u, m, d), NEW n, NEW j, IsCut(m, n, j), NEW b \in 1 .. n
    PROVE  BlockOf(u, b) = BlockOf(m, b)
<1>1. n \in Nat /\ j \in 0 .. 63 /\ Len(m) = 64 * n + j
      /\ \A k \in 1 .. Len(m) : u[k] = m[k]
  BY DEF IsCut, Joins
<1>2. ASSUME NEW k \in 1 .. 64
      PROVE  u[64 * (b - 1) + k] = m[64 * (b - 1) + k]
  <2>1. 64 * (b - 1) + k \in 1 .. Len(m)
    BY <1>1
  <2> QED
    BY <1>1, <2>1
<1> QED
  BY <1>2 DEF BlockOf

(* The counters are numbers.                                               *)
LEMMA BitsOfType ==
    ASSUME NEW length \in Nat
    PROVE  BitsOf(length) \in Int \X Int
<1>1. WordMod \in Nat \ {0}
  BY WordModIs
<1>2. \A w \in Nat \ {0}, x \in Int : x % w \in Int /\ x \div w \in Int
  OBVIOUS
<1>3. 8 * length \in Int
  OBVIOUS
<1> QED
  BY <1>1, <1>2, <1>3 DEF BitsOf

(* A piece of a text.                                                      *)
LEMMA PieceType ==
    ASSUME NEW d \in Seq(Bytes), NEW low \in Nat, NEW n \in Nat, low + n <= Len(d),
           NEW p, p = SubSeq(d, low + 1, low + n)
    PROVE  /\ p \in Seq(Bytes) /\ Len(p) = n
           /\ \A k \in 1 .. n : p[k] = d[low + k]
<1>1. p = [k \in 1 .. n |-> d[low + k]]
  <2>1. SubSeq(d, low + 1, low + n) = [k \in 1 .. n |-> d[low + k]]
    BY SubSeqIs
  <2> QED
    BY <2>1, Zenon
<1>2. p \in [1 .. n -> Bytes]
  <2>1. ASSUME NEW k \in 1 .. n
        PROVE  d[low + k] \in Bytes
    <3>1. low + k \in 1 .. Len(d)
      OBVIOUS
    <3> QED
      BY <3>1
  <2>2. [k \in 1 .. n |-> d[low + k]] \in [1 .. n -> Bytes]
    BY <2>1
  <2> QED
    BY <1>1, <2>2, Zenon
<1>3. p \in Seq(Bytes) /\ Len(p) = n
  BY <1>2, SeqMade
<1> QED
  BY <1>1, <1>3

(* SHA1Update, when the next block does not become full.                   *)
LEMMA HeldInBuffer ==
    ASSUME NEW m, NEW d \in Seq(Bytes), NEW u, Joins(u, m, d),
           NEW c, NEW n, NEW j, Holds(c, m, n, j), j + Len(d) <= 63
    PROVE  Holds([c EXCEPT !.count = Counted(@, Len(d)), !.buffer = Copied(@, j, d)],
                 u, n, j + Len(d))
<1> DEFINE more == Len(d)
           copied == Copied(c.buffer, j, d)
           next == [c EXCEPT !.count = Counted(@, more), !.buffer = copied]
<1>1. /\ u \in Seq(Bytes) /\ Len(u) = Len(m) + more
      /\ \A k \in 1 .. Len(m) : u[k] = m[k]
      /\ \A x \in 1 .. more : u[Len(m) + x] = d[x]
  BY DEF Joins
<1>2. /\ IsCut(m, n, j) /\ c \in Contexts /\ c.count = BitsOf(Len(m))
      /\ \A k \in 1 .. j : c.buffer[k] = m[64 * n + k]
      /\ c.blocks = BlocksOf(m, n)
  BY DEF Holds
<1>3. m \in Seq(Bytes) /\ n \in Nat /\ j \in 0 .. 63 /\ Len(m) = 64 * n + j /\ more \in Nat
      /\ j + more <= 63 /\ Len(m) \in Nat
  BY <1>2 DEF IsCut
<1>4. c.buffer \in Block /\ c.blocks \in Seq(Block)
  BY <1>2, SMTT(30) DEF Contexts
<1>5. /\ copied \in Block
      /\ \A k \in 1 .. j : copied[k] = c.buffer[k]
      /\ \A x \in 1 .. more : copied[j + x] = d[x]
  <2>1. j + Len(d) <= 64
    BY <1>3
  <2> QED
    BY <1>3, <1>4, <2>1, CopiedType
<1> HIDE DEF more, copied
<1>6. IsCut(u, n, j + more)
  BY <1>1, <1>3 DEF IsCut
<1>7. Counted(c.count, more) = BitsOf(Len(u))
  BY <1>1, <1>2, <1>3, CountedBits
<1>8. BitsOf(Len(u)) \in Int \X Int
  BY <1>6, BitsOfType DEF IsCut
<1>9. /\ next.blocks = c.blocks /\ next.count = BitsOf(Len(u))
      /\ next.buffer = copied /\ next \in Contexts
  BY <1>2, <1>5, <1>7, <1>8 DEF Contexts
<1> HIDE DEF next
<1>10. BlocksOf(u, n) = BlocksOf(m, n)
  <2>1. \A b \in 1 .. n : BlockOf(u, b) = BlockOf(m, b)
    BY <1>2, BlocksStay
  <2> QED
    BY <2>1 DEF BlocksOf
<1>11. ASSUME NEW k \in 1 .. j + more
       PROVE  next.buffer[k] = u[64 * n + k]
  <2>1. CASE k \in 1 .. j
    <3>1. 64 * n + k \in 1 .. Len(m)
      BY <1>3, <2>1
    <3>2. u[64 * n + k] = m[64 * n + k]
      BY <1>1, <3>1
    <3> QED
      BY <1>2, <1>5, <1>9, <2>1, <3>2
  <2>2. CASE k \notin 1 .. j
    <3>1. PICK x \in 1 .. more : k = j + x
      <4>1. k - j \in 1 .. more /\ k = j + (k - j)
        BY <1>3, <2>2
      <4> QED
        BY <4>1
    <3>2. 64 * n + k = Len(m) + x
      BY <1>3, <3>1
    <3>3. u[64 * n + k] = d[x]
      BY <1>1, <3>2
    <3> QED
      BY <1>5, <1>9, <3>1, <3>3
  <2> QED
    BY <2>1, <2>2
<1>12. Holds(next, u, n, j + more)
  BY <1>2, <1>6, <1>9, <1>10, <1>11 DEF Holds
<1> QED
  BY <1>12 DEF next, more, copied

(* When it does: the bytes d are the i that are missing, whole blocks, and  *)
(* a rest.                                                                 *)
Fills(d, j, i, whole, left) ==
    /\ d \in Seq(Bytes) /\ j \in 0 .. 63 /\ i \in 1 .. 64 /\ i + j = 64
    /\ whole \in Nat /\ left \in 0 .. 63
    /\ Len(d) = i + 64 * whole + left

(* The buffer, filled up, is the next block, ...                           *)
LEMMA FirstBlock ==
    ASSUME NEW m, NEW d, NEW u, Joins(u, m, d), NEW c, NEW n, NEW j, Holds(c, m, n, j),
           NEW i, NEW whole, NEW left, Fills(d, j, i, whole, left),
           NEW first, first = Copied(c.buffer, j, SubSeq(d, 1, i))
    PROVE  first = BlockOf(u, n + 1)
<1>1. /\ Len(u) = Len(m) + Len(d)
      /\ \A k \in 1 .. Len(m) : u[k] = m[k]
      /\ \A x \in 1 .. Len(d) : u[Len(m) + x] = d[x]
  BY DEF Joins
<1>2. /\ IsCut(m, n, j) /\ c \in Contexts
      /\ \A k \in 1 .. j : c.buffer[k] = m[64 * n + k]
  BY DEF Holds
<1>3. n \in Nat /\ j \in 0 .. 63 /\ Len(m) = 64 * n + j
  BY <1>2 DEF IsCut
<1>4. d \in Seq(Bytes) /\ i \in 1 .. 64 /\ i + j = 64 /\ i <= Len(d) /\ Len(d) \in Nat
  BY DEF Fills
<1>5. c.buffer \in Block
  BY <1>2 DEF Contexts
<1> DEFINE head == SubSeq(d, 1, i)
<1>6. head \in Seq(Bytes) /\ Len(head) = i /\ \A k \in 1 .. i : head[k] = d[k]
  <2>1. head = SubSeq(d, 0 + 1, 0 + i) /\ 0 + i <= Len(d) /\ i \in Nat /\ 0 \in Nat
    BY <1>4
  <2> HIDE DEF head
  <2>2. head \in Seq(Bytes) /\ Len(head) = i /\ \A k \in 1 .. i : head[k] = d[0 + k]
    BY <1>4, <2>1, PieceType
  <2>3. \A k \in 1 .. i : 0 + k = k
    OBVIOUS
  <2> QED
    BY <2>2, <2>3
<1> HIDE DEF head
<1>7. /\ first \in Block
      /\ \A k \in 1 .. j : first[k] = c.buffer[k]
      /\ \A x \in 1 .. i : first[j + x] = head[x]
  <2>1. j + Len(head) <= 64 /\ first = Copied(c.buffer, j, head)
    BY <1>3, <1>4, <1>6, SMTT(30) DEF head
  <2>2. /\ Copied(c.buffer, j, head) \in Block
        /\ \A k \in 1 .. j : Copied(c.buffer, j, head)[k] = c.buffer[k]
        /\ \A x \in 1 .. Len(head) : Copied(c.buffer, j, head)[j + x] = head[x]
    BY <1>3, <1>5, <1>6, <2>1, CopiedType
  <2> QED
    BY <1>6, <2>1, <2>2
<1>8. ASSUME NEW k \in 1 .. 64
      PROVE  first[k] = u[64 * n + k]
  <2>1. CASE k \in 1 .. j
    <3>1. 64 * n + k \in 1 .. Len(m)
      BY <1>3, <2>1
    <3> QED
      BY <1>1, <1>2, <1>7, <2>1, <3>1
  <2>2. CASE k \notin 1 .. j
    <3>1. PICK x \in 1 .. i : k = j + x
      <4>1. k - j \in 1 .. i /\ k = j + (k - j)
        BY <1>3, <1>4, <2>2
      <4> QED
        BY <4>1
    <3>2. 64 * n + k = Len(m) + x /\ x \in 1 .. Len(d)
      BY <1>3, <1>4, <3>1
    <3>3. u[64 * n + k] = d[x]
      BY <1>1, <3>2
    <3> QED
      BY <1>6, <1>7, <3>1, <3>3
  <2> QED
    BY <2>1, <2>2
<1>9. (n + 1) - 1 = n
  BY <1>3
<1>10. BlockOf(u, n + 1) = [k \in 1 .. 64 |-> u[64 * n + k]]
  BY <1>9 DEF BlockOf
<1>11. first = [k \in 1 .. 64 |-> first[k]]
  BY <1>7 DEF Block
<1> QED
  BY <1>8, <1>10, <1>11

(* ... the blocks taken from the data itself are those behind it, ...      *)
LEMMA MiddleBlock ==
    ASSUME NEW m, NEW d, NEW u, Joins(u, m, d), NEW n, NEW j, IsCut(m, n, j),
           NEW i, NEW whole, NEW left, Fills(d, j, i, whole, left), NEW b \in 1 .. whole
    PROVE  SubSeq(d, i + 64 * (b - 1) + 1, i + 64 * b) = BlockOf(u, n + 1 + b)
<1>1. \A x \in 1 .. Len(d) : u[Len(m) + x] = d[x]
  BY DEF Joins
<1>2. n \in Nat /\ j \in 0 .. 63 /\ Len(m) = 64 * n + j
  BY DEF IsCut
<1>3. /\ d \in Seq(Bytes) /\ i \in 1 .. 64 /\ i + j = 64 /\ whole \in Nat /\ left \in 0 .. 63
      /\ Len(d) = i + 64 * whole + left
  BY DEF Fills
<1> DEFINE low == i + 64 * (b - 1)
           place == 64 * ((n + 1 + b) - 1)
<1>4. low \in Nat /\ low + 64 <= Len(d) /\ i + 64 * b = low + 64 /\ Len(m) + low = place
      /\ place \in Nat
  BY <1>2, <1>3
<1> HIDE DEF low
<1>5. SubSeq(d, low + 1, low + 64) = [k \in 1 .. 64 |-> d[low + k]]
  BY <1>3, <1>4, SubSeqIs
<1>6. BlockOf(u, n + 1 + b) = [k \in 1 .. 64 |-> u[place + k]]
  BY DEF BlockOf
<1> HIDE DEF place
<1>7. ASSUME NEW k \in 1 .. 64
      PROVE  d[low + k] = u[place + k]
  <2>1. low + k \in 1 .. Len(d)
    BY <1>3, <1>4
  <2>2. u[Len(m) + (low + k)] = d[low + k]
    BY <1>1, <2>1
  <2>3. Len(m) + (low + k) = place + k
    BY <1>2, <1>4
  <2> QED
    BY <2>2, <2>3
<1>8. SubSeq(d, low + 1, low + 64) = BlockOf(u, n + 1 + b)
  BY <1>5, <1>6, <1>7
<1> QED
  BY <1>4, <1>8 DEF low

(* The first left bytes of the buffer are those behind the size full blocks. *)
Buffered(buffer, u, size, left) ==
    buffer \in Block /\ \A k \in 1 .. left : buffer[k] = u[64 * size + k]

IsRest(rest, d, i, whole) == rest = SubSeq(d, i + 64 * whole + 1, Len(d))

(* ... and the rest is copied to the start of the buffer.                  *)
LEMMA RestOf ==
    ASSUME NEW m, NEW d, NEW u, Joins(u, m, d), NEW n, NEW j, IsCut(m, n, j),
           NEW i, NEW whole, NEW left, Fills(d, j, i, whole, left), NEW first \in Block,
           NEW rest, IsRest(rest, d, i, whole)
    PROVE  Buffered(Copied(first, 0, rest), u, n + 1 + whole, left)
<1>1. \A x \in 1 .. Len(d) : u[Len(m) + x] = d[x]
  BY DEF Joins
<1>2. n \in Nat /\ j \in 0 .. 63 /\ Len(m) = 64 * n + j
  BY DEF IsCut
<1>3. /\ d \in Seq(Bytes) /\ i \in 1 .. 64 /\ i + j = 64 /\ whole \in Nat /\ left \in 0 .. 63
      /\ Len(d) = i + 64 * whole + left
  BY DEF Fills
<1> DEFINE low == i + 64 * whole
           place == 64 * (n + 1 + whole)
<1>4. low \in Nat /\ low + left = Len(d) /\ Len(m) + low = place /\ place \in Nat /\ left \in Nat
  BY <1>2, <1>3
<1>5. rest = SubSeq(d, low + 1, low + left)
  BY <1>4 DEF IsRest
<1> HIDE DEF low, place
<1>6. rest \in Seq(Bytes) /\ Len(rest) = left /\ \A k \in 1 .. left : rest[k] = d[low + k]
  BY <1>3, <1>4, <1>5, PieceType
<1> DEFINE copied == Copied(first, 0, rest)
<1>7. copied \in Block /\ \A x \in 1 .. left : copied[0 + x] = rest[x]
  <2>1. 0 + Len(rest) <= 64 /\ 0 \in 0 .. 63
    BY <1>3, <1>6, SMTT(30)
  <2>2. copied \in Block /\ \A x \in 1 .. Len(rest) : copied[0 + x] = rest[x]
    BY <1>6, <2>1, CopiedType
  <2> QED
    BY <1>6, <2>2
<1> HIDE DEF copied
<1>8. ASSUME NEW k \in 1 .. left
      PROVE  copied[k] = u[place + k]
  <2>1. 0 + k = k /\ low + k \in 1 .. Len(d)
    BY <1>4
  <2>2. u[Len(m) + (low + k)] = d[low + k]
    BY <1>1, <2>1
  <2>3. Len(m) + (low + k) = place + k
    BY <1>2, <1>4
  <2> QED
    BY <1>6, <1>7, <2>1, <2>2, <2>3
<1> QED
  BY <1>7, <1>8 DEF copied, place, Buffered

(* The blocks new are the old ones, the first and the middle ones.         *)
IsRow(new, n, whole, old, first, middle) ==
    /\ n \in Nat /\ whole \in Nat
    /\ old \in Seq(Block) /\ Len(old) = n /\ first \in Block
    /\ middle \in Seq(Block) /\ Len(middle) = whole
    /\ new \in Seq(Block) /\ Len(new) = n + 1 + whole
    /\ \A b \in 1 .. n : new[b] = old[b]
    /\ new[n + 1] = first
    /\ \A b \in 1 .. whole : new[n + 1 + b] = middle[b]

AllOf(all, old, first, middle) == all = (old \o <<first>>) \o middle

(* Such a row of blocks is what SHA1Update has transformed.                *)
LEMMA BlocksJoined ==
    ASSUME NEW new, NEW n, NEW whole, NEW old, NEW first, NEW middle,
           IsRow(new, n, whole, old, first, middle)
    PROVE  AllOf(new, old, first, middle)
<1>0. /\ n \in Nat /\ whole \in Nat
      /\ old \in Seq(Block) /\ Len(old) = n /\ first \in Block
      /\ middle \in Seq(Block) /\ Len(middle) = whole
      /\ new \in Seq(Block) /\ Len(new) = n + 1 + whole
      /\ \A b \in 1 .. n : new[b] = old[b]
      /\ new[n + 1] = first
      /\ \A b \in 1 .. whole : new[n + 1 + b] = middle[b]
  BY DEF IsRow
<1>1. PICK q : q = Append(old, first)
  OBVIOUS
<1>2. old \o <<first>> = q
  BY <1>0, <1>1, AppendIsConcat
<1>3. q \in Seq(Block) /\ Len(q) = n + 1
  BY <1>0, <1>1
<1>4. \A b \in 1 .. n : q[b] = old[b]
  BY <1>0, <1>1
<1>5. q[n + 1] = first
  BY <1>0, <1>1
<1>6. PICK all : IsBoth(all, q, middle)
  BY DEF IsBoth
<1>7. /\ all \in Seq(Block) /\ Len(all) = Len(q) + Len(middle)
      /\ \A b \in 1 .. Len(q) : all[b] = q[b]
      /\ \A b \in 1 .. Len(middle) : all[Len(q) + b] = middle[b]
  <2>1. middle \in Seq(Block) /\ q \in Seq(Block)
    BY <1>0, <1>3
  <2>2. HasBoth(all, Block, q, middle)
    BY <1>6, <2>1, BehindIs, Zenon
  <2> QED
    BY <2>2 DEF HasBoth
<1>8. Len(all) = n + 1 + whole
  BY <1>0, <1>3, <1>7
<1>10. ASSUME NEW b \in 1 .. n + 1 + whole
       PROVE  all[b] = new[b]
  <2>1. CASE b \in 1 .. n
    <3>1. b \in 1 .. Len(q)
      <4>1. n \in Nat /\ Len(q) = n + 1
        BY <1>0, <1>3
      <4> QED
        BY <2>1, <4>1
    <3>2. all[b] = q[b]
      BY <1>7, <3>1, Zenon
    <3>3. q[b] = old[b] /\ new[b] = old[b]
      BY <1>0, <1>4, <2>1
    <3> QED
      BY <3>2, <3>3
  <2>2. CASE b = n + 1
    <3>1. all[n + 1] = q[n + 1]
      BY <1>0, <1>3, <1>7
    <3> QED
      BY <1>0, <1>5, <2>2, <3>1
  <2>3. CASE b > n + 1
    <3>1. PICK x \in 1 .. whole : b = n + 1 + x
      <4>1. b - (n + 1) \in 1 .. whole /\ b = n + 1 + (b - (n + 1))
        BY <1>0, <2>3
      <4> QED
        BY <4>1
    <3>2. all[n + 1 + x] = middle[x]
      BY <1>0, <1>3, <1>7
    <3> QED
      BY <1>0, <3>1, <3>2
  <2> QED
    BY <1>0, <2>1, <2>2, <2>3
<1>11. all = new
  BY <1>0, <1>7, <1>8, <1>10, SeqEqual
<1> QED
  BY <1>2, <1>6, <1>11 DEF AllOf, IsBoth

(* SHA1Update, when the next block becomes full.                           *)
LEMMA HeldInBlocks ==
    ASSUME NEW m, NEW d, NEW u, Joins(u, m, d), NEW c, NEW n, NEW j, Holds(c, m, n, j),
           NEW i, NEW whole, NEW left, Fills(d, j, i, whole, left),
           NEW first, first = Copied(c.buffer, j, SubSeq(d, 1, i)),
           NEW middle,
           middle = [b \in 1 .. whole |-> SubSeq(d, i + 64 * (b - 1) + 1, i + 64 * b)],
           NEW rest, rest = SubSeq(d, i + 64 * whole + 1, Len(d))
    PROVE  Holds([blocks |-> (c.blocks \o <<first>>) \o middle,
                  count  |-> Counted(c.count, Len(d)),
                  buffer |-> Copied(first, 0, rest)], u, n + 1 + whole, left)
<1> DEFINE count == Counted(c.count, Len(d))
           buffer == Copied(first, 0, rest)
           blocks == (c.blocks \o <<first>>) \o middle
           next == [blocks |-> blocks, count |-> count, buffer |-> buffer]
           size == n + 1 + whole
<1>1. u \in Seq(Bytes) /\ Len(u) = Len(m) + Len(d)
  BY DEF Joins
<1>2. /\ IsCut(m, n, j) /\ c \in Contexts /\ c.count = BitsOf(Len(m))
      /\ c.blocks = BlocksOf(m, n)
  BY DEF Holds
<1>3. n \in Nat /\ j \in 0 .. 63 /\ Len(m) = 64 * n + j /\ Len(m) \in Nat
  BY <1>2 DEF IsCut
<1>4. /\ i \in 1 .. 64 /\ i + j = 64 /\ whole \in Nat /\ left \in 0 .. 63 /\ Len(d) \in Nat
      /\ Len(d) = i + 64 * whole + left
  BY DEF Fills
<1>5. IsCut(u, size, left) /\ size \in Nat
  BY <1>1, <1>3, <1>4 DEF IsCut
<1>6. first = BlockOf(u, n + 1)
  BY FirstBlock
<1> HIDE DEF size
<1>7. \A b \in 1 .. size : BlockOf(u, b) \in Block
  BY <1>5, BlockOfType
<1>8. \A b \in 1 .. whole : middle[b] = BlockOf(u, n + 1 + b)
  BY <1>2, MiddleBlock
<1>9. first \in Block
  <2>1. n + 1 \in 1 .. size
    BY <1>3, <1>4 DEF size
  <2> QED
    BY <1>6, <1>7, <2>1
<1>10. middle \in Seq(Block) /\ Len(middle) = whole
  <2>1. \A b \in 1 .. whole : n + 1 + b \in 1 .. size
    BY <1>3, <1>4 DEF size
  <2>2. \A b \in 1 .. whole : middle[b] \in Block
    BY <1>7, <1>8, <2>1
  <2>3. middle \in [1 .. whole -> Block]
    BY <2>2
  <2> QED
    BY <1>4, <2>3, SeqMade
<1>11. blocks = BlocksOf(u, size)
  <2>1. c.blocks \in Seq(Block) /\ Len(c.blocks) = n
        /\ \A b \in 1 .. n : c.blocks[b] = BlockOf(m, b)
    BY <1>2, BlocksOfType
  <2>2. PICK new : new = BlocksOf(u, size)
    OBVIOUS
  <2>3. new \in Seq(Block) /\ Len(new) = size /\ \A b \in 1 .. size : new[b] = BlockOf(u, b)
    BY <1>5, <2>2, BlocksOfType
  <2>4. \A b \in 1 .. n : BlockOf(u, b) = BlockOf(m, b)
    BY <1>2, BlocksStay
  <2>5. Len(new) = n + 1 + whole
    BY <2>3 DEF size
  <2>6. \A b \in 1 .. n : new[b] = c.blocks[b]
    <3>1. \A b \in 1 .. n : b \in 1 .. size
      BY <1>3, <1>4 DEF size
    <3> QED
      BY <2>1, <2>3, <2>4, <3>1
  <2>7. new[n + 1] = first
    <3>1. n + 1 \in 1 .. size
      BY <1>3, <1>4 DEF size
    <3> QED
      BY <1>6, <2>3, <3>1
  <2>8. \A b \in 1 .. whole : new[n + 1 + b] = middle[b]
    <3>1. \A b \in 1 .. whole : n + 1 + b \in 1 .. size
      BY <1>3, <1>4 DEF size
    <3> QED
      BY <1>8, <2>3, <3>1
  <2>9. IsRow(new, n, whole, c.blocks, first, middle)
    BY <1>3, <1>4, <1>9, <1>10, <2>1, <2>3, <2>5, <2>6, <2>7, <2>8 DEF IsRow
  <2>10. AllOf(new, c.blocks, first, middle)
    BY <2>9, BlocksJoined, Zenon
  <2>11. new = blocks
    BY <2>10, Zenon DEF AllOf
  <2> QED
    BY <2>2, <2>11, Zenon
<1>12. buffer \in Block /\ \A k \in 1 .. left : buffer[k] = u[64 * size + k]
  <2>1. Buffered(Copied(first, 0, rest), u, n + 1 + whole, left)
    <3>1. IsCut(m, n, j) /\ IsRest(rest, d, i, whole)
      BY <1>2 DEF IsRest
    <3> QED
      BY <1>9, <3>1, RestOf, Zenon
  <2> QED
    BY <2>1 DEF size, Buffered
<1>13. count = BitsOf(Len(u)) /\ BitsOf(Len(u)) \in Int \X Int
  <2>1. Len(u) \in Nat
    BY <1>1
  <2> QED
    BY <1>1, <1>2, <1>3, <1>4, <2>1, CountedBits, BitsOfType
<1>14. blocks \in Seq(Block)
  BY <1>5, <1>11, BlocksOfType
<1> HIDE DEF count, buffer, blocks
<1>15. next \in Contexts /\ next.blocks = blocks /\ next.count = count /\ next.buffer = buffer
  BY <1>12, <1>13, <1>14 DEF Contexts
<1> HIDE DEF next
<1>16. Holds(next, u, size, left)
  BY <1>5, <1>11, <1>12, <1>13, <1>15 DEF Holds
<1> QED
  BY <1>16 DEF next, size, count, buffer, blocks

(* A call of SHA1Update.                                                   *)
HoldsText(c, m) == \E n, j : Holds(c, m, n, j)

(* However many bytes a call brings: what held the text m holds m and      *)
(* these bytes.                                                            *)
LEMMA HeldNext ==
    ASSUME NEW m \in Seq(Bytes), NEW d \in Seq(Bytes), NEW c, HoldsText(c, m)
    PROVE  HoldsText(SHA1Update(c, d), m \o d)
<1>1. PICK n, j : Holds(c, m, n, j)
  BY DEF HoldsText
<1>2. n \in Nat /\ j \in 0 .. 63 /\ Len(m) = 64 * n + j /\ c.count = BitsOf(Len(m))
  BY <1>1 DEF Holds, IsCut
<1>3. Joins(m \o d, m, d)
  BY JoinsText
<1> DEFINE len    == Len(d)
           i      == 64 - j
           first  == Copied(c.buffer, j, SubSeq(d, 1, i))
           whole  == (len - i) \div 64
           middle == [b \in 1 .. whole |-> SubSeq(d, i + 64 * (b - 1) + 1, i + 64 * b)]
           rest   == SubSeq(d, i + 64 * whole + 1, len)
           left   == (len - i) % 64
           next   == SHA1Update(c, d)
<1>4. (c.count[1] \div 8) % 64 = j
  <2>0. Len(m) \in Nat /\ c.count = BitsOf(Len(m))
    BY <1>2
  <2>1. (c.count[1] \div 8) % 64 = Len(m) % 64
    <3>1. InBlock(BitsOf(Len(m)), Len(m))
      BY <2>0, BytesInBlock, Zenon
    <3> QED
      BY <2>0, <3>1 DEF InBlock
  <2>2. Len(m) % 64 = j
    BY <1>2, SMTT(30)
  <2> QED
    BY <2>1, <2>2
<1>5. SHA1Update(c, d) =
          IF FillsBuffer(j, len)
          THEN [blocks |-> (c.blocks \o <<first>>) \o middle,
                count  |-> Counted(c.count, len),
                buffer |-> Copied(first, 0, rest)]
          ELSE [c EXCEPT !.count = Counted(@, len), !.buffer = Copied(@, j, d)]
  BY <1>4 DEF SHA1Update
<1>6. CASE FillsBuffer(j, len)
  <2>1. Fills(d, j, i, whole, left)
    <3>1. len - i \in Nat /\ i \in 1 .. 64 /\ i + j = 64 /\ len \in Nat
      BY <1>2, <1>6 DEF FillsBuffer
    <3>2. whole \in Nat /\ left \in 0 .. 63 /\ len - i = 64 * whole + left
      <4> DEFINE z == len - i
      <4>1. z \in Nat
        BY <3>1
      <4> HIDE DEF z
      <4>2. z \div 64 \in Nat /\ z % 64 \in 0 .. 63 /\ z = 64 * (z \div 64) + (z % 64)
        BY <4>1
      <4> QED
        BY <4>2 DEF z
    <3> HIDE DEF whole, left, i, len
    <3>3. len = i + 64 * whole + left
      BY <3>1, <3>2
    <3> QED
      BY <1>2, <3>1, <3>2, <3>3 DEF Fills, len
  <2>2. /\ first = Copied(c.buffer, j, SubSeq(d, 1, i))
        /\ middle = [b \in 1 .. whole |-> SubSeq(d, i + 64 * (b - 1) + 1, i + 64 * b)]
        /\ rest = SubSeq(d, i + 64 * whole + 1, Len(d))
    OBVIOUS
  <2>3. next = [blocks |-> (c.blocks \o <<first>>) \o middle,
                count  |-> Counted(c.count, Len(d)),
                buffer |-> Copied(first, 0, rest)]
    BY <1>5, <1>6
  <2> HIDE DEF first, whole, middle, rest, left, i, next
  <2>4. Holds(next, m \o d, n + 1 + whole, left)
    BY <1>1, <1>3, <2>1, <2>2, <2>3, HeldInBlocks
  <2> QED
    BY <2>4 DEF HoldsText, next
<1>7. CASE ~FillsBuffer(j, len)
  <2>1. j + Len(d) <= 63
    BY <1>2, <1>7 DEF FillsBuffer
  <2>2. next = [c EXCEPT !.count = Counted(@, Len(d)), !.buffer = Copied(@, j, d)]
    BY <1>5, <1>7
  <2> HIDE DEF next, first, whole, middle, rest, left, i
  <2>3. Holds(next, m \o d, n, j + Len(d))
    BY <1>1, <1>3, <2>1, <2>2, HeldInBuffer
  <2> QED
    BY <2>3 DEF HoldsText, next
<1> QED
  BY <1>6, <1>7

-----------------------------------------------------------------------------
(* SHA-1: the end of the message.                                          *)

(* One zero byte less than Zeros and the length does not end 8 bytes before *)
(* the end of a block.                                                     *)
LEMMA ZerosAre ==
    ASSUME NEW length \in Nat
    PROVE  /\ Zeros(length) \in 0 .. 63
           /\ (length + 1 + Zeros(length)) % 64 = 56
           /\ \A z \in 0 .. Zeros(length) - 1 : (length + 1 + z) % 64 # 56
<1> DEFINE a == length \div 64
           b == length % 64
<1>1. length = 64 * a + b /\ a \in Nat /\ b \in 0 .. 63
  OBVIOUS
<1>2. Zeros(length) = (119 - b) % 64
  BY DEF Zeros
<1> HIDE DEF a, b
<1>3. Zeros(length) = IF b <= 55 THEN 55 - b ELSE 119 - b
  BY <1>1, <1>2
<1>4. Zeros(length) \in 0 .. 63
  BY <1>1, <1>3
<1>5. ASSUME NEW z \in 0 .. 63
      PROVE  (length + 1 + z) % 64 = (IF b + 1 + z < 64 THEN b + 1 + z
                                      ELSE IF b + 1 + z < 128 THEN b + 1 + z - 64 ELSE 0)
  BY <1>1
<1>6. (length + 1 + Zeros(length)) % 64 = 56
  <2> DEFINE z == Zeros(length)
  <2>1. z \in 0 .. 63 /\ z = IF b <= 55 THEN 55 - b ELSE 119 - b
    BY <1>3, <1>4
  <2> HIDE DEF z
  <2>2. (length + 1 + z) % 64 = 56
    BY <1>1, <1>5, <2>1
  <2> QED
    BY <2>2 DEF z
<1>7. ASSUME NEW z \in 0 .. Zeros(length) - 1
      PROVE  (length + 1 + z) % 64 # 56
  <2>1. z \in 0 .. 63 /\ z < IF b <= 55 THEN 55 - b ELSE 119 - b
    BY <1>3, <1>4
  <2> QED
    BY <1>1, <1>5, <2>1
<1> QED
  BY <1>4, <1>6, <1>7

(* A text with zero bytes behind it, and one more.                         *)
Nothing(n) == [k \in 1 .. n |-> 0]

(* Zero bytes are bytes.                                                   *)
LEMMA NothingType ==
    ASSUME NEW n \in Nat
    PROVE  Nothing(n) \in Seq(Bytes) /\ Len(Nothing(n)) = n /\ \A k \in 1 .. n : Nothing(n)[k] = 0
<1>1. Nothing(n) \in [1 .. n -> Bytes] /\ \A k \in 1 .. n : Nothing(n)[k] = 0
  BY DEF Nothing, Bytes
<1> QED
  BY <1>1, SeqMade

(* One zero byte more behind the others.                                   *)
LEMMA NothingMore ==
    ASSUME NEW w \in Seq(Bytes), NEW n \in Nat
    PROVE  (w \o Nothing(n)) \o <<0>> = w \o Nothing(n + 1)
<1>1. PICK u : IsBoth(u, w, Nothing(n))
  BY DEF IsBoth
<1>2. PICK v : IsBoth(v, w, Nothing(n + 1))
  BY DEF IsBoth
<1>3. PICK z : z = <<0>>
  OBVIOUS
<1>4. PICK l : IsBoth(l, u, z)
  BY DEF IsBoth
<1>5. z \in Seq(Bytes) /\ Len(z) = 1 /\ z[1] = 0
  BY <1>3 DEF Bytes
<1>6. HasBoth(u, Bytes, w, Nothing(n))
  <2>1. Nothing(n) \in Seq(Bytes)
    BY NothingType
  <2> QED
    BY <1>1, <2>1, BehindIs, Zenon
<1>7. HasBoth(v, Bytes, w, Nothing(n + 1))
  <2>1. n + 1 \in Nat
    OBVIOUS
  <2>2. Nothing(n + 1) \in Seq(Bytes)
    BY <2>1, NothingType
  <2> QED
    BY <1>2, <2>2, BehindIs, Zenon
<1>8. HasBoth(l, Bytes, u, z)
  <2>1. u \in Seq(Bytes) /\ z \in Seq(Bytes)
    BY <1>5, <1>6 DEF HasBoth
  <2> QED
    BY <1>4, <2>1, BehindIs, Zenon
<1>9. /\ u \in Seq(Bytes) /\ Len(u) = Len(w) + n
      /\ \A i \in 1 .. Len(w) : u[i] = w[i]
      /\ \A k \in 1 .. n : u[Len(w) + k] = 0
  BY <1>6, NothingType DEF HasBoth
<1>10. /\ v \in Seq(Bytes) /\ Len(v) = Len(w) + (n + 1)
       /\ \A i \in 1 .. Len(w) : v[i] = w[i]
       /\ \A k \in 1 .. n + 1 : v[Len(w) + k] = 0
  <2>1. n + 1 \in Nat
    OBVIOUS
  <2> QED
    BY <1>7, <2>1, NothingType DEF HasBoth
<1>11. /\ l \in Seq(Bytes) /\ Len(l) = Len(u) + 1
       /\ \A i \in 1 .. Len(u) : l[i] = u[i]
       /\ l[Len(u) + 1] = 0
  <2>1. 1 \in 1 .. 1
    OBVIOUS
  <2> QED
    BY <1>5, <1>8, <2>1 DEF HasBoth
<1>12. Len(w) \in Nat /\ Len(l) = Len(v) /\ Len(u) \in Nat
  BY <1>9, <1>10, <1>11
<1>13. ASSUME NEW i \in 1 .. Len(l)
       PROVE  l[i] = v[i]
  <2>1. CASE i \in 1 .. Len(w)
    <3>1. i \in 1 .. Len(u)
      BY <1>9, <1>12, <2>1
    <3>2. l[i] = u[i] /\ u[i] = w[i] /\ v[i] = w[i]
      BY <1>9, <1>10, <1>11, <2>1, <3>1
    <3> QED
      BY <3>2
  <2>2. CASE i \notin 1 .. Len(w)
    <3>1. PICK k \in 1 .. n + 1 : i = Len(w) + k
      <4>1. i - Len(w) \in 1 .. n + 1 /\ i = Len(w) + (i - Len(w))
        BY <1>9, <1>11, <1>12, <2>2
      <4> QED
        BY <4>1
    <3>2. v[i] = 0
      BY <1>10, <3>1
    <3>3. l[i] = 0
      <4>1. CASE k \in 1 .. n
        <5>1. i \in 1 .. Len(u)
          BY <1>9, <1>12, <3>1, <4>1
        <5> QED
          BY <1>9, <1>11, <3>1, <4>1, <5>1
      <4>2. CASE k = n + 1
        <5>1. i = Len(u) + 1
          BY <1>9, <1>12, <3>1, <4>2
        <5> QED
          BY <1>11, <5>1
      <4> QED
        BY <4>1, <4>2
    <3> QED
      BY <3>2, <3>3
  <2> QED
    BY <2>1, <2>2
<1>14. l = v
  BY <1>10, <1>11, <1>12, <1>13, SeqEqual
<1> QED
  BY <1>1, <1>2, <1>3, <1>4, <1>14, Zenon DEF IsBoth

(* The count of bits that ends the message.                                *)
LEMMA WordBytesType ==
    ASSUME NEW n \in Int
    PROVE  WordBytes(n) \in Seq(Bytes) /\ Len(WordBytes(n)) = 4
<1>1. \A x \in Int : x % 256 \in Bytes
  BY DEF Bytes
<1>2. n \div 16777216 \in Int /\ n \div 65536 \in Int /\ n \div 256 \in Int
  OBVIOUS
<1>3. 2 ^ 24 = 16777216 /\ 2 ^ 16 = 65536
  OBVIOUS
<1> QED
  BY <1>1, <1>2, <1>3 DEF WordBytes

(* FinalCount is the length in bits while the two counters can count it.   *)
LEMMA CountIs ==
    ASSUME NEW length \in Nat, 8 * length < WordMod * WordMod
    PROVE  /\ FinalCount(BitsOf(length)) = BitCount(length)
           /\ BitCount(length) \in Seq(Bytes) /\ Len(BitCount(length)) = 8
<1> DEFINE w == WordMod
           x == 8 * length
           q == x \div w
           r == x % w
<1>1. w \in Nat \ {0} /\ x \in Nat
  BY WordModIs
<1>2. q \in Int /\ r \in 0 .. w - 1 /\ x = w * q + r /\ x < w * w
  <2> HIDE DEF w, x
  <2>1. IsDivided(x, w, q, r)
    BY <1>1, DivModOf, SMTT(30)
  <2> QED
    BY <2>1 DEF IsDivided, w, x
<1> HIDE DEF w, x, q, r
<1>3. q \in 0 .. w - 1
  <2>1. q >= 0
    <3>1. SUFFICES ASSUME q <= -1 PROVE FALSE
      BY <1>2
    <3>2. w * q <= w * (-1)
      BY <1>1, <1>2, <3>1
    <3> QED
      BY <1>1, <1>2, <3>2
  <2>2. q < w
    <3>1. SUFFICES ASSUME q >= w PROVE FALSE
      BY <1>1, <1>2
    <3>2. w * q >= w * w
      BY <1>1, <1>2, <3>1
    <3> QED
      BY <1>1, <1>2, <3>2
  <2> QED
    BY <1>1, <1>2, <2>1, <2>2
<1>4. q % w = q
  <2>1. IsDivided(q, w, 0, q)
    BY <1>1, <1>3 DEF IsDivided
  <2> QED
    BY <2>1, DivModIs
<1>5. BitsOf(length) = <<r, q>>
  BY <1>4 DEF BitsOf, w, x, q, r
<1>6. BitCount(length) = WordBytes(q) \o WordBytes(r)
  BY DEF BitCount, w, x, q, r
<1>7. FinalCount(BitsOf(length)) = BitCount(length)
  BY <1>5, <1>6 DEF FinalCount
<1>8. PICK b : IsBoth(b, WordBytes(q), WordBytes(r))
  BY DEF IsBoth
<1>9. /\ WordBytes(q) \in Seq(Bytes) /\ Len(WordBytes(q)) = 4
      /\ WordBytes(r) \in Seq(Bytes) /\ Len(WordBytes(r)) = 4
  BY <1>2, WordBytesType
<1>10. HasBoth(b, Bytes, WordBytes(q), WordBytes(r))
  BY <1>8, <1>9, BehindIs, Zenon
<1>11. b \in Seq(Bytes) /\ Len(b) = 8
  BY <1>9, <1>10 DEF HasBoth
<1>12. BitCount(length) = b
  BY <1>6, <1>8 DEF IsBoth
<1> QED
  BY <1>7, <1>11, <1>12

(* The loop of SHA1Final, as a recursion that there is.                    *)
Padding(f, c) ==
    [n \in 0 .. 63 |->
        IF n = 0 THEN SHA1Update(c, <<128>>)
        ELSE IF f[n - 1].count[1] % 512 = 448 THEN f[n - 1] ELSE SHA1Update(f[n - 1], <<0>>)]

IsPadding(f, c) == f = Padding(f, c)

(* Each turn of the loop leaves a context, so the recursion has a          *)
(* solution.                                                               *)
LEMMA PaddingExists ==
    ASSUME NEW m \in Seq(Bytes), NEW c, HoldsText(c, m)
    PROVE  \E f : IsPadding(f, c)
<1> DEFINE V == {x \in Contexts : \E t \in Seq(Bytes) : HoldsText(x, t)}
           Zero(p) == IF p.count[1] % 512 = 448 THEN p ELSE SHA1Update(p, <<0>>)
           step == [a \in V \X (1 .. 63) |-> Zero(a[1])]
           c0 == SHA1Update(c, <<128>>)
<1>1. <<128>> \in Seq(Bytes) /\ <<0>> \in Seq(Bytes)
  BY DEF Bytes
<1>2. ASSUME NEW x, NEW t \in Seq(Bytes), HoldsText(x, t)
      PROVE  x \in V
  BY <1>2 DEF HoldsText, Holds
<1>3. c0 \in V
  <2>1. HoldsText(c0, m \o <<128>>)
    BY <1>1, HeldNext
  <2>2. m \o <<128>> \in Seq(Bytes)
    BY <1>1
  <2> HIDE DEF c0, V
  <2> QED
    BY <1>2, <2>1, <2>2
<1>4. ASSUME NEW p \in V
      PROVE  Zero(p) \in V
  <2>1. PICK t \in Seq(Bytes) : HoldsText(p, t)
    OBVIOUS
  <2>2. HoldsText(SHA1Update(p, <<0>>), t \o <<0>>)
    BY <1>1, <2>1, HeldNext
  <2>3. t \o <<0>> \in Seq(Bytes)
    BY <1>1
  <2> HIDE DEF V
  <2>4. SHA1Update(p, <<0>>) \in V
    BY <1>2, <2>2, <2>3
  <2> QED
    BY <2>4
<1> HIDE DEF V
<1>5. step \in [V \X (1 .. 63) -> V]
  <2> HIDE DEF Zero
  <2>1. \A a \in V \X (1 .. 63) : a[1] \in V
    OBVIOUS
  <2>2. \A a \in V \X (1 .. 63) : Zero(a[1]) \in V
    BY <1>4, <2>1
  <2> QED
    BY <2>2
<1>6. \A p \in V, k \in 1 .. 63 : step[<<p, k>>] = Zero(p)
  OBVIOUS
<1> HIDE DEF step, c0, Zero
<1>7. PICK f : IsRun(f, V, c0, 63, step)
  <2>1. 63 \in Nat
    OBVIOUS
  <2> QED
    BY <1>3, <1>5, <2>1, RunExists, Zenon
<1>8. /\ f \in [0 .. 63 -> V] /\ f[0] = c0
      /\ \A k \in 1 .. 63 : f[k] = step[<<f[k - 1], k>>]
  BY <1>7 DEF IsRun
<1>9. ASSUME NEW n \in 0 .. 63
      PROVE  f[n] = IF n = 0 THEN c0 ELSE Zero(f[n - 1])
  <2>1. CASE n = 0
    BY <1>8, <2>1
  <2>2. CASE n # 0
    <3>1. n \in 1 .. 63 /\ n - 1 \in 0 .. 63
      BY <2>2
    <3>2. f[n - 1] \in V
      BY <1>8, <3>1
    <3>3. step[<<f[n - 1], n>>] = Zero(f[n - 1])
      BY <1>6, <3>1, <3>2
    <3> QED
      BY <1>8, <2>2, <3>1, <3>3
  <2> QED
    BY <2>1, <2>2
<1>10. f = [n \in 0 .. 63 |-> IF n = 0 THEN c0 ELSE Zero(f[n - 1])]
  <2>1. f = [n \in 0 .. 63 |-> f[n]]
    BY <1>8, SMTT(30)
  <2> QED
    BY <1>9, <2>1
<1>11. IsPadding(f, c)
  BY <1>10, ZenonT(60) DEF IsPadding, Padding, c0, Zero
<1> QED
  BY <1>11

(* The number z of its zero bytes, and how many there are after k turns.    *)
IsZeros(z, m) ==
    /\ z \in 0 .. 63 /\ z = Zeros(Len(m)) /\ (Len(m) + 1 + z) % 64 = 56
    /\ \A y \in 0 .. z - 1 : (Len(m) + 1 + y) % 64 # 56

(* There is such a number.                                                 *)
LEMMA ZerosExist ==
    ASSUME NEW m \in Seq(Bytes)
    PROVE  \E z : IsZeros(z, m)
<1>1. Len(m) \in Nat
  OBVIOUS
<1>2. IsZeros(Zeros(Len(m)), m)
  BY <1>1, ZerosAre DEF IsZeros
<1> QED
  BY <1>2

AtMost(z, k) == IF k < z THEN k ELSE z

PaddedBy(m, n) == (m \o <<128>>) \o Nothing(n)

(* How long the text is then.                                              *)
LEMMA PaddedByIs ==
    ASSUME NEW m \in Seq(Bytes), NEW n \in Nat
    PROVE  PaddedBy(m, n) \in Seq(Bytes) /\ Len(PaddedBy(m, n)) = Len(m) + 1 + n
<1>1. PICK z : z = <<128>>
  OBVIOUS
<1>2. z \in Seq(Bytes) /\ Len(z) = 1
  BY <1>1 DEF Bytes
<1>5. PICK w : IsBoth(w, m, z)
  BY DEF IsBoth
<1>6. HasBoth(w, Bytes, m, z)
  BY <1>2, <1>5, BehindIs, Zenon
<1>7. w \in Seq(Bytes) /\ Len(w) = Len(m) + 1
  BY <1>2, <1>6 DEF HasBoth
<1>9. PICK u : IsBoth(u, w, Nothing(n))
  BY DEF IsBoth
<1>10. Nothing(n) \in Seq(Bytes) /\ Len(Nothing(n)) = n
  BY NothingType
<1>11. HasBoth(u, Bytes, w, Nothing(n))
  BY <1>7, <1>9, <1>10, BehindIs, Zenon
<1>12. u \in Seq(Bytes) /\ Len(u) = Len(m) + 1 + n
  BY <1>7, <1>10, <1>11 DEF HasBoth
<1>13. PaddedBy(m, n) = u
  BY <1>1, <1>5, <1>9, Zenon DEF PaddedBy, IsBoth
<1> QED
  BY <1>12, <1>13

(* Whether there is a turn more is seen by the count of bits.              *)
IsEnough(p, z, k) == p.count[1] % 512 = 448 <=> k >= z

(* (count[0] & 504) == 448 as soon as all the zeros are there, and not     *)
(* before.                                                                 *)
LEMMA PaddedEnough ==
    ASSUME NEW m \in Seq(Bytes), NEW z, IsZeros(z, m), NEW k \in 0 .. 63,
           NEW p, HoldsText(p, PaddedBy(m, AtMost(z, k)))
    PROVE  IsEnough(p, z, k)
<1>0. /\ z \in 0 .. 63 /\ (Len(m) + 1 + z) % 64 = 56
      /\ \A y \in 0 .. z - 1 : (Len(m) + 1 + y) % 64 # 56
  BY DEF IsZeros
<1>n. PICK n : n = AtMost(z, k)
  OBVIOUS
<1>a. n \in 0 .. 63 /\ n \in Nat /\ n = IF k < z THEN k ELSE z
  BY <1>0, <1>n DEF AtMost
<1>u. PICK u : u = PaddedBy(m, n)
  OBVIOUS
<1>1. u \in Seq(Bytes) /\ Len(u) = Len(m) + 1 + n
  BY <1>a, <1>u, PaddedByIs
<1>2. PICK a, b : Holds(p, u, a, b)
  BY <1>n, <1>u, Zenon DEF HoldsText
<1>3. p.count = BitsOf(Len(u)) /\ Len(u) \in Nat /\ Len(m) \in Nat
  BY <1>2 DEF Holds, IsCut
<1>4. InBlock(BitsOf(Len(u)), Len(u))
  BY <1>3, BytesInBlock, Zenon
<1>5. p.count[1] % 512 = 8 * (Len(u) % 64)
  BY <1>3, <1>4 DEF InBlock
<1>8. Len(u) % 64 = 56 <=> k >= z
  <2>1. CASE k < z
    <3>1. k \in 0 .. z - 1 /\ n = k
      BY <1>0, <1>a, <2>1
    <3>2. (Len(m) + 1 + k) % 64 # 56
      BY <1>0, <3>1
    <3>3. Len(u) = Len(m) + 1 + k
      BY <1>1, <3>1
    <3> QED
      BY <1>0, <2>1, <3>2, <3>3
  <2>2. CASE k >= z
    <3>1. n = z
      BY <1>0, <1>a, <2>2
    <3>2. Len(u) = Len(m) + 1 + z
      BY <1>1, <3>1
    <3> QED
      BY <1>0, <2>2, <3>2
  <2> QED
    BY <1>0, <2>1, <2>2
<1>9. Len(u) % 64 \in Int
  BY <1>3
<1>10. p.count[1] % 512 = 448 <=> Len(u) % 64 = 56
  BY <1>5, <1>9
<1> QED
  BY <1>8, <1>10 DEF IsEnough

(* What the loop leaves: the message, the bit and all of its zeros.        *)
OneZero(p) == IF p.count[1] % 512 = 448 THEN p ELSE SHA1Update(p, <<0>>)

(* Turn by turn.                                                           *)
LEMMA PaddingRuns ==
    ASSUME NEW c, NEW f, IsPadding(f, c)
    PROVE  f[0] = SHA1Update(c, <<128>>) /\ \A k \in 0 .. 62 : f[k + 1] = OneZero(f[k])
<1>1. f = Padding(f, c)
  BY DEF IsPadding
<1>2. Padding(f, c)[0] = SHA1Update(c, <<128>>)
  BY DEF Padding
<1>3. ASSUME NEW k \in 0 .. 62
      PROVE  Padding(f, c)[k + 1] = OneZero(f[k])
  <2>1. k + 1 \in 0 .. 63 /\ k + 1 # 0 /\ (k + 1) - 1 = k
    OBVIOUS
  <2>2. Padding(f, c)[k + 1] = OneZero(f[(k + 1) - 1])
    BY <2>1, Zenon DEF Padding, OneZero
  <2> QED
    BY <2>1, <2>2
<1> QED
  BY <1>1, <1>2, <1>3, Zenon

(* After 63 turns the context holds the message, the bit and all of its    *)
(* zeros.                                                                  *)
LEMMA PaddingHolds ==
    ASSUME NEW m \in Seq(Bytes), NEW c, HoldsText(c, m), NEW f, IsPadding(f, c),
           NEW z, IsZeros(z, m)
    PROVE  HoldsText(f[63], PaddedBy(m, z))
<1> DEFINE T == {k \in 0 .. 63 : HoldsText(f[k], PaddedBy(m, AtMost(z, k)))}
<1>1. f[0] = SHA1Update(c, <<128>>) /\ \A k \in 0 .. 62 : f[k + 1] = OneZero(f[k])
  BY PaddingRuns
<1>2. <<128>> \in Seq(Bytes) /\ <<0>> \in Seq(Bytes) /\ m \o <<128>> \in Seq(Bytes)
  BY DEF Bytes
<1>3. z \in 0 .. 63
  BY DEF IsZeros
<1>4. 0 \in T
  <2>1. AtMost(z, 0) = 0
    BY <1>3 DEF AtMost
  <2>2. Nothing(0) = <<>>
    <3>1. 1 .. 0 = {}
      OBVIOUS
    <3> QED
      BY <3>1 DEF Nothing
  <2>3. PaddedBy(m, 0) = m \o <<128>>
    <3>1. PICK w : w = m \o <<128>>
      OBVIOUS
    <3>2. w \o <<>> = w
      BY <1>2, <3>1
    <3> QED
      BY <2>2, <3>1, <3>2, Zenon DEF PaddedBy
  <2>4. HoldsText(SHA1Update(c, <<128>>), m \o <<128>>)
    BY <1>2, HeldNext, Zenon
  <2>5. HoldsText(f[0], PaddedBy(m, AtMost(z, 0)))
    BY <1>1, <2>1, <2>3, <2>4, Zenon
  <2>6. 0 \in 0 .. 63
    OBVIOUS
  <2> QED
    BY <2>5, <2>6, Zenon
<1>5. ASSUME NEW k \in 0 .. 63 - 1, k \in T
      PROVE  k + 1 \in T
  <2>1. HoldsText(f[k], PaddedBy(m, AtMost(z, k))) /\ k \in 0 .. 63 /\ k \in 0 .. 62 /\ k \in Nat
    BY <1>5
  <2>2. k + 1 \in 0 .. 63
    BY <2>1
  <2>3. f[k].count[1] % 512 = 448 <=> k >= z
    <3>1. IsEnough(f[k], z, k)
      BY <2>1, PaddedEnough, Zenon
    <3> QED
      BY <3>1, Zenon DEF IsEnough
  <2>4. f[k + 1] = OneZero(f[k])
    BY <1>1, <2>1
  <2>5. CASE k >= z
    <3>1. f[k + 1] = f[k]
      BY <2>3, <2>4, <2>5, Zenon DEF OneZero
    <3>2. AtMost(z, k) = z /\ AtMost(z, k + 1) = z
      BY <1>3, <2>5 DEF AtMost
    <3> QED
      BY <2>1, <2>2, <3>1, <3>2, Zenon
  <2>6. CASE ~(k >= z)
    <3>1. f[k + 1] = SHA1Update(f[k], <<0>>)
      BY <2>3, <2>4, <2>6, Zenon DEF OneZero
    <3>2. AtMost(z, k) = k /\ AtMost(z, k + 1) = k + 1
      BY <1>3, <2>6 DEF AtMost
    <3>3. PaddedBy(m, k + 1) = PaddedBy(m, k) \o <<0>>
      <4>1. PICK w : w = m \o <<128>>
        OBVIOUS
      <4>2. w \in Seq(Bytes) /\ k \in Nat
        BY <1>2, <4>1
      <4>3. (w \o Nothing(k)) \o <<0>> = w \o Nothing(k + 1)
        BY <4>2, NothingMore
      <4> QED
        BY <4>1, <4>3, Zenon DEF PaddedBy
    <3>4. PaddedBy(m, k) \in Seq(Bytes)
      BY <2>1, PaddedByIs
    <3>5. HoldsText(f[k], PaddedBy(m, k))
      BY <2>1, <3>2, Zenon
    <3>6. HoldsText(SHA1Update(f[k], <<0>>), PaddedBy(m, k) \o <<0>>)
      BY <1>2, <3>4, <3>5, HeldNext, Zenon
    <3> QED
      BY <2>2, <3>1, <3>2, <3>3, <3>6, Zenon
  <2> QED
    BY <2>5, <2>6
<1>6. 63 \in T
  <2> HIDE DEF T
  <2>1. 63 \in Nat /\ 63 \in 0 .. 63
    OBVIOUS
  <2> QED
    BY <1>4, <1>5, <2>1, UpTo
<1>7. HoldsText(f[63], PaddedBy(m, AtMost(z, 63)))
  BY <1>6
<1>8. AtMost(z, 63) = z
  BY <1>3 DEF AtMost
<1> QED
  BY <1>7, <1>8, Zenon

(* The blocks SHA1Final has transformed at its end are those of the padded  *)
(* message.                                                                *)
LEMMA FinalBlocks ==
    ASSUME NEW m \in Seq(Bytes), 8 * Len(m) < WordMod * WordMod, NEW c, HoldsText(c, m)
    PROVE  \E n \in Nat : IsCut(Padded(m), n, 0) /\ SHA1Final(c) = BlocksOf(Padded(m), n)
<1> DEFINE f == CHOOSE x : IsPadding(x, c)
           last == SHA1Update(f[63], FinalCount(c.count))
<1>1. SHA1Final(c) = last.blocks
  BY Zenon DEF SHA1Final, IsPadding, Padding
<1>2. IsPadding(f, c)
  <2>1. \E x : IsPadding(x, c)
    BY PaddingExists
  <2> QED
    BY <2>1, Zenon
<1> HIDE DEF f
<1>z. PICK z : IsZeros(z, m)
  BY ZerosExist
<1>3. HoldsText(f[63], PaddedBy(m, z))
  BY <1>2, <1>z, PaddingHolds
<1>4. Len(m) \in Nat
  OBVIOUS
<1>5. c.count = BitsOf(Len(m))
  BY DEF HoldsText, Holds
<1>6. /\ FinalCount(c.count) = BitCount(Len(m))
      /\ BitCount(Len(m)) \in Seq(Bytes) /\ Len(BitCount(Len(m))) = 8
  BY <1>4, <1>5, CountIs
<1>y. z \in 0 .. 63 /\ (Len(m) + 1 + z) % 64 = 56
  BY <1>z DEF IsZeros
<1>7. z \in Nat
  BY <1>y
<1>x. z = Zeros(Len(m))
  BY <1>z, Zenon DEF IsZeros
<1>8. PaddedBy(m, z) \in Seq(Bytes) /\ Len(PaddedBy(m, z)) = Len(m) + 1 + z
  BY <1>7, PaddedByIs
<1>9. Padded(m) = PaddedBy(m, z) \o BitCount(Len(m))
  BY <1>x, Zenon DEF Padded, PaddedBy, Nothing
<1>10. HoldsText(last, Padded(m))
  BY <1>3, <1>6, <1>8, <1>9, HeldNext
<1> DEFINE u == Padded(m)
<1>11. u \in Seq(Bytes) /\ Len(u) = Len(PaddedBy(m, z)) + 8
  <2>1. IsBoth(u, PaddedBy(m, z), BitCount(Len(m)))
    BY <1>9 DEF IsBoth
  <2>2. HasBoth(u, Bytes, PaddedBy(m, z), BitCount(Len(m)))
    <3> HIDE DEF u
    <3> QED
      BY <1>6, <1>8, <2>1, BehindIs, Zenon
  <2> QED
    BY <1>6, <2>2 DEF HasBoth
<1> HIDE DEF u, last
<1>12. PICK n, j : Holds(last, u, n, j)
  BY <1>10 DEF HoldsText, u
<1>13. n \in Nat /\ j \in 0 .. 63 /\ Len(u) = 64 * n + j /\ IsCut(u, n, j)
       /\ last.blocks = BlocksOf(u, n)
  BY <1>12 DEF Holds, IsCut
<1>14. j = 0
  <2> DEFINE l == Len(m) + 1 + z
  <2>1. l \in Nat /\ l % 64 = 56
    BY <1>4, <1>7, <1>y
  <2>2. Len(u) = l + 8
    BY <1>8, <1>11
  <2> HIDE DEF l
  <2> QED
    BY <1>13, <2>1, <2>2
<1> QED
  BY <1>1, <1>13, <1>14 DEF u

-----------------------------------------------------------------------------
(* SHA-1: the words of the state, which SHA1Transform keeps 32 bits wide.  *)
Pairs == Int \X Int
Halves == 0 .. Half - 1
Words == Halves \X Halves
States == [0 .. 4 -> Words]
Rounds == [block : [0 .. 15 -> Pairs], vars : [0 .. 4 -> Pairs]]

LowHalf(x) == x % Half
HighHalf(x) == x \div Half

(* A half word has values.                                                *)
LEMMA HalfCounts == Half \in Nat \ {0}
  BY SMT DEF Half

(* The low 16 bits are a half word.                                        *)
LEMMA HalfIs ==
    ASSUME NEW x \in Int
    PROVE  LowHalf(x) \in Halves /\ HighHalf(x) \in Int
<1>1. LowHalf(x) \in Halves
  BY HalfCounts, SMT DEF LowHalf, Halves
<1>2. HighHalf(x) \in Int
  BY HalfCounts, SMT DEF HighHalf
<1> QED
  BY <1>1, <1>2

(* Two half words are a word.                                              *)
LEMMA WordIs ==
    ASSUME NEW a \in Halves, NEW b \in Halves
    PROVE  <<a, b>> \in Words /\ <<a, b>> \in Pairs
<1>1. Halves \subseteq Int
  BY HalfCounts, SMT DEF Halves
<1> QED
  BY <1>1 DEF Words, Pairs

(* A word is a pair of numbers.                                            *)
LEMMA WordsArePairs == Words \subseteq Pairs
<1>1. Halves \subseteq Int
  BY HalfCounts, SMT DEF Halves
<1> QED
  BY <1>1 DEF Words, Pairs

(* Addition of two words is modulo 2^32.                                   *)
LEMMA PlusType ==
    ASSUME NEW v \in Pairs, NEW w \in Pairs
    PROVE  Plus(v, w) \in Words /\ Plus(v, w) \in Pairs
<1>1. v[1] \in Int /\ v[2] \in Int /\ w[1] \in Int /\ w[2] \in Int
  BY DEF Pairs
<1> DEFINE low == v[2] + w[2]
           high == v[1] + w[1] + HighHalf(low)
<1>2. low \in Int
  BY <1>1
<1>3. high \in Int
  <2>1. HighHalf(low) \in Int
    BY <1>2, HalfIs
  <2> HIDE DEF low
  <2> QED
    BY <1>1, <2>1
<1>4. Plus(v, w) = <<LowHalf(high), LowHalf(low)>>
  BY HalfCounts, SMT DEF Plus, LowHalf, HighHalf
<1> HIDE DEF low, high
<1>5. LowHalf(high) \in Halves /\ LowHalf(low) \in Halves
  BY <1>2, <1>3, HalfIs
<1> QED
  BY <1>4, <1>5, WordIs

(* The common bits of two numbers are a number.                            *)
LEMMA CommonType ==
    ASSUME NEW x \in Int, NEW y \in Int
    PROVE  Common(x, y) \in Int
<1>1. ASSUME NEW p \in (0 .. 15) \X (0 .. 15)
      PROVE  CommonFour[p] \in Int
  <2> DEFINE bit(n) == ((p[1] \div n) % 2) * ((p[2] \div n) % 2)
  <2>1. \A u \in Int : u % 2 \in Int /\ u \div 1 \in Int /\ u \div 2 \in Int /\ u \div 4 \in Int
                       /\ u \div 8 \in Int
    OBVIOUS
  <2>2. p[1] \in Int /\ p[2] \in Int
    OBVIOUS
  <2>3. \A u, v \in Int : u * v \in Int
    OBVIOUS
  <2>4. bit(1) \in Int /\ bit(2) \in Int /\ bit(4) \in Int /\ bit(8) \in Int
    BY <2>1, <2>2, <2>3
  <2>5. CommonFour[p] = bit(1) + 2 * bit(2) + 4 * bit(4) + 8 * bit(8)
    BY DEF CommonFour
  <2> HIDE DEF bit
  <2> QED
    BY <2>4, <2>5
<1>2. \A u \in Int : /\ u % 16 \in 0 .. 15 /\ u \div 1 \in Int /\ u \div 16 \in Int
                     /\ u \div 256 \in Int /\ u \div 4096 \in Int
  OBVIOUS
<1> DEFINE four(n) == CommonFour[<<(x \div n) % 16, (y \div n) % 16>>]
<1>3. four(1) \in Int /\ four(16) \in Int /\ four(256) \in Int /\ four(4096) \in Int
  BY <1>1, <1>2
<1>4. Common(x, y) = four(1) + 16 * four(16) + 256 * four(256) + 4096 * four(4096)
  BY DEF Common
<1> HIDE DEF four
<1> QED
  BY <1>3, <1>4

(* And, exclusive or and or of two pairs.                                  *)
LEMMA BitsType ==
    ASSUME NEW v \in Pairs, NEW w \in Pairs
    PROVE  BitAnd(v, w) \in Pairs /\ BitXor(v, w) \in Pairs /\ BitOr(v, w) \in Pairs
<1>1. v[1] \in Int /\ v[2] \in Int /\ w[1] \in Int /\ w[2] \in Int
  BY DEF Pairs
<1>2. Common(v[1], w[1]) \in Int /\ Common(v[2], w[2]) \in Int
  BY <1>1, CommonType
<1> QED
  BY <1>1, <1>2 DEF BitAnd, BitXor, BitOr, Pairs

(* The three rotations of a round.                                         *)
LEMMA RolType ==
    ASSUME NEW w \in Pairs
    PROVE  Rol(w, 1) \in Pairs /\ Rol(w, 5) \in Pairs /\ Rol(w, 30) \in Pairs
<1>1. w[1] \in Int /\ w[2] \in Int
  BY DEF Pairs
<1>2. 2 ^ 1 = 2 /\ 2 ^ 5 = 32 /\ 2 ^ 14 = 16384 /\ 2 ^ 15 = 32768 /\ 2 ^ 11 = 2048 /\ 2 ^ 2 = 4
  OBVIOUS
<1>3. 16 - 1 = 15 /\ 16 - 5 = 11 /\ 30 - 16 = 14 /\ 16 - 14 = 2
  OBVIOUS
<1>4. \A x, y \in Int : /\ ((x * 2) % Half) + y \div 32768 \in Int
                        /\ ((x * 32) % Half) + y \div 2048 \in Int
                        /\ ((x * 16384) % Half) + y \div 4 \in Int
  BY HalfCounts, SMT
<1>5. Rol(w, 1) = <<((w[1] * 2) % Half) + w[2] \div 32768, ((w[2] * 2) % Half) + w[1] \div 32768>>
  BY <1>2, <1>3 DEF Rol, RolShort
<1>6. Rol(w, 5) = <<((w[1] * 32) % Half) + w[2] \div 2048, ((w[2] * 32) % Half) + w[1] \div 2048>>
  BY <1>2, <1>3 DEF Rol, RolShort
<1>7. Rol(w, 30) = <<((w[2] * 16384) % Half) + w[1] \div 4, ((w[1] * 16384) % Half) + w[2] \div 4>>
  BY <1>2, <1>3 DEF Rol, RolShort
<1> QED
  BY <1>1, <1>4, <1>5, <1>6, <1>7 DEF Pairs

(* A line of the unrolled loop.                                            *)
LEMMA RoundType ==
    ASSUME NEW s \in Rounds, NEW i \in 0 .. 79
    PROVE  Round(s, i) \in Rounds
<1> DEFINE at(n)  == (n - i) % 5
           word   == Blk(s.block, i)
           block  == IF i < 16 THEN s.block ELSE [s.block EXCEPT ![i % 16] = word]
           var(n) == s.vars[at(n)]
           mix    == RoundFunction(i, var(1), var(2), var(3))
           sum    == Sum5(var(4), mix, block[i % 16], RoundConstant(i), Rol(var(0), 5))
           vars2  == [s.vars EXCEPT
                        ![at(4)] = Sum5(@, mix, block[i % 16], RoundConstant(i), Rol(var(0), 5)),
                        ![at(1)] = Rol(@, 30)]
<1>1. s.block \in [0 .. 15 -> Pairs] /\ s.vars \in [0 .. 4 -> Pairs]
  BY DEF Rounds
<1>2. /\ at(0) \in 0 .. 4 /\ at(1) \in 0 .. 4 /\ at(2) \in 0 .. 4 /\ at(3) \in 0 .. 4
      /\ at(4) \in 0 .. 4 /\ at(1) # at(4)
  OBVIOUS
<1>3. /\ i % 16 \in 0 .. 15 /\ (i + 13) % 16 \in 0 .. 15
      /\ (i + 8) % 16 \in 0 .. 15 /\ (i + 2) % 16 \in 0 .. 15
  OBVIOUS
<1>4. word \in Pairs
  <2> DEFINE a == s.block[(i + 13) % 16]  b == s.block[(i + 8) % 16]
             c == s.block[(i + 2) % 16]   d == s.block[i % 16]
  <2>1. a \in Pairs /\ b \in Pairs /\ c \in Pairs /\ d \in Pairs
    BY <1>1, <1>3
  <2>2. word = Rol(BitXor(BitXor(a, b), BitXor(c, d)), 1)
    BY DEF Blk
  <2> HIDE DEF a, b, c, d, word
  <2>3. BitXor(a, b) \in Pairs /\ BitXor(c, d) \in Pairs
    BY <2>1, BitsType
  <2>4. BitXor(BitXor(a, b), BitXor(c, d)) \in Pairs
    BY <2>3, BitsType
  <2> QED
    BY <2>2, <2>4, RolType
<1> HIDE DEF word
<1>5. block \in [0 .. 15 -> Pairs]
  BY <1>1, <1>4
<1> HIDE DEF block
<1>6. /\ var(0) \in Pairs /\ var(1) \in Pairs /\ var(2) \in Pairs /\ var(3) \in Pairs
      /\ var(4) \in Pairs
  <2> HIDE DEF at
  <2> QED
    BY <1>1, <1>2
<1> HIDE DEF var
<1>7. mix \in Pairs
  <2> DEFINE w == var(1)  x == var(2)  y == var(3)
  <2>1. /\ BitXor(x, y) \in Pairs /\ BitXor(w, x) \in Pairs
        /\ BitOr(w, x) \in Pairs /\ BitAnd(w, x) \in Pairs
    BY <1>6, BitsType
  <2>2. /\ BitAnd(w, BitXor(x, y)) \in Pairs /\ BitXor(BitXor(w, x), y) \in Pairs
        /\ BitAnd(BitOr(w, x), y) \in Pairs
    BY <1>6, <2>1, BitsType
  <2>3. /\ BitXor(BitAnd(w, BitXor(x, y)), y) \in Pairs
        /\ BitOr(BitAnd(BitOr(w, x), y), BitAnd(w, x)) \in Pairs
    BY <1>6, <2>1, <2>2, BitsType
  <2> HIDE DEF w, x, y
  <2>4. RoundFunction(i, w, x, y) \in Pairs
    BY <2>2, <2>3 DEF RoundFunction
  <2> QED
    BY <2>4 DEF w, x, y
<1>8. RoundConstant(i) \in Pairs
  BY DEF RoundConstant, Pairs
<1>9. sum \in Pairs
  <2> DEFINE b == block[i % 16]  k == RoundConstant(i)  r == Rol(var(0), 5)
  <2>1. b \in Pairs /\ r \in Pairs
    BY <1>3, <1>5, <1>6, RolType
  <2> HIDE DEF b, k, r, mix
  <2>2. k \in Pairs
    BY <1>8 DEF k
  <2>3. Plus(k, r) \in Pairs
    BY <2>1, <2>2, PlusType
  <2>4. Plus(b, Plus(k, r)) \in Pairs
    BY <2>1, <2>3, PlusType
  <2>5. Plus(mix, Plus(b, Plus(k, r))) \in Pairs
    BY <1>7, <2>4, PlusType
  <2>6. Plus(var(4), Plus(mix, Plus(b, Plus(k, r)))) \in Pairs
    BY <1>6, <2>5, PlusType
  <2> QED
    BY <2>6 DEF Sum5, b, k, r
<1>10. Round(s, i) = [block |-> block, vars |-> vars2]
  BY Zenon DEF Round, at, word, block, var, mix, vars2
<1>11. vars2 \in [0 .. 4 -> Pairs]
  <2> DEFINE u == at(1)  v == at(4)
  <2>1. Sum5(s.vars[v], mix, block[i % 16], RoundConstant(i), Rol(var(0), 5)) \in Pairs
    BY <1>9 DEF sum, var
  <2>2. Rol(s.vars[u], 30) \in Pairs
    BY <1>6, RolType DEF var
  <2>3. u \in 0 .. 4 /\ v \in 0 .. 4 /\ u # v
    BY <1>2
  <2> HIDE DEF at, u, v, sum, mix
  <2> QED
    BY <1>1, <2>1, <2>2, <2>3 DEF u, v
<1> HIDE DEF vars2
<1> QED
  BY <1>5, <1>10, <1>11 DEF Rounds

(* The 80 lines, as a recursion that there is.                             *)
Schedule(f, state, bytes) ==
    [i \in 0 .. 80 |-> IF i = 0 THEN [block |-> [k \in 0 .. 15 |-> Blk0(bytes, k)], vars |-> state]
                       ELSE Round(f[i - 1], i - 1)]

IsSchedule(f, state, bytes) == f = Schedule(f, state, bytes)

(* Each line leaves a block and five variables, so the recursion has a     *)
(* solution.                                                               *)
LEMMA ScheduleExists ==
    ASSUME NEW state \in States, NEW bytes \in Block
    PROVE  \E f \in [0 .. 80 -> Rounds] : IsSchedule(f, state, bytes)
<1> DEFINE start == [block |-> [k \in 0 .. 15 |-> Blk0(bytes, k)], vars |-> state]
           step == [a \in Rounds \X (1 .. 80) |-> Round(a[1], a[2] - 1)]
<1>1. start \in Rounds
  <2>1. ASSUME NEW k \in 0 .. 15
        PROVE  Blk0(bytes, k) \in Pairs
    <3>1. /\ bytes[4 * k + 1] \in Int /\ bytes[4 * k + 2] \in Int
          /\ bytes[4 * k + 3] \in Int /\ bytes[4 * k + 4] \in Int
      BY DEF Block
    <3> DEFINE a == bytes[4 * k + 1]  b == bytes[4 * k + 2]
               c == bytes[4 * k + 3]  d == bytes[4 * k + 4]
    <3>2. Blk0(bytes, k) = <<a * 256 + b, c * 256 + d>>
      BY DEF Blk0
    <3>3. a \in Int /\ b \in Int /\ c \in Int /\ d \in Int
      BY <3>1
    <3> HIDE DEF a, b, c, d
    <3> QED
      BY <3>2, <3>3 DEF Pairs
  <2>2. [k \in 0 .. 15 |-> Blk0(bytes, k)] \in [0 .. 15 -> Pairs]
    BY <2>1
  <2>3. state \in [0 .. 4 -> Pairs]
    BY WordsArePairs DEF States
  <2> QED
    BY <2>2, <2>3 DEF Rounds
<1>2. step \in [Rounds \X (1 .. 80) -> Rounds]
  <2>1. ASSUME NEW a \in Rounds \X (1 .. 80)
        PROVE  Round(a[1], a[2] - 1) \in Rounds
    <3>1. a[1] \in Rounds /\ a[2] - 1 \in 0 .. 79
      OBVIOUS
    <3> QED
      BY <3>1, RoundType
  <2> QED
    BY <2>1
<1>3. \A s \in Rounds, k \in 1 .. 80 : step[<<s, k>>] = Round(s, k - 1)
  OBVIOUS
<1> HIDE DEF step, start
<1>4. PICK f : IsRun(f, Rounds, start, 80, step)
  <2>1. 80 \in Nat
    OBVIOUS
  <2> QED
    BY <1>1, <1>2, <2>1, RunExists, Zenon
<1>5. /\ f \in [0 .. 80 -> Rounds] /\ f[0] = start
      /\ \A k \in 1 .. 80 : f[k] = step[<<f[k - 1], k>>]
  BY <1>4 DEF IsRun
<1>6. ASSUME NEW i \in 0 .. 80
      PROVE  f[i] = IF i = 0 THEN start ELSE Round(f[i - 1], i - 1)
  <2>1. CASE i = 0
    BY <1>5, <2>1
  <2>2. CASE i # 0
    <3>1. i \in 1 .. 80 /\ i - 1 \in 0 .. 80
      BY <2>2
    <3>2. f[i - 1] \in Rounds
      BY <1>5, <3>1
    <3>3. step[<<f[i - 1], i>>] = Round(f[i - 1], i - 1)
      BY <1>3, <3>1, <3>2
    <3> QED
      BY <1>5, <2>2, <3>1, <3>3
  <2> QED
    BY <2>1, <2>2
<1>7. f = [i \in 0 .. 80 |-> IF i = 0 THEN start ELSE Round(f[i - 1], i - 1)]
  <2>1. f = [i \in 0 .. 80 |-> f[i]]
    BY <1>5
  <2> QED
    BY <1>6, <2>1
<1>8. IsSchedule(f, state, bytes)
  BY <1>7, Zenon DEF IsSchedule, Schedule, start
<1> QED
  BY <1>5, <1>8

(* Whatever schedule satisfies the recursion, its values are rounds.       *)
LEMMA ScheduleType ==
    ASSUME NEW state \in States, NEW bytes \in Block, NEW f, IsSchedule(f, state, bytes)
    PROVE  f[80] \in Rounds
<1>1. PICK g \in [0 .. 80 -> Rounds] : IsSchedule(g, state, bytes)
  BY ScheduleExists
<1>2. ASSUME NEW h, IsSchedule(h, state, bytes)
      PROVE  /\ h[0] = [block |-> [k \in 0 .. 15 |-> Blk0(bytes, k)], vars |-> state]
             /\ \A i \in 0 .. 79 : h[i + 1] = Round(h[i], i)
  <2>1. h = Schedule(h, state, bytes)
    BY <1>2 DEF IsSchedule
  <2>2. Schedule(h, state, bytes)[0] =
            [block |-> [k \in 0 .. 15 |-> Blk0(bytes, k)], vars |-> state]
    BY DEF Schedule
  <2>3. ASSUME NEW i \in 0 .. 79
        PROVE  Schedule(h, state, bytes)[i + 1] = Round(h[i], i)
    <3>1. i + 1 \in 0 .. 80 /\ i + 1 # 0 /\ (i + 1) - 1 = i
      OBVIOUS
    <3>2. Schedule(h, state, bytes)[i + 1] = Round(h[(i + 1) - 1], (i + 1) - 1)
      BY <3>1, Zenon DEF Schedule
    <3> QED
      BY <3>1, <3>2
  <2> QED
    BY <2>1, <2>2, <2>3, Zenon
<1> DEFINE T == {i \in 0 .. 80 : f[i] = g[i]}
<1>3. 0 \in T
  <2>1. f[0] = g[0]
    BY <1>1, <1>2, Zenon
  <2> QED
    BY <2>1
<1>4. ASSUME NEW i \in 0 .. 80 - 1, i \in T
      PROVE  i + 1 \in T
  <2>1. i \in 0 .. 79 /\ i + 1 \in 0 .. 80 /\ f[i] = g[i]
    BY <1>4
  <2>2. f[i + 1] = Round(f[i], i) /\ g[i + 1] = Round(g[i], i)
    BY <1>1, <1>2, <2>1, Zenon
  <2> QED
    BY <2>1, <2>2
<1>5. 80 \in T
  <2> HIDE DEF T
  <2>1. 80 \in Nat /\ 80 \in 0 .. 80
    OBVIOUS
  <2> QED
    BY <1>3, <1>4, <2>1, UpTo
<1> QED
  BY <1>1, <1>5

(* SHA1Transform leaves five words.                                        *)
LEMMA TransformType ==
    ASSUME NEW state \in States, NEW bytes \in Block
    PROVE  SHA1Transform(state, bytes) \in States
<1> DEFINE f == CHOOSE x : IsSchedule(x, state, bytes)
<1>1. SHA1Transform(state, bytes) = [n \in 0 .. 4 |-> Plus(state[n], f[80].vars[n])]
  BY Zenon DEF SHA1Transform, IsSchedule, Schedule
<1>2. IsSchedule(f, state, bytes)
  <2>1. \E x : IsSchedule(x, state, bytes)
    BY ScheduleExists
  <2> QED
    BY <2>1, Zenon
<1> HIDE DEF f
<1>3. f[80] \in Rounds
  BY <1>2, ScheduleType
<1>4. f[80].vars \in [0 .. 4 -> Pairs]
  BY <1>3 DEF Rounds
<1>5. state \in [0 .. 4 -> Pairs]
  BY WordsArePairs DEF States
<1>6. ASSUME NEW n \in 0 .. 4
      PROVE  Plus(state[n], f[80].vars[n]) \in Words
  BY <1>4, <1>5, PlusType
<1> QED
  BY <1>1, <1>6 DEF States

(* The five words SHA1Init starts from.                                    *)
LEMMA StartType == InitialState \in States
<1>1. /\ \h6745 \in Halves /\ \h2301 \in Halves /\ \hEFCD \in Halves /\ \hAB89 \in Halves
      /\ \h98BA \in Halves /\ \hDCFE \in Halves /\ \h1032 \in Halves /\ \h5476 \in Halves
      /\ \hC3D2 \in Halves /\ \hE1F0 \in Halves
  BY SMT DEF Halves, Half
<1>2. /\ <<\h6745, \h2301>> \in Words /\ <<\hEFCD, \hAB89>> \in Words
      /\ <<\h98BA, \hDCFE>> \in Words /\ <<\h1032, \h5476>> \in Words
      /\ <<\hC3D2, \hE1F0>> \in Words
  BY <1>1, SMT DEF Words
<1> QED
  BY <1>2, SMTT(30) DEF InitialState, States

(* The digest is a string of bytes.                                        *)
LEMMA DigestType ==
    ASSUME NEW state \in States
    PROVE  DigestBytes(state) \in Seq(Bytes)
<1>1. ASSUME NEW h \in Halves
      PROVE  HalfBytes(h) \in Seq(Bytes)
  <2>0. h \in Int /\ 0 <= h /\ h <= 65535
    BY SMT DEF Halves, Half
  <2>1. h \div 256 \in 0 .. 255 /\ h % 256 \in 0 .. 255
    BY <2>0, SMT
  <2>2. h \div 256 \in Bytes /\ h % 256 \in Bytes
    BY <2>1, SMT DEF Bytes
  <2> QED
    BY <2>2, SMTT(30) DEF HalfBytes
<1>2. ASSUME NEW w \in Words
      PROVE  Word(w) \in Seq(Bytes)
  <2>1. w[1] \in Halves /\ w[2] \in Halves
    BY DEF Words
  <2>2. HalfBytes(w[1]) \in Seq(Bytes) /\ HalfBytes(w[2]) \in Seq(Bytes)
    BY <1>1, <2>1
  <2> QED
    BY <2>2 DEF Word
<1>3. /\ Word(state[0]) \in Seq(Bytes) /\ Word(state[1]) \in Seq(Bytes)
      /\ Word(state[2]) \in Seq(Bytes) /\ Word(state[3]) \in Seq(Bytes)
      /\ Word(state[4]) \in Seq(Bytes)
  <2>1. /\ state[0] \in Words /\ state[1] \in Words /\ state[2] \in Words
        /\ state[3] \in Words /\ state[4] \in Words
    BY DEF States
  <2> QED
    BY <1>2, <2>1
<1>4. /\ Word(state[0]) \o Word(state[1]) \in Seq(Bytes)
      /\ Word(state[2]) \o Word(state[3]) \in Seq(Bytes)
  BY <1>3
<1>5. \A s, t \in Seq(Bytes) : s \o t \in Seq(Bytes)
  OBVIOUS
<1> QED
  BY <1>3, <1>4, <1>5, Zenon DEF DigestBytes

-----------------------------------------------------------------------------
(* The steps: where a text is cut.                                         *)
LEMMA CutInTwo ==
    ASSUME NEW s \in Seq(Bytes), NEW p \in 0 .. Len(s), NEW upto \in p .. Len(s)
    PROVE  /\ SubSeq(s, 1, p) \o SubSeq(s, p + 1, upto) = SubSeq(s, 1, upto)
           /\ SubSeq(s, 1, p) \in Seq(Bytes) /\ SubSeq(s, p + 1, upto) \in Seq(Bytes)
<1>0. p \in Nat /\ upto \in Nat /\ Len(s) \in Nat /\ upto - p \in Nat /\ p + (upto - p) = upto
      /\ 0 + p = p /\ 0 + 1 = 1 /\ 0 + upto = upto /\ 0 \in Nat /\ p <= Len(s) /\ upto <= Len(s)
  OBVIOUS
<1>1. PICK a : a = SubSeq(s, 1, p)
  OBVIOUS
<1>2. PICK b : b = SubSeq(s, p + 1, upto)
  OBVIOUS
<1>3. PICK u : u = SubSeq(s, 1, upto)
  OBVIOUS
<1>4. a \in Seq(Bytes) /\ Len(a) = p /\ \A k \in 1 .. p : a[k] = s[k]
  <2>1. a = SubSeq(s, 0 + 1, 0 + p)
    BY <1>0, <1>1
  <2>2. a \in Seq(Bytes) /\ Len(a) = p /\ \A k \in 1 .. p : a[k] = s[0 + k]
    BY <1>0, <2>1, PieceType
  <2>3. \A k \in 1 .. p : 0 + k = k
    OBVIOUS
  <2> QED
    BY <2>2, <2>3
<1>5. b \in Seq(Bytes) /\ Len(b) = upto - p /\ \A k \in 1 .. upto - p : b[k] = s[p + k]
  <2>1. b = SubSeq(s, p + 1, p + (upto - p))
    BY <1>0, <1>2
  <2> QED
    BY <1>0, <2>1, PieceType
<1>6. u \in Seq(Bytes) /\ Len(u) = upto /\ \A k \in 1 .. upto : u[k] = s[k]
  <2>1. u = SubSeq(s, 0 + 1, 0 + upto)
    BY <1>0, <1>3
  <2>2. u \in Seq(Bytes) /\ Len(u) = upto /\ \A k \in 1 .. upto : u[k] = s[0 + k]
    BY <1>0, <2>1, PieceType
  <2>3. \A k \in 1 .. upto : 0 + k = k
    OBVIOUS
  <2> QED
    BY <2>2, <2>3
<1>7. PICK v : IsBoth(v, a, b)
  BY DEF IsBoth
<1>8. HasBoth(v, Bytes, a, b)
  BY <1>4, <1>5, <1>7, BehindIs, Zenon
<1>9. /\ v \in Seq(Bytes) /\ Len(v) = upto
      /\ \A k \in 1 .. p : v[k] = s[k]
      /\ \A k \in 1 .. upto - p : v[p + k] = s[p + k]
  BY <1>0, <1>4, <1>5, <1>8 DEF HasBoth
<1>10. ASSUME NEW k \in 1 .. upto
       PROVE  v[k] = u[k]
  <2>1. CASE k \in 1 .. p
    BY <1>6, <1>9, <2>1
  <2>2. CASE k \notin 1 .. p
    <3>1. PICK x \in 1 .. upto - p : k = p + x
      <4>1. k - p \in 1 .. upto - p /\ k = p + (k - p)
        BY <1>0, <2>2
      <4> QED
        BY <4>1
    <3> QED
      BY <1>6, <1>9, <3>1
  <2> QED
    BY <2>1, <2>2
<1>11. v = u
  BY <1>6, <1>9, <1>10, SeqEqual
<1>12. a \o b = u
  BY <1>7, <1>11, Zenon DEF IsBoth
<1> QED
  BY <1>1, <1>2, <1>3, <1>4, <1>5, <1>12, Zenon

(* No byte of it, and all of them.                                         *)
LEMMA CutNowhere ==
    ASSUME NEW s \in Seq(Bytes)
    PROVE  SubSeq(s, 1, 0) = <<>> /\ SubSeq(s, 1, Len(s)) = s
<1>0. Len(s) \in Nat /\ 0 \in Nat /\ 0 + 1 = 1 /\ 0 + 0 = 0 /\ 0 + Len(s) = Len(s)
      /\ 1 .. 0 = {}
  OBVIOUS
<1>1. SubSeq(s, 0 + 1, 0 + 0) = [k \in 1 .. 0 |-> s[0 + k]]
  BY <1>0, SubSeqIs
<1>2. [k \in 1 .. 0 |-> s[0 + k]] = <<>>
  BY <1>0
<1>3. PICK u : u = SubSeq(s, 1, Len(s))
  OBVIOUS
<1>4. u \in Seq(Bytes) /\ Len(u) = Len(s) /\ \A k \in 1 .. Len(s) : u[k] = s[0 + k]
  <2>1. u = SubSeq(s, 0 + 1, 0 + Len(s)) /\ 0 + Len(s) <= Len(s)
    BY <1>0, <1>3
  <2> QED
    BY <1>0, <2>1, PieceType
<1>5. \A k \in 1 .. Len(s) : u[k] = s[k]
  <2>1. \A k \in 1 .. Len(s) : 0 + k = k
    OBVIOUS
  <2> QED
    BY <1>4, <2>1
<1>6. u = s
  BY <1>4, <1>5, SeqEqual
<1> QED
  BY <1>0, <1>1, <1>2, <1>3, <1>6

-----------------------------------------------------------------------------
(***************************************************************************)
(* The invariant.  In each phase, what the coder at work holds is what its *)
(* input up to pos makes it hold; the others are as they start.            *)
(***************************************************************************)
InHash ==
    phase = "hash" =>
        /\ input \in Messages /\ pos \in 0 .. Len(input)
        /\ HoldsText(ctx, SubSeq(input, 1, pos))
        /\ enc = InitEncode /\ dec = InitDecode

InTransform ==
    phase = "transform" =>
        /\ \E n \in Nat : IsCut(Padded(input), n, 0) /\ ctx.blocks = BlocksOf(Padded(input), n)
        /\ pos \in Nat
        /\ enc = InitEncode /\ dec = InitDecode

InEncode ==
    phase = "encode" =>
        /\ input \in Seq(Bytes) /\ pos \in 0 .. Len(input)
        /\ EncodedAs(enc, input, pos)
        /\ dec = InitDecode

InDecode ==
    phase = "decode" =>
        /\ input \in Seq(Bytes) /\ IsSpelled(code, input) /\ pos \in 0 .. Len(code)
        /\ DecodedAs(dec, input, LettersIn(input, pos))

Inv == hash \in States /\ InHash /\ InTransform /\ InEncode /\ InDecode /\ DecodesBack

(* SHA1Init, base64_init_encodestate and base64_init_decodestate.          *)
LEMMA InitInv == Init => Inv
<1> SUFFICES ASSUME Init PROVE Inv
  OBVIOUS
<1>1. /\ pos = 0 /\ ctx = SHA1Init /\ hash = InitialState /\ enc = InitEncode /\ dec = InitDecode
      /\ \/ phase = "hash" /\ input \in Messages
         \/ phase = "encode" /\ input \in Plains
  BY DEF Init
<1>2. input \in Seq(Bytes)
  BY <1>1, InputAssumption
<1>3. hash \in States
  BY <1>1, StartType
<1>4. pos \in 0 .. Len(input)
  <2>1. Len(input) \in Nat
    BY <1>2
  <2> QED
    BY <1>1, <2>1
<1>5. HoldsText(ctx, SubSeq(input, 1, pos))
  <2>1. HoldsText(SHA1Init, <<>>)
    BY HeldStart DEF HoldsText
  <2>2. SubSeq(input, 1, 0) = <<>>
    BY <1>2, CutNowhere
  <2> QED
    BY <1>1, <2>1, <2>2, Zenon
<1>6. EncodedAs(enc, input, pos)
  BY <1>1, EncodedStart
<1>7. InHash
  BY <1>1, <1>4, <1>5 DEF InHash
<1>8. InTransform /\ InDecode /\ DecodesBack
  BY <1>1 DEF InTransform, InDecode, DecodesBack
<1>9. InEncode
  BY <1>1, <1>2, <1>4, <1>6 DEF InEncode
<1> QED
  BY <1>3, <1>7, <1>8, <1>9 DEF Inv

(* No letter has been read before the first character.                     *)
LEMMA NoLetters ==
    ASSUME NEW s \in Seq(Bytes)
    PROVE  LettersIn(s, 0) = 0
<1>1. Len(s) \in Nat
  OBVIOUS
<1>2. SignificantLetters(s) >= 0
  BY <1>1 DEF SignificantLetters
<1>3. 0 - 0 \div 73 = 0
  OBVIOUS
<1> QED
  BY <1>2, <1>3 DEF LettersIn

(* acceptKey's calls of SHA1Update, SHA1Final and SHA1Transform, and the    *)
(* digest.                                                                 *)
LEMMA UpdateInv ==
    ASSUME Inv, NEW upto \in pos + 1 .. Len(input), Update(upto)
    PROVE  Inv'
<1>1. /\ phase = "hash" /\ phase' = "hash" /\ pos' = upto /\ input' = input /\ hash' = hash
      /\ enc' = enc /\ dec' = dec
      /\ ctx' = SHA1Update(ctx, SubSeq(input, pos + 1, upto))
  BY DEF Update, Piece
<1>2. /\ hash \in States /\ input \in Messages /\ pos \in 0 .. Len(input)
      /\ HoldsText(ctx, SubSeq(input, 1, pos))
      /\ enc = InitEncode /\ dec = InitDecode
  BY <1>1 DEF Inv, InHash
<1>3. input \in Seq(Bytes)
  BY <1>2, InputAssumption
<1>4. upto \in pos .. Len(input) /\ upto \in 0 .. Len(input)
  BY <1>2
<1>5. /\ SubSeq(input, 1, pos) \o SubSeq(input, pos + 1, upto) = SubSeq(input, 1, upto)
      /\ SubSeq(input, 1, pos) \in Seq(Bytes) /\ SubSeq(input, pos + 1, upto) \in Seq(Bytes)
  BY <1>2, <1>3, <1>4, CutInTwo, Zenon
<1>6. HoldsText(ctx', SubSeq(input, 1, upto))
  <2>1. HoldsText(SHA1Update(ctx, SubSeq(input, pos + 1, upto)),
                  SubSeq(input, 1, pos) \o SubSeq(input, pos + 1, upto))
    BY <1>2, <1>5, HeldNext, Zenon
  <2> QED
    BY <1>1, <1>5, <2>1, Zenon
<1>7. InHash'
  BY <1>1, <1>2, <1>4, <1>6 DEF InHash
<1> QED
  BY <1>1, <1>2, <1>7 DEF Inv, InTransform, InEncode, InDecode, DecodesBack

(* SHA1Final: what it transforms is the padded message.                    *)
LEMMA FinalInv ==
    ASSUME Inv, Final
    PROVE  Inv'
<1>1. /\ phase = "hash" /\ phase' = "transform" /\ pos = Len(input) /\ pos' = 0
      /\ input' = input /\ hash' = hash /\ enc' = enc /\ dec' = dec
      /\ ctx' = [SHA1Init EXCEPT !.blocks = SHA1Final(ctx)]
  BY DEF Final
<1>2. /\ hash \in States /\ input \in Messages
      /\ HoldsText(ctx, SubSeq(input, 1, pos))
      /\ enc = InitEncode /\ dec = InitDecode
  BY <1>1 DEF Inv, InHash
<1>3. input \in Seq(Bytes) /\ 8 * Len(input) < WordMod * WordMod
  BY <1>2, InputAssumption
<1>4. HoldsText(ctx, input)
  <2>1. SubSeq(input, 1, Len(input)) = input
    BY <1>3, CutNowhere
  <2> QED
    BY <1>1, <1>2, <2>1, Zenon
<1>5. \E n \in Nat : IsCut(Padded(input), n, 0) /\ SHA1Final(ctx) = BlocksOf(Padded(input), n)
  BY <1>3, <1>4, FinalBlocks
<1>6. ctx'.blocks = SHA1Final(ctx)
  BY <1>1 DEF SHA1Init
<1>7. \E n \in Nat : IsCut(Padded(input'), n, 0) /\ ctx'.blocks = BlocksOf(Padded(input'), n)
  BY <1>1, <1>5, <1>6
<1>8. InTransform'
  BY <1>1, <1>2, <1>7 DEF InTransform
<1> QED
  BY <1>1, <1>2, <1>8 DEF Inv, InHash, InEncode, InDecode, DecodesBack

(* SHA1Transform of one block.                                             *)
LEMMA TransformInv ==
    ASSUME Inv, Transform
    PROVE  Inv'
<1>1. /\ phase = "transform" /\ phase' = "transform" /\ pos < Len(ctx.blocks) /\ pos' = pos + 1
      /\ input' = input /\ ctx' = ctx /\ enc' = enc /\ dec' = dec
      /\ hash' = SHA1Transform(hash, ctx.blocks[pos + 1])
  BY DEF Transform
<1>2. /\ hash \in States /\ pos \in Nat /\ enc = InitEncode /\ dec = InitDecode
      /\ \E n \in Nat : IsCut(Padded(input), n, 0) /\ ctx.blocks = BlocksOf(Padded(input), n)
  BY <1>1 DEF Inv, InTransform
<1>3. PICK n \in Nat : IsCut(Padded(input), n, 0) /\ ctx.blocks = BlocksOf(Padded(input), n)
  BY <1>2
<1>4. ctx.blocks \in Seq(Block) /\ Len(ctx.blocks) = n
  BY <1>3, BlocksOfType
<1>5. ctx.blocks[pos + 1] \in Block
  BY <1>1, <1>2, <1>4
<1>6. hash' \in States
  BY <1>1, <1>2, <1>5, TransformType
<1>7. pos' \in Nat
  BY <1>1, <1>2
<1>8. InTransform'
  BY <1>1, <1>2, <1>7 DEF InTransform
<1> QED
  BY <1>1, <1>6, <1>8 DEF Inv, InHash, InEncode, InDecode, DecodesBack

(* The digest is what is encoded next.                                     *)
LEMMA HashedInv ==
    ASSUME Inv, Hashed
    PROVE  Inv'
<1>1. /\ phase = "transform" /\ phase' = "encode" /\ pos' = 0 /\ input' = DigestBytes(hash)
      /\ hash' = InitialState /\ enc' = enc /\ dec' = dec
  BY DEF Hashed
<1>2. hash \in States /\ enc = InitEncode /\ dec = InitDecode
  BY <1>1 DEF Inv, InTransform
<1>3. input' \in Seq(Bytes)
  BY <1>1, <1>2, DigestType
<1>4. pos' \in 0 .. Len(input')
  <2>1. Len(input') \in Nat
    BY <1>3
  <2> QED
    BY <1>1, <2>1
<1>5. EncodedAs(enc', input', pos')
  BY <1>1, <1>2, EncodedStart
<1>6. InEncode'
  BY <1>1, <1>2, <1>3, <1>4, <1>5 DEF InEncode
<1>7. hash' \in States
  BY <1>1, StartType
<1> QED
  BY <1>1, <1>6, <1>7 DEF Inv, InHash, InTransform, InDecode, DecodesBack

(* base64_encode_block, base64_encode_blockend and base64_decode_block.    *)
LEMMA EncodeInv ==
    ASSUME Inv, NEW upto \in pos + 1 .. Len(input), Encode(upto)
    PROVE  Inv'
<1>1. /\ phase = "encode" /\ phase' = "encode" /\ pos' = upto /\ input' = input /\ hash' = hash
      /\ dec' = dec /\ enc' = EncodeBlock(enc, SubSeq(input, pos + 1, upto))
  BY DEF Encode, Piece
<1>2. /\ hash \in States /\ input \in Seq(Bytes) /\ pos \in 0 .. Len(input)
      /\ EncodedAs(enc, input, pos) /\ dec = InitDecode
  BY <1>1 DEF Inv, InEncode
<1>3. upto \in pos .. Len(input) /\ upto \in 0 .. Len(input)
  BY <1>2
<1>4. EncodedAs(EncodeBlock(enc, SubSeq(input, pos + 1, upto)), input, upto)
  BY <1>2, <1>3, EncodedBlock, Zenon
<1>5. InEncode'
  BY <1>1, <1>2, <1>3, <1>4 DEF InEncode
<1> QED
  BY <1>1, <1>2, <1>5 DEF Inv, InHash, InTransform, InDecode, DecodesBack

(* base64_encode_blockend: the whole code is spelled.                      *)
LEMMA EncodeEndInv ==
    ASSUME Inv, EncodeEnd
    PROVE  Inv'
<1>1. /\ phase = "encode" /\ phase' = "decode" /\ pos = Len(input) /\ pos' = 0
      /\ input' = input /\ hash' = hash /\ dec' = dec /\ code' = EncodeBlockEnd(enc)
  BY DEF EncodeEnd
<1>2. /\ hash \in States /\ input \in Seq(Bytes) /\ EncodedAs(enc, input, pos) /\ dec = InitDecode
  BY <1>1 DEF Inv, InEncode
<1>3. IsSpelled(code', input)
  BY <1>1, <1>2, EncodedEnd
<1>4. pos' \in 0 .. Len(code')
  <2>1. Len(code') \in Nat
    BY <1>3 DEF IsSpelled
  <2> QED
    BY <1>1, <2>1
<1>5. DecodedAs(dec', input, LettersIn(input, pos'))
  BY <1>1, <1>2, NoLetters, DecodedStart
<1>6. InDecode'
  BY <1>1, <1>2, <1>3, <1>4, <1>5 DEF InDecode
<1> QED
  BY <1>1, <1>2, <1>6 DEF Inv, InHash, InTransform, InEncode, DecodesBack

(* base64_decode_block.                                                    *)
LEMMA DecodeInv ==
    ASSUME Inv, NEW upto \in pos + 1 .. Len(code), Decode(upto)
    PROVE  Inv'
<1>1. /\ phase = "decode" /\ phase' = "decode" /\ pos' = upto /\ input' = input /\ hash' = hash
      /\ code' = code /\ dec' = DecodeBlock(dec, SubSeq(code, pos + 1, upto))
  BY DEF Decode, Piece
<1>2. /\ hash \in States /\ input \in Seq(Bytes) /\ IsSpelled(code, input)
      /\ pos \in 0 .. Len(code) /\ DecodedAs(dec, input, LettersIn(input, pos))
  BY <1>1 DEF Inv, InDecode
<1>3. upto \in pos .. Len(code) /\ upto \in 0 .. Len(code)
  BY <1>2
<1>4. DecodedAs(DecodeBlock(dec, SubSeq(code, pos + 1, upto)), input, LettersIn(input, upto))
  BY <1>2, <1>3, DecodedBlock, Zenon
<1>5. InDecode'
  BY <1>1, <1>2, <1>3, <1>4 DEF InDecode
<1> QED
  BY <1>1, <1>2, <1>5 DEF Inv, InHash, InTransform, InEncode, DecodesBack

(* The end of the code.                                                    *)
LEMMA DecodedInv ==
    ASSUME Inv, Decoded
    PROVE  Inv'
<1>1. /\ phase = "decode" /\ phase' = "done" /\ pos = Len(code) /\ input' = input
      /\ hash' = hash /\ dec' = dec
  BY DEF Decoded
<1>2. /\ hash \in States /\ input \in Seq(Bytes) /\ IsSpelled(code, input)
      /\ DecodedAs(dec, input, LettersIn(input, pos))
  BY <1>1 DEF Inv, InDecode
<1>3. pos = CodeLength(Len(input))
  BY <1>1, <1>2 DEF IsSpelled
<1>4. dec.out = input
  BY <1>2, <1>3, DecodedEnd, Zenon
<1> QED
  BY <1>1, <1>2, <1>4 DEF Inv, InHash, InTransform, InEncode, InDecode, DecodesBack

(* Every step of the specification keeps the invariant.                    *)
THEOREM Invariance == Spec => []Inv
<1>1. Inv /\ [Next]_vars => Inv'
  <2> SUFFICES ASSUME Inv, [Next]_vars PROVE Inv'
    OBVIOUS
  <2>1. CASE \E upto \in pos + 1 .. Len(input) : Update(upto)
    BY <2>1, UpdateInv
  <2>2. CASE Final
    BY <2>2, FinalInv
  <2>3. CASE Transform
    BY <2>3, TransformInv
  <2>4. CASE Hashed
    BY <2>4, HashedInv
  <2>5. CASE \E upto \in pos + 1 .. Len(input) : Encode(upto)
    BY <2>5, EncodeInv
  <2>6. CASE EncodeEnd
    BY <2>6, EncodeEndInv
  <2>7. CASE \E upto \in pos + 1 .. Len(code) : Decode(upto)
    BY <2>7, DecodeInv
  <2>8. CASE Decoded
    BY <2>8, DecodedInv
  <2>9. CASE UNCHANGED vars
    BY <2>9 DEF vars, Inv, InHash, InTransform, InEncode, InDecode, DecodesBack
  <2> QED
    BY <2>1, <2>2, <2>3, <2>4, <2>5, <2>6, <2>7, <2>8, <2>9 DEF Next
<1> QED
  BY <1>1, InitInv, PTL DEF Spec

-----------------------------------------------------------------------------
(* What the modules promise.                                               *)

(* The blocks that SHA1Update and SHA1Final transform are the padded        *)
(* message, for every message shorter than the two counters count and       *)
(* however it is cut into calls.                                           *)
THEOREM MessagePaddedHolds == Spec => []MessagePadded
<1>1. Inv => MessagePadded
  <2> SUFFICES ASSUME Inv, phase = "transform"
               PROVE  /\ Len(ctx.blocks) * 64 = Len(Padded(input))
                      /\ \A b \in 1 .. Len(ctx.blocks) :
                            ctx.blocks[b] = SubSeq(Padded(input), 64 * (b - 1) + 1, 64 * b)
    BY DEF MessagePadded
  <2>1. PICK n \in Nat : IsCut(Padded(input), n, 0) /\ ctx.blocks = BlocksOf(Padded(input), n)
    BY DEF Inv, InTransform
  <2>2. Len(ctx.blocks) = n /\ \A b \in 1 .. n : ctx.blocks[b] = BlockOf(Padded(input), b)
    BY <2>1, BlocksOfType
  <2>3. Padded(input) \in Seq(Bytes) /\ Len(Padded(input)) = 64 * n
    BY <2>1 DEF IsCut
  <2>4. ASSUME NEW b \in 1 .. n
        PROVE  BlockOf(Padded(input), b) = SubSeq(Padded(input), 64 * (b - 1) + 1, 64 * b)
    <3> DEFINE low == 64 * (b - 1)
    <3>1. low \in Nat /\ 64 \in Nat /\ low + 64 <= Len(Padded(input)) /\ 64 * b = low + 64
      BY <2>3
    <3>2. BlockOf(Padded(input), b) = [k \in 1 .. 64 |-> Padded(input)[low + k]]
      BY DEF BlockOf
    <3> HIDE DEF low
    <3>3. SubSeq(Padded(input), low + 1, low + 64) = [k \in 1 .. 64 |-> Padded(input)[low + k]]
      BY <2>3, <3>1, SubSeqIs
    <3>4. BlockOf(Padded(input), b) = SubSeq(Padded(input), low + 1, low + 64)
      BY <3>2, <3>3, Zenon
    <3> QED
      BY <3>1, <3>4 DEF low
  <2> QED
    BY <2>2, <2>3, <2>4
<1> QED
  BY <1>1, Invariance, PTL

(* The encoder writes the definition of base64 in lines of 72 characters,   *)
(* for every string of bytes and however it is cut into calls.             *)
THEOREM CodeSpellsHolds == Spec => []CodeSpells
<1>1. Inv => CodeSpells
  <2> SUFFICES ASSUME Inv, phase = "decode"
               PROVE  code = [n \in 1 .. CodeLength(Len(input)) |-> Spelled(input, n)]
    BY DEF CodeSpells
  <2>1. IsSpelled(code, input)
    BY DEF Inv, InDecode
  <2>2. /\ code \in Seq(Int) /\ Len(code) = CodeLength(Len(input))
        /\ \A i \in 1 .. CodeLength(Len(input)) : code[i] = Spelled(input, i)
    BY <2>1 DEF IsSpelled
  <2>3. code = [n \in 1 .. Len(code) |-> code[n]]
    BY <2>2
  <2> QED
    BY <2>2, <2>3
<1> QED
  BY <1>1, Invariance, PTL

(* base64_encode never writes behind the buffer it has allocated, but for   *)
(* texts of 4 and of 7 bytes, and for these by two bytes and by one.        *)
THEOREM BufferFitsHolds == Spec => []BufferFits
<1>1. Inv => BufferFits
  <2> SUFFICES ASSUME Inv, phase = "decode"
               PROVE  /\ Len(input) \notin {4, 7} => Len(code) <= BufferSize(Len(input))
                      /\ Len(input) = 4 => Len(code) = BufferSize(Len(input)) + 2
                      /\ Len(input) = 7 => Len(code) = BufferSize(Len(input)) + 1
    BY DEF BufferFits
  <2>1. input \in Seq(Bytes) /\ IsSpelled(code, input)
    BY DEF Inv, InDecode
  <2>2. Len(code) = CodeLength(Len(input))
    BY <2>1 DEF IsSpelled
  <2>3. Len(input) \in Nat
    BY <2>1
  <2>4. Len(input) \notin {4, 7} => CodeLength(Len(input)) <= BufferSize(Len(input))
    BY <2>3, CodeFits
  <2>5. CodeLength(4) = BufferSize(4) + 2 /\ CodeLength(7) = BufferSize(7) + 1
    BY SMT DEF CodeLength, GroupsPerLine, BufferSize
  <2> QED
    BY <2>2, <2>4, <2>5
<1> QED
  BY <1>1, Invariance, PTL

(* What has been encoded is read back as it was, for every string of bytes  *)
(* and however the code is cut into calls.                                 *)
THEOREM DecodesBackHolds == Spec => []DecodesBack
<1>1. Inv => DecodesBack
  BY DEF Inv
<1> QED
  BY <1>1, Invariance, PTL
=============================================================================
