----------------------------- MODULE MCAcceptKey -----------------------------
(***************************************************************************)
(* Model checking of AcceptKey: the messages and the bytes to encode, of   *)
(* the lengths where a block, a counter, a group or a line is just full,   *)
(* and messages whose digests are known.                                   *)
(***************************************************************************)
EXTENDS AcceptKey

(* The test vectors of libsha1.c, lines 10 to 13.                          *)
Abc == <<97, 98, 99>>

Abcdbcde ==
    <<97, 98, 99, 100, 98, 99, 100, 101, 99, 100, 101, 102, 100, 101, 102, 103,
      101, 102, 103, 104, 102, 103, 104, 105, 103, 104, 105, 106, 104, 105, 106, 107,
      105, 106, 107, 108, 106, 107, 108, 109, 107, 108, 109, 110, 108, 109, 110, 111,
      109, 110, 111, 112, 110, 111, 112, 113>>

(* The example of RFC 6455, 1.3: the client's key and the GUID.            *)
SampleKey ==
    <<100, 71, 104, 108, 73, 72, 78, 104, 98, 88, 66, 115, 90, 83, 66, 117,
      98, 50, 53, 106, 90, 81, 61, 61, 50, 53, 56, 69, 65, 70, 65, 53,
      45, 69, 57, 49, 52, 45, 52, 55, 68, 65, 45, 57, 53, 67, 65, 45,
      67, 53, 65, 66, 48, 68, 67, 56, 53, 66, 49, 49>>

Counting(length) == [n \in 1 .. length |-> (37 * n) % 256]

MCMessages ==
    {Abc, Abcdbcde, SampleKey} \union {Counting(n) : n \in {0, 55, 63, 64, 65, 119, 128, 130}}

MCPlains ==
    {Counting(n) : n \in 0 .. 10 \union {16, 53, 54, 55}}
        \union {<<a, b, 255 - a>> : a, b \in {0, 1, 63, 64, 170, 252, 255}}

DigestOf(message) ==
    CASE message = Abc       ->
          <<169, 153, 62, 54, 71, 6, 129, 106, 186, 62, 37, 113, 120, 80, 194, 108,
            156, 208, 216, 157>>
      [] message = Abcdbcde  ->
          <<132, 152, 62, 68, 28, 59, 210, 110, 186, 174, 74, 161, 249, 81, 41, 229,
            229, 70, 112, 241>>
      [] message = SampleKey ->
          <<179, 122, 79, 44, 192, 98, 79, 22, 144, 246, 70, 6, 207, 56, 89, 69,
            178, 190, 196, 234>>

(* SHA1Transform yields the digests that are known.                        *)
KnownDigests ==
    phase = "transform" /\ pos = Len(ctx.blocks) /\ input \in {Abc, Abcdbcde, SampleKey} =>
        DigestBytes(hash) = DigestOf(input)
=============================================================================
