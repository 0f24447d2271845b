------------------------------ MODULE AcceptKey ------------------------------
(***************************************************************************)
(* What the library does with SHA-1 and base64 where the core of the board *)
(* has neither: WebSockets::acceptKey hashes the key and the GUID behind   *)
(* it and encodes the digest; base64_encode also encodes the random key of *)
(* a request and the user's name and password.  The two C libraries take   *)
(* their input in pieces of any size, and so do the steps here; the        *)
(* decoder of libb64 reads back what was encoded.                          *)
(***************************************************************************)
EXTENDS Base64, Sha1

CONSTANTS
    Messages,               \* what is hashed: clientKey and the GUID
    Plains                  \* what is encoded besides digests

(* Strings of bytes; size_t is 32 bits wide, the count of bits twice that. *)
ASSUME InputAssumption ==
    /\ Messages \subseteq Seq(Bytes) /\ Plains \subseteq Seq(Bytes)
    /\ \A m \in Messages : 8 * Len(m) < WordMod * WordMod

VARIABLES
    phase,                  \* "hash", "transform", "encode", "decode", "done"
    input,                  \* the bytes this phase works on
    pos,                    \* how far it has come
    ctx,                    \* the SHA1_CTX
    hash,                   \* its state[]
    enc,                    \* the base64_encodestate and what it has written
    code,                   \* the encoded bytes
    dec                     \* the base64_decodestate and what it has written

vars == <<phase, input, pos, ctx, hash, enc, code, dec>>

Init ==
    /\ \/ phase = "hash" /\ input \in Messages
       \/ phase = "encode" /\ input \in Plains
    /\ pos = 0
    /\ ctx = SHA1Init
    /\ hash = InitialState
    /\ enc = InitEncode
    /\ code = <<>>
    /\ dec = InitDecode

(* The bytes of s up to position upto that have not been taken yet.        *)
Piece(s, upto) == SubSeq(s, pos + 1, upto)

-----------------------------------------------------------------------------
(* acceptKey: SHA1Update and SHA1Final.                                    *)

Update(upto) ==
    /\ phase = "hash"
    /\ ctx' = SHA1Update(ctx, Piece(input, upto))
    /\ pos' = upto
    /\ UNCHANGED <<phase, input, hash, enc, code, dec>>

Final ==
    /\ phase = "hash"
    /\ pos = Len(input)
    /\ phase' = "transform"
    /\ ctx' = [SHA1Init EXCEPT !.blocks = SHA1Final(ctx)]
    /\ pos' = 0
    /\ UNCHANGED <<input, hash, enc, code, dec>>

(* The blocks of the message, in their order.                              *)
Transform ==
    /\ phase = "transform"
    /\ pos < Len(ctx.blocks)
    /\ hash' = SHA1Transform(hash, ctx.blocks[pos + 1])
    /\ pos' = pos + 1
    /\ UNCHANGED <<phase, input, ctx, enc, code, dec>>

(* The digest is encoded, and the context wiped.                           *)
Hashed ==
    /\ phase = "transform"
    /\ pos = Len(ctx.blocks)
    /\ phase' = "encode"
    /\ input' = DigestBytes(hash)
    /\ pos' = 0
    /\ ctx' = SHA1Init
    /\ hash' = InitialState
    /\ UNCHANGED <<enc, code, dec>>

-----------------------------------------------------------------------------
(* base64_encode: base64_encode_block and base64_encode_blockend; and the   *)
(* way back.                                                                *)

Encode(upto) ==
    /\ phase = "encode"
    /\ enc' = EncodeBlock(enc, Piece(input, upto))
    /\ pos' = upto
    /\ UNCHANGED <<phase, input, ctx, hash, code, dec>>

EncodeEnd ==
    /\ phase = "encode"
    /\ pos = Len(input)
    /\ phase' = "decode"
    /\ code' = EncodeBlockEnd(enc)
    /\ enc' = InitEncode
    /\ pos' = 0
    /\ UNCHANGED <<input, ctx, hash, dec>>

Decode(upto) ==
    /\ phase = "decode"
    /\ dec' = DecodeBlock(dec, Piece(code, upto))
    /\ pos' = upto
    /\ UNCHANGED <<phase, input, ctx, hash, enc, code>>

Decoded ==
    /\ phase = "decode"
    /\ pos = Len(code)
    /\ phase' = "done"
    /\ UNCHANGED <<input, pos, ctx, hash, enc, code, dec>>

Next ==
    \/ \E upto \in pos + 1 .. Len(input) : Update(upto)
    \/ Final \/ Transform \/ Hashed
    \/ \E upto \in pos + 1 .. Len(input) : Encode(upto)
    \/ EncodeEnd
    \/ \E upto \in pos + 1 .. Len(code) : Decode(upto)
    \/ Decoded

Spec == Init /\ [][Next]_vars

-----------------------------------------------------------------------------
(***************************************************************************)
(* What both promise.                                                      *)
(***************************************************************************)

(* SHA-1's padding (FIPS 180-1): a one bit, zeros up to 8 bytes before the  *)
(* end of a block, and the length in bits.                                  *)
Zeros(length) == (119 - (length % 64)) % 64
BitCount(length) ==
    WordBytes((8 * length) \div WordMod) \o WordBytes((8 * length) % WordMod)
Padded(s) == s \o <<128>> \o [n \in 1 .. Zeros(Len(s)) |-> 0] \o BitCount(Len(s))

(* However the message was cut into SHA1Updates, whatever an earlier block  *)
(* left in the buffer, and wherever the counters carry, what is transformed *)
(* is the padded message.                                                   *)
MessagePadded ==
    phase = "transform" =>
        /\ Len(ctx.blocks) * 64 = Len(Padded(input))
        /\ \A b \in 1 .. Len(ctx.blocks) :
              ctx.blocks[b] = SubSeq(Padded(input), 64 * (b - 1) + 1, 64 * b)

(* Base64 by its definition: three bytes are a number of four digits.      *)
ByteAt(s, n) == IF n \in 1 .. Len(s) THEN s[n] ELSE 0
Triple(s, g) == ByteAt(s, 3 * g + 1) * 65536 + ByteAt(s, 3 * g + 2) * 256 + ByteAt(s, 3 * g + 3)
Alphabet == [v \in 0 .. 63 |-> IF v < 26 THEN 65 + v
                               ELSE IF v < 52 THEN 97 + v - 26
                               ELSE IF v < 62 THEN 48 + v - 52
                               ELSE IF v = 62 THEN 43 ELSE 47]
Digits(s, g) == [d \in 1 .. 4 |-> Alphabet[(Triple(s, g) \div 64 ^ (4 - d)) % 64]]
Letters(s, n) == Digits(s, (n - 1) \div 4)[((n - 1) % 4) + 1]
SignificantLetters(s) == (4 * Len(s) + 2) \div 3

(* Character n of the code: a line feed behind each 72 characters that      *)
(* another follows, the letters between them, padding behind the last.      *)
Spelled(s, n) ==
    IF n = CodeLength(Len(s)) THEN Nul
    ELSE IF n % 73 = 0 THEN Newline
    ELSE IF n - n \div 73 <= SignificantLetters(s) THEN Letters(s, n - n \div 73)
    ELSE Pad

(* The code spells the input, one character after the other, wherever the   *)
(* input was cut; a header value of less than 54 bytes stays one line.      *)
CodeSpells ==
    phase = "decode" =>
        code = [n \in 1 .. CodeLength(Len(input)) |-> Spelled(input, n)]

(* base64_encode writes what it has allocated at most, but for a text of 4   *)
(* bytes, whose code and NUL end two bytes behind the buffer, and one of 7, *)
(* where it is the NUL.                                                    *)
BufferFits ==
    phase = "decode" =>
        LET length == Len(input) IN
        /\ length \notin {4, 7} => Len(code) <= BufferSize(length)
        /\ length = 4 => Len(code) = BufferSize(length) + 2
        /\ length = 7 => Len(code) = BufferSize(length) + 1

(* The decoder reads back what was encoded, with the padding and the line   *)
(* feeds in it, wherever its input is cut.                                  *)
DecodesBack == phase = "done" => dec.out = input
=============================================================================
