------------------------------- MODULE Frame -------------------------------
(***************************************************************************)
(* The header of a frame as bytes: createHeader of src/src/WebSockets.cpp,  *)
(* which builds it, and the decoding in handleWebsocketCb, which reads it   *)
(* in up to three parts because the first two bytes tell the length of the *)
(* rest.  There are no variables here; FrameStream puts both ends together. *)
(***************************************************************************)
EXTENDS Integers, Sequences

CONSTANT SizeMax                   \* the largest size_t, at most 2^32 - 1

ASSUME SizeAssumption ==
    /\ SizeMax \in Nat
    /\ SizeMax >= 65536
    /\ SizeMax \div 65536 < 65536

Bytes == 0 .. 255
Sizes == 0 .. SizeMax
Keys == [1 .. 4 -> Bytes]
NoKey == <<0, 0, 0, 0>>

MaxHeaderSize == 14                \* WEBSOCKETS_MAX_HEADER_SIZE

Opcodes == 0 .. 15

(* A frame without a mask has no key.                                      *)
Frames == {f \in [fin : BOOLEAN, opcode : Opcodes, mask : BOOLEAN, length : Sizes, key : Keys] :
               ~f.mask => f.key = NoKey}

-----------------------------------------------------------------------------
(* Sending.                                                                *)

Bit7(b) == IF b THEN 128 ELSE 0

(* Mutant of HeaderSize: 126 is taken for a length of seven bits.           *)
HeaderSizeTo126(length, mask) ==
    (IF length <= 126 THEN 2 ELSE IF length < 65535 THEN 4 ELSE 10) + (IF mask THEN 4 ELSE 0)

(* The size sendFrame reserves in front of the payload and then writes.     *)
HeaderSize(length, mask) ==
    (IF length < 126 THEN 2 ELSE IF length < 65535 THEN 4 ELSE 10) + (IF mask THEN 4 ELSE 0)

(* The seven bits of the length in byte 1 ...                               *)
Field7(length) == IF length < 126 THEN length ELSE IF length < 65535 THEN 126 ELSE 127

(* ... and the bytes that follow when these say so.                         *)
LengthBytes(length) ==
    IF length < 126 THEN <<>>
    ELSE IF length < 65535 THEN <<(length \div 256) % 256, length % 256>>
    ELSE <<0, 0, 0, 0, (length \div 16777216) % 256, (length \div 65536) % 256,
           (length \div 256) % 256, length % 256>>

CreateHeader(f) ==
    <<Bit7(f.fin) + f.opcode, Bit7(f.mask) + Field7(f.length)>>
        \o LengthBytes(f.length) \o (IF f.mask THEN f.key ELSE <<>>)

-----------------------------------------------------------------------------
(* Receiving: what the bytes read so far say.                              *)

Masked(buffer) == buffer[2] \div 128 = 1
Length7(buffer) == buffer[2] % 128

(* Mutant of LengthEnd: the two bytes before the long form counted again.   *)
LengthEndTwice(buffer) ==
    IF Length7(buffer) = 126 THEN 4 ELSE IF Length7(buffer) = 127 THEN 12 ELSE 2

(* headerLen without the mask key.                                         *)
LengthEnd(buffer) ==
    IF Length7(buffer) = 126 THEN 4 ELSE IF Length7(buffer) = 127 THEN 10 ELSE 2

HeaderEnd(buffer) == LengthEnd(buffer) + (IF Masked(buffer) THEN 4 ELSE 0)

(* A 64 bit length that does not fit 32 bits becomes the largest size.      *)
PayloadLen(buffer) ==
    IF Length7(buffer) = 126 THEN buffer[3] * 256 + buffer[4]
    ELSE IF Length7(buffer) # 127 THEN Length7(buffer)
    ELSE IF \E i \in 3 .. 6 : buffer[i] # 0 THEN SizeMax
    ELSE buffer[7] * 16777216 + buffer[8] * 65536 + buffer[9] * 256 + buffer[10]

(* maskKey points into the buffer, behind the length.                       *)
MaskKey(buffer) ==
    IF Masked(buffer) THEN [i \in 1 .. 4 |-> buffer[LengthEnd(buffer) + i]] ELSE NoKey

(* Mutant of Decoded: three bits of the opcode.                             *)
DecodedThreeBits(buffer) ==
    [fin |-> buffer[1] \div 128 = 1, opcode |-> buffer[1] % 8, mask |-> Masked(buffer),
     length |-> PayloadLen(buffer), key |-> MaskKey(buffer)]

Decoded(buffer) ==
    [fin |-> buffer[1] \div 128 = 1, opcode |-> buffer[1] % 16, mask |-> Masked(buffer),
     length |-> PayloadLen(buffer), key |-> MaskKey(buffer)]
=============================================================================
