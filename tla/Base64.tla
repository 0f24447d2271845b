------------------------------- MODULE Base64 -------------------------------
(***************************************************************************)
(* src/src/libb64/{cencode,cdecode}.c, and the buffer of                   *)
(* WebSockets::base64_encode.  Both directions carry what is left of a     *)
(* byte or of a character from one call to the next.  A byte is a number,  *)
(* a character its ASCII code; char is signed, as the decoder needs it.    *)
(***************************************************************************)
EXTENDS Integers, Sequences, SequencesExt

Bytes == 0 .. 255

Pad     == 61               \* '='
Newline == 10
Nul     == 0

-----------------------------------------------------------------------------
(* The encoder.                                                            *)

GroupsPerLine == 18         \* CHARS_PER_LINE / 4

EncodeValue(v) ==
    CASE v \in 0 .. 25  -> v + 65
      [] v \in 26 .. 51 -> v + 71
      [] v \in 52 .. 61 -> v - 4
      [] v = 62         -> 43
      [] v = 63         -> 47
      [] OTHER          -> Pad

InitEncode == [step |-> "A", result |-> 0, stepcount |-> 0, out |-> <<>>]

(* The three cases of the switch.                                          *)
EncodeA(s, byte) ==
    [s EXCEPT !.step = "B", !.result = (byte % 4) * 16,
              !.out = Append(@, EncodeValue(byte \div 4))]

EncodeB(s, byte) ==
    [s EXCEPT !.step = "C", !.result = (byte % 16) * 4,
              !.out = Append(@, EncodeValue(s.result + byte \div 16))]

(* Mutant of NextLine: the groups are counted on over the line feed.       *)
NextLineOnce(count) == count + 1

NextLine(count) == IF count + 1 = GroupsPerLine THEN 0 ELSE count + 1

EncodeC(s, byte) ==
    LET next == NextLine(s.stepcount)
    IN  [step |-> "A", result |-> byte % 64, stepcount |-> next,
         out |-> (s.out \o <<EncodeValue(s.result + byte \div 64), EncodeValue(byte % 64)>>)
                     \o (IF next = 0 THEN <<Newline>> ELSE <<>>)]

EncodeByte(s, byte) ==
    CASE s.step = "A" -> EncodeA(s, byte)
      [] s.step = "B" -> EncodeB(s, byte)
      [] s.step = "C" -> EncodeC(s, byte)

EncodeBlock(s, plain) == FoldLeft(EncodeByte, s, plain)

EncodeBlockEnd(s) ==
    CASE s.step = "A" -> Append(s.out, Nul)
      [] s.step = "B" -> s.out \o <<EncodeValue(s.result), Pad, Pad, Nul>>
      [] s.step = "C" -> s.out \o <<EncodeValue(s.result), Pad, Nul>>

(* The bytes that come out of it, and the bytes malloc was asked for: 1.6   *)
(* times the length, cut to an integer.                                     *)
CodeLength(length) == 4 * ((length + 2) \div 3) + length \div (3 * GroupsPerLine) + 1

(* Mutant of BufferSize: four characters for three bytes, and the NUL.     *)
BufferSizeTight(length) == (4 * length) \div 3 + 1

BufferSize(length) ==
    LET size == (8 * length) \div 5 + 1
    IN  IF size > 5 THEN size ELSE 5

-----------------------------------------------------------------------------
(* The decoder.                                                            *)

(* Mutant of DecodeValue: the sign of padding is not looked at.            *)
DecodeValuePad(c) ==
    CASE c \in 65 .. 90  -> c - 65
      [] c \in 97 .. 122 -> c - 71
      [] c \in 48 .. 57  -> c + 4
      [] c = 43          -> 62
      [] c = 47          -> 63
      [] c = Pad         -> 62
      [] OTHER           -> -1

DecodeValue(c) ==
    CASE c \in 65 .. 90  -> c - 65
      [] c \in 97 .. 122 -> c - 71
      [] c \in 48 .. 57  -> c + 4
      [] c = 43          -> 62
      [] c = 47          -> 63
      [] c = Pad         -> -2
      [] OTHER           -> -1

InitDecode == [step |-> "a", plainchar |-> 0, out |-> <<>>]

(* The four cases of the switch, for a fragment that is not negative.  What *)
(* step d leaves in *plainchar is never read.                               *)
DecodeFragment(s, v) ==
    CASE s.step = "a" -> [s EXCEPT !.step = "b", !.plainchar = (v % 64) * 4]
      [] s.step = "b" -> [step |-> "c", plainchar |-> (v % 16) * 16,
                          out |-> Append(s.out, s.plainchar + ((v \div 16) % 4))]
      [] s.step = "c" -> [step |-> "d", plainchar |-> (v % 4) * 64,
                          out |-> Append(s.out, s.plainchar + ((v \div 4) % 16))]
      [] s.step = "d" -> [step |-> "a", plainchar |-> 0,
                          out |-> Append(s.out, s.plainchar + (v % 64))]

DecodeChar(s, c) ==
    IF DecodeValue(c) < 0 THEN s ELSE DecodeFragment(s, DecodeValue(c))

DecodeBlock(s, code) == FoldLeft(DecodeChar, s, code)
=============================================================================
