----------------------------- MODULE FrameStream -----------------------------
(***************************************************************************)
(* One direction of an open connection: sendFrame of src/src/WebSockets.cpp *)
(* writes frames into a stream of bytes that has no frame boundaries, and   *)
(* handleWebsocket reads them again, the header in parts                    *)
(* (handleWebsocketWaitFor, handleWebsocketCb), then the payload            *)
(* (handleWebsocketPayloadCb).  The stream may stall or break anywhere.     *)
(*                                                                         *)
(* Header bytes are modelled one for one.  A payload is its length and the  *)
(* key it is masked with; a read that does not end where a header or a      *)
(* payload ends leaves the reader out of step with the writer for ever.     *)
(***************************************************************************)
EXTENDS Frame

CONSTANTS
    FramesSent,             \* the frames the writer may send
    MaxFrames,              \* it begins at most this many
    MaxDataSize             \* WEBSOCKETS_MAX_DATA_SIZE

ASSUME FrameStreamAssumption ==
    /\ FramesSent \subseteq Frames
    /\ MaxFrames \in Nat
    /\ MaxDataSize \in Nat
    /\ MaxDataSize < SizeMax

Continuation == 0
Text == 1
Binary == 2
CloseFrame == 8
Ping == 9
Pong == 10

Received == {Continuation, Text, Binary, Ping, Pong}

VARIABLES
    up,                     \* both ends still hold the connection
    wire,                   \* what was written and not yet read
    buffer,                 \* cWsHeader, up to the bytes read
    size,                   \* the header bytes handleWebsocketWaitFor waits for;
                            \* 0: between two frames; NoHeader: the payload
    inStep,                 \* the reader's reads end where the frames' parts do
    delivered               \* the frames messageReceived was called with

(* History: the frames sendFrame returned true for, and whether it returned *)
(* false with part of a frame written.                                     *)
VARIABLES sent, cut

vars == <<up, wire, buffer, size, inStep, delivered, sent, cut>>

NoHeader == -1

Packets == [header : Seq(Bytes), length : Sizes, key : Keys]

TypeOK ==
    /\ up \in BOOLEAN
    /\ wire \in Seq(Packets)
    /\ buffer \in Seq(Bytes)
    /\ Len(buffer) <= MaxHeaderSize
    /\ size \in {NoHeader, 0, 2, 4, 6, 8, 10, 14}
    /\ inStep \in BOOLEAN
    /\ delivered \in Seq(Frames)
    /\ sent \in Seq(Frames)
    /\ cut \in BOOLEAN

Init ==
    /\ up = TRUE
    /\ wire = <<>>
    /\ buffer = <<>>
    /\ size = 0
    /\ inStep = TRUE
    /\ delivered = <<>>
    /\ sent = <<>>
    /\ cut = FALSE

-----------------------------------------------------------------------------
(* What createHeader put into the bytes the header's size reserved.         *)
HeaderSent(f) == SubSeq(CreateHeader(f), 1, HeaderSize(f.length, f.mask))

FramesBegun == Len(sent) + (IF cut THEN 1 ELSE 0)

(* sendFrame: header and payload, in one write or in two.                   *)
SendFrame(f) ==
    /\ up
    /\ FramesBegun < MaxFrames
    /\ sent' = Append(sent, f)
    /\ wire' = Append(wire, [header |-> HeaderSent(f), length |-> f.length, key |-> f.key])
    /\ UNCHANGED <<up, buffer, size, inStep, delivered, cut>>

(* A write that gives up after its timeout has written k bytes of the       *)
(* header, or n of the payload, or both when they are two writes: the       *)
(* second is tried whatever became of the first.  The connection stays up.  *)
(* One cut per behaviour: the reader never recovers from it.                *)
WriteGivesUp(f, k, n) ==
    /\ up
    /\ ~cut
    /\ FramesBegun < MaxFrames
    /\ k < HeaderSize(f.length, f.mask) \/ n < f.length
    /\ k > 0 \/ n > 0
    /\ k < HeaderSize(f.length, f.mask) => n \in {0, f.length}
    /\ cut' = TRUE
    /\ wire' = Append(wire, [header |-> SubSeq(HeaderSent(f), 1, k), length |-> n, key |-> f.key])
    /\ UNCHANGED <<up, buffer, size, inStep, delivered, sent>>

(* The connection breaks; what is on its way is lost.                       *)
Breaks ==
    /\ up
    /\ up' = FALSE
    /\ UNCHANGED <<wire, buffer, size, inStep, delivered, sent, cut>>

-----------------------------------------------------------------------------
(* handleWebsocket enters handleWebsocketCb with an empty buffer.           *)
StartFrame ==
    /\ up
    /\ size = 0
    /\ buffer = <<>>
    /\ wire # <<>>
    /\ size' = 2
    /\ UNCHANGED <<up, wire, buffer, inStep, delivered, sent, cut>>

(* clientDisconnect: 1000 for a close frame, 1002, 1009 or 1011.            *)
GiveUp ==
    /\ up' = FALSE
    /\ buffer' = <<>>
    /\ size' = 0

(* Mutant of FrameRead: cWsRXsize is not reset.                             *)
FrameReadNoReset(f) ==
    IF f.opcode \in Received
    THEN /\ delivered' = Append(delivered, f)
         /\ size' = 0
         /\ UNCHANGED <<up, buffer>>
    ELSE GiveUp /\ UNCHANGED delivered

(* handleWebsocketPayloadCb.  The pong that answers a ping goes the other   *)
(* way.                                                                    *)
FrameRead(f) ==
    IF f.opcode \in Received
    THEN /\ delivered' = Append(delivered, f)
         /\ buffer' = <<>>
         /\ size' = 0
         /\ UNCHANGED up
    ELSE GiveUp /\ UNCHANGED delivered

(* handleWebsocketCb, from the top, with the bytes in b.                    *)
NextPart(b) ==
    \/ /\ Len(b) < LengthEnd(b)
       /\ buffer' = b
       /\ size' = LengthEnd(b)
       /\ UNCHANGED <<up, delivered>>
    \/ /\ Len(b) >= LengthEnd(b)
       /\ PayloadLen(b) > MaxDataSize
       /\ GiveUp
       /\ UNCHANGED delivered
    \/ /\ Len(b) >= LengthEnd(b)
       /\ PayloadLen(b) <= MaxDataSize
       /\ Len(b) < HeaderEnd(b)
       /\ buffer' = b
       /\ size' = HeaderEnd(b)
       /\ UNCHANGED <<up, delivered>>
    \/ /\ Len(b) >= HeaderEnd(b)
       /\ PayloadLen(b) \in 1 .. MaxDataSize
       /\ \/ buffer' = b /\ size' = NoHeader /\ UNCHANGED up
          \/ GiveUp                                \* malloc failed
       /\ UNCHANGED delivered
    \/ /\ Len(b) >= HeaderEnd(b)
       /\ PayloadLen(b) = 0
       /\ FrameRead(Decoded(b))

(* The reader takes the bytes in b for a whole frame.                       *)
NoPayload(b) == Len(b) >= HeaderEnd(b) /\ PayloadLen(b) = 0

(* readCb of the next bytes of the header.                                  *)
ReadHeader ==
    /\ up
    /\ size > 0
    /\ inStep
    /\ wire # <<>>
    /\ LET packet == Head(wire)
           n == size - Len(buffer)
           b == buffer \o SubSeq(packet.header, 1, n)
       IN  /\ Len(packet.header) >= n
           /\ wire' = IF Len(packet.header) = n /\ packet.length = 0 /\ NoPayload(b)
                      THEN Tail(wire)
                      ELSE [wire EXCEPT ![1].header = SubSeq(@, n + 1, Len(@))]
           /\ NextPart(b)
    /\ UNCHANGED <<inStep, sent, cut>>

(* readCb of the payload, unmasked with the key in the buffer.              *)
ReadPayload ==
    /\ up
    /\ size = NoHeader
    /\ inStep
    /\ wire # <<>>
    /\ Head(wire).header = <<>>
    /\ Head(wire).length = PayloadLen(buffer)
    /\ Head(wire).key = MaskKey(buffer)
    /\ wire' = Tail(wire)
    /\ FrameRead(Decoded(buffer))
    /\ UNCHANGED <<inStep, sent, cut>>

(* Header bytes read as payload, payload read as header bytes, or a payload *)
(* unmasked with the wrong key: what is delivered from here on is noise.    *)
OutOfStep ==
    /\ up
    /\ inStep
    /\ wire # <<>>
    /\ \/ /\ size > 0
          /\ Len(Head(wire).header) < size - Len(buffer)
       \/ /\ size = NoHeader
          /\ \/ Head(wire).header # <<>>
             \/ Head(wire).length # PayloadLen(buffer)
             \/ Head(wire).key # MaskKey(buffer)
    /\ inStep' = FALSE
    /\ UNCHANGED <<up, wire, buffer, size, delivered, sent, cut>>

(* readCb's timeout in the middle of a frame.                               *)
ReadTimeout ==
    /\ up
    /\ size # 0
    /\ GiveUp
    /\ UNCHANGED <<wire, inStep, delivered, sent, cut>>

-----------------------------------------------------------------------------
Read == StartFrame \/ ReadHeader \/ ReadPayload \/ OutOfStep

Next ==
    \/ \E f \in FramesSent : SendFrame(f)
    \/ \E f \in FramesSent : \E k \in 0 .. HeaderSize(f.length, f.mask),
                              n \in {0, f.length, f.length - 1} \cap Nat : WriteGivesUp(f, k, n)
    \/ Breaks
    \/ Read
    \/ ReadTimeout

Spec == Init /\ [][Next]_vars

(* The sketch calls loop() for ever, so what has come is read.              *)
FairSpec == Spec /\ WF_vars(Read)

-----------------------------------------------------------------------------
(* Reader and writer agree on where every frame begins and on the key of    *)
(* every payload: the size reserved for a header, the header written and    *)
(* the parts it is read in fit for every length, masked or not.  Only a     *)
(* write that gave up half way puts them out of step.                       *)
InStep == ~inStep => cut

(* Two promises over the whole life of the connection: the reader delivers  *)
(* what sendFrame said it sent, in order, every frame whole and once, until *)
(* the connection ends or a frame was cut ...                               *)
Channel == INSTANCE MessageChannel WITH
    Messages <- FramesSent, open <- up /\ inStep

ChannelSpec == Channel!Spec

(* ... and, until then, all of them.                                        *)
AllDelivered ==
    Len(delivered) < Len(sent) ~> (~up \/ ~inStep \/ Len(delivered) = Len(sent))
=============================================================================
