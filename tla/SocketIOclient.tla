--------------------------- MODULE SocketIOclient ---------------------------
(***************************************************************************)
(* src/src/SocketIOclient.{h,cpp}: a WebSocketsClient whose event callback *)
(* is handleCbEvent and whose loop() has a second half, the Engine.IO      *)
(* ping.  As the class extends WebSocketsClient, so does the module: a     *)
(* step is a step of the client in which the callback does what            *)
(* handleCbEvent does.  AppCalls has "send" in it for the sends the class  *)
(* makes by itself.                                                        *)
(***************************************************************************)
EXTENDS WebSocketsClient

CONSTANT EioInterval        \* EIO_HEARTBEAT_INTERVAL

ASSUME SocketIOAssumption ==
    /\ EioInterval \in Nat \ {0}
    /\ IsSocketIO
    /\ "send" \in AppCalls

VARIABLES
    inLoop,                 \* the second half of loop() is still to come
    disableHeartbeat,       \* _disableHeartbeat
    lastHeartbeat           \* _lastHeartbeat

(* History: what the sketch believes, from the last sIOtype_CONNECT or     *)
(* sIOtype_DISCONNECT it was sent, and how long the server of this         *)
(* connection has waited for an Engine.IO ping, up to EioAgeCap.           *)
VARIABLES view, eioAge

eioVars == <<disableHeartbeat, lastHeartbeat>>
ioVars  == <<vars, inLoop, eioVars, view, eioAge>>

(* "left": the server's own sIOtype_DISCONNECT packet was the last event.   *)
(* "late": sIOtype_CONNECT was, sent by a callback whose connection had     *)
(* been cleaned up, and reported, in the middle of it.                      *)
Views == {"disconnected", "connected", "left", "late"}

EioAgeCap == EioInterval + 4 * MaxLag + 1

(* The types of the client and of what SocketIOclient adds to it.          *)
IOTypeOK ==
    /\ TypeOK
    /\ inLoop \in BOOLEAN
    /\ disableHeartbeat \in BOOLEAN
    /\ lastHeartbeat \in Millis
    /\ view \in Views
    /\ eioAge \in 0 .. EioAgeCap

(* begin() with an EIO=3 or an EIO=4 URL (initClient).                     *)
IOInit ==
    /\ Init
    /\ inLoop = FALSE
    /\ disableHeartbeat \in BOOLEAN
    /\ lastHeartbeat = 0
    /\ view = "disconnected"
    /\ eioAge = 0

-----------------------------------------------------------------------------
(* handleCbEvent.                                                          *)

(* clientDisconnect has sent WStype_DISCONNECTED in this step.             *)
Reported == debt' < debt \/ ConnectMismatch

(* Mutant of PassedOn: only a disconnect with a reason is passed on.       *)
PassedOnWithReason == Reported /\ tcp = "lost"

(* sIOtype_DISCONNECT, with a payload or without.                          *)
PassedOn == Reported

NoNewView == view' = IF PassedOn THEN "disconnected" ELSE view

(* WStype_CONNECTED: the probe is sent first, and cleans up a connection    *)
(* that is gone; sIOtype_CONNECT is sent all the same.  Its callback may    *)
(* disconnect.                                                              *)
Greets ==
    IF tcp = "lost"
    THEN /\ status' = "NOT_CONNECTED"
         /\ view' = "late"
    ELSE view' = IF PassedOn THEN "disconnected" ELSE "connected"

HeaderEvents(r) == IF Accepted(r) /\ ~NeedsBody(r) THEN Greets ELSE NoNewView

(* WStype_TEXT, by what the packet is: an Engine.IO ping is answered, which *)
(* finds out a broken connection; of the messages, the server's CONNECT is  *)
(* not passed on; the other packets, short ones, and the other frames, are  *)
(* ignored.                                                                 *)
EioPacket == tcp = "lost" <=> status' = "NOT_CONNECTED"

SioDisconnect == view' = IF PassedOn THEN "disconnected" ELSE "left"

Ignored == status' = status

PacketEvents(kind) ==
    \/ kind = "message" /\ EioPacket /\ NoNewView
    \/ kind = "message" /\ SioDisconnect
    \/ kind = "message" /\ NoNewView
    \/ Ignored /\ NoNewView

-----------------------------------------------------------------------------
(* loop(): the pass of WebSocketsClient::loop(), then the ping.            *)

(* The server of a connection that is up, and is to be sent pings, waits.  *)
Waiting == status = "CONNECTED" /\ ~disableHeartbeat

KeepAge == eioAge' = IF Waiting' THEN eioAge ELSE 0

InBaseLoop ==
    /\ pc = "app" => ~inLoop
    /\ inLoop' = TRUE
    /\ UNCHANGED eioVars

BaseLoop ==
    /\ InBaseLoop
    /\ \/ /\ \/ LoopWaits \/ ConnectFails \/ ConnectSucceeds \/ ConnectMismatch
             \/ LoopConnected \/ HeaderTimeout \/ NoData
             \/ \E line \in ServerLines : ReadLine(line)
             \/ ReadClose \/ ReadMalformed \/ FrameCut
             \/ PingNotDue \/ PingPeer \/ PingFails \/ HBTimeout
          /\ NoNewView
       \/ ReadBlank /\ HeaderEvents(resp)
       \/ ReadSessionId /\ HeaderEvents([resp EXCEPT !.sid = TRUE])
       \/ \E kind \in ServerFrames : ReadMessage(kind) /\ PacketEvents(kind)
    /\ KeepAge

(* Mutant of EioPingDue: the difference is signed.                         *)
EioPingDueSigned ==
    /\ ~disableHeartbeat
    /\ now - lastHeartbeat > EioInterval

(* t - _lastHeartbeat is computed with 64 bits: a clock that has wrapped    *)
(* since makes it huge.                                                     *)
EioPingDue ==
    /\ ~disableHeartbeat
    /\ now < lastHeartbeat \/ now - lastHeartbeat > EioInterval

InEioPart ==
    /\ pc = "app"
    /\ inLoop
    /\ inLoop' = FALSE

EioNotDue ==
    /\ InEioPart
    /\ ~EioPingDue
    /\ UNCHANGED <<vars, eioVars, view>>
    /\ KeepAge

(* Mutant of CleanUp: the dead connection is only marked as such.          *)
JustMark == status' = "NOT_CONNECTED" /\ UNCHANGED <<tcp, resp, lastConnectionFail, told, debt, failAge>>

(* clientIsConnected in sendTXT.                                           *)
CleanUp == IF tcp = "lost" THEN Disconnect ELSE UNCHANGED link

(* Mutant of EioPing: _lastHeartbeat is advanced by the interval.          *)
EioPingAdvances ==
    /\ InEioPart
    /\ EioPingDue
    /\ lastHeartbeat' = lastHeartbeat + EioInterval
    /\ CleanUp
    /\ eioAge' = 0
    /\ UNCHANGED <<now, lag, pc, request, pings, rx, seen, disableHeartbeat>>
    /\ NoNewView

(* sendTXT(eIOtype_PING): the time is set whatever comes of it; a           *)
(* connection that is not up is sent nothing.                               *)
EioPing ==
    /\ InEioPart
    /\ EioPingDue
    /\ lastHeartbeat' = now
    /\ CleanUp
    /\ eioAge' = 0
    /\ UNCHANGED <<now, lag, pc, request, pings, rx, seen, disableHeartbeat>>
    /\ NoNewView

-----------------------------------------------------------------------------
(* What the sketch calls between two loops.                                *)

SketchCall == ~inLoop /\ UNCHANGED inLoop

SketchDisconnect == SketchCall /\ AppDisconnect /\ NoNewView /\ UNCHANGED eioVars /\ KeepAge
SketchSend       == SketchCall /\ AppSend /\ NoNewView /\ UNCHANGED eioVars /\ KeepAge

(* begin(): an EIO=4 URL turns the ping off, an EIO=3 URL does not turn it  *)
(* on again (initClient).                                                   *)
SketchBegin(eio4) ==
    /\ SketchCall
    /\ AppRestart
    /\ NoNewView
    /\ disableHeartbeat' = (disableHeartbeat \/ eio4)
    /\ UNCHANGED lastHeartbeat
    /\ KeepAge

ConfigureEIOping(disable) ==
    /\ SketchCall
    /\ pc = "app"
    /\ disableHeartbeat' = disable
    /\ UNCHANGED <<vars, lastHeartbeat, view>>
    /\ KeepAge

-----------------------------------------------------------------------------
Environment ==
    /\ UNCHANGED <<inLoop, eioVars, view>>
    /\ \/ Tick /\ eioAge' = IF Waiting THEN Older(eioAge, EioAgeCap) ELSE 0
       \/ PeerDrops /\ KeepAge

IONext ==
    \/ Environment
    \/ BaseLoop \/ EioNotDue \/ EioPing
    \/ SketchDisconnect \/ SketchSend
    \/ \E eio4 \in BOOLEAN : SketchBegin(eio4)
    \/ \E disable \in BOOLEAN : ConfigureEIOping(disable)

IOSpec == IOInit /\ [][IONext]_ioVars

-----------------------------------------------------------------------------
(***************************************************************************)
(* What the Socket.IO client promises.                                     *)
(***************************************************************************)

(* It is a WebSocketsClient: whatever the second half of loop() and the     *)
(* sends inside handleCbEvent do to the connection, the client underneath   *)
(* could have done by itself, and what is proved of it holds of this one.   *)
ImplementsClient == Spec

(* The sketch knows whether it is connected: its last event is              *)
(* sIOtype_CONNECT, or a packet of the server, while the connection is up,  *)
(* and sIOtype_DISCONNECT while it is not, but for the one CONNECT that     *)
(* handleCbEvent sends after the DISCONNECT of the same connection.         *)
IOView == status = "CONNECTED" <=> view \in {"connected", "left"}

(* The server of an EIO=3 connection is sent a ping before it has waited    *)
(* much longer than EIO_HEARTBEAT_INTERVAL: _lastHeartbeat is 64 bits wide,  *)
(* is also set by pings that no connection was there for, and outlives      *)
(* connections and the wraps of the clock.  Two loops more than a clock that *)
(* does not wrap needs: a _lastHeartbeat from before the wrap can lie a     *)
(* little ahead of the clock when the ping is switched on again.            *)
EioPingsKeepComing ==
    status = "CONNECTED" /\ tcp = "open" => eioAge < EioAgeCap
=============================================================================
