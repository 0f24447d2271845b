-------------------------- MODULE WebSocketsClient --------------------------
(***************************************************************************)
(* src/src/WebSocketsClient.{h,cpp}, the single-threaded builds (every     *)
(* network type but ESP8266_ASYNC): one connection driven by loop(), the   *)
(* HTTP upgrade, the frames, the heartbeat, the reconnect pause and the    *)
(* calls the sketch makes between two loops and inside its event callback. *)
(*                                                                         *)
(* One pass of loop() is up to four steps, and pc says which comes next:   *)
(* "app" (the sketch runs, loop() is about to be entered), "data"          *)
(* (handleClientData), "ping" (handleHBPing), "timeout" (handleHBTimeout). *)
(* The clock ticks and the peer vanishes between any two of them.          *)
(***************************************************************************)
EXTENDS WebSockets

CONSTANTS
    ReconnectInterval,      \* _reconnectInterval
    TcpTimeout,             \* WEBSOCKETS_TCP_TIMEOUT
    IsSocketIO,             \* _client.isSocketIO
    PinnedCert,             \* isSSL and SSL_FINGERPRINT_IS_SET, on a build with verify()
    HeartbeatOn,            \* the sketch calls enableHeartbeat right after begin()
    ServerLines,            \* the header lines the server may send
    ServerFrames,           \* the kinds of frames the server may send
    AppCalls,               \* the calls the sketch makes
    NetworkFails,           \* connections break, connects and writes fail
    Horizon,                \* the clock stops at this reading; ClockMod: it never does
    MaxLag                  \* at most this many ticks from one loop() to the next

Codes == {"none", "101", "200", "other"}

Lines == (Codes \ {"none"}) \union
         {"upgrade", "websocket", "accept", "wrong accept", "cookie", "ignored"}

Frames == {"message", "ping", "pong", "close", "malformed"}

Calls == {"disconnect", "send", "sendPing", "enableHeartbeat", "disableHeartbeat", "begin"}

ASSUME ClientAssumption ==
    /\ ReconnectInterval \in 1 .. ClockMod - 1
    /\ TcpTimeout \in Nat
    /\ MaxLag \in Nat \ {0}
    /\ Horizon \in 0 .. ClockMod
    /\ {IsSocketIO, PinnedCert, HeartbeatOn, NetworkFails} \subseteq BOOLEAN
    /\ ServerLines \subseteq Lines
    /\ ServerFrames \subseteq Frames
    /\ AppCalls \subseteq Calls

VARIABLES
    now,                    \* millis()
    lag,                    \* ticks since loop() was last entered
    pc,
    tcp,                    \* "null", or whether the object's connected() says yes
    status,
    resp,                   \* cCode, cIsUpgrade, cIsWebsocket, cAccept, cSessionId
    rx,                     \* cWsRXsize # 0: a frame header is half read
    hb,
    lastConnectionFail,
    lastHeaderSent

(* History: what the sketch was told, what the server really said, and the *)
(* true ages that the code only knows modulo the width of its clock.       *)
VARIABLES
    told,                   \* the last lifecycle event was WStype_CONNECTED
    debt,                   \* sockets created minus WStype_DISCONNECTED events
    seen,                   \* the response lines received on this socket
    failAge,                \* ticks since the last failure, up to ReconnectInterval
    headerAge,              \* ticks since the last request, up to HeaderAgeCap
    pingAge,                \* ticks since the unanswered ping of this socket, or NoPing
    misses                  \* pong timeouts on this socket since a pong came in time

link    == <<tcp, status, resp, lastConnectionFail, told, debt, failAge>>
request == <<lastHeaderSent, headerAge>>
pings   == <<hb, pingAge, misses>>
vars    == <<now, lag, pc, link, request, pings, rx, seen>>

NoPing == -1
HeaderAgeCap == TcpTimeout + 2 * MaxLag + 1
Older(age, cap) == IF age < cap THEN age + 1 ELSE cap

Responses == [code : Codes, upgrade : BOOLEAN, websocket : BOOLEAN,
              accept : {"none", "good", "bad"}, sid : BOOLEAN]

(* What clientDisconnect leaves; begin() differs in cIsWebsocket.          *)
NoResponse == [code |-> "none", upgrade |-> FALSE, websocket |-> FALSE,
               accept |-> "none", sid |-> FALSE]
BegunResponse == [NoResponse EXCEPT !.websocket = TRUE]

Begun(h) == [h EXCEPT !.lastPing = 0, !.pongReceived = FALSE, !.pongTimeoutCount = 0]

TypeOK ==
    /\ now \in Millis
    /\ lag \in 0 .. MaxLag
    /\ pc \in {"app", "data", "ping", "timeout"}
    /\ tcp \in {"null", "open", "lost"}
    /\ status \in Statuses
    /\ resp \in Responses
    /\ rx \in BOOLEAN
    /\ hb \in Heartbeats
    /\ lastConnectionFail \in Millis
    /\ lastHeaderSent \in Millis
    /\ told \in BOOLEAN
    /\ debt \in Int
    /\ seen \in Responses
    /\ failAge \in 0 .. ReconnectInterval
    /\ headerAge \in 0 .. HeaderAgeCap
    /\ pingAge \in NoPing .. PongTimeout + 1
    /\ misses \in 0 .. DisconnectTimeoutCount

(* After begin(), and enableHeartbeat if the sketch uses it.               *)
Init ==
    /\ now \in (IF Horizon = ClockMod THEN Millis ELSE {0})
    /\ lag = 0
    /\ pc = "app"
    /\ tcp = "null"
    /\ status = "NOT_CONNECTED"
    /\ resp = BegunResponse
    /\ rx = FALSE
    /\ hb = IF HeartbeatOn THEN EnableHeartbeat(NoHeartbeat) ELSE NoHeartbeat
    /\ lastConnectionFail = 0
    /\ lastHeaderSent = 0
    /\ told = FALSE
    /\ debt = 0
    /\ seen = NoResponse
    /\ failAge = ReconnectInterval
    /\ headerAge = HeaderAgeCap
    /\ pingAge = NoPing
    /\ misses = 0

-----------------------------------------------------------------------------
(* The environment.                                                        *)

Tick ==
    /\ lag < MaxLag
    /\ now # Horizon
    /\ now' = (now + 1) % ClockMod
    /\ lag' = lag + 1
    /\ failAge' = Older(failAge, ReconnectInterval)
    /\ headerAge' = Older(headerAge, HeaderAgeCap)
    /\ pingAge' = IF pingAge = NoPing THEN NoPing ELSE Older(pingAge, PongTimeout + 1)
    /\ UNCHANGED <<pc, tcp, status, resp, lastConnectionFail, told, debt,
                   lastHeaderSent, hb, misses, rx, seen>>

PeerDrops ==
    /\ NetworkFails
    /\ tcp = "open"
    /\ tcp' = "lost"
    /\ UNCHANGED <<now, lag, pc, status, resp, lastConnectionFail, told, debt, failAge,
                   request, pings, rx, seen>>

-----------------------------------------------------------------------------
(***************************************************************************)
(* clientDisconnect(client, reason): stop and delete the network object,   *)
(* forget the response, remember the time, and tell the sketch if there    *)
(* was an object.  The close frame that clientDisconnect(client, code)     *)
(* sends first changes nothing here.                                       *)
(***************************************************************************)

(* Mutant of ForgetResponse: the response outlives its connection.         *)
KeepResponse == UNCHANGED resp

ForgetResponse == resp' = NoResponse

(* Mutant of RememberFailure: only a failed connect sets the time.         *)
KeepFailure == failAge' = 0 /\ UNCHANGED lastConnectionFail

RememberFailure == failAge' = 0 /\ lastConnectionFail' = now

(* Mutant of ReportDisconnect: event = true only if the object still was   *)
(* connected.                                                              *)
ReportOpenOnly ==
    /\ told' = (told /\ tcp # "open")
    /\ debt' = IF tcp = "open" THEN debt - 1 ELSE debt

ReportDisconnect ==
    /\ told' = (told /\ tcp = "null")
    /\ debt' = IF tcp = "null" THEN debt ELSE debt - 1

Disconnect ==
    /\ tcp' = "null"
    /\ status' = "NOT_CONNECTED"
    /\ ForgetResponse
    /\ RememberFailure
    /\ ReportDisconnect

(* sendHeader: a new random key, so an accept value read before no longer   *)
(* matches it; the write to a connection that is gone is lost.              *)
NewKey(r) == [r EXCEPT !.accept = IF @ = "good" THEN "bad" ELSE @]

RequestSent ==
    /\ lastHeaderSent' = now
    /\ headerAge' = 0

(* Mutant of IsConnected: the test of client->tcp is left to the status.   *)
StatusConnected == status # "NOT_CONNECTED"

(* clientIsConnected answers this, after it has cleaned up a dead socket.   *)
IsConnected == tcp = "open" /\ status # "NOT_CONNECTED"

(* An event callback may call disconnect(), and any send that finds the     *)
(* connection broken cleans it up.                                          *)
CallbackDisconnects ==
    \/ "disconnect" \in AppCalls
    \/ tcp = "lost" /\ AppCalls \intersect {"send", "sendPing"} # {}

-----------------------------------------------------------------------------
(* loop()                                                                  *)

EnterLoop ==
    /\ pc = "app"
    /\ lag' = 0
    /\ UNCHANGED now

(* Mutant of ReconnectDue: the sum of two readings instead of a difference. *)
ReconnectDueAt == now >= lastConnectionFail + ReconnectInterval

ReconnectDue == Elapsed(now, lastConnectionFail) >= ReconnectInterval

(* A dead socket is cleaned up, which restarts the pause; otherwise the    *)
(* pause is not over ("do not flood the server").                          *)
LoopWaits ==
    /\ EnterLoop
    /\ ~IsConnected
    /\ IF tcp = "null" THEN ~ReconnectDue /\ UNCHANGED link ELSE Disconnect
    /\ UNCHANGED <<pc, request, pings, rx, seen>>

StartsConnect ==
    /\ EnterLoop
    /\ tcp = "null"
    /\ ReconnectDue
    /\ seen' = NoResponse
    /\ pingAge' = NoPing
    /\ misses' = 0
    /\ UNCHANGED <<pc, hb, rx>>

(* The object stays behind, not connected, for the next loop() to clean up. *)
ConnectFails ==
    /\ NetworkFails
    /\ StartsConnect
    /\ tcp' = "lost"
    /\ lastConnectionFail' = now
    /\ debt' = debt + 1
    /\ failAge' = 0
    /\ UNCHANGED <<status, resp, told, request>>

(* connectedCb and the sendHeader in it.                                   *)
ConnectSucceeds ==
    /\ StartsConnect
    /\ tcp' = "open"
    /\ status' = "HEADER"
    /\ resp' = NewKey(resp)
    /\ RequestSent
    /\ lastConnectionFail' = 0
    /\ debt' = debt + 1
    /\ UNCHANGED <<told, failAge>>

(* connectedCb disconnects when verify() rejects the certificate, and       *)
(* loop() then clears the time clientDisconnect has just remembered.        *)
ConnectMismatch ==
    /\ PinnedCert
    /\ StartsConnect
    /\ status' = "NOT_CONNECTED"
    /\ resp' = NoResponse
    /\ lastConnectionFail' = 0
    /\ told' = FALSE
    /\ failAge' = 0
    /\ UNCHANGED <<tcp, debt, request>>

LoopConnected ==
    /\ EnterLoop
    /\ IsConnected
    /\ pc' = "data"
    /\ UNCHANGED <<link, request, pings, rx, seen>>

-----------------------------------------------------------------------------
(* handleClientData, and the handleHeader it calls.                        *)

(* Mutants of HeaderOverdue: one tick early; forgetting the body.          *)
HeaderOverdueEarly ==
    /\ status \in {"HEADER", "BODY"}
    /\ (lastHeaderSent + TcpTimeout) % ClockMod <= now
HeaderOverdueUntilBody ==
    /\ status = "HEADER"
    /\ (lastHeaderSent + TcpTimeout) % ClockMod < now

(* The sum wraps with the clock: this is not Elapsed(now, lastHeaderSent). *)
HeaderOverdue ==
    /\ status \in {"HEADER", "BODY"}
    /\ (lastHeaderSent + TcpTimeout) % ClockMod < now

ReadsData ==
    /\ pc = "data"
    /\ ~HeaderOverdue
    /\ UNCHANGED <<now, lag>>

HeaderTimeout ==
    /\ pc = "data"
    /\ HeaderOverdue
    /\ pc' = "app"
    /\ Disconnect
    /\ UNCHANGED <<now, lag, request, pings, rx, seen>>

(* Nothing available, or a half-read frame header (handleWebsocket).       *)
NoData ==
    /\ ReadsData
    /\ pc' = IF status = "CONNECTED" THEN "ping" ELSE "app"
    /\ UNCHANGED <<link, request, pings, rx, seen>>

AfterLine(r, line) ==
    CASE line \in Codes         -> [r EXCEPT !.code = line]
      [] line = "upgrade"       -> [r EXCEPT !.upgrade = TRUE]
      [] line = "websocket"     -> [r EXCEPT !.websocket = TRUE]
      [] line = "accept"        -> [r EXCEPT !.accept = "good"]
      [] line = "wrong accept"  -> [r EXCEPT !.accept = "bad"]
      [] line = "cookie"        -> [r EXCEPT !.sid = TRUE]
      [] OTHER                  -> r

(* A chunk of a body without a session id is parsed like a header line.    *)
ReadLine(line) ==
    /\ ReadsData
    /\ status \in {"HEADER", "BODY"}
    /\ resp' = AfterLine(resp, line)
    /\ seen' = AfterLine(seen, line)
    /\ pc' = "app"
    /\ UNCHANGED <<tcp, status, lastConnectionFail, told, debt, failAge,
                   request, pings, rx>>

(* The verdicts on a response that has ended.  A client that leaves the     *)
(* handshake for good, and one that finds the socket gone, both disconnect; *)
(* only the status LostBeforeBody leaves behind differs.                    *)
Upgraded(r) == r.upgrade /\ r.websocket
CodeAccepted(r) == r.code = "101" \/ (IsSocketIO /\ r.code = "200")
Refused(r) == Upgraded(r) /\ ~CodeAccepted(r)
Accepted(r) == Upgraded(r) /\ CodeAccepted(r) /\ r.accept = "good"
NeedsBody(r) == IsSocketIO /\ ~r.sid

AwaitBody(r) ==
    /\ NeedsBody(r)
    /\ tcp = "open"
    /\ status' = "BODY"
    /\ pc' = "app"
    /\ UNCHANGED <<tcp, resp, lastConnectionFail, told, debt, failAge,
                   request, pings, rx, seen>>

LostBeforeBody(r) ==
    /\ NeedsBody(r)
    /\ tcp = "lost"
    /\ tcp' = "null"
    /\ status' = "HEADER"
    /\ ForgetResponse
    /\ RememberFailure
    /\ ReportDisconnect
    /\ pc' = "app"
    /\ UNCHANGED <<request, pings, rx, seen>>

HandshakeFails(r) ==
    /\ ~NeedsBody(r)
    /\ Refused(r) \/ (~Accepted(r) /\ ~IsSocketIO)
    /\ Disconnect
    /\ pc' = "app"
    /\ UNCHANGED <<request, pings, rx, seen>>

(* Socket.IO asks again with the session id it has.                        *)
AskAgain(r) ==
    /\ IsSocketIO
    /\ r.sid
    /\ ~Refused(r)
    /\ ~Accepted(r)
    /\ RequestSent
    /\ IF tcp = "open"
       THEN /\ status' = "HEADER"
            /\ resp' = NewKey(r)
            /\ UNCHANGED <<tcp, lastConnectionFail, told, debt, failAge>>
       ELSE Disconnect
    /\ seen' = NewKey(seen)
    /\ pc' = "app"
    /\ UNCHANGED <<pings, rx>>

(* Mutant of HeaderDone: cWsRXsize is left as the last connection left it. *)
HeaderDoneKeepsRx == UNCHANGED rx

HeaderDone == rx' = FALSE

(* headerDone, the WStype_CONNECTED event and what its callback may do.    *)
Established(r) ==
    /\ ~NeedsBody(r)
    /\ Accepted(r)
    /\ HeaderDone
    /\ \/ /\ status' = "CONNECTED"
          /\ resp' = r
          /\ told' = TRUE
          /\ pc' = "ping"
          /\ UNCHANGED <<tcp, lastConnectionFail, debt, failAge>>
       \/ /\ CallbackDisconnects
          /\ Disconnect
          /\ pc' = "app"
    /\ UNCHANGED <<request, pings, seen>>

HeaderEnd(r) ==
    \/ AwaitBody(r)
    \/ LostBeforeBody(r)
    \/ HandshakeFails(r)
    \/ AskAgain(r)
    \/ Established(r)

(* An empty header line, or a body chunk of white space.                   *)
ReadBlank ==
    /\ ReadsData
    /\ status \in {"HEADER", "BODY"}
    /\ HeaderEnd(resp)

ReadSessionId ==
    /\ ReadsData
    /\ status = "BODY"
    /\ ~resp.sid
    /\ HeaderEnd([resp EXCEPT !.sid = TRUE])

-----------------------------------------------------------------------------
(* handleWebsocket: one whole frame, read with readCb until it is there.    *)

ReadsFrame(kind) ==
    /\ ReadsData
    /\ status = "CONNECTED"
    /\ ~rx
    /\ kind \in ServerFrames

(* messageReceived runs the callback after a pong has been noted.           *)
ReadMessage(kind) ==
    /\ ReadsFrame(kind)
    /\ kind \in {"message", "ping", "pong"}
    /\ IF kind = "pong"
       THEN /\ hb' = PongNoted(hb)
            /\ pingAge' = NoPing
            /\ misses' = IF pingAge \in 0 .. PongTimeout THEN 0 ELSE misses
       ELSE UNCHANGED pings
    /\ \/ /\ pc' = "ping"
          /\ UNCHANGED link
       \/ /\ CallbackDisconnects
          /\ Disconnect
          /\ pc' = "app"
    /\ UNCHANGED <<request, rx, seen>>

ReadClose ==
    /\ ReadsFrame("close")
    /\ Disconnect
    /\ pc' = "app"
    /\ UNCHANGED <<request, pings, rx, seen>>

(* An unknown opcode or a missing header (1002) leaves cWsRXsize at 0; a    *)
(* payload that is too big (1009), does not fit the heap (1011) or never    *)
(* comes (1002) does not.                                                   *)
ReadMalformed ==
    /\ ReadsFrame("malformed")
    /\ Disconnect
    /\ rx' \in BOOLEAN
    /\ pc' = "app"
    /\ UNCHANGED <<request, pings, seen>>

(* The connection breaks between two parts of a frame header:               *)
(* handleWebsocketCb returns and leaves it half read.                       *)
FrameCut ==
    /\ ReadsData
    /\ status = "CONNECTED"
    /\ tcp = "lost"
    /\ rx' = TRUE
    /\ pc' = "ping"
    /\ UNCHANGED <<link, request, pings, seen>>

-----------------------------------------------------------------------------
(* handleHBPing and handleHBTimeout.                                       *)

PingNotDue ==
    /\ pc = "ping"
    /\ ~PingDue(hb, now)
    /\ pc' = "timeout"
    /\ UNCHANGED <<now, lag, link, request, pings, rx, seen>>

PingPeer ==
    /\ pc = "ping"
    /\ PingDue(hb, now)
    /\ tcp = "open"
    /\ hb' = PingSent(hb, now)
    /\ pingAge' = 0
    /\ pc' = "timeout"
    /\ UNCHANGED <<now, lag, link, request, misses, rx, seen>>

(* The connection is gone or the write times out.  handleHBTimeout still    *)
(* runs afterwards.                                                         *)
PingFails ==
    /\ pc = "ping"
    /\ PingDue(hb, now)
    /\ NetworkFails
    /\ Disconnect
    /\ pc' = "timeout"
    /\ UNCHANGED <<now, lag, request, pings, rx, seen>>

HBTimeout ==
    /\ pc = "timeout"
    /\ hb' = CheckPong(hb, now)
    /\ misses' = IF PongOverdue(hb, now) THEN Older(misses, DisconnectTimeoutCount) ELSE misses
    /\ IF GivesUp(hb, now) THEN Disconnect ELSE UNCHANGED link
    /\ pc' = "app"
    /\ UNCHANGED <<now, lag, request, pingAge, rx, seen>>

-----------------------------------------------------------------------------
(* What the sketch calls between two loops.                                *)

Call(name) ==
    /\ pc = "app"
    /\ name \in AppCalls
    /\ UNCHANGED <<now, lag, pc>>

AppDisconnect ==
    /\ Call("disconnect")
    /\ tcp # "null"
    /\ Disconnect
    /\ UNCHANGED <<request, pings, rx, seen>>

(* sendTXT and sendBIN clean up a connection they find broken.             *)
AppSend ==
    /\ Call("send")
    /\ tcp = "lost"
    /\ Disconnect
    /\ UNCHANGED <<request, pings, rx, seen>>

AppSendPing ==
    /\ Call("sendPing")
    /\ \/ /\ tcp = "lost"
          /\ Disconnect
          /\ UNCHANGED pings
       \/ /\ tcp = "open"
          /\ status = "CONNECTED"
          /\ hb' = [hb EXCEPT !.lastPing = now]
          /\ pingAge' = 0
          /\ UNCHANGED <<misses, link>>
    /\ UNCHANGED <<request, rx, seen>>

AppEnableHeartbeat ==
    /\ Call("enableHeartbeat")
    /\ hb' = EnableHeartbeat(hb)
    /\ UNCHANGED <<link, request, pingAge, misses, rx, seen>>

AppDisableHeartbeat ==
    /\ Call("disableHeartbeat")
    /\ hb' = DisableHeartbeat(hb)
    /\ UNCHANGED <<link, request, pingAge, misses, rx, seen>>

(* disconnect() and then begin() again, to the same kind of server.        *)
AppRestart ==
    /\ Call("begin")
    /\ tcp' = "null"
    /\ status' = "NOT_CONNECTED"
    /\ resp' = BegunResponse
    /\ hb' = Begun(hb)
    /\ lastConnectionFail' = 0
    /\ lastHeaderSent' = 0
    /\ told' = FALSE
    /\ debt' = IF tcp = "null" THEN debt ELSE debt - 1
    /\ failAge' = ReconnectInterval
    /\ UNCHANGED <<headerAge, pingAge, misses, rx, seen>>

-----------------------------------------------------------------------------
Loop ==
    \/ LoopWaits \/ ConnectFails \/ ConnectSucceeds \/ ConnectMismatch \/ LoopConnected
    \/ HeaderTimeout \/ NoData
    \/ \E line \in ServerLines : ReadLine(line)
    \/ ReadBlank \/ ReadSessionId
    \/ \E kind \in ServerFrames : ReadMessage(kind)
    \/ ReadClose \/ ReadMalformed \/ FrameCut
    \/ PingNotDue \/ PingPeer \/ PingFails \/ HBTimeout

App ==
    \/ AppDisconnect \/ AppSend \/ AppSendPing
    \/ AppEnableHeartbeat \/ AppDisableHeartbeat \/ AppRestart

Next == Tick \/ PeerDrops \/ Loop \/ App

Spec == Init /\ [][Next]_vars

(* The sketch calls loop() forever, and time passes.                       *)
FairSpec == Spec /\ WF_vars(Loop) /\ WF_vars(Tick)

-----------------------------------------------------------------------------
(***************************************************************************)
(* What the client promises its sketch.                                    *)
(***************************************************************************)

(* runCbEvent and isConnected() agree: between two steps the last lifecycle *)
(* event the sketch was sent is WStype_CONNECTED exactly when the status is *)
(* WSC_CONNECTED, whichever of the ways down was taken.                     *)
AppView == told <=> status = "CONNECTED"

(* Every network object loop() creates is reported by exactly one           *)
(* WStype_DISCONNECTED, when it is deleted: clientDisconnect is reached on  *)
(* many paths, several of them twice for one object.                        *)
EverySocketReportedOnce == debt = IF tcp = "null" THEN 0 ELSE 1

(* A connection that is up starts every frame with an empty header buffer:  *)
(* cWsRXsize survives a connection that breaks or is given up in the middle *)
(* of a frame, and handleWebsocket reads nothing while it is not 0.         *)
RxReady == status = "CONNECTED" /\ tcp = "open" => ~rx

(* handleClientData calls _client.tcp->available() without a test: loop()   *)
(* lets it run only when there is an object, and so only with a status that *)
(* has data to read.                                                        *)
NoNullDeref == pc = "data" => tcp # "null" /\ status # "NOT_CONNECTED"

(* All of that over time: the client is one place for connections, which    *)
(* open, come up and end in order, each end reported before the next opens.  *)
Stage == IF tcp = "null" THEN "none" ELSE IF status = "CONNECTED" THEN "up" ELSE "opening"

Connection == INSTANCE Connections WITH
    Places <- {0},
    stage  <- [c \in {0} |-> Stage],
    told   <- [c \in {0} |-> told],
    owed   <- [c \in {0} |-> debt]

ConnectionSpec == Connection!Spec

(* WSC_CONNECTED is reached only on what the server said on this very       *)
(* socket: an accepted code, Connection: Upgrade and the accept value of    *)
(* the key that was sent last.                                              *)
HandshakeComplete ==
    status = "CONNECTED" =>
        /\ seen.code = "101" \/ (IsSocketIO /\ seen.code = "200")
        /\ seen.upgrade
        /\ seen.accept = "good"

(* loop() starts no connection before ReconnectInterval has really passed   *)
(* since the last failed attempt or lost connection ("do not flood the      *)
(* server").                                                                *)
PacedReconnect ==
    [][(ConnectFails \/ ConnectSucceeds \/ ConnectMismatch) => failAge = ReconnectInterval]_vars

(* A handshake is given up for its age only when it is older than           *)
(* WEBSOCKETS_TCP_TIMEOUT.                                                  *)
HeaderTimeoutSound ==
    [][HeaderTimeout => headerAge > TcpTimeout]_vars

(* ... and none stays open longer than that and the two loops it takes to   *)
(* notice.                                                                  *)
HandshakeBounded ==
    status \in {"HEADER", "BODY"} /\ tcp = "open" => headerAge < HeaderAgeCap

HeartbeatDrop == pc = "timeout" /\ status = "CONNECTED" /\ status' # "CONNECTED"

(* The heartbeat drops a peer only after DisconnectTimeoutCount timeouts in *)
(* a row on this connection.                                                *)
EnoughMisses == [][HeartbeatDrop => misses' = DisconnectTimeoutCount]_vars

(* The heartbeat gets an answer from the peer or drops it, if it is left on. *)
SilentPeerDropped ==
    (status = "CONNECTED" /\ hb.enabled)
        ~> (hb.pongReceived \/ status # "CONNECTED" \/ ~hb.enabled)

(* A client without a connection goes on trying to make one: it gets a       *)
(* socket, or has just failed to (ConnectMismatch leaves no socket behind),  *)
(* again and again.                                                        *)
Retries == []<>(tcp # "null" \/ failAge = 0)
=============================================================================
