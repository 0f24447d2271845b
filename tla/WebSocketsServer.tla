-------------------------- MODULE WebSocketsServer --------------------------
(***************************************************************************)
(* src/src/WebSocketsServer.{h,cpp}, the builds with a polled listening    *)
(* socket (ESP8266, ESP32, RP2040): a fixed array of client slots that the *)
(* sockets of the peers come and go in, each with its own HTTP upgrade,    *)
(* frames and heartbeat, and the calls the sketch makes between two loops. *)
(*                                                                         *)
(* loop() accepts the waiting peers and then serves the slots in turn.  pc *)
(* is the next step of it: "app" (the sketch runs, loop() is about to be   *)
(* entered), "accept" (handleNewClients), and for the slot cur "data",     *)
(* "ping" and "timeout" (handleClientData).                                *)
(***************************************************************************)
EXTENDS WebSockets, FiniteSets

CONSTANTS
    MaxClients,             \* WEBSOCKETS_SERVER_CLIENT_MAX
    Peers,                  \* those that may connect, one socket at a time
    NoPeer,                 \* tcp == NULL
    AuthRequired,           \* _base64Authorization is set
    MandatoryHeaders,       \* _mandatoryHttpHeaders
    HeartbeatOn,            \* the sketch calls enableHeartbeat before begin()
    ClientLines,            \* the request lines the peers may send
    ClientFrames,           \* the kinds of frames the peers may send
    AppCalls,               \* the calls the sketch makes
    WritesFail,             \* a write to an open connection may time out
    Horizon,                \* the clock stops at this reading; ClockMod: it never does
    MaxLag                  \* at most this many ticks from one loop() to the next

Slots == 0 .. MaxClients - 1

Lines == {"get", "upgrade", "websocket", "version", "other version", "key",
          "auth", "other auth", "rejected", "ignored"}

Frames == {"message", "pong", "close", "malformed"}

Calls == {"disconnect", "send", "enableHeartbeat", "disableHeartbeat", "close", "begin"}

ASSUME ServerAssumption ==
    /\ MaxClients \in Nat \ {0}
    /\ NoPeer \notin Peers
    /\ {AuthRequired, HeartbeatOn, WritesFail} \subseteq BOOLEAN
    /\ IsFiniteSet(MandatoryHeaders)
    /\ MandatoryHeaders \intersect Lines = {}
    /\ ClientLines \subseteq Lines \union MandatoryHeaders
    /\ ClientFrames \subseteq Frames
    /\ AppCalls \subseteq Calls
    /\ Horizon \in 0 .. ClockMod
    /\ MaxLag \in Nat \ {0}

VARIABLES
    now,                    \* millis()
    lag,                    \* ticks since loop() was last entered
    pc, cur,
    running,                \* _runnning
    heartbeat,              \* _pingInterval # 0
    net,                    \* where each peer's socket is
    slot                    \* _clients

(* History: what the sketch was told about each slot, what the peer in it  *)
(* really sent, and the pings it really got.                               *)
VARIABLES
    told,                   \* the slot's last lifecycle event was WStype_CONNECTED
    owed,                   \* sockets put into the slot minus WStype_DISCONNECTED events
    seen,                   \* the request lines since the socket came that still count
    pingAge,                \* ticks since the unanswered ping, up to PongTimeout + 1
    misses                  \* pong timeouts since the socket came

place  == <<net, slot, told, owed>>
pings  == <<pingAge, misses>>
vars   == <<now, lag, pc, cur, running, heartbeat, place, seen, pings>>

NoPing == -1
Older(age, cap) == IF age < cap THEN age + 1 ELSE cap

(* cMandatoryHeadersCount is only compared with the number of mandatory    *)
(* headers: one more stands for every larger count.                        *)
MandatoryCap == Cardinality(MandatoryHeaders) + 1

Requests == [url : BOOLEAN, upgrade : BOOLEAN, websocket : BOOLEAN, key : BOOLEAN,
             version13 : BOOLEAN, auth : BOOLEAN, valid : BOOLEAN,
             mandatory : 0 .. MandatoryCap]

(* No constructor sets cMandatoryHeadersCount of the array's first elements. *)
Unset(count) == [url |-> FALSE, upgrade |-> FALSE, websocket |-> FALSE, key |-> FALSE,
                 version13 |-> FALSE, auth |-> FALSE, valid |-> FALSE, mandatory |-> count]

(* What a peer sent: its lines, and how many were of mandatory headers.     *)
SeenLines == [lines : SUBSET Lines, mandatory : 0 .. MandatoryCap]

NothingSeen == [lines |-> {}, mandatory |-> 0]

EmptySlot(count, h) == [tcp |-> NoPeer, status |-> "NOT_CONNECTED", req |-> Unset(count),
                        rx |-> FALSE, hb |-> h]

TypeOK ==
    /\ now \in Millis
    /\ lag \in 0 .. MaxLag
    /\ pc \in {"app", "accept", "data", "ping", "timeout"}
    /\ cur \in Slots
    /\ running \in BOOLEAN
    /\ heartbeat \in BOOLEAN
    /\ net \in [Peers -> {"away", "waiting", "open", "lost"}]
    /\ slot \in [Slots -> [tcp : Peers \union {NoPeer}, status : Statuses \ {"BODY"},
                           req : Requests, rx : BOOLEAN, hb : Heartbeats]]
    /\ told \in [Slots -> BOOLEAN]
    /\ owed \in [Slots -> {-1, 0, 1}]
    /\ seen \in [Slots -> SeenLines]
    /\ pingAge \in [Slots -> NoPing .. PongTimeout + 1]
    /\ misses \in [Slots -> 0 .. DisconnectTimeoutCount]

(* After begin().                                                          *)
Init ==
    /\ now \in (IF Horizon = ClockMod THEN Millis ELSE {0})
    /\ lag = 0
    /\ pc = "app"
    /\ cur = 0
    /\ running = TRUE
    /\ heartbeat = HeartbeatOn
    /\ net = [p \in Peers |-> "away"]
    /\ \E counts \in [Slots -> 0 .. MandatoryCap] :
           slot = [i \in Slots |->
                       EmptySlot(counts[i], [NoHeartbeat EXCEPT !.enabled = HeartbeatOn])]
    /\ told = [i \in Slots |-> FALSE]
    /\ owed = [i \in Slots |-> 0]
    /\ seen = [i \in Slots |-> NothingSeen]
    /\ pingAge = [i \in Slots |-> NoPing]
    /\ misses = [i \in Slots |-> 0]

-----------------------------------------------------------------------------
(* The environment.                                                        *)

Tick ==
    /\ lag < MaxLag
    /\ now # Horizon
    /\ now' = (now + 1) % ClockMod
    /\ lag' = lag + 1
    /\ pingAge' = [i \in Slots |->
                       IF pingAge[i] = NoPing THEN NoPing
                       ELSE Older(pingAge[i], PongTimeout + 1)]
    /\ UNCHANGED <<pc, cur, running, heartbeat, place, seen, misses>>

PeerMoves(p, from, to) ==
    /\ net[p] = from
    /\ net' = [net EXCEPT ![p] = to]
    /\ UNCHANGED <<now, lag, pc, cur, running, heartbeat, slot, told, owed, seen, pings>>

PeerConnects(p) == PeerMoves(p, "away", "waiting")
PeerGivesUp(p)  == PeerMoves(p, "waiting", "away")
PeerDrops(p)    == PeerMoves(p, "open", "lost")

-----------------------------------------------------------------------------
(***************************************************************************)
(* A slot whose socket the server still sees connected.  Everything that    *)
(* asks clientIsConnected drops the socket of a slot that is not.          *)
(***************************************************************************)

Occupied(i) == slot[i].tcp # NoPeer

IsConnected(i) ==
    /\ Occupied(i)
    /\ net[slot[i].tcp] = "open"
    /\ slot[i].status # "NOT_CONNECTED"

(* Mutant of Forgotten: cIsUpgrade and cIsWebsocket are not cleared.        *)
ForgottenText(r) == [r EXCEPT !.url = FALSE, !.key = FALSE, !.version13 = FALSE]

(* The part of the request clientDisconnect clears.                        *)
Forgotten(r) == [r EXCEPT !.url = FALSE, !.key = FALSE, !.version13 = FALSE,
                          !.upgrade = FALSE, !.websocket = FALSE]

(* Mutant of Disconnected: the status is left as it was.                    *)
DisconnectedKeepsStatus(s) == [s EXCEPT !.tcp = NoPeer, !.req = Forgotten(@), !.rx = FALSE]

Disconnected(s) == [s EXCEPT !.tcp = NoPeer, !.status = "NOT_CONNECTED",
                             !.req = Forgotten(@), !.rx = FALSE]

(***************************************************************************)
(* clientDisconnect of every slot in D, after a step that turned _clients   *)
(* into s and the events into t: the socket is stopped and deleted, and    *)
(* WStype_DISCONNECTED is sent, to an empty slot as well.                  *)
(***************************************************************************)
SlotsAfter(s, D) == [i \in Slots |-> IF i \in D THEN Disconnected(s[i]) ELSE s[i]]

ToldAfter(t, D) == [i \in Slots |-> t[i] /\ i \notin D]

(* Mutant of OwedAfter: clientIsConnected cleans up the socket of a lost    *)
(* client twice.                                                           *)
OwedAfterTwice(D) ==
    [i \in Slots |->
        IF i \in D /\ owed[i] >= 0
        THEN IF Occupied(i) /\ net[slot[i].tcp] = "lost" THEN -1 ELSE owed[i] - 1
        ELSE owed[i]]

(* -1 stands for every event too many.                                     *)
OwedAfter(D) == [i \in Slots |-> IF i \in D /\ owed[i] >= 0 THEN owed[i] - 1 ELSE owed[i]]

(* Mutant of NetAfter: a socket that is no longer connected is not deleted. *)
NetAfterStop(D) ==
    [p \in Peers |-> IF net[p] = "open" /\ \E i \in D : slot[i].tcp = p THEN "away" ELSE net[p]]

NetAfter(D) == [p \in Peers |-> IF \E i \in D : slot[i].tcp = p THEN "away" ELSE net[p]]

Leave(s, t, D) ==
    /\ slot' = SlotsAfter(s, D)
    /\ told' = ToldAfter(t, D)
    /\ owed' = OwedAfter(D)
    /\ net' = NetAfter(D)

(* The slots a callback may empty: disconnect() any, and a send those whose *)
(* connection it finds lost.                                               *)
CallbackDrops ==
    {i \in Slots :
        /\ Occupied(i)
        /\ \/ "disconnect" \in AppCalls
           \/ "send" \in AppCalls /\ net[slot[i].tcp] = "lost"}

-----------------------------------------------------------------------------
(* loop(): handleNewClients.                                               *)

EnterLoop ==
    /\ pc = "app"
    /\ running
    /\ lag' = 0
    /\ pc' = "accept"
    /\ UNCHANGED <<now, cur, running, heartbeat, place, seen, pings>>

FirstFree(i) ==
    /\ ~IsConnected(i)
    /\ \A j \in 0 .. i - 1 : IsConnected(j)

FreshHeartbeat ==
    [enabled |-> heartbeat, lastPing |-> now, pongReceived |-> FALSE, pongTimeoutCount |-> 0]

(* Mutant of Taken: the timeouts of the slot's last peer still count.       *)
TakenOver(s, p) ==
    [s EXCEPT !.tcp = p, !.status = "HEADER",
              !.hb = [FreshHeartbeat EXCEPT !.pongTimeoutCount = s.hb.pongTimeoutCount]]

Taken(s, p) == [s EXCEPT !.tcp = p, !.status = "HEADER", !.hb = FreshHeartbeat]

(* handleHeader: what a line does to the request so far.                   *)
AfterLine(r, line) ==
    CASE line = "get"              -> [r EXCEPT !.url = TRUE, !.valid = TRUE, !.mandatory = 0]
      [] line = "upgrade"          -> [r EXCEPT !.upgrade = TRUE]
      [] line = "websocket"        -> [r EXCEPT !.websocket = TRUE]
      [] line = "key"              -> [r EXCEPT !.key = TRUE]
      [] line \in {"version", "other version"} -> [r EXCEPT !.version13 = (line = "version")]
      [] line \in {"auth", "other auth"}       -> [r EXCEPT !.auth = (line = "auth")]
      [] line = "rejected"         -> [r EXCEPT !.valid = FALSE]
      [] line \in MandatoryHeaders -> [r EXCEPT !.mandatory = Older(@, MandatoryCap)]
      [] OTHER                     -> r

(* A web server's hook has read the first line, the listening socket none.  *)
NoLine == "no line"

GivenLine(s, line) == [s EXCEPT !.req = AfterLine(@, line)]

(* A GET begins the headers anew; the last version and Authorization count. *)
Superseded(line) ==
    CASE line = "get"           -> {"rejected"}
      [] line = "version"       -> {"other version"}
      [] line = "other version" -> {"version"}
      [] line = "auth"          -> {"other auth"}
      [] line = "other auth"    -> {"auth"}
      [] OTHER                  -> {}

SeenAfter(s, line) ==
    [lines     |-> (s.lines \ Superseded(line)) \union ({line} \intersect Lines),
     mandatory |-> IF line = "get" THEN 0
                   ELSE IF line \in MandatoryHeaders THEN Older(s.mandatory, MandatoryCap)
                   ELSE s.mandatory]

(* newClient: the first free slot takes the socket, after the one it may    *)
(* still hold has been cleaned up.                                         *)
NewClient(p, line) ==
    /\ net[p] = "waiting"
    /\ \E i \in Slots, S \in SUBSET CallbackDrops :
           LET D == IF Occupied(i) THEN S \union {i} ELSE {} IN
           /\ FirstFree(i)
           /\ slot' = [SlotsAfter(slot, D) EXCEPT ![i] = GivenLine(Taken(@, p), line)]
           /\ told' = ToldAfter(told, D)
           /\ owed' = [OwedAfter(D) EXCEPT ![i] = @ + 1]
           /\ net' = [NetAfter(D) EXCEPT ![p] = "open"]
           /\ seen' = [seen EXCEPT ![i] = SeenAfter(NothingSeen, line)]
           /\ pingAge' = [pingAge EXCEPT ![i] = NoPing]
           /\ misses' = [misses EXCEPT ![i] = 0]
    /\ UNCHANGED <<now, lag, pc, cur, running, heartbeat>>

Accept(p) == pc = "accept" /\ NewClient(p, NoLine)

(* Mutant of NoFreeSpace: the dummy that is to drop the socket is forgotten. *)
NoFreeSpaceForgets(p) ==
    /\ net[p] = "waiting"
    /\ \A i \in Slots : IsConnected(i)
    /\ net' = [net EXCEPT ![p] = "open"]
    /\ UNCHANGED <<now, lag, pc, cur, running, heartbeat, slot, told, owed, seen, pings>>

(* No free space: handleNewClient drops the socket.                        *)
NoFreeSpace(p) ==
    /\ net[p] = "waiting"
    /\ \A i \in Slots : IsConnected(i)
    /\ net' = [net EXCEPT ![p] = "away"]
    /\ UNCHANGED <<now, lag, pc, cur, running, heartbeat, slot, told, owed, seen, pings>>

AcceptFull(p) == pc = "accept" /\ NoFreeSpace(p)

AcceptDone ==
    /\ pc = "accept"
    /\ \A p \in Peers : net[p] # "waiting"
    /\ pc' = "data"
    /\ cur' = 0
    /\ UNCHANGED <<now, lag, running, heartbeat, place, seen, pings>>

NextSlot ==
    IF cur + 1 \in Slots
    THEN pc' = "data" /\ cur' = cur + 1
    ELSE pc' = "app" /\ cur' = 0

-----------------------------------------------------------------------------
(* handleClientData of the slot cur, and the handleHeader it calls.        *)

SkipSlot ==
    /\ pc = "data"
    /\ ~IsConnected(cur)
    /\ IF Occupied(cur)
       THEN \E S \in SUBSET CallbackDrops : Leave(slot, told, S \union {cur})
       ELSE UNCHANGED place
    /\ NextSlot
    /\ UNCHANGED <<now, lag, running, heartbeat, seen, pings>>

ReadsData ==
    /\ pc = "data"
    /\ IsConnected(cur)
    /\ pc' = "ping"
    /\ UNCHANGED <<now, lag, cur, running, heartbeat>>

NoData ==
    /\ ReadsData
    /\ UNCHANGED <<place, seen, pings>>

ReadLine(line) ==
    /\ ReadsData
    /\ slot[cur].status = "HEADER"
    /\ slot' = [slot EXCEPT ![cur].req = AfterLine(@, line)]
    /\ seen' = [seen EXCEPT ![cur] = SeenAfter(@, line)]
    /\ UNCHANGED <<net, told, owed, pings>>

(* The verdict on a request that has ended.  A wrong authorization and a    *)
(* request that is no upgrade get their answers and are dropped.           *)
Authorized(r) == AuthRequired => r.auth

UpgradeOk(r) ==
    r.upgrade /\ r.websocket /\ r.url /\ r.key /\ r.version13 /\ r.valid
      /\ r.mandatory = Cardinality(MandatoryHeaders)

HandshakeFails ==
    /\ ReadsData
    /\ slot[cur].status = "HEADER"
    /\ ~(UpgradeOk(slot[cur].req) /\ Authorized(slot[cur].req))
    /\ \E S \in SUBSET CallbackDrops : Leave(slot, told, S \union {cur})
    /\ UNCHANGED <<seen, pings>>

(* headerDone, the first ping, which is not written to lastPing, the        *)
(* WStype_CONNECTED event and what its callback may do.                    *)
Established ==
    /\ ReadsData
    /\ slot[cur].status = "HEADER"
    /\ UpgradeOk(slot[cur].req) /\ Authorized(slot[cur].req)
    /\ \E S \in SUBSET CallbackDrops :
           Leave([slot EXCEPT ![cur].status = "CONNECTED", ![cur].rx = FALSE],
                 [told EXCEPT ![cur] = TRUE], S)
    /\ pingAge' = [pingAge EXCEPT ![cur] = 0]
    /\ UNCHANGED <<seen, misses>>

-----------------------------------------------------------------------------
(* handleWebsocket: one whole frame, read with readCb until it is there.    *)

ReadsFrame(kind) ==
    /\ ReadsData
    /\ slot[cur].status = "CONNECTED"
    /\ ~slot[cur].rx
    /\ kind \in ClientFrames

(* messageReceived runs the callback after a pong has been noted.           *)
ReadMessage(kind) ==
    /\ ReadsFrame(kind)
    /\ kind \in {"message", "pong"}
    /\ \E S \in SUBSET CallbackDrops :
           Leave(IF kind = "pong" THEN [slot EXCEPT ![cur].hb = PongNoted(@)] ELSE slot,
                 told, S)
    /\ IF kind = "pong"
       THEN pingAge' = [pingAge EXCEPT ![cur] = NoPing]
       ELSE UNCHANGED pingAge
    /\ UNCHANGED <<seen, misses>>

(* A close frame, or one that is refused: an unknown opcode, a part that    *)
(* never comes (1002), a payload too big (1009) or with no heap (1011).    *)
ReadLastFrame(kind) ==
    /\ ReadsFrame(kind)
    /\ kind \in {"close", "malformed"}
    /\ \E S \in SUBSET CallbackDrops : Leave(slot, told, S \union {cur})
    /\ UNCHANGED <<seen, pings>>

(* The connection breaks between two parts of a frame header:               *)
(* handleWebsocketCb returns and leaves it half read.                       *)
FrameCut ==
    /\ ReadsData
    /\ slot[cur].status = "CONNECTED"
    /\ ~slot[cur].rx
    /\ ClientFrames # {}
    /\ slot' = [slot EXCEPT ![cur].rx = TRUE]
    /\ net' = [net EXCEPT ![slot[cur].tcp] = "lost"]
    /\ UNCHANGED <<told, owed, seen, pings>>

-----------------------------------------------------------------------------
(***************************************************************************)
(* handleHBPing and handleHBTimeout of the slot cur.  They run for a slot   *)
(* that handleHeader or handleWebsocket has just emptied as well.          *)
(***************************************************************************)

PingNotDue ==
    /\ pc = "ping"
    /\ ~PingDue(slot[cur].hb, now)
    /\ pc' = "timeout"
    /\ UNCHANGED <<now, lag, cur, running, heartbeat, place, seen, pings>>

PingPeer ==
    /\ pc = "ping"
    /\ PingDue(slot[cur].hb, now)
    /\ IsConnected(cur)
    /\ slot[cur].status = "CONNECTED"
    /\ slot' = [slot EXCEPT ![cur].hb = PingSent(@, now)]
    /\ pingAge' = [pingAge EXCEPT ![cur] = 0]
    /\ pc' = "timeout"
    /\ UNCHANGED <<now, lag, cur, running, heartbeat, net, told, owed, seen, misses>>

(* sendPing fails: the slot is empty, its connection is lost (and cleaned   *)
(* up), it is still in the handshake, or the write times out.              *)
PingFails ==
    /\ pc = "ping"
    /\ PingDue(slot[cur].hb, now)
    /\ IF Occupied(cur) /\ ~IsConnected(cur)
       THEN \E S \in SUBSET CallbackDrops : Leave(slot, told, S \union {cur})
       ELSE /\ WritesFail \/ slot[cur].status # "CONNECTED"
            /\ UNCHANGED place
    /\ pc' = "timeout"
    /\ UNCHANGED <<now, lag, cur, running, heartbeat, seen, pings>>

HBTimeout ==
    /\ pc = "timeout"
    /\ LET h == slot[cur].hb
           checked == [slot EXCEPT ![cur].hb = CheckPong(h, now)]
       IN  /\ IF GivesUp(h, now)
              THEN \E S \in SUBSET CallbackDrops : Leave(checked, told, S \union {cur})
              ELSE slot' = checked /\ UNCHANGED <<net, told, owed>>
           /\ misses' = [misses EXCEPT ![cur] =
                             IF PongOverdue(h, now) THEN Older(@, DisconnectTimeoutCount) ELSE @]
    /\ NextSlot
    /\ UNCHANGED <<now, lag, running, heartbeat, seen, pingAge>>

-----------------------------------------------------------------------------
(* What the sketch calls between two loops.                                *)

Call(name) ==
    /\ pc = "app"
    /\ name \in AppCalls
    /\ UNCHANGED <<now, lag, pc, cur, seen, pings>>

(* Mutant of AllOccupied: close() leaves those still in the handshake.      *)
AllEstablished == {i \in Slots : Occupied(i) /\ slot[i].status = "CONNECTED"}

AllOccupied == {i \in Slots : Occupied(i)}

LostSlots == {i \in Slots : Occupied(i) /\ net[slot[i].tcp] = "lost"}

(* Every call asks clientIsConnected first, which cleans up a lost client:  *)
(* sendTXT, sendBIN, sendPing, clientIsConnected and remoteIP that of one   *)
(* slot, the broadcasts that of every slot.  A frame, or a ping, that is    *)
(* written changes nothing here.                                           *)
AppSend(i) ==
    /\ Call("send")
    /\ i \in LostSlots
    /\ \E S \in SUBSET CallbackDrops : Leave(slot, told, S \union {i})
    /\ UNCHANGED <<running, heartbeat>>

AppBroadcast ==
    /\ Call("send")
    /\ LostSlots # {}
    /\ \E S \in SUBSET CallbackDrops : Leave(slot, told, S \union LostSlots)
    /\ UNCHANGED <<running, heartbeat>>

(* connectedClients(true) pings those that were upgraded, so it only cleans *)
(* up these.                                                               *)
AppPingConnected ==
    LET lost == {i \in LostSlots : slot[i].status = "CONNECTED"} IN
    /\ Call("send")
    /\ lost # {}
    /\ \E S \in SUBSET CallbackDrops : Leave(slot, told, S \union lost)
    /\ UNCHANGED <<running, heartbeat>>

AppDisconnect(i) ==
    /\ Call("disconnect")
    /\ Occupied(i)
    /\ \E S \in SUBSET CallbackDrops : Leave(slot, told, S \union {i})
    /\ UNCHANGED <<running, heartbeat>>

AppDisconnectAll ==
    /\ Call("disconnect")
    /\ Leave(slot, told, AllOccupied)
    /\ UNCHANGED <<running, heartbeat>>

AppEnableHeartbeat ==
    /\ Call("enableHeartbeat")
    /\ heartbeat' = TRUE
    /\ slot' = [i \in Slots |-> [slot[i] EXCEPT !.hb = EnableHeartbeat(@)]]
    /\ UNCHANGED <<running, net, told, owed>>

AppDisableHeartbeat ==
    /\ Call("disableHeartbeat")
    /\ heartbeat' = FALSE
    /\ slot' = [i \in Slots |-> [slot[i] EXCEPT !.hb = DisableHeartbeat(@)]]
    /\ UNCHANGED <<running, net, told, owed>>

(* close(): disconnect() every client, then reset the array.               *)
AppClose ==
    /\ Call("close")
    /\ running' = FALSE
    /\ slot' = [i \in Slots |-> EmptySlot(0, NoHeartbeat)]
    /\ told' = ToldAfter(told, AllOccupied)
    /\ owed' = OwedAfter(AllOccupied)
    /\ net' = NetAfter(AllOccupied)
    /\ UNCHANGED heartbeat

(* begin() sets num and the heartbeat of every slot, and nothing else.      *)
AppBegin ==
    /\ Call("begin")
    /\ running' = TRUE
    /\ slot' = [i \in Slots |-> [slot[i] EXCEPT !.hb.enabled = heartbeat]]
    /\ UNCHANGED <<heartbeat, net, told, owed>>

-----------------------------------------------------------------------------
Environment ==
    \/ Tick
    \/ \E p \in Peers : PeerConnects(p) \/ PeerGivesUp(p) \/ PeerDrops(p)

(* handleClientData.                                                       *)
Serve ==
    \/ SkipSlot \/ NoData
    \/ \E line \in ClientLines : ReadLine(line)
    \/ HandshakeFails \/ Established
    \/ \E kind \in ClientFrames : ReadMessage(kind) \/ ReadLastFrame(kind)
    \/ FrameCut
    \/ PingNotDue \/ PingPeer \/ PingFails \/ HBTimeout

Loop ==
    \/ EnterLoop \/ AcceptDone
    \/ \E p \in Peers : Accept(p) \/ AcceptFull(p)
    \/ Serve

(* sendTXT, broadcastTXT, sendBIN, broadcastBIN, sendPing, broadcastPing.   *)
AppSends == AppBroadcast \/ \E i \in Slots : AppSend(i)

App ==
    \/ AppSends \/ AppPingConnected
    \/ AppDisconnectAll \/ \E i \in Slots : AppDisconnect(i)
    \/ AppEnableHeartbeat \/ AppDisableHeartbeat \/ AppClose \/ AppBegin

Next == Environment \/ Loop \/ App

Spec == Init /\ [][Next]_vars

(* The sketch calls loop() forever, and time passes.                       *)
FairSpec == Spec /\ WF_vars(Loop) /\ WF_vars(Tick)

-----------------------------------------------------------------------------
(***************************************************************************)
(* What the server promises.                                               *)
(***************************************************************************)

(* Every accepted socket that is not yet deleted is in exactly one slot,    *)
(* and no slot holds a socket that was deleted: newClient, the clean-ups of *)
(* clientIsConnected and dropNativeClient neither leak nor share one.      *)
SocketsConserved ==
    \A p \in Peers :
        Cardinality({i \in Slots : slot[i].tcp = p}) =
            IF net[p] \in {"open", "lost"} THEN 1 ELSE 0

(* runCbEvent agrees with the slots: the last lifecycle event of a slot is  *)
(* WStype_CONNECTED exactly when its status is WSC_CONNECTED.              *)
AppView == \A i \in Slots : told[i] <=> slot[i].status = "CONNECTED"

(* Every slot is a place for connections, which open, come up and end in     *)
(* order; every socket put into it ends with one WStype_DISCONNECTED of the  *)
(* slot, however it is found to be gone, before the next one is opened.     *)
Stage(i) ==
    IF ~Occupied(i) THEN "none" ELSE IF slot[i].status = "CONNECTED" THEN "up" ELSE "opening"

Connection == INSTANCE Connections WITH
    Places <- Slots,
    stage  <- [i \in Slots |-> Stage(i)]

ConnectionSpec == Connection!Spec

(* A slot is upgraded only after its present peer has sent a GET, both        *)
(* upgrade headers, a key, version 13 as the last version and, since the     *)
(* last GET, as many lines of mandatory headers as there are such headers    *)
(* (the code counts, it does not tell them apart) and none that the          *)
(* validator rejects.  What an earlier peer of the slot sent stands in for   *)
(* none of these.  Where the sketch asks for an authorization, the last one  *)
(* this peer sent, if it sent any, was the right one; that it sent one is    *)
(* not said, because the slot keeps the one of the peer before.              *)
HandshakeComplete ==
    \A i \in Slots :
        slot[i].status = "CONNECTED" =>
            /\ {"get", "upgrade", "websocket", "key", "version"} \subseteq seen[i].lines
            /\ seen[i].mandatory = Cardinality(MandatoryHeaders)
            /\ "rejected" \notin seen[i].lines
            /\ AuthRequired => "other auth" \notin seen[i].lines

(* A closed server holds no socket, whatever its clients were doing.        *)
ClosedHoldsNone ==
    ~running => \A p \in Peers : net[p] \in {"away", "waiting"}

HeartbeatDrop(i) ==
    pc = "timeout" /\ cur = i /\ Occupied(i) /\ slot'[i].tcp = NoPeer

(* The heartbeat drops an upgraded peer only when a ping of this connection *)
(* has been unanswered for longer than PongTimeout ...                     *)
DropsOnlyUnansweredPeer ==
    [][\A i \in Slots :
           HeartbeatDrop(i) /\ slot[i].status = "CONNECTED" => pingAge[i] > PongTimeout]_vars

(* ... and only after DisconnectTimeoutCount timeouts of this connection,   *)
(* none of them inherited from the slot's last peer.                       *)
EnoughMisses ==
    [][\A i \in Slots : HeartbeatDrop(i) => misses'[i] = DisconnectTimeoutCount]_vars

(* With a heartbeat no peer stays in the handshake for ever: its slot is    *)
(* upgraded or given back.                                                 *)
HandshakeEnds ==
    \A i \in Slots : (slot[i].status = "HEADER") ~> (slot[i].status # "HEADER")

(* A slot whose peer no longer answers is given back.                      *)
SilentPeerDropped ==
    \A i \in Slots :
        slot[i].status = "CONNECTED" ~> (slot[i].hb.pongReceived \/ slot[i].status # "CONNECTED")

(* A lost socket is deleted, without any help of the sketch.                *)
LostReleased == \A p \in Peers : (net[p] = "lost") ~> (net[p] # "lost")
=============================================================================
