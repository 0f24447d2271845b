----------------------- MODULE WebSocketsServer_proofs ----------------------
(***************************************************************************)
(* Proofs about WebSocketsServer, for every number of slots, peers and     *)
(* mandatory headers and every heartbeat configuration: type correctness,  *)
(* and the safety properties that follow from the invariant Inv below,     *)
(* which says slot by slot how the socket, the status, the events and the  *)
(* request fit together, and that sockets and slots match one to one.      *)
(***************************************************************************)
EXTENDS WebSocketsServer, FiniteSetTheorems, TLAPS

USE HeartbeatAssumption, ServerAssumption

-----------------------------------------------------------------------------
(* The operators the actions are built from keep their types.              *)

(* A remainder is below its modulus: every clock reading is one.           *)
LEMMA RemainderInRange ==
    ASSUME NEW a \in Int, NEW m \in Nat \ {0}
    PROVE  a % m \in 0 .. m - 1
  BY SMT

(* A saturating counter stays within its cap.                              *)
LEMMA OlderType ==
    ASSUME NEW cap \in Nat, NEW least \in {-1, 0}, NEW age \in least .. cap
    PROVE  Older(age, cap) \in least .. cap
  BY DEF Older

(* The number of mandatory headers is a number.                            *)
LEMMA CapType == MandatoryCap \in Nat \ {0}
  BY FS_CardinalityType DEF MandatoryCap

(* The heartbeat operations yield heartbeats.                              *)
LEMMA HeartbeatTypes ==
    ASSUME NEW h \in Heartbeats, NEW t \in Millis, NEW on \in BOOLEAN
    PROVE  /\ EnableHeartbeat(h) \in Heartbeats
           /\ DisableHeartbeat(h) \in Heartbeats
           /\ [h EXCEPT !.enabled = on] \in Heartbeats
           /\ PingSent(h, t) \in Heartbeats
           /\ PongNoted(h) \in Heartbeats
           /\ CheckPong(h, t) \in Heartbeats
  <1>1. Elapsed(t, PingInterval + ForcePingMargin) \in Millis
    <2>1. t - (PingInterval + ForcePingMargin) \in Int
      BY DEF Millis, ForcePingMargin
    <2> QED
      BY <2>1, RemainderInRange DEF Elapsed, Millis
  <1>2. (h.pongTimeoutCount + 1) % CountMod \in 0 .. CountMod - 1
    <2>1. h.pongTimeoutCount + 1 \in Int
      BY DEF Heartbeats
    <2> QED
      BY <2>1, RemainderInRange
  <1>3. 0 \in 0 .. CountMod - 1
    OBVIOUS
  <1>4. CheckPong(h, t) \in Heartbeats
    BY <1>1, <1>2, <1>3 DEF CheckPong, Heartbeats
  <1> QED
    BY <1>4 DEF EnableHeartbeat, DisableHeartbeat, PingSent, PongNoted, Heartbeats

(* The heartbeats a slot starts from are heartbeats.                       *)
LEMMA InitialHeartbeats ==
    /\ NoHeartbeat \in Heartbeats
    /\ \A on \in BOOLEAN : [NoHeartbeat EXCEPT !.enabled = on] \in Heartbeats
  <1>1. 0 \in Millis /\ 0 \in 0 .. CountMod - 1
    BY DEF Millis
  <1> QED
    BY <1>1 DEF NoHeartbeat, Heartbeats

(* What a line and a disconnect do to a request leaves a request.          *)
LEMMA RequestTypes ==
    ASSUME NEW r \in Requests, NEW line
    PROVE  /\ AfterLine(r, line) \in Requests
           /\ Forgotten(r) \in Requests
           /\ \A count \in 0 .. MandatoryCap : Unset(count) \in Requests
  <1>1. Older(r.mandatory, MandatoryCap) \in 0 .. MandatoryCap /\ 0 \in 0 .. MandatoryCap
    BY CapType, OlderType DEF Requests
  <1>2. \A m \in 0 .. MandatoryCap :
            /\ [r EXCEPT !.mandatory = m] \in Requests
            /\ [r EXCEPT !.url = TRUE, !.valid = TRUE, !.mandatory = m] \in Requests
    BY DEF Requests
  <1>3. \A b \in BOOLEAN :
            /\ [r EXCEPT !.upgrade = b] \in Requests
            /\ [r EXCEPT !.websocket = b] \in Requests
            /\ [r EXCEPT !.key = b] \in Requests
            /\ [r EXCEPT !.version13 = b] \in Requests
            /\ [r EXCEPT !.auth = b] \in Requests
            /\ [r EXCEPT !.valid = b] \in Requests
    BY DEF Requests
  <1>4. AfterLine(r, line) \in Requests
    BY <1>1, <1>2, <1>3 DEF AfterLine
  <1> QED
    BY <1>4 DEF Forgotten, Unset, Requests

(* A WSclient_t of the array.                                              *)
ClientSlots == [tcp : Peers \union {NoPeer}, status : Statuses \ {"BODY"},
                req : Requests, rx : BOOLEAN, hb : Heartbeats]

(* What the actions do to a slot leaves a slot.                            *)
LEMMA SlotTypes ==
    ASSUME NEW s \in ClientSlots
    PROVE  /\ Disconnected(s) \in ClientSlots
           /\ \A r \in Requests : [s EXCEPT !.req = r] \in ClientSlots
           /\ \A h \in Heartbeats : [s EXCEPT !.hb = h] \in ClientSlots
           /\ [s EXCEPT !.rx = TRUE] \in ClientSlots
           /\ [s EXCEPT !.status = "CONNECTED", !.rx = FALSE] \in ClientSlots
           /\ \A p \in Peers, h \in Heartbeats :
                  [s EXCEPT !.tcp = p, !.status = "HEADER", !.hb = h] \in ClientSlots
  <1>1. Forgotten(s.req) \in Requests
    BY RequestTypes, CapType DEF ClientSlots
  <1>2. Disconnected(s) \in ClientSlots
    BY <1>1 DEF Disconnected, ClientSlots, Statuses
  <1> QED
    BY <1>2 DEF ClientSlots, Statuses

-----------------------------------------------------------------------------
(* The part of TypeOK that needs no other invariant: all but the range of   *)
(* owed.                                                                   *)
PlaceTypes ==
    /\ net \in [Peers -> {"away", "waiting", "open", "lost"}]
    /\ slot \in [Slots -> ClientSlots]
    /\ told \in [Slots -> BOOLEAN]
    /\ owed \in [Slots -> Int]

HistoryTypes ==
    /\ seen \in [Slots -> SeenLines]
    /\ pingAge \in [Slots -> NoPing .. PongTimeout + 1]
    /\ misses \in [Slots -> 0 .. DisconnectTimeoutCount]

ControlTypes ==
    /\ now \in Millis
    /\ lag \in 0 .. MaxLag
    /\ pc \in {"app", "accept", "data", "ping", "timeout"}
    /\ cur \in Slots
    /\ running \in BOOLEAN
    /\ heartbeat \in BOOLEAN

Types == ControlTypes /\ PlaceTypes /\ HistoryTypes

(* A line keeps the type of what a peer has sent.                          *)
LEMMA SeenTypes ==
    /\ NothingSeen \in SeenLines
    /\ \A sent \in SeenLines : \A line : SeenAfter(sent, line) \in SeenLines
  <1>1. NothingSeen \in SeenLines
    BY CapType DEF NothingSeen, SeenLines
  <1>2. ASSUME NEW sent \in SeenLines, NEW line
        PROVE  SeenAfter(sent, line) \in SeenLines
    <2>1. sent.lines \subseteq Lines /\ sent.mandatory \in 0 .. MandatoryCap
      BY DEF SeenLines
    <2>2. 0 \in 0 .. MandatoryCap /\ Older(sent.mandatory, MandatoryCap) \in 0 .. MandatoryCap
      BY <2>1, CapType, OlderType
    <2> QED
      BY <2>1, <2>2 DEF SeenAfter, SeenLines
  <1> QED
    BY <1>1, <1>2

(* The initial values are of their types.                                  *)
LEMMA InitTypes == Init => Types
  <1> SUFFICES ASSUME Init PROVE Types
    OBVIOUS
  <1>1. ControlTypes
    <2>1. 0 \in Slots /\ 0 \in Millis /\ 0 \in 0 .. MaxLag
      BY DEF Slots, Millis
    <2> QED
      BY <2>1 DEF Init, ControlTypes
  <1>2. slot \in [Slots -> ClientSlots]
    <2>1. PICK counts \in [Slots -> 0 .. MandatoryCap] :
              slot = [i \in Slots |->
                          EmptySlot(counts[i], [NoHeartbeat EXCEPT !.enabled = HeartbeatOn])]
      BY DEF Init
    <2>2. ASSUME NEW count \in 0 .. MandatoryCap, NEW h \in Heartbeats
          PROVE  EmptySlot(count, h) \in ClientSlots
      <3>1. Unset(count) \in Requests
        BY CapType DEF Unset, Requests
      <3> QED
        BY <3>1 DEF EmptySlot, ClientSlots, Statuses
    <2>3. [NoHeartbeat EXCEPT !.enabled = HeartbeatOn] \in Heartbeats
      BY InitialHeartbeats
    <2> QED
      BY <2>1, <2>2, <2>3
  <1>3. PlaceTypes
    BY <1>2 DEF Init, PlaceTypes
  <1>4. HistoryTypes
    BY SeenTypes DEF Init, HistoryTypes, NoPing
  <1> QED
    BY <1>1, <1>3, <1>4 DEF Types

(* clientDisconnect of some slots keeps the types of the place.            *)
LEMMA LeaveTypes ==
    ASSUME PlaceTypes, NEW s \in [Slots -> ClientSlots], NEW t \in [Slots -> BOOLEAN],
           NEW D, Leave(s, t, D)
    PROVE  PlaceTypes'
  <1>1. slot' \in [Slots -> ClientSlots]
    BY SlotTypes DEF Leave, SlotsAfter
  <1>2. told' \in [Slots -> BOOLEAN]
    BY DEF Leave, ToldAfter
  <1>3. owed' \in [Slots -> Int]
    BY DEF PlaceTypes, Leave, OwedAfter
  <1>4. net' \in [Peers -> {"away", "waiting", "open", "lost"}]
    BY DEF PlaceTypes, Leave, NetAfter
  <1> QED
    BY <1>1, <1>2, <1>3, <1>4 DEF PlaceTypes

(* The same for slots that are otherwise as they were.                     *)
LEMMA PlainLeaveTypes ==
    ASSUME PlaceTypes, NEW D, Leave(slot, told, D)
    PROVE  PlaceTypes'
  BY LeaveTypes DEF PlaceTypes

(* Leaving the places alone keeps their types.                             *)
LEMMA UnchangedPlaceTypes ==
    ASSUME PlaceTypes, UNCHANGED place
    PROVE  PlaceTypes'
  BY DEF PlaceTypes, place

(* Going on to the next slot, or back to the sketch, keeps pc and cur.     *)
LEMMA NextSlotTypes ==
    ASSUME ControlTypes, NextSlot
    PROVE  pc' \in {"app", "data"} /\ cur' \in Slots
  BY DEF ControlTypes, NextSlot, Slots

(* The steps of the clock and of the peers keep the types.                 *)
LEMMA EnvironmentTypes ==
    ASSUME Types, Environment
    PROVE  Types'
  <1>1. CASE Tick
    <2>1. now' \in Millis
      <3>1. now + 1 \in Int
        BY DEF Types, ControlTypes, Millis
      <3> QED
        BY <1>1, <3>1, RemainderInRange DEF Tick, Millis
    <2>2. lag' \in 0 .. MaxLag
      BY <1>1 DEF Types, ControlTypes, Tick
    <2>3. pingAge' \in [Slots -> NoPing .. PongTimeout + 1]
      <3>1. ASSUME NEW age \in NoPing .. PongTimeout + 1
            PROVE  Older(age, PongTimeout + 1) \in NoPing .. PongTimeout + 1
        BY OlderType DEF NoPing
      <3>2. NoPing \in NoPing .. PongTimeout + 1
        BY DEF NoPing
      <3> QED
        BY <1>1, <3>1, <3>2 DEF Types, HistoryTypes, Tick
    <2> QED
      BY <1>1, <2>1, <2>2, <2>3
      DEF Tick, Types, ControlTypes, PlaceTypes, HistoryTypes, place
  <1>2. ASSUME NEW p \in Peers, PeerConnects(p) \/ PeerGivesUp(p) \/ PeerDrops(p)
        PROVE  Types'
    BY <1>2 DEF PeerConnects, PeerGivesUp, PeerDrops, PeerMoves, Types, ControlTypes,
                PlaceTypes, HistoryTypes, pings
  <1> QED
    BY <1>1, <1>2 DEF Environment

(* newClient keeps the types, whether or not the first line has been read.  *)
LEMMA NewClientTypes ==
    ASSUME Types, NEW p \in Peers, NEW line \in Lines \union {NoLine}, NewClient(p, line)
    PROVE  Types'
  <1>1. PICK i \in Slots, S \in SUBSET CallbackDrops :
            LET D == IF Occupied(i) THEN S \union {i} ELSE {} IN
            /\ slot' = [SlotsAfter(slot, D) EXCEPT ![i] = GivenLine(Taken(@, p), line)]
            /\ told' = ToldAfter(told, D)
            /\ owed' = [OwedAfter(D) EXCEPT ![i] = @ + 1]
            /\ net' = [NetAfter(D) EXCEPT ![p] = "open"]
            /\ seen' = [seen EXCEPT ![i] = SeenAfter(NothingSeen, line)]
            /\ pingAge' = [pingAge EXCEPT ![i] = NoPing]
            /\ misses' = [misses EXCEPT ![i] = 0]
    BY DEF NewClient
  <1> DEFINE D == IF Occupied(i) THEN S \union {i} ELSE {}
  <1>2. SlotsAfter(slot, D) \in [Slots -> ClientSlots]
    BY SlotTypes DEF SlotsAfter, Types, PlaceTypes
  <1>3. ASSUME NEW s \in ClientSlots
        PROVE  GivenLine(Taken(s, p), line) \in ClientSlots
    <2>1. FreshHeartbeat \in Heartbeats
      BY DEF FreshHeartbeat, Heartbeats, Types, ControlTypes
    <2>2. Taken(s, p) \in ClientSlots
      BY <2>1, SlotTypes DEF Taken
    <2>3. AfterLine(Taken(s, p).req, line) \in Requests
      <3>1. Taken(s, p).req \in Requests
        BY <2>2 DEF ClientSlots
      <3> QED
        BY <3>1, RequestTypes
    <2> QED
      BY <2>2, <2>3, SlotTypes DEF GivenLine
  <1>4. slot' \in [Slots -> ClientSlots]
    <2> HIDE DEF D
    <2>1. slot' = [SlotsAfter(slot, D) EXCEPT
                       ![i] = GivenLine(Taken(SlotsAfter(slot, D)[i], p), line)]
      BY <1>1 DEF D
    <2> QED
      BY <1>2, <1>3, <2>1
  <1>5. told' \in [Slots -> BOOLEAN]
    BY <1>1 DEF Types, PlaceTypes, ToldAfter
  <1>6. owed' \in [Slots -> Int]
    <2> HIDE DEF D
    <2>1. OwedAfter(D) \in [Slots -> Int]
      BY DEF Types, PlaceTypes, OwedAfter
    <2>2. owed' = [OwedAfter(D) EXCEPT ![i] = OwedAfter(D)[i] + 1]
      BY <1>1 DEF D
    <2>3. OwedAfter(D)[i] + 1 \in Int
      BY <2>1
    <2> QED
      BY <2>1, <2>2, <2>3
  <1>7. net' \in [Peers -> {"away", "waiting", "open", "lost"}]
    BY <1>1 DEF Types, PlaceTypes, NetAfter
  <1>8. HistoryTypes'
    BY <1>1, SeenTypes DEF Types, HistoryTypes, NoPing
  <1>9. ControlTypes'
    BY DEF NewClient, Types, ControlTypes
  <1> QED
    BY <1>4, <1>5, <1>6, <1>7, <1>8, <1>9 DEF Types, PlaceTypes

(* So does the refusal of a peer.                                          *)
LEMMA NoFreeSpaceTypes ==
    ASSUME Types, NEW p \in Peers, NoFreeSpace(p)
    PROVE  Types'
  BY DEF NoFreeSpace, Types, ControlTypes, PlaceTypes, HistoryTypes, pings

(* Steps of pc alone keep the types.                                       *)
LEMMA EnterLoopTypes ==
    ASSUME Types, EnterLoop \/ AcceptDone
    PROVE  Types'
  <1>1. 0 \in Slots /\ 0 \in 0 .. MaxLag
    BY DEF Slots
  <1> QED
    BY <1>1 DEF EnterLoop, AcceptDone, Types, ControlTypes, PlaceTypes, HistoryTypes,
                place, pings

(* Steps that read data keep the types.                                    *)
LEMMA ReadsDataTypes ==
    ASSUME Types, ReadsData
    PROVE  ControlTypes'
  BY DEF ReadsData, Types, ControlTypes

LEMMA UnchangedPingTypes ==
    ASSUME HistoryTypes, UNCHANGED <<seen, pings>>
    PROVE  HistoryTypes'
  BY DEF HistoryTypes, pings

(* The steps of handleClientData keep the types.                           *)
LEMMA ServeTypes ==
    ASSUME Types, Serve
    PROVE  Types'
  <1> USE DEF Types
  <1>1. ControlTypes'
    <2>1. CASE ReadsData
      BY <2>1, ReadsDataTypes
    <2>2. CASE NextSlot /\ UNCHANGED <<now, lag, running, heartbeat>>
      BY <2>2, NextSlotTypes DEF ControlTypes
    <2>3. CASE pc' = "timeout" /\ UNCHANGED <<now, lag, cur, running, heartbeat>>
      BY <2>3 DEF ControlTypes
    <2> QED
      BY <2>1, <2>2, <2>3
      DEF Serve, SkipSlot, NoData, ReadLine, HandshakeFails, Established, ReadsFrame,
          ReadMessage, ReadLastFrame, FrameCut, PingNotDue, PingPeer, PingFails, HBTimeout
  <1>2. cur \in Slots /\ slot \in [Slots -> ClientSlots] /\ slot[cur] \in ClientSlots
    BY DEF ControlTypes, PlaceTypes
  <1>3. slot[cur].hb \in Heartbeats /\ slot[cur].req \in Requests
    BY <1>2 DEF ClientSlots
  <1>4. 0 \in NoPing .. PongTimeout + 1 /\ NoPing \in NoPing .. PongTimeout + 1
    BY DEF NoPing
  <1>5. CASE SkipSlot
    BY <1>1, <1>5, PlainLeaveTypes, UnchangedPlaceTypes, UnchangedPingTypes DEF SkipSlot
  <1>6. CASE NoData
    BY <1>1, <1>6, UnchangedPlaceTypes, UnchangedPingTypes DEF NoData, pings
  <1>7. ASSUME NEW line \in ClientLines, ReadLine(line)
        PROVE  Types'
    <2>1. slot' \in [Slots -> ClientSlots]
      BY <1>2, <1>3, <1>7, RequestTypes, SlotTypes DEF ReadLine
    <2>2. seen' \in [Slots -> SeenLines]
      BY <1>7, SeenTypes DEF ReadLine, HistoryTypes
    <2> QED
      BY <1>1, <1>7, <2>1, <2>2 DEF ReadLine, PlaceTypes, HistoryTypes, pings
  <1>8. CASE HandshakeFails
    BY <1>1, <1>8, PlainLeaveTypes, UnchangedPingTypes DEF HandshakeFails
  <1>9. CASE Established
    <2>1. [slot EXCEPT ![cur].status = "CONNECTED", ![cur].rx = FALSE]
              \in [Slots -> ClientSlots]
      BY <1>2, SlotTypes
    <2>2. [told EXCEPT ![cur] = TRUE] \in [Slots -> BOOLEAN]
      BY DEF PlaceTypes
    <2>3. PlaceTypes'
      BY <1>9, <2>1, <2>2, LeaveTypes DEF Established
    <2> QED
      BY <1>1, <1>4, <1>9, <2>3 DEF Established, HistoryTypes
  <1>10. ASSUME NEW kind \in ClientFrames, ReadMessage(kind)
         PROVE  Types'
    <2>1. [slot EXCEPT ![cur].hb = PongNoted(@)] \in [Slots -> ClientSlots]
      BY <1>2, <1>3, 0 \in Millis, HeartbeatTypes, SlotTypes DEF Millis
    <2>2. PlaceTypes'
      BY <1>2, <1>10, <2>1, LeaveTypes, PlainLeaveTypes DEF ReadMessage, PlaceTypes
    <2> QED
      BY <1>1, <1>4, <1>10, <2>2 DEF ReadMessage, HistoryTypes
  <1>11. ASSUME NEW kind \in ClientFrames, ReadLastFrame(kind)
         PROVE  Types'
    BY <1>1, <1>11, PlainLeaveTypes, UnchangedPingTypes DEF ReadLastFrame
  <1>12. CASE FrameCut
    <2>1. slot' \in [Slots -> ClientSlots]
      BY <1>2, <1>12, SlotTypes DEF FrameCut
    <2> QED
      BY <1>1, <1>12, <2>1, UnchangedPingTypes DEF FrameCut, PlaceTypes
  <1>13. CASE PingNotDue
    BY <1>1, <1>13, UnchangedPlaceTypes, UnchangedPingTypes DEF PingNotDue
  <1>14. CASE PingPeer
    <2>1. slot' \in [Slots -> ClientSlots]
      BY <1>2, <1>3, <1>14, HeartbeatTypes, SlotTypes DEF PingPeer, ControlTypes
    <2> QED
      BY <1>1, <1>4, <1>14, <2>1 DEF PingPeer, PlaceTypes, HistoryTypes
  <1>15. CASE PingFails
    BY <1>1, <1>15, PlainLeaveTypes, UnchangedPlaceTypes, UnchangedPingTypes DEF PingFails
  <1>16. CASE HBTimeout
    <2> DEFINE checked == [slot EXCEPT ![cur].hb = CheckPong(slot[cur].hb, now)]
    <2>1. checked \in [Slots -> ClientSlots]
      BY <1>2, <1>3, HeartbeatTypes, SlotTypes DEF ControlTypes
    <2>2. PlaceTypes'
      <3>1. CASE \E S \in SUBSET CallbackDrops : Leave(checked, told, S \union {cur})
        <4> HIDE DEF checked
        <4> QED
          BY <2>1, <3>1, LeaveTypes DEF PlaceTypes
      <3>2. CASE slot' = checked /\ UNCHANGED <<net, told, owed>>
        <4> HIDE DEF checked
        <4> QED
          BY <2>1, <3>2 DEF PlaceTypes
      <3> QED
        BY <1>16, <3>1, <3>2 DEF HBTimeout
    <2>3. misses' \in [Slots -> 0 .. DisconnectTimeoutCount]
      <3>1. Older(misses[cur], DisconnectTimeoutCount) \in 0 .. DisconnectTimeoutCount
        BY <1>2, OlderType DEF HistoryTypes
      <3> QED
        BY <1>16, <3>1 DEF HBTimeout, HistoryTypes
    <2> QED
      BY <1>1, <1>16, <2>2, <2>3 DEF HBTimeout, HistoryTypes
  <1> QED
    BY <1>5, <1>6, <1>7, <1>8, <1>9, <1>10, <1>11, <1>12, <1>13, <1>14, <1>15, <1>16 DEF Serve

(* The calls of the sketch keep the types.                                 *)
LEMMA AppTypes ==
    ASSUME Types, App
    PROVE  Types'
  <1> USE DEF Types
  <1>1. ASSUME NEW name, Call(name)
        PROVE  HistoryTypes' /\ (running' \in BOOLEAN /\ heartbeat' \in BOOLEAN => ControlTypes')
    BY <1>1, UnchangedPingTypes DEF Call, ControlTypes
  <1>2. ASSUME NEW name, Call(name), UNCHANGED <<running, heartbeat>>, PlaceTypes'
        PROVE  Types'
    BY <1>1, <1>2 DEF ControlTypes
  <1>3. ASSUME NEW i \in Slots, AppSend(i) \/ AppDisconnect(i)
        PROVE  Types'
    BY <1>2, <1>3, PlainLeaveTypes DEF AppSend, AppDisconnect
  <1>4. CASE AppBroadcast \/ AppPingConnected \/ AppDisconnectAll
    BY <1>2, <1>4, PlainLeaveTypes DEF AppBroadcast, AppPingConnected, AppDisconnectAll
  <1>5. ASSUME NEW i \in Slots, NEW on \in BOOLEAN
        PROVE  /\ [slot[i] EXCEPT !.hb = EnableHeartbeat(@)] \in ClientSlots
               /\ [slot[i] EXCEPT !.hb = DisableHeartbeat(@)] \in ClientSlots
               /\ [slot[i] EXCEPT !.hb.enabled = on] \in ClientSlots
    <2>1. slot[i] \in ClientSlots /\ slot[i].hb \in Heartbeats /\ 0 \in Millis
      BY DEF PlaceTypes, ClientSlots, Millis
    <2>2. /\ EnableHeartbeat(slot[i].hb) \in Heartbeats
          /\ DisableHeartbeat(slot[i].hb) \in Heartbeats
          /\ [slot[i].hb EXCEPT !.enabled = on] \in Heartbeats
      BY <2>1, HeartbeatTypes
    <2>3. [slot[i] EXCEPT !.hb = [slot[i].hb EXCEPT !.enabled = on]] \in ClientSlots
      BY <2>1, <2>2, SlotTypes
    <2> QED
      BY <2>1, <2>2, <2>3, SlotTypes
  <1>6. CASE AppEnableHeartbeat
    BY <1>1, <1>5, <1>6 DEF AppEnableHeartbeat, PlaceTypes, ControlTypes
  <1>7. CASE AppDisableHeartbeat
    BY <1>1, <1>5, <1>7 DEF AppDisableHeartbeat, PlaceTypes, ControlTypes
  <1>8. CASE AppClose
    <2>1. EmptySlot(0, NoHeartbeat) \in ClientSlots
      <3>1. Unset(0) \in Requests
        BY CapType DEF Unset, Requests
      <3> QED
        BY <3>1, InitialHeartbeats DEF EmptySlot, ClientSlots, Statuses
    <2>2. told' \in [Slots -> BOOLEAN] /\ owed' \in [Slots -> Int]
      BY <1>8 DEF AppClose, PlaceTypes, ToldAfter, OwedAfter
    <2>3. net' \in [Peers -> {"away", "waiting", "open", "lost"}]
      BY <1>8 DEF AppClose, PlaceTypes, NetAfter
    <2> QED
      BY <1>1, <1>8, <2>1, <2>2, <2>3 DEF AppClose, PlaceTypes, ControlTypes
  <1>9. CASE AppBegin
    BY <1>1, <1>5, <1>9 DEF AppBegin, PlaceTypes, ControlTypes
  <1> QED
    BY <1>3, <1>4, <1>6, <1>7, <1>8, <1>9 DEF App, AppSends

(* A step of the server, or of none, keeps the types.                      *)
LEMMA TypesStep ==
    ASSUME Types, [Next]_vars
    PROVE  Types'
  <1>1. ASSUME NEW p \in Peers, Accept(p) \/ AcceptFull(p)
        PROVE  Types'
    BY <1>1, NewClientTypes, NoFreeSpaceTypes DEF Accept, AcceptFull
  <1>2. CASE UNCHANGED vars
    BY <1>2 DEF vars, Types, ControlTypes, PlaceTypes, HistoryTypes, place, pings
  <1> QED
    BY <1>1, <1>2, EnvironmentTypes, EnterLoopTypes, ServeTypes, AppTypes DEF Next, Loop

-----------------------------------------------------------------------------
(***************************************************************************)
(* The invariant.  What holds of one slot with what the sketch was told,    *)
(* what its peer sent and the timeouts counted: it is vacant exactly when   *)
(* WSC_NOT_CONNECTED, and then nothing of the request is left in it that    *)
(* could complete the next one.                                            *)
(***************************************************************************)
Vacant(s) ==
    /\ s.tcp = NoPeer
    /\ s.status = "NOT_CONNECTED"
    /\ ~s.req.url /\ ~s.req.upgrade /\ ~s.req.websocket /\ ~s.req.key /\ ~s.req.version13

(* Every field of the request that has been set comes from a line of it.    *)
Supported(r, sent) ==
    /\ r.url => "get" \in sent.lines
    /\ r.upgrade => "upgrade" \in sent.lines
    /\ r.websocket => "websocket" \in sent.lines
    /\ r.key => "key" \in sent.lines
    /\ r.version13 => "version" \in sent.lines
    /\ r.url /\ r.valid => "rejected" \notin sent.lines
    /\ r.url => r.mandatory = sent.mandatory
    /\ r.auth => "other auth" \notin sent.lines

Complete(sent) ==
    /\ {"get", "upgrade", "websocket", "key", "version"} \subseteq sent.lines
    /\ sent.mandatory = Cardinality(MandatoryHeaders)
    /\ "rejected" \notin sent.lines
    /\ AuthRequired => "other auth" \notin sent.lines

Good(s, said, due, sent, count) ==
    /\ s.tcp = NoPeer \/ s.status = "NOT_CONNECTED" => Vacant(s)
    /\ said <=> s.status = "CONNECTED"
    /\ due \in (IF s.tcp = NoPeer THEN {-1, 0} ELSE {0, 1})
    /\ Supported(s.req, sent)
    /\ s.status = "CONNECTED" => Complete(sent)
    /\ s.hb.pongTimeoutCount =< count \/ count = DisconnectTimeoutCount

SlotInv == \A i \in Slots : Good(slot[i], told[i], owed[i], seen[i], misses[i])

(* Sockets and the slots that are not vacant match one to one.             *)
Live == {"open", "lost"}

Matched(s, n) ==
    /\ \A i \in Slots : s[i].tcp # NoPeer => n[s[i].tcp] \in Live
    /\ \A i, j \in Slots : s[i].tcp # NoPeer /\ s[i].tcp = s[j].tcp => i = j
    /\ \A p \in Peers : n[p] \in Live => \E i \in Slots : s[i].tcp = p

PlaceInv == Matched(slot, net)

Inv == Types /\ SlotInv /\ PlaceInv

(* A server that is not running is between two loops, with vacant slots.    *)
ClosedInv == ~running => pc = "app" /\ \A i \in Slots : ~Occupied(i)

-----------------------------------------------------------------------------
(* What the actions do to one slot keeps it good.                          *)

(* A line sets at most the field that it is about.  Of a GET, and of a line  *)
(* of a mandatory header, the same becomes of both counts.                 *)
LEMMA LineSupported ==
    ASSUME NEW r \in Requests, NEW sent, NEW line \in Lines \union MandatoryHeaders,
           Supported(r, sent)
    PROVE  Supported(AfterLine(r, line), SeenAfter(sent, line))
  <1> DEFINE after == SeenAfter(sent, line)
  <1>1. /\ after.lines = (sent.lines \ Superseded(line)) \union ({line} \intersect Lines)
        /\ after.mandatory = IF line = "get" THEN 0
                             ELSE IF line \in MandatoryHeaders
                                  THEN Older(sent.mandatory, MandatoryCap)
                                  ELSE sent.mandatory
    BY DEF SeenAfter
  <1> HIDE DEF after
  <1>2. line \in Lines => line \notin MandatoryHeaders
    OBVIOUS
  <1>3. CASE line = "get"
    <2>1. AfterLine(r, line) = [r EXCEPT !.url = TRUE, !.valid = TRUE, !.mandatory = 0]
      BY <1>3 DEF AfterLine, Lines
    <2>2. after.lines = (sent.lines \ {"rejected"}) \union {"get"} /\ after.mandatory = 0
      BY <1>1, <1>3 DEF Superseded, Lines
    <2> QED
      BY <2>1, <2>2 DEF Supported, Requests, after
  <1>4. CASE line \in {"upgrade", "websocket", "key", "rejected", "ignored"}
    <2>1. after.lines = sent.lines \union {line} /\ after.mandatory = sent.mandatory
      BY <1>1, <1>2, <1>4 DEF Superseded, Lines
    <2>2. line \notin MandatoryHeaders
      BY <1>2, <1>4 DEF Lines
    <2> QED
      BY <1>4, <2>1, <2>2 DEF AfterLine, Supported, Requests, after
  <1>5. CASE line \in {"version", "other version"}
    <2>1. /\ after.lines = (sent.lines \ {"version", "other version"}) \union {line}
          /\ after.mandatory = sent.mandatory
      BY <1>1, <1>2, <1>5 DEF Superseded, Lines
    <2>2. LET a == AfterLine(r, line) IN
          /\ a.version13 <=> line = "version"
          /\ (a.url <=> r.url) /\ (a.upgrade <=> r.upgrade)
          /\ (a.websocket <=> r.websocket) /\ (a.key <=> r.key)
          /\ (a.auth <=> r.auth) /\ (a.valid <=> r.valid)
          /\ a.mandatory = r.mandatory
      BY <1>2, <1>5 DEF AfterLine, Requests, Lines
    <2> QED
      BY <1>5, <2>1, <2>2 DEF Supported, Requests, after
  <1>6. CASE line \in {"auth", "other auth"}
    <2>1. /\ after.lines = (sent.lines \ {"auth", "other auth"}) \union {line}
          /\ after.mandatory = sent.mandatory
      BY <1>1, <1>2, <1>6 DEF Superseded, Lines
    <2>2. LET a == AfterLine(r, line) IN
          /\ a.auth <=> line = "auth"
          /\ (a.url <=> r.url) /\ (a.upgrade <=> r.upgrade)
          /\ (a.websocket <=> r.websocket) /\ (a.key <=> r.key)
          /\ (a.version13 <=> r.version13) /\ (a.valid <=> r.valid)
          /\ a.mandatory = r.mandatory
      BY <1>2, <1>6 DEF AfterLine, Requests, Lines
    <2> QED
      BY <1>6, <2>1, <2>2 DEF Supported, Requests, after
  <1>7. CASE line \in MandatoryHeaders
    <2>1. line \notin Lines
      BY <1>2, <1>7
    <2>2. /\ after.lines = sent.lines
          /\ after.mandatory = Older(sent.mandatory, MandatoryCap)
      BY <1>1, <1>7, <2>1 DEF Superseded, Lines
    <2>3. AfterLine(r, line) = [r EXCEPT !.mandatory = Older(r.mandatory, MandatoryCap)]
      BY <1>7, <2>1 DEF AfterLine, Lines
    <2> QED
      BY <2>2, <2>3 DEF Supported, Requests, after
  <1> QED
    BY <1>3, <1>4, <1>5, <1>6, <1>7 DEF Lines

(* clientDisconnect vacates a slot, and pays its event.                     *)
LEMMA DisconnectedGood ==
    ASSUME NEW s \in ClientSlots, NEW said, NEW due \in Int, NEW sent, NEW count,
           Good(s, said, due, sent, count)
    PROVE  /\ Good(Disconnected(s), FALSE, IF due >= 0 THEN due - 1 ELSE due, sent, count)
           /\ Vacant(Disconnected(s))
  <1>1. /\ Disconnected(s).tcp = NoPeer
        /\ Disconnected(s).status = "NOT_CONNECTED"
        /\ Disconnected(s).req = Forgotten(s.req)
        /\ Disconnected(s).hb = s.hb
    BY DEF Disconnected, ClientSlots
  <1>2. LET r == Forgotten(s.req) IN
        ~r.url /\ ~r.upgrade /\ ~r.websocket /\ ~r.key /\ ~r.version13
    BY DEF Forgotten, ClientSlots, Requests
  <1>3. Vacant(Disconnected(s))
    BY <1>1, <1>2 DEF Vacant
  <1>4. Supported(Disconnected(s).req, sent)
    <2>1. Forgotten(s.req).auth = s.req.auth
      BY DEF Forgotten, ClientSlots, Requests
    <2> QED
      BY <1>1, <1>3, <2>1 DEF Vacant, Supported, Good
  <1>5. (IF due >= 0 THEN due - 1 ELSE due) \in {-1, 0}
    BY DEF Good
  <1> QED
    BY <1>1, <1>3, <1>4, <1>5 DEF Good

(* So do any number of clientDisconnects for all the slots.                *)
LEMMA LeftGood ==
    ASSUME PlaceTypes, NEW s \in [Slots -> ClientSlots], NEW t, NEW D, NEW sent, NEW counts,
           \A i \in Slots : Good(s[i], t[i], owed[i], sent[i], counts[i])
    PROVE  \A i \in Slots :
               /\ Good(SlotsAfter(s, D)[i], ToldAfter(t, D)[i], OwedAfter(D)[i],
                       sent[i], counts[i])
               /\ i \in D => Vacant(SlotsAfter(s, D)[i])
  <1> TAKE i \in Slots
  <1>1. /\ SlotsAfter(s, D)[i] = IF i \in D THEN Disconnected(s[i]) ELSE s[i]
        /\ ToldAfter(t, D)[i] = (t[i] /\ i \notin D)
        /\ OwedAfter(D)[i] = IF i \in D /\ owed[i] >= 0 THEN owed[i] - 1 ELSE owed[i]
    BY DEF SlotsAfter, ToldAfter, OwedAfter
  <1>2. s[i] \in ClientSlots /\ owed[i] \in Int
    BY DEF PlaceTypes
  <1>3. CASE i \in D
    <2>1. ToldAfter(t, D)[i] = FALSE
      BY <1>1, <1>3
    <2>2. Good(Disconnected(s[i]), FALSE, IF owed[i] >= 0 THEN owed[i] - 1 ELSE owed[i],
               sent[i], counts[i]) /\ Vacant(Disconnected(s[i]))
      BY <1>2, DisconnectedGood
    <2>3. /\ SlotsAfter(s, D)[i] = Disconnected(s[i])
          /\ OwedAfter(D)[i] = IF owed[i] >= 0 THEN owed[i] - 1 ELSE owed[i]
      BY <1>1, <1>3
    <2> QED
      BY <2>1, <2>2, <2>3
  <1>4. CASE i \notin D
    <2>1. ToldAfter(t, D)[i] <=> t[i]
      BY <1>1, <1>4
    <2> QED
      BY <1>1, <1>4, <2>1 DEF Good
  <1> QED
    BY <1>3, <1>4

(* A step that ends in clientDisconnects keeps SlotInv.                    *)
LEMMA LeaveGood ==
    ASSUME PlaceTypes, NEW s \in [Slots -> ClientSlots], NEW t, NEW D, Leave(s, t, D),
           \A i \in Slots : Good(s[i], t[i], owed[i], seen'[i], misses'[i])
    PROVE  SlotInv'
  BY LeftGood DEF Leave, SlotInv

(* clientDisconnect takes the socket out of its slot and out of the world,  *)
(* so sockets and slots still match.                                       *)
LEMMA LeavePlace ==
    ASSUME PlaceTypes, PlaceInv, NEW s \in [Slots -> ClientSlots], NEW D \in SUBSET Slots,
           \A i \in Slots : s[i].tcp = slot[i].tcp
    PROVE  Matched(SlotsAfter(s, D), NetAfter(D))
  <1> DEFINE left == SlotsAfter(s, D)
             after == NetAfter(D)
  <1>1. \A i \in Slots : left[i].tcp = IF i \in D THEN NoPeer ELSE slot[i].tcp
    <2>1. \A x \in ClientSlots : Disconnected(x).tcp = NoPeer
      BY DEF Disconnected, ClientSlots
    <2>2. \A i \in Slots : left[i] = IF i \in D THEN Disconnected(s[i]) ELSE s[i]
      BY DEF SlotsAfter
    <2> QED
      BY <2>1, <2>2
  <1>2. \A p \in Peers : after[p] = IF \E i \in D : slot[i].tcp = p THEN "away" ELSE net[p]
    BY DEF NetAfter
  <1> HIDE DEF left, after
  <1>3. \A i \in Slots : slot[i].tcp \in Peers \union {NoPeer}
    BY DEF PlaceTypes, ClientSlots
  <1>4. \A i \in Slots : left[i].tcp # NoPeer =>
            /\ i \notin D
            /\ left[i].tcp = slot[i].tcp
            /\ slot[i].tcp \in Peers
            /\ \A j \in Slots : slot[j].tcp = slot[i].tcp => j = i
    BY <1>1, <1>3 DEF PlaceInv, Matched
  <1>5. ASSUME NEW i \in Slots, left[i].tcp # NoPeer
        PROVE  after[left[i].tcp] \in Live
    <2>1. net[slot[i].tcp] \in Live
      BY <1>4, <1>5 DEF PlaceInv, Matched
    <2>2. ~\E j \in D : slot[j].tcp = slot[i].tcp
      BY <1>4, <1>5
    <2> QED
      BY <1>2, <1>4, <1>5, <2>1, <2>2
  <1>6. ASSUME NEW p \in Peers, after[p] \in Live
        PROVE  \E i \in Slots : left[i].tcp = p
    <2>1. (\A i \in D : slot[i].tcp # p) /\ net[p] \in Live
      BY <1>2, <1>6 DEF Live
    <2>2. PICK i \in Slots : slot[i].tcp = p
      BY <2>1 DEF PlaceInv, Matched
    <2> QED
      BY <1>1, <2>1, <2>2
  <1>7. \A i, j \in Slots : left[i].tcp # NoPeer /\ left[i].tcp = left[j].tcp => i = j
    BY <1>4
  <1>8. Matched(left, after)
    BY <1>5, <1>6, <1>7 DEF Matched
  <1> QED
    BY <1>8 DEF left, after

(* Steps that leave the places and what the invariant reads of the rest     *)
(* alone.                                                                  *)
LEMMA UnchangedGood ==
    ASSUME SlotInv, PlaceInv, UNCHANGED <<place, seen, misses>>
    PROVE  SlotInv' /\ PlaceInv'
  BY DEF SlotInv, PlaceInv, place

(* Steps that only disconnect.                                             *)
LEMMA PlainLeaveGood ==
    ASSUME PlaceTypes, SlotInv, PlaceInv, NEW D \in SUBSET Slots, Leave(slot, told, D),
           UNCHANGED <<seen, misses>>
    PROVE  SlotInv' /\ PlaceInv'
  <1>1. slot \in [Slots -> ClientSlots]
    BY DEF PlaceTypes
  <1>2. \A i \in Slots : Good(slot[i], told[i], owed[i], seen'[i], misses'[i])
    BY DEF SlotInv
  <1> QED
    BY <1>1, <1>2, LeaveGood, LeavePlace DEF Leave, PlaceInv

-----------------------------------------------------------------------------
(* Every step keeps the invariant.                                         *)

(* The peers move between states in which the server holds their sockets,   *)
(* or between states in which it does not.                                 *)
LEMMA EnvironmentGood ==
    ASSUME Inv, Environment
    PROVE  SlotInv' /\ PlaceInv'
  <1>1. CASE Tick
    BY <1>1, UnchangedGood DEF Tick, Inv
  <1>2. ASSUME NEW p \in Peers, NEW from, NEW to, PeerMoves(p, from, to),
               from \in Live <=> to \in Live
        PROVE  SlotInv' /\ PlaceInv'
    <2>1. SlotInv'
      BY <1>2 DEF PeerMoves, pings, Inv, SlotInv
    <2>2. \A q \in Peers : net'[q] \in Live <=> net[q] \in Live
      BY <1>2 DEF PeerMoves, Inv, Types, PlaceTypes
    <2>3. \A i \in Slots : slot[i].tcp # NoPeer => slot[i].tcp \in Peers
      BY DEF Inv, Types, PlaceTypes, ClientSlots
    <2> QED
      BY <1>2, <2>1, <2>2, <2>3 DEF PeerMoves, Inv, PlaceInv, Matched
  <1>3. "away" \notin Live /\ "waiting" \notin Live /\ "open" \in Live /\ "lost" \in Live
    BY DEF Live
  <1> QED
    BY <1>1, <1>2, <1>3 DEF Environment, PeerConnects, PeerGivesUp, PeerDrops

(* A vacant slot takes a new socket: nothing of its last request counts.    *)
LEMMA TakenGood ==
    ASSUME Types, NEW s \in ClientSlots, NEW said, NEW due, NEW sent, NEW count,
           Good(s, said, due, sent, count), Vacant(s),
           NEW p \in Peers, NEW line \in Lines \union {NoLine}
    PROVE  /\ Good(GivenLine(Taken(s, p), line), said, due + 1,
                   SeenAfter(NothingSeen, line), 0)
           /\ GivenLine(Taken(s, p), line).tcp = p
  <1>1. /\ Taken(s, p).tcp = p
        /\ Taken(s, p).status = "HEADER"
        /\ Taken(s, p).req = s.req
        /\ Taken(s, p).hb = FreshHeartbeat
        /\ Taken(s, p) \in ClientSlots
    <2>1. FreshHeartbeat \in Heartbeats
      BY DEF FreshHeartbeat, Heartbeats, Types, ControlTypes
    <2> QED
      BY <2>1, SlotTypes DEF Taken, ClientSlots
  <1>2. LET g == GivenLine(Taken(s, p), line) IN
        /\ g.tcp = p
        /\ g.status = "HEADER"
        /\ g.hb = FreshHeartbeat
        /\ g.req = AfterLine(s.req, line)
    BY <1>1 DEF GivenLine, ClientSlots
  <1>3. Supported(AfterLine(s.req, line), SeenAfter(NothingSeen, line))
    <2>1. s.req \in Requests
      BY DEF ClientSlots
    <2>2. CASE line \in Lines
      <3>1. Supported(s.req, NothingSeen)
        BY DEF Vacant, Supported, NothingSeen
      <3> QED
        BY <2>1, <2>2, <3>1, LineSupported
    <2>3. CASE line = NoLine
      <3>1. \/ AfterLine(s.req, line) = s.req
            \/ AfterLine(s.req, line) =
                   [s.req EXCEPT !.mandatory = Older(@, MandatoryCap)]
        BY <2>3 DEF AfterLine, NoLine
      <3>2. SeenAfter(NothingSeen, line).lines = {}
        BY <2>3 DEF SeenAfter, NothingSeen, NoLine, Lines
      <3> QED
        BY <2>1, <3>1, <3>2 DEF Vacant, Supported, Requests
    <2> QED
      BY <2>2, <2>3
  <1>4. p # NoPeer /\ FreshHeartbeat.pongTimeoutCount = 0 /\ due \in {-1, 0} /\ ~said
    BY DEF FreshHeartbeat, Good, Vacant
  <1> QED
    BY <1>2, <1>3, <1>4 DEF Good

(* newClient.  The slot it takes is vacant by then: no other slot holds the *)
(* socket, which was waiting.                                              *)
LEMMA NewClientGood ==
    ASSUME Inv, NEW p \in Peers, NEW line \in Lines \union {NoLine}, NewClient(p, line)
    PROVE  SlotInv' /\ PlaceInv'
  <1>1. PICK i \in Slots, S \in SUBSET CallbackDrops :
            LET D == IF Occupied(i) THEN S \union {i} ELSE {} IN
            /\ slot' = [SlotsAfter(slot, D) EXCEPT ![i] = GivenLine(Taken(@, p), line)]
            /\ told' = ToldAfter(told, D)
            /\ owed' = [OwedAfter(D) EXCEPT ![i] = @ + 1]
            /\ net' = [NetAfter(D) EXCEPT ![p] = "open"]
            /\ seen' = [seen EXCEPT ![i] = SeenAfter(NothingSeen, line)]
            /\ misses' = [misses EXCEPT ![i] = 0]
    BY DEF NewClient
  <1>2. PICK D \in SUBSET Slots :
            /\ slot' = [SlotsAfter(slot, D) EXCEPT
                            ![i] = GivenLine(Taken(SlotsAfter(slot, D)[i], p), line)]
            /\ told' = ToldAfter(told, D)
            /\ owed' = [OwedAfter(D) EXCEPT ![i] = OwedAfter(D)[i] + 1]
            /\ net' = [NetAfter(D) EXCEPT ![p] = "open"]
            /\ i \in D \/ ~Occupied(i)
    BY <1>1 DEF CallbackDrops
  <1> DEFINE left == SlotsAfter(slot, D)
  <1>3. slot \in [Slots -> ClientSlots] /\ told \in [Slots -> BOOLEAN]
    BY DEF Inv, Types, PlaceTypes
  <1>4. left \in [Slots -> ClientSlots]
    BY <1>3, SlotTypes DEF SlotsAfter
  <1>5. \A j \in Slots :
            /\ Good(left[j], told'[j], OwedAfter(D)[j], seen[j], misses[j])
            /\ j \in D => Vacant(left[j])
    BY <1>2, <1>3, LeftGood DEF Inv, Types, SlotInv
  <1>6. Vacant(left[i])
    <2>1. CASE i \in D
      BY <1>5, <2>1
    <2>2. CASE i \notin D
      <3>1. left[i] = slot[i] /\ slot[i].tcp = NoPeer
        BY <1>2, <2>2 DEF SlotsAfter, Occupied
      <3> QED
        BY <3>1, <1>5 DEF Good
    <2> QED
      BY <2>1, <2>2
  <1>7. /\ slot'[i] = GivenLine(Taken(left[i], p), line)
        /\ owed'[i] = OwedAfter(D)[i] + 1
        /\ seen'[i] = SeenAfter(NothingSeen, line)
        /\ misses'[i] = 0
        /\ \A j \in Slots \ {i} : /\ slot'[j] = left[j]
                                  /\ owed'[j] = OwedAfter(D)[j]
                                  /\ seen'[j] = seen[j]
                                  /\ misses'[j] = misses[j]
    <2>1. OwedAfter(D) = [j \in Slots |-> OwedAfter(D)[j]]
      BY DEF OwedAfter
    <2> HIDE DEF left
    <2> QED
      BY <1>1, <1>2, <1>4, <2>1 DEF Inv, Types, HistoryTypes, left
  <1> HIDE DEF left
  <1>8. Good(slot'[i], told'[i], owed'[i], seen'[i], misses'[i]) /\ slot'[i].tcp = p
    BY <1>4, <1>5, <1>6, <1>7, TakenGood DEF Inv
  <1>9. SlotInv'
    BY <1>5, <1>7, <1>8 DEF SlotInv
  <1>10. PlaceInv'
    <2>1. Matched(left, NetAfter(D))
      BY <1>3, LeavePlace DEF Inv, Types, left
    <2>2. \A j \in Slots : left[j].tcp # p
      <3>1. \A j \in Slots : slot[j].tcp # p
        BY DEF NewClient, Inv, PlaceInv, Matched, Live
      <3>2. \A x \in ClientSlots : Disconnected(x).tcp = NoPeer
        BY DEF Disconnected, ClientSlots
      <3>3. \A j \in Slots : left[j] = IF j \in D THEN Disconnected(slot[j]) ELSE slot[j]
        BY DEF left, SlotsAfter
      <3> QED
        BY <1>3, <3>1, <3>2, <3>3
    <2>3. /\ net'[p] = "open"
          /\ \A q \in Peers \ {p} : net'[q] = NetAfter(D)[q]
      <3>1. NetAfter(D) = [q \in Peers |-> NetAfter(D)[q]]
        BY DEF NetAfter
      <3> QED
        BY <1>2, <3>1
    <2>4. left[i].tcp = NoPeer /\ \A j \in Slots \ {i} : slot'[j].tcp = left[j].tcp
      BY <1>6, <1>7 DEF Vacant
    <2>5. \A j \in Slots : left[j].tcp \in Peers \union {NoPeer}
      BY <1>4 DEF ClientSlots
    <2> QED
      BY <1>8, <2>1, <2>2, <2>3, <2>4, <2>5 DEF PlaceInv, Matched, Live
  <1> QED
    BY <1>9, <1>10

(* Taking the peer off and putting it back in the queue, and steps of pc.    *)
LEMMA NoFreeSpaceGood ==
    ASSUME Inv, NEW p \in Peers, NoFreeSpace(p)
    PROVE  SlotInv' /\ PlaceInv'
  <1>1. SlotInv'
    BY DEF NoFreeSpace, pings, Inv, SlotInv
  <1>2. \A q \in Peers : net'[q] \in Live <=> net[q] \in Live
    BY DEF NoFreeSpace, Inv, Types, PlaceTypes, Live
  <1>3. \A i \in Slots : slot[i].tcp # NoPeer => slot[i].tcp \in Peers
    BY DEF Inv, Types, PlaceTypes, ClientSlots
  <1> QED
    BY <1>1, <1>2, <1>3 DEF NoFreeSpace, Inv, PlaceInv, Matched

(* The pong check never gives the slot more timeouts than it really had.    *)
LEMMA CheckPongCounts ==
    ASSUME NEW h \in Heartbeats, NEW count \in 0 .. DisconnectTimeoutCount,
           h.pongTimeoutCount =< count \/ count = DisconnectTimeoutCount
    PROVE  LET after == IF PongOverdue(h, now) THEN Older(count, DisconnectTimeoutCount)
                                               ELSE count
           IN  \/ CheckPong(h, now).pongTimeoutCount =< after
               \/ after = DisconnectTimeoutCount
  <1>1. h.pongTimeoutCount \in 0 .. CountMod - 1
    BY DEF Heartbeats
  <1>2. (h.pongTimeoutCount + 1) % CountMod =< h.pongTimeoutCount + 1
    BY <1>1, SMT
  <1>3. CASE PongOverdue(h, now)
    <2>1. CheckPong(h, now).pongTimeoutCount = (h.pongTimeoutCount + 1) % CountMod
      BY <1>3 DEF CheckPong, Heartbeats
    <2>2. (h.pongTimeoutCount + 1) % CountMod \in Int
      BY <1>1, SMT
    <2> HIDE DEF PongOverdue
    <2> QED
      BY <1>1, <1>2, <1>3, <2>1, <2>2 DEF Older
  <1>4. CASE ~PongOverdue(h, now)
    <2>1. CheckPong(h, now).pongTimeoutCount \in {0, h.pongTimeoutCount}
      BY <1>4 DEF CheckPong, Heartbeats
    <2> QED
      BY <1>1, <1>4, <2>1
  <1> QED
    BY <1>3, <1>4

(* handleClientData.                                                       *)
LEMMA ServeGood ==
    ASSUME Inv, Serve
    PROVE  SlotInv' /\ PlaceInv'
  <1> USE DEF Inv, Types
  <1>1. /\ cur \in Slots
        /\ slot \in [Slots -> ClientSlots] /\ slot[cur] \in ClientSlots
        /\ told \in [Slots -> BOOLEAN] /\ owed \in [Slots -> Int]
        /\ Good(slot[cur], told[cur], owed[cur], seen[cur], misses[cur])
    BY DEF ControlTypes, PlaceTypes, SlotInv
  <1>2. slot[cur].hb \in Heartbeats /\ slot[cur].req \in Requests
    BY <1>1 DEF ClientSlots
  <1>3. \A S \in SUBSET CallbackDrops :
            S \in SUBSET Slots /\ S \union {cur} \in SUBSET Slots
    BY <1>1 DEF CallbackDrops
  (* Steps that disconnect the peer of the slot, or do not touch it.        *)
  <1>4. CASE SkipSlot
    BY <1>3, <1>4, PlainLeaveGood, UnchangedGood DEF SkipSlot, pings
  <1>5. CASE NoData \/ PingNotDue
    BY <1>5, UnchangedGood DEF NoData, PingNotDue, pings
  <1>6. CASE HandshakeFails
    BY <1>3, <1>6, PlainLeaveGood DEF HandshakeFails, pings
  <1>7. ASSUME NEW kind \in ClientFrames, ReadLastFrame(kind)
        PROVE  SlotInv' /\ PlaceInv'
    BY <1>3, <1>7, PlainLeaveGood DEF ReadLastFrame, pings
  <1>8. CASE PingFails
    BY <1>3, <1>8, PlainLeaveGood, UnchangedGood DEF PingFails, pings
  (* Steps that change the slot and leave every socket where it is.         *)
  <1>9. ASSUME NEW s \in ClientSlots, slot' = [slot EXCEPT ![cur] = s], s.tcp = slot[cur].tcp,
               UNCHANGED <<told, owed>>,
               \A i \in Slots \ {cur} : seen'[i] = seen[i] /\ misses'[i] = misses[i],
               Good(s, told[cur], owed[cur], seen'[cur], misses'[cur]),
               \A p \in Peers : net'[p] \in Live <=> net[p] \in Live
        PROVE  SlotInv' /\ PlaceInv'
    <2>1. \A i \in Slots : slot'[i].tcp = slot[i].tcp
      BY <1>1, <1>9
    <2>2. \A i \in Slots : slot[i].tcp # NoPeer => slot[i].tcp \in Peers
      BY <1>1 DEF ClientSlots
    <2>3. PlaceInv'
      BY <1>9, <2>1, <2>2 DEF PlaceInv, Matched
    <2>4. SlotInv'
      BY <1>1, <1>9 DEF SlotInv
    <2> QED
      BY <2>3, <2>4
  <1>10. ASSUME NEW line \in ClientLines, ReadLine(line)
         PROVE  SlotInv' /\ PlaceInv'
    <2> DEFINE s == [slot[cur] EXCEPT !.req = AfterLine(slot[cur].req, line)]
    <2>1. /\ s \in ClientSlots
          /\ s.tcp = slot[cur].tcp /\ s.status = "HEADER" /\ s.hb = slot[cur].hb
          /\ s.req = AfterLine(slot[cur].req, line)
      BY <1>1, <1>2, <1>10, RequestTypes, SlotTypes DEF ReadLine, ClientSlots
    <2>2. Supported(s.req, SeenAfter(seen[cur], line))
      BY <1>1, <1>2, <2>1, LineSupported DEF Good
    <2>3. seen'[cur] = SeenAfter(seen[cur], line) /\ misses' = misses
      BY <1>1, <1>10 DEF ReadLine, HistoryTypes, pings
    <2>4. slot' = [slot EXCEPT ![cur] = s]
      BY <1>10 DEF ReadLine
    <2>5. slot[cur].tcp # NoPeer
      BY <1>10 DEF ReadLine, ReadsData, IsConnected, Occupied
    <2>6. Good(s, told[cur], owed[cur], seen'[cur], misses'[cur])
      <3> HIDE DEF s
      <3> QED
        BY <1>1, <1>10, <2>1, <2>2, <2>3, <2>5 DEF Good, ReadLine
    <2> HIDE DEF s
    <2> QED
      BY <1>9, <1>10, <2>1, <2>3, <2>4, <2>6 DEF ReadLine, HistoryTypes
  <1>11. CASE FrameCut
    <2> DEFINE s == [slot[cur] EXCEPT !.rx = TRUE]
    <2>1. /\ s \in ClientSlots
          /\ s.tcp = slot[cur].tcp /\ s.status = slot[cur].status
          /\ s.req = slot[cur].req /\ s.hb = slot[cur].hb
      BY <1>1, SlotTypes DEF ClientSlots
    <2>2. Good(s, told[cur], owed[cur], seen[cur], misses[cur])
      <3> HIDE DEF s
      <3> QED
        BY <1>1, <2>1 DEF Good, Vacant
    <2>3. \A p \in Peers : net'[p] \in Live <=> net[p] \in Live
      BY <1>11 DEF FrameCut, ReadsData, IsConnected, PlaceTypes, Live
    <2>4. slot' = [slot EXCEPT ![cur] = s]
      BY <1>11 DEF FrameCut
    <2> HIDE DEF s
    <2> QED
      BY <1>9, <1>11, <2>1, <2>2, <2>3, <2>4 DEF FrameCut, pings
  (* Of the heartbeat only the count matters.                               *)
  <1>12. ASSUME NEW h \in Heartbeats, NEW count,
                h.pongTimeoutCount =< count \/ count = DisconnectTimeoutCount
         PROVE  LET s == [slot[cur] EXCEPT !.hb = h] IN
                /\ s \in ClientSlots
                /\ s.tcp = slot[cur].tcp
                /\ Good(s, told[cur], owed[cur], seen[cur], count)
    <2> DEFINE s == [slot[cur] EXCEPT !.hb = h]
    <2>1. /\ s \in ClientSlots
          /\ s.tcp = slot[cur].tcp /\ s.status = slot[cur].status
          /\ s.req = slot[cur].req /\ s.hb = h
      BY <1>1, SlotTypes DEF ClientSlots
    <2> HIDE DEF s
    <2>2. Good(s, told[cur], owed[cur], seen[cur], count)
      BY <1>1, <1>12, <2>1 DEF Good, Vacant
    <2> QED
      BY <2>1, <2>2 DEF s
  <1>13. CASE PingPeer
    <2> DEFINE h == PingSent(slot[cur].hb, now)
    <2>1. h \in Heartbeats /\ h.pongTimeoutCount = slot[cur].hb.pongTimeoutCount
      BY <1>2, HeartbeatTypes DEF PingSent, ControlTypes, Heartbeats
    <2>2. slot' = [slot EXCEPT ![cur] = [slot[cur] EXCEPT !.hb = h]]
      BY <1>13 DEF PingPeer
    <2> HIDE DEF h
    <2>3. h.pongTimeoutCount =< misses[cur] \/ misses[cur] = DisconnectTimeoutCount
      BY <1>1, <2>1 DEF Good
    <2>4. /\ [slot[cur] EXCEPT !.hb = h] \in ClientSlots
          /\ [slot[cur] EXCEPT !.hb = h].tcp = slot[cur].tcp
          /\ Good([slot[cur] EXCEPT !.hb = h], told[cur], owed[cur], seen[cur], misses[cur])
      BY <1>12, <2>1, <2>3
    <2> QED
      BY <1>9, <1>13, <2>2, <2>4 DEF PingPeer
  (* Steps that change a slot and then disconnect some.                     *)
  <1>14. ASSUME NEW s \in ClientSlots, s.tcp = slot[cur].tcp,
                NEW t, \A i \in Slots \ {cur} : t[i] = told[i],
                NEW D \in SUBSET Slots, Leave([slot EXCEPT ![cur] = s], t, D),
                \A i \in Slots \ {cur} : misses'[i] = misses[i], UNCHANGED seen,
                Good(s, t[cur], owed[cur], seen[cur], misses'[cur])
         PROVE  SlotInv' /\ PlaceInv'
    <2> DEFINE changed == [slot EXCEPT ![cur] = s]
    <2>1. /\ changed \in [Slots -> ClientSlots]
          /\ changed[cur] = s /\ \A i \in Slots \ {cur} : changed[i] = slot[i]
      BY <1>1
    <2> HIDE DEF changed
    <2>2. Leave(changed, t, D)
      BY <1>14 DEF changed
    <2>3. \A i \in Slots : Good(changed[i], t[i], owed[i], seen'[i], misses'[i])
      BY <1>14, <2>1 DEF SlotInv
    <2>4. \A i \in Slots : changed[i].tcp = slot[i].tcp
      BY <1>14, <2>1
    <2>5. Matched(SlotsAfter(changed, D), NetAfter(D))
      BY <2>1, <2>4, LeavePlace
    <2> QED
      BY <2>1, <2>2, <2>3, <2>5, LeaveGood DEF Leave, PlaceInv
  <1>15. CASE Established
    <2> DEFINE s == [slot[cur] EXCEPT !.status = "CONNECTED", !.rx = FALSE]
               t == [told EXCEPT ![cur] = TRUE]
    <2>1. /\ s \in ClientSlots
          /\ s.tcp = slot[cur].tcp /\ s.status = "CONNECTED"
          /\ s.req = slot[cur].req /\ s.hb = slot[cur].hb
      BY <1>1, SlotTypes DEF ClientSlots
    <2>2. t[cur] = TRUE /\ \A i \in Slots \ {cur} : t[i] = told[i]
      BY <1>1
    <2>3. Complete(seen[cur])
      BY <1>1, <1>15 DEF Established, UpgradeOk, Authorized, Good, Supported, Complete
    <2>4. slot[cur].tcp # NoPeer
      BY <1>15 DEF Established, ReadsData, IsConnected, Occupied
    <2>5. PICK S \in SUBSET CallbackDrops :
              Leave([slot EXCEPT ![cur].status = "CONNECTED", ![cur].rx = FALSE], t, S)
      BY <1>15 DEF Established
    <2>6. [slot EXCEPT ![cur].status = "CONNECTED", ![cur].rx = FALSE] = [slot EXCEPT ![cur] = s]
      BY <1>1
    <2> HIDE DEF s, t
    <2>7. Good(s, t[cur], owed[cur], seen[cur], misses[cur])
      BY <1>1, <2>1, <2>2, <2>3, <2>4 DEF Good
    <2> QED
      BY <1>3, <1>14, <1>15, <2>1, <2>2, <2>5, <2>6, <2>7 DEF Established
  <1>16. ASSUME NEW kind \in ClientFrames, ReadMessage(kind)
         PROVE  SlotInv' /\ PlaceInv'
    <2> DEFINE h == PongNoted(slot[cur].hb)
    <2>1. h \in Heartbeats /\ h.pongTimeoutCount = slot[cur].hb.pongTimeoutCount
      BY <1>2, HeartbeatTypes DEF PongNoted, ControlTypes, Heartbeats
    <2>2. PICK S \in SUBSET CallbackDrops :
              Leave(IF kind = "pong" THEN [slot EXCEPT ![cur].hb = h] ELSE slot, told, S)
      BY <1>16 DEF ReadMessage
    <2>3. UNCHANGED <<seen, misses>>
      BY <1>16 DEF ReadMessage
    <2> HIDE DEF h
    <2>4. CASE kind = "pong"
      <3>1. h.pongTimeoutCount =< misses[cur] \/ misses[cur] = DisconnectTimeoutCount
        BY <1>1, <2>1 DEF Good
      <3>2. /\ [slot[cur] EXCEPT !.hb = h] \in ClientSlots
            /\ [slot[cur] EXCEPT !.hb = h].tcp = slot[cur].tcp
            /\ Good([slot[cur] EXCEPT !.hb = h], told[cur], owed[cur], seen[cur], misses[cur])
        BY <1>12, <2>1, <3>1
      <3>3. Leave([slot EXCEPT ![cur] = [slot[cur] EXCEPT !.hb = h]], told, S)
        BY <2>2, <2>4
      <3> QED
        BY <1>3, <1>14, <2>3, <3>2, <3>3
    <2>5. CASE kind # "pong"
      BY <1>3, <2>2, <2>3, <2>5, PlainLeaveGood
    <2> QED
      BY <2>4, <2>5
  <1>17. CASE HBTimeout
    <2> DEFINE h == CheckPong(slot[cur].hb, now)
               count == IF PongOverdue(slot[cur].hb, now)
                        THEN Older(misses[cur], DisconnectTimeoutCount) ELSE misses[cur]
    <2>1. h \in Heartbeats
      BY <1>2, HeartbeatTypes DEF ControlTypes
    <2>2. h.pongTimeoutCount =< count \/ count = DisconnectTimeoutCount
      BY <1>1, <1>2, CheckPongCounts DEF Good, HistoryTypes
    <2>3. misses'[cur] = count /\ \A i \in Slots \ {cur} : misses'[i] = misses[i]
      BY <1>1, <1>17 DEF HBTimeout, HistoryTypes
    <2>4. \/ /\ slot' = [slot EXCEPT ![cur].hb = h]
             /\ UNCHANGED <<net, told, owed>>
          \/ \E S \in SUBSET CallbackDrops :
                 Leave([slot EXCEPT ![cur].hb = h], told, S \union {cur})
      BY <1>17 DEF HBTimeout
    <2>5. UNCHANGED seen
      BY <1>17 DEF HBTimeout
    <2> HIDE DEF h, count
    <2>6. /\ [slot[cur] EXCEPT !.hb = h] \in ClientSlots
          /\ [slot[cur] EXCEPT !.hb = h].tcp = slot[cur].tcp
          /\ Good([slot[cur] EXCEPT !.hb = h], told[cur], owed[cur], seen[cur], misses'[cur])
      BY <1>12, <2>1, <2>2, <2>3
    <2>7. [slot EXCEPT ![cur].hb = h] = [slot EXCEPT ![cur] = [slot[cur] EXCEPT !.hb = h]]
      OBVIOUS
    <2>8. CASE slot' = [slot EXCEPT ![cur].hb = h] /\ UNCHANGED <<net, told, owed>>
      BY <1>9, <2>3, <2>5, <2>6, <2>7, <2>8
    <2>9. ASSUME NEW S \in SUBSET CallbackDrops,
                 Leave([slot EXCEPT ![cur].hb = h], told, S \union {cur})
          PROVE  SlotInv' /\ PlaceInv'
      <3>1. Leave([slot EXCEPT ![cur] = [slot[cur] EXCEPT !.hb = h]], told, S \union {cur})
        BY <2>7, <2>9
      <3>2. S \union {cur} \in SUBSET Slots
        BY <1>3
      <3> DEFINE s == [slot[cur] EXCEPT !.hb = h]
      <3>3. /\ s \in ClientSlots /\ s.tcp = slot[cur].tcp
            /\ Good(s, told[cur], owed[cur], seen[cur], misses'[cur])
            /\ Leave([slot EXCEPT ![cur] = s], told, S \union {cur})
        BY <2>6, <3>1
      <3> HIDE DEF s
      <3> QED
        BY <1>14, <2>3, <2>5, <3>2, <3>3
    <2> QED
      BY <2>4, <2>8, <2>9
  <1> QED
    BY <1>4, <1>5, <1>6, <1>7, <1>8, <1>10, <1>11, <1>13, <1>15, <1>16, <1>17 DEF Serve

(* The calls of the sketch.                                                *)
LEMMA AppGood ==
    ASSUME Inv, App
    PROVE  SlotInv' /\ PlaceInv'
  <1> USE DEF Inv, Types
  <1>1. UNCHANGED <<seen, misses>>
    BY DEF App, AppSends, AppSend, AppBroadcast, AppPingConnected, AppDisconnect,
           AppDisconnectAll, AppEnableHeartbeat, AppDisableHeartbeat, AppClose, AppBegin,
           Call, pings
  <1>2. /\ AllOccupied \in SUBSET Slots /\ LostSlots \in SUBSET Slots
        /\ \A S \in SUBSET CallbackDrops : S \in SUBSET Slots
    BY DEF AllOccupied, LostSlots, CallbackDrops
  <1>3. ASSUME NEW i \in Slots, AppSend(i) \/ AppDisconnect(i)
        PROVE  SlotInv' /\ PlaceInv'
    <2>1. PICK S \in SUBSET CallbackDrops : Leave(slot, told, S \union {i})
      BY <1>3 DEF AppSend, AppDisconnect
    <2>2. S \union {i} \in SUBSET Slots
      BY <1>2
    <2> QED
      BY <1>1, <2>1, <2>2, PlainLeaveGood
  <1>4. CASE AppBroadcast \/ AppPingConnected
    <2>1. PICK S \in SUBSET CallbackDrops, lost \in SUBSET LostSlots :
              Leave(slot, told, S \union lost)
      BY <1>4 DEF AppBroadcast, AppPingConnected
    <2>2. S \union lost \in SUBSET Slots
      BY <1>2
    <2> QED
      BY <1>1, <2>1, <2>2, PlainLeaveGood
  <1>5. CASE AppDisconnectAll
    BY <1>1, <1>2, <1>5, PlainLeaveGood DEF AppDisconnectAll
  (* Calls that change the heartbeats of all slots, and not the counts.     *)
  <1>6. ASSUME NEW f, \A i \in Slots :
                   /\ f[i] \in Heartbeats
                   /\ f[i].pongTimeoutCount = slot[i].hb.pongTimeoutCount,
               slot' = [i \in Slots |-> [slot[i] EXCEPT !.hb = f[i]]],
               UNCHANGED <<net, told, owed>>
        PROVE  SlotInv' /\ PlaceInv'
    <2>1. ASSUME NEW i \in Slots
          PROVE  /\ slot'[i].tcp = slot[i].tcp
                 /\ Good(slot'[i], told[i], owed[i], seen[i], misses[i])
      <3>1. slot[i] \in ClientSlots /\ Good(slot[i], told[i], owed[i], seen[i], misses[i])
        BY DEF PlaceTypes, SlotInv
      <3>2. /\ slot'[i].tcp = slot[i].tcp /\ slot'[i].status = slot[i].status
            /\ slot'[i].req = slot[i].req /\ slot'[i].hb = f[i]
        BY <1>6, <3>1 DEF ClientSlots
      <3> QED
        BY <1>6, <3>1, <3>2 DEF Good, Vacant
    <2> QED
      BY <1>1, <1>6, <2>1 DEF SlotInv, PlaceInv, Matched
  <1>7. CASE AppEnableHeartbeat \/ AppDisableHeartbeat \/ AppBegin
    <2> DEFINE enabled  == [i \in Slots |-> EnableHeartbeat(slot[i].hb)]
               disabled == [i \in Slots |-> DisableHeartbeat(slot[i].hb)]
               begun    == [i \in Slots |-> [slot[i].hb EXCEPT !.enabled = heartbeat]]
    <2>1. ASSUME NEW i \in Slots, NEW f \in {enabled, disabled, begun}
          PROVE  f[i] \in Heartbeats /\ f[i].pongTimeoutCount = slot[i].hb.pongTimeoutCount
      <3>1. slot[i].hb \in Heartbeats /\ 0 \in Millis /\ heartbeat \in BOOLEAN
        BY DEF PlaceTypes, ControlTypes, ClientSlots, Millis
      <3>2. LET h == slot[i].hb IN
            /\ EnableHeartbeat(h).pongTimeoutCount = h.pongTimeoutCount
            /\ DisableHeartbeat(h).pongTimeoutCount = h.pongTimeoutCount
            /\ [h EXCEPT !.enabled = heartbeat].pongTimeoutCount = h.pongTimeoutCount
        BY <3>1 DEF EnableHeartbeat, DisableHeartbeat, Heartbeats
      <3>3. /\ enabled[i] = EnableHeartbeat(slot[i].hb)
            /\ disabled[i] = DisableHeartbeat(slot[i].hb)
            /\ begun[i] = [slot[i].hb EXCEPT !.enabled = heartbeat]
        OBVIOUS
      <3>4. /\ EnableHeartbeat(slot[i].hb) \in Heartbeats
            /\ DisableHeartbeat(slot[i].hb) \in Heartbeats
            /\ [slot[i].hb EXCEPT !.enabled = heartbeat] \in Heartbeats
        BY <3>1, HeartbeatTypes
      <3> HIDE DEF enabled, disabled, begun
      <3>5. f = enabled \/ f = disabled \/ f = begun
        OBVIOUS
      <3>6. /\ enabled[i] \in Heartbeats /\ disabled[i] \in Heartbeats /\ begun[i] \in Heartbeats
            /\ enabled[i].pongTimeoutCount = slot[i].hb.pongTimeoutCount
            /\ disabled[i].pongTimeoutCount = slot[i].hb.pongTimeoutCount
            /\ begun[i].pongTimeoutCount = slot[i].hb.pongTimeoutCount
        BY <3>2, <3>3, <3>4
      <3> QED
        BY <3>5, <3>6
    <2>2. /\ UNCHANGED <<net, told, owed>>
          /\ \/ slot' = [i \in Slots |-> [slot[i] EXCEPT !.hb = enabled[i]]]
             \/ slot' = [i \in Slots |-> [slot[i] EXCEPT !.hb = disabled[i]]]
             \/ slot' = [i \in Slots |-> [slot[i] EXCEPT !.hb = begun[i]]]
      BY <1>7 DEF AppEnableHeartbeat, AppDisableHeartbeat, AppBegin
    <2> HIDE DEF enabled, disabled, begun
    <2> QED
      BY <1>6, <2>1, <2>2
  <1>8. CASE AppClose
    <2>1. \A i \in Slots :
              /\ slot'[i].tcp = NoPeer
              /\ slot'[i].status = "NOT_CONNECTED"
              /\ slot'[i].req = Unset(0)
              /\ slot'[i].hb.pongTimeoutCount = 0
      BY <1>8 DEF AppClose, EmptySlot, NoHeartbeat
    <2>2. ASSUME NEW i \in Slots
          PROVE  Good(slot'[i], told'[i], owed'[i], seen'[i], misses'[i])
      <3>1. Good(slot[i], told[i], owed[i], seen[i], misses[i])
        BY DEF SlotInv
      <3>2. Vacant(slot'[i]) /\ Supported(slot'[i].req, seen'[i])
        <4>1. LET r == Unset(0) IN
              ~r.url /\ ~r.upgrade /\ ~r.websocket /\ ~r.key /\ ~r.version13 /\ ~r.auth
          BY DEF Unset
        <4> QED
          BY <2>1, <4>1 DEF Vacant, Supported
      <3>3. ~told'[i]
        BY <1>8, <3>1 DEF AppClose, ToldAfter, AllOccupied, Occupied, Good, Vacant
      <3>4. owed'[i] \in {-1, 0}
        <4>1. owed'[i] = IF i \in AllOccupied /\ owed[i] >= 0 THEN owed[i] - 1 ELSE owed[i]
          BY <1>8 DEF AppClose, OwedAfter
        <4>2. i \in AllOccupied <=> slot[i].tcp # NoPeer
          BY DEF AllOccupied, Occupied
        <4> QED
          BY <3>1, <4>1, <4>2 DEF Good
      <3>5. misses'[i] \in Nat
        BY <1>1 DEF HistoryTypes
      <3> QED
        BY <2>1, <3>2, <3>3, <3>4, <3>5 DEF Good
    <2>3. ASSUME NEW p \in Peers
          PROVE  net'[p] \notin Live
      <3>1. CASE net[p] \in Live
        <4>1. PICK i \in Slots : slot[i].tcp = p
          BY <3>1 DEF PlaceInv, Matched
        <4>2. i \in AllOccupied
          BY <4>1 DEF AllOccupied, Occupied
        <4> QED
          BY <1>8, <4>1, <4>2 DEF AppClose, NetAfter, Live
      <3>2. CASE net[p] \notin Live
        BY <1>8, <3>2 DEF AppClose, NetAfter, Live
      <3> QED
        BY <3>1, <3>2
    <2> QED
      BY <2>1, <2>2, <2>3 DEF SlotInv, PlaceInv, Matched
  <1> QED
    BY <1>3, <1>4, <1>5, <1>7, <1>8 DEF App, AppSends

(* After begin() every slot is vacant, and no peer has a socket yet.        *)
LEMMA InitInv == Init => Inv
  <1> SUFFICES ASSUME Init PROVE Inv
    OBVIOUS
  <1>1. Types
    BY InitTypes
  <1>2. \A i \in Slots :
            /\ slot[i].tcp = NoPeer
            /\ slot[i].status = "NOT_CONNECTED"
            /\ slot[i].hb.pongTimeoutCount = 0
            /\ LET r == slot[i].req IN
               ~r.url /\ ~r.upgrade /\ ~r.websocket /\ ~r.key /\ ~r.version13 /\ ~r.auth
    BY DEF Init, EmptySlot, Unset, NoHeartbeat
  <1>3. \A i \in Slots : Supported(slot[i].req, seen[i])
    BY <1>2 DEF Init, Supported, NothingSeen
  <1>4. SlotInv
    BY <1>2, <1>3 DEF Init, SlotInv, Good, Vacant
  <1>5. PlaceInv
    BY <1>2 DEF Init, PlaceInv, Matched, Live
  <1> QED
    BY <1>1, <1>4, <1>5 DEF Inv

(* A step of the server, or of none, keeps the invariant.                  *)
LEMMA InvStep ==
    ASSUME Inv, [Next]_vars
    PROVE  Inv'
  <1>1. Types'
    BY TypesStep DEF Inv
  <1>2. ASSUME NEW p \in Peers, Accept(p) \/ AcceptFull(p)
        PROVE  SlotInv' /\ PlaceInv'
    BY <1>2, NewClientGood, NoFreeSpaceGood DEF Accept, AcceptFull
  <1>3. CASE EnterLoop \/ AcceptDone
    BY <1>1, <1>3, UnchangedGood DEF EnterLoop, AcceptDone, Inv, pings
  <1>4. CASE UNCHANGED vars
    BY <1>1, <1>4, UnchangedGood DEF vars, Inv, pings
  <1> QED
    BY <1>1, <1>2, <1>3, <1>4, EnvironmentGood, ServeGood, AppGood DEF Next, Loop, Inv

(* The invariant holds.                                                    *)
THEOREM Invariance == Spec => []Inv
  <1>1. Init => Inv
    BY InitInv
  <1>2. Inv /\ [Next]_vars => Inv'
    BY InvStep
  <1> QED
    BY <1>1, <1>2, PTL DEF Spec

(* What follows from the invariant in any state, however it was reached.    *)
LEMMA InvTypes == Inv => TypeOK
  <1> SUFFICES ASSUME Inv PROVE TypeOK
    OBVIOUS
  <1>1. owed \in [Slots -> {-1, 0, 1}]
    <2>1. \A i \in Slots : owed[i] \in {-1, 0, 1}
      BY DEF Inv, SlotInv, Good
    <2>2. owed \in [Slots -> Int]
      BY DEF Inv, Types, PlaceTypes
    <2> QED
      BY <2>1, <2>2
  <1>2. ControlTypes /\ HistoryTypes
    BY DEF Inv, Types
  <1>3. PlaceTypes
    BY DEF Inv, Types
  <1> QED
    BY <1>1, <1>2, <1>3 DEF ControlTypes, PlaceTypes, HistoryTypes, TypeOK, ClientSlots

LEMMA InvConserves == Inv => SocketsConserved
  <1> SUFFICES ASSUME Inv, NEW p \in Peers
               PROVE  Cardinality({i \in Slots : slot[i].tcp = p}) =
                          IF net[p] \in {"open", "lost"} THEN 1 ELSE 0
    BY DEF SocketsConserved
  <1>1. p # NoPeer
    OBVIOUS
  <1>2. CASE net[p] \in {"open", "lost"}
    <2>1. PICK i \in Slots : slot[i].tcp = p
      BY <1>2 DEF Inv, PlaceInv, Matched, Live
    <2>2. {j \in Slots : slot[j].tcp = p} = {i}
      BY <1>1, <2>1 DEF Inv, PlaceInv, Matched
    <2> QED
      BY <1>2, <2>2, FS_Singleton
  <1>3. CASE net[p] \notin {"open", "lost"}
    <2>1. {j \in Slots : slot[j].tcp = p} = {}
      BY <1>1, <1>3 DEF Inv, PlaceInv, Matched, Live
    <2> QED
      BY <1>3, <2>1, FS_EmptySet
  <1> QED
    BY <1>2, <1>3

LEMMA InvViews == Inv => AppView /\ HandshakeComplete
  BY DEF Inv, SlotInv, Good, Complete, AppView, HandshakeComplete

-----------------------------------------------------------------------------
(* The properties of the runs.                                             *)

(* Every variable keeps its type; owed stays in {-1, 0, 1} because a slot    *)
(* is given a socket only after the last one has been paid for.            *)
THEOREM TypeCorrect == Spec => []TypeOK
  BY Invariance, InvTypes, PTL

(* newClient, the clean-ups of clientIsConnected and dropNativeClient        *)
(* neither leak a socket nor put one into two slots.                       *)
THEOREM SocketsAreConserved == Spec => []SocketsConserved
  BY Invariance, InvConserves, PTL

(* The sketch thinks a slot connected exactly when it is WSC_CONNECTED.     *)
THEOREM AppViewHolds == Spec => []AppView
  <1>1. Inv => AppView
    BY InvViews
  <1> QED
    BY <1>1, Invariance, PTL

(* handleHeader upgrades a slot only when its present peer has sent a GET,   *)
(* both upgrade headers, a key, version 13 last, and since the GET as many   *)
(* lines of mandatory headers as there are and no rejected header.  Of the  *)
(* authorization only this much holds: the last one this peer has sent, if  *)
(* it sent any, is not a wrong one (an earlier peer's may stand in for it).  *)
THEOREM HandshakeCompleteHolds == Spec => []HandshakeComplete
  <1>1. Inv => HandshakeComplete
    BY InvViews
  <1> QED
    BY <1>1, Invariance, PTL

(* Nothing fills a slot of a server that is not running.                   *)
LEMMA ClosedStep ==
    ASSUME Inv, ClosedInv, [Next]_vars
    PROVE  ClosedInv'
  <1> SUFFICES ASSUME ~running'
               PROVE  pc' = "app" /\ \A i \in Slots : slot'[i].tcp = NoPeer
    BY DEF ClosedInv, Occupied
  <1>1. CASE AppClose
    BY <1>1 DEF AppClose, Call, EmptySlot
  <1>2. CASE AppBegin
    BY <1>2 DEF AppBegin
  <1>3. CASE ~AppClose /\ ~AppBegin
    <2>1. ~running
      BY <1>3 DEF Next, vars, Environment, Tick, PeerConnects, PeerGivesUp, PeerDrops, PeerMoves,
                  Loop, EnterLoop, AcceptDone, Accept, AcceptFull, NewClient, NoFreeSpace,
                  Serve, SkipSlot, NoData, ReadLine, HandshakeFails, Established, ReadsData,
                  ReadsFrame, ReadMessage, ReadLastFrame, FrameCut, PingNotDue, PingPeer,
                  PingFails, HBTimeout, App, AppSends, AppSend, AppBroadcast,
                  AppPingConnected, AppDisconnect, AppDisconnectAll, AppEnableHeartbeat,
                  AppDisableHeartbeat
    <2>2. pc = "app" /\ \A i \in Slots : slot[i].tcp = NoPeer
      BY <2>1 DEF ClosedInv, Occupied
    <2>3. CASE Environment \/ UNCHANGED vars
      BY <2>2, <2>3 DEF vars, place, Environment, Tick, PeerConnects, PeerGivesUp, PeerDrops,
                        PeerMoves
    <2>4. ~Loop
      BY <2>1, <2>2 DEF Loop, EnterLoop, AcceptDone, Accept, AcceptFull, Serve, SkipSlot,
                        NoData, ReadLine, HandshakeFails, Established, ReadsData, ReadsFrame,
                        ReadMessage, ReadLastFrame, FrameCut, PingNotDue, PingPeer,
                        PingFails, HBTimeout
    <2>5. CASE AppEnableHeartbeat \/ AppDisableHeartbeat
      BY <2>2, <2>5 DEF AppEnableHeartbeat, AppDisableHeartbeat, Call, Inv, Types, PlaceTypes,
                        ClientSlots
    <2>6. CASE AppDisconnectAll
      <3>1. AllOccupied = {}
        BY <2>2 DEF AllOccupied, Occupied
      <3>2. \A i \in Slots : slot'[i] = slot[i]
        BY <2>6, <3>1 DEF AppDisconnectAll, Leave, SlotsAfter
      <3> QED
        BY <2>2, <2>6, <3>2 DEF AppDisconnectAll, Call
    <2>7. ~AppSends /\ ~AppPingConnected /\ \A i \in Slots : ~AppDisconnect(i)
      BY <2>2 DEF AppSends, AppSend, AppBroadcast, AppPingConnected, AppDisconnect, LostSlots,
                  Occupied
    <2> QED
      BY <1>3, <2>3, <2>4, <2>5, <2>6, <2>7 DEF Next, App
  <1> QED
    BY <1>1, <1>2, <1>3

(* close() leaves no socket behind, and none comes before the next begin(). *)
THEOREM ClosedHoldsNoneHolds == Spec => []ClosedHoldsNone
  <1>1. Init => ClosedInv
    BY DEF Init, ClosedInv
  <1>2. Inv /\ ClosedInv /\ [Next]_vars => ClosedInv'
    BY ClosedStep
  <1>3. Inv /\ ClosedInv => ClosedHoldsNone
    BY DEF Inv, Types, PlaceTypes, PlaceInv, Matched, Live, ClosedInv, Occupied, ClosedHoldsNone
  <1> QED
    BY <1>1, <1>2, <1>3, Invariance, PTL DEF Spec

(* The heartbeat drops no peer before DisconnectTimeoutCount timeouts of    *)
(* its connection: a slot's count never exceeds them.                      *)
LEMMA DropCounts ==
    ASSUME Inv, HBTimeout, GivesUp(slot[cur].hb, now)
    PROVE  misses'[cur] = DisconnectTimeoutCount
  <1> USE DEF Inv, Types
  <1>1. /\ cur \in Slots
        /\ slot \in [Slots -> ClientSlots] /\ slot[cur].hb \in Heartbeats
        /\ misses[cur] \in 0 .. DisconnectTimeoutCount
        /\ Good(slot[cur], told[cur], owed[cur], seen[cur], misses[cur])
    BY DEF ControlTypes, PlaceTypes, HistoryTypes, SlotInv, ClientSlots
  <1>3. /\ PongOverdue(slot[cur].hb, now)
        /\ CheckPong(slot[cur].hb, now).pongTimeoutCount >= DisconnectTimeoutCount
    BY DEF GivesUp
  <1>4. misses'[cur] = Older(misses[cur], DisconnectTimeoutCount)
    BY <1>1, <1>3 DEF HBTimeout, HistoryTypes
  <1>5. Older(misses[cur], DisconnectTimeoutCount) \in 0 .. DisconnectTimeoutCount
    BY <1>1, OlderType
  <1>6. \/ CheckPong(slot[cur].hb, now).pongTimeoutCount =<
               Older(misses[cur], DisconnectTimeoutCount)
        \/ Older(misses[cur], DisconnectTimeoutCount) = DisconnectTimeoutCount
    BY <1>1, <1>3, CheckPongCounts DEF Good
  <1>7. CheckPong(slot[cur].hb, now).pongTimeoutCount \in Int
    <2>1. CheckPong(slot[cur].hb, now) \in Heartbeats
      BY <1>1, HeartbeatTypes DEF ControlTypes
    <2> QED
      BY <2>1 DEF Heartbeats
  <1> HIDE DEF Inv, Types
  <1> QED
    BY <1>3, <1>4, <1>5, <1>6, <1>7

(* The clock and the peers change no slot.                                 *)
LEMMA EnvironmentKeepsSlots ==
    ASSUME Environment
    PROVE  UNCHANGED <<slot, told, owed>>
  BY DEF Environment, Tick, PeerConnects, PeerGivesUp, PeerDrops, PeerMoves, place

(* Only handleHBTimeout runs at that point, and it drops by giving up.       *)
LEMMA DropIsGivingUp ==
    ASSUME Inv, [Next]_vars, NEW i \in Slots, HeartbeatDrop(i)
    PROVE  HBTimeout /\ GivesUp(slot[i].hb, now)
  <1>1. pc = "timeout" /\ i = cur /\ slot[i].tcp # NoPeer /\ slot'[i].tcp = NoPeer
    BY DEF HeartbeatDrop, Occupied
  <1>2. ~Environment /\ ~UNCHANGED vars
    BY <1>1, EnvironmentKeepsSlots DEF vars, place
  <1>3. HBTimeout
    BY <1>1, <1>2
    DEF Next, Loop, EnterLoop, AcceptDone, Accept, AcceptFull, Serve, SkipSlot, NoData,
        ReadLine, HandshakeFails, Established, ReadsData, ReadsFrame, ReadMessage,
        ReadLastFrame, FrameCut, PingNotDue, PingPeer, PingFails, App, AppSends, AppSend,
        AppBroadcast, AppPingConnected, AppDisconnect, AppDisconnectAll,
        AppEnableHeartbeat, AppDisableHeartbeat, AppClose, AppBegin, Call
  <1>4. GivesUp(slot[cur].hb, now)
    <2>1. slot \in [Slots -> ClientSlots]
      BY DEF Inv, Types, PlaceTypes
    <2>2. CASE slot' = [slot EXCEPT ![cur].hb = CheckPong(slot[cur].hb, now)]
      <3>1. slot'[cur].tcp = slot[cur].tcp
        BY <1>1, <2>1, <2>2 DEF ClientSlots
      <3> QED
        BY <1>1, <3>1
    <2> QED
      BY <1>3, <2>2 DEF HBTimeout
  <1> QED
    BY <1>1, <1>3, <1>4

(* ... and for every step.                                                 *)
THEOREM EnoughMissesHolds == Spec => EnoughMisses
  <1>1. ASSUME Inv, [Next]_vars, NEW i \in Slots, HeartbeatDrop(i)
        PROVE  misses'[i] = DisconnectTimeoutCount
    <2>1. HBTimeout /\ GivesUp(slot[i].hb, now)
      BY <1>1, DropIsGivingUp
    <2> QED
      BY <1>1, <2>1, DropCounts DEF HeartbeatDrop
  <1>2. Inv /\ [Next]_vars =>
            [\A i \in Slots : HeartbeatDrop(i) => misses'[i] = DisconnectTimeoutCount]_vars
    BY <1>1
  <1> QED
    BY <1>2, Invariance, PTL DEF Spec, EnoughMisses

-----------------------------------------------------------------------------
(***************************************************************************)
(* The server implements Connections, step by step, but for one step: a    *)
(* handleHBTimeout that gives up on the slot that this handleClientData has *)
(* just emptied, and reports the end of its socket a second time.          *)
(***************************************************************************)
LateGiveUp ==
    /\ pc = "timeout"
    /\ ~Occupied(cur)
    /\ GivesUp(slot[cur].hb, now)

(* Slots that keep their sockets, statuses and events are places that stay. *)
LEMMA KeptStays ==
    ASSUME NEW i \in Slots, slot'[i].tcp = slot[i].tcp, slot'[i].status = slot[i].status,
           told'[i] = told[i], owed'[i] = owed[i]
    PROVE  Connection!Stays(i)
  BY DEF Connection!Stays, Stage, Occupied

LEMMA UnchangedConnects ==
    ASSUME UNCHANGED <<told, owed>>,
           \A i \in Slots : slot'[i].tcp = slot[i].tcp /\ slot'[i].status = slot[i].status
    PROVE  Connection!Next
  BY KeptStays DEF Connection!Next, Connection!Step

(* A clientDisconnect ends the connection of its slot.                     *)
LEMMA VacatedEnds ==
    ASSUME PlaceTypes, SlotInv, NEW i \in Slots, Occupied(i), slot'[i].tcp = NoPeer,
           told'[i] = FALSE, owed'[i] = owed[i] - 1
    PROVE  Connection!Ends(i)
  BY DEF Connection!Ends, Connection!Moves, Stage, Occupied

(* clientDisconnects of slots that are not vacant, after at most one other  *)
(* has been upgraded, end these connections and bring that one up.          *)
LEMMA LeaveConnects ==
    ASSUME PlaceTypes, SlotInv, NEW s \in [Slots -> ClientSlots], NEW t \in [Slots -> BOOLEAN],
           NEW D, Leave(s, t, D),
           \A i \in Slots :
               /\ s[i].tcp = slot[i].tcp
               /\ \/ s[i].status = slot[i].status /\ (t[i] <=> told[i])
                  \/ /\ Occupied(i) /\ slot[i].status # "CONNECTED"
                     /\ s[i].status = "CONNECTED" /\ t[i]
               /\ i \in D => Occupied(i)
    PROVE  Connection!Next
  <1> SUFFICES ASSUME NEW i \in Slots PROVE Connection!Step(i)
    BY DEF Connection!Next
  <1>1. /\ Good(slot[i], told[i], owed[i], seen[i], misses[i]) /\ owed[i] \in Int
        /\ t[i] \in BOOLEAN /\ told[i] \in BOOLEAN
    BY DEF SlotInv, PlaceTypes
  <1>2. CASE i \in D
    <2>1. Disconnected(s[i]).tcp = NoPeer
      BY DEF Disconnected, ClientSlots
    <2>2. owed[i] >= 0
      BY <1>1, <1>2 DEF Good, Occupied
    <2>3. slot'[i].tcp = NoPeer /\ told'[i] = FALSE /\ owed'[i] = owed[i] - 1
      BY <1>2, <2>1, <2>2 DEF Leave, SlotsAfter, ToldAfter, OwedAfter
    <2> QED
      BY <1>2, <2>3, VacatedEnds DEF Connection!Step
  <1>3. CASE i \notin D
    <2>1. slot'[i] = s[i] /\ told'[i] = t[i] /\ owed'[i] = owed[i]
      BY <1>3 DEF Leave, SlotsAfter, ToldAfter, OwedAfter
    <2>2. CASE s[i].status = slot[i].status /\ (t[i] <=> told[i])
      <3>1. told'[i] = told[i]
        BY <1>1, <2>1, <2>2
      <3> QED
        BY <2>1, <2>2, <3>1, KeptStays DEF Connection!Step
    <2>3. CASE /\ Occupied(i) /\ slot[i].status # "CONNECTED"
               /\ s[i].status = "CONNECTED" /\ t[i]
      <3>1. told'[i] = TRUE
        BY <1>1, <2>1, <2>3
      <3> QED
        BY <2>1, <2>3, <3>1
        DEF Connection!Step, Connection!ComesUp, Connection!Moves, Stage, Occupied
    <2> QED
      BY <2>2, <2>3
  <1> QED
    BY <1>2, <1>3

LEMMA PlainLeaveConnects ==
    ASSUME PlaceTypes, SlotInv, NEW D, Leave(slot, told, D), \A i \in D : Occupied(i)
    PROVE  Connection!Next
  BY LeaveConnects DEF PlaceTypes

(* newClient opens a connection in its slot, or replaces the one that was   *)
(* still in it.                                                            *)
LEMMA NewClientConnects ==
    ASSUME Inv, NEW p \in Peers, NEW line \in Lines \union {NoLine}, NewClient(p, line)
    PROVE  Connection!Next
  <1>1. PICK i \in Slots, D \in SUBSET Slots :
            /\ slot' = [SlotsAfter(slot, D) EXCEPT
                            ![i] = GivenLine(Taken(SlotsAfter(slot, D)[i], p), line)]
            /\ told' = ToldAfter(told, D)
            /\ owed' = [OwedAfter(D) EXCEPT ![i] = OwedAfter(D)[i] + 1]
            /\ i \in D <=> Occupied(i)
            /\ \A j \in D : Occupied(j)
    <2>1. PICK i \in Slots, S \in SUBSET CallbackDrops :
              LET D == IF Occupied(i) THEN S \union {i} ELSE {} IN
              /\ slot' = [SlotsAfter(slot, D) EXCEPT ![i] = GivenLine(Taken(@, p), line)]
              /\ told' = ToldAfter(told, D)
              /\ owed' = [OwedAfter(D) EXCEPT ![i] = @ + 1]
      BY DEF NewClient
    <2>2. S \subseteq Slots /\ \A j \in S : Occupied(j)
      BY DEF CallbackDrops
    <2> DEFINE E == IF Occupied(i) THEN S \union {i} ELSE {}
    <2>3. E \in SUBSET Slots /\ (i \in E <=> Occupied(i)) /\ \A j \in E : Occupied(j)
      BY <2>2
    <2>4. /\ slot' = [SlotsAfter(slot, E) EXCEPT
                         ![i] = GivenLine(Taken(SlotsAfter(slot, E)[i], p), line)]
          /\ told' = ToldAfter(told, E)
          /\ owed' = [OwedAfter(E) EXCEPT ![i] = OwedAfter(E)[i] + 1]
      BY <2>1
    <2> HIDE DEF E
    <2> QED
      BY <2>3, <2>4
  <1>2. /\ slot \in [Slots -> ClientSlots]
        /\ \A j \in Slots : /\ owed[j] \in Int /\ told[j] \in BOOLEAN
                            /\ Good(slot[j], told[j], owed[j], seen[j], misses[j])
    BY DEF Inv, Types, PlaceTypes, SlotInv
  <1>3. /\ SlotsAfter(slot, D) = [j \in Slots |-> SlotsAfter(slot, D)[j]]
        /\ OwedAfter(D) = [j \in Slots |-> OwedAfter(D)[j]]
        /\ \A j \in Slots :
               /\ SlotsAfter(slot, D)[j] = IF j \in D THEN Disconnected(slot[j]) ELSE slot[j]
               /\ OwedAfter(D)[j] = IF j \in D /\ owed[j] >= 0 THEN owed[j] - 1 ELSE owed[j]
    BY DEF SlotsAfter, OwedAfter
  <1>4. ASSUME NEW j \in Slots \ {i}
        PROVE  Connection!Step(j)
    <2>1. /\ slot'[j] = SlotsAfter(slot, D)[j] /\ owed'[j] = OwedAfter(D)[j]
          /\ told'[j] = (told[j] /\ j \notin D)
      BY <1>1, <1>3 DEF ToldAfter
    <2>2. CASE j \in D
      <3>1. Disconnected(slot[j]).tcp = NoPeer
        BY <1>2 DEF Disconnected, ClientSlots
      <3>2. owed[j] >= 0
        BY <1>1, <1>2, <2>2 DEF Good, Occupied
      <3>3. slot'[j].tcp = NoPeer /\ owed'[j] = owed[j] - 1
        BY <1>3, <2>1, <2>2, <3>1, <3>2
      <3>4. told'[j] = FALSE
        BY <2>1, <2>2
      <3> QED
        BY <1>1, <2>2, <3>3, <3>4, VacatedEnds DEF Connection!Step, Inv, Types
    <2>3. CASE j \notin D
      <3>1. slot'[j] = slot[j] /\ owed'[j] = owed[j]
        BY <1>3, <2>1, <2>3
      <3>2. told'[j] = told[j]
        BY <1>2, <2>1, <2>3
      <3> QED
        BY <3>1, <3>2, KeptStays DEF Connection!Step
    <2> QED
      BY <2>2, <2>3
  <1>5. Connection!Step(i)
    <2>1. slot'[i].tcp = p /\ slot'[i].status = "HEADER" /\ p # NoPeer
      <3>1. SlotsAfter(slot, D)[i] \in ClientSlots
        BY <1>2, <1>3, SlotTypes
      <3>2. \A x \in ClientSlots :
                /\ GivenLine(Taken(x, p), line).tcp = p
                /\ GivenLine(Taken(x, p), line).status = "HEADER"
        BY DEF GivenLine, Taken, ClientSlots
      <3>3. slot'[i] = GivenLine(Taken(SlotsAfter(slot, D)[i], p), line)
        BY <1>1, <1>3
      <3> QED
        BY <3>1, <3>2, <3>3
    <2>2. told'[i] = FALSE
      <3>1. told'[i] = (told[i] /\ i \notin D)
        BY <1>1 DEF ToldAfter
      <3>2. i \notin D => told[i] = FALSE
        BY <1>1, <1>2 DEF Good, Vacant, Occupied
      <3> QED
        BY <3>1, <3>2
    <2>3. owed'[i] = OwedAfter(D)[i] + 1
      BY <1>1, <1>3
    <2>4. CASE i \in D
      <3>1. OwedAfter(D)[i] = owed[i] - 1
        BY <1>1, <1>2, <1>3, <2>4 DEF Good, Occupied
      <3>2. owed'[i] = owed[i]
        BY <1>2, <2>3, <3>1
      <3> QED
        BY <1>1, <2>1, <2>2, <2>4, <3>2
        DEF Connection!Step, Connection!IsReplaced, Connection!Moves, Stage, Occupied
    <2>5. CASE i \notin D
      <3>1. OwedAfter(D)[i] = owed[i]
        BY <1>3, <2>5
      <3> QED
        BY <1>1, <2>1, <2>2, <2>3, <2>5, <3>1
        DEF Connection!Step, Connection!Opens, Connection!Moves, Stage, Occupied
    <2> QED
      BY <2>4, <2>5
  <1> QED
    BY <1>4, <1>5 DEF Connection!Next

(* handleClientData.                                                       *)
LEMMA ServeConnects ==
    ASSUME Inv, ~LateGiveUp, Serve
    PROVE  Connection!Next
  <1>1. /\ PlaceTypes /\ SlotInv /\ cur \in Slots
        /\ slot \in [Slots -> ClientSlots] /\ slot[cur] \in ClientSlots
        /\ told \in [Slots -> BOOLEAN]
        /\ \A S \in SUBSET CallbackDrops : \A i \in S : i \in Slots /\ Occupied(i)
    BY DEF Inv, Types, ControlTypes, PlaceTypes, CallbackDrops
  (* The peer of the slot is disconnected, if there is one.                 *)
  <1>2. ASSUME Occupied(cur), \E S \in SUBSET CallbackDrops : Leave(slot, told, S \union {cur})
        PROVE  Connection!Next
    <2>1. PICK S \in SUBSET CallbackDrops : Leave(slot, told, S \union {cur})
      BY <1>2
    <2>2. \A i \in S \union {cur} : Occupied(i)
      BY <1>1, <1>2
    <2> QED
      BY <1>1, <2>1, <2>2, PlainLeaveConnects
  <1>3. CASE UNCHANGED place
    BY <1>3, UnchangedConnects DEF place
  <1>4. ReadsData => Occupied(cur)
    BY DEF ReadsData, IsConnected
  <1>5. CASE SkipSlot \/ NoData \/ PingNotDue
    BY <1>2, <1>3, <1>5 DEF SkipSlot, NoData, PingNotDue
  <1>6. CASE HandshakeFails
    BY <1>2, <1>4, <1>6 DEF HandshakeFails
  <1>7. ASSUME NEW kind \in ClientFrames, ReadLastFrame(kind)
        PROVE  Connection!Next
    BY <1>2, <1>4, <1>7 DEF ReadLastFrame, ReadsFrame
  <1>8. CASE PingFails
    BY <1>2, <1>3, <1>8 DEF PingFails
  (* The slot is changed, but its socket and status are not.                *)
  <1>10. \A h, r :
             /\ [slot[cur] EXCEPT !.hb = h].tcp = slot[cur].tcp
             /\ [slot[cur] EXCEPT !.hb = h].status = slot[cur].status
             /\ [slot[cur] EXCEPT !.req = r].tcp = slot[cur].tcp
             /\ [slot[cur] EXCEPT !.req = r].status = slot[cur].status
    BY <1>1 DEF ClientSlots
  <1>11. ASSUME NEW line \in ClientLines, ReadLine(line)
         PROVE  Connection!Next
    <2>1. slot' = [slot EXCEPT ![cur] = [slot[cur] EXCEPT !.req = AfterLine(slot[cur].req, line)]]
      BY <1>11 DEF ReadLine
    <2>2. \A i \in Slots : slot'[i].tcp = slot[i].tcp /\ slot'[i].status = slot[i].status
      BY <1>1, <1>10, <2>1
    <2> QED
      BY <1>11, <2>2, UnchangedConnects DEF ReadLine
  <1>12. CASE FrameCut
    <2>1. /\ [slot[cur] EXCEPT !.rx = TRUE].tcp = slot[cur].tcp
          /\ [slot[cur] EXCEPT !.rx = TRUE].status = slot[cur].status
      BY <1>1 DEF ClientSlots
    <2>2. \A i \in Slots : slot'[i].tcp = slot[i].tcp /\ slot'[i].status = slot[i].status
      BY <1>1, <1>12, <2>1 DEF FrameCut
    <2> QED
      BY <1>12, <2>2, UnchangedConnects DEF FrameCut
  <1>13. CASE PingPeer
    <2>1. slot' = [slot EXCEPT ![cur] = [slot[cur] EXCEPT !.hb = PingSent(slot[cur].hb, now)]]
      BY <1>13 DEF PingPeer
    <2>2. \A i \in Slots : slot'[i].tcp = slot[i].tcp /\ slot'[i].status = slot[i].status
      BY <1>1, <1>10, <2>1
    <2> QED
      BY <1>13, <2>2, UnchangedConnects DEF PingPeer
  (* The callback disconnects some after the slot has been upgraded ...     *)
  <1>14. CASE Established
    <2> DEFINE s == [slot EXCEPT ![cur].status = "CONNECTED", ![cur].rx = FALSE]
               t == [told EXCEPT ![cur] = TRUE]
    <2>1. PICK S \in SUBSET CallbackDrops : Leave(s, t, S)
      BY <1>14 DEF Established
    <2>2. /\ s \in [Slots -> ClientSlots]
          /\ s[cur].tcp = slot[cur].tcp /\ s[cur].status = "CONNECTED"
          /\ \A i \in Slots \ {cur} : s[i] = slot[i]
      <3> DEFINE r == [slot[cur] EXCEPT !.status = "CONNECTED", !.rx = FALSE]
      <3>1. r \in ClientSlots /\ r.tcp = slot[cur].tcp /\ r.status = "CONNECTED"
        BY <1>1, SlotTypes DEF ClientSlots
      <3>2. s = [slot EXCEPT ![cur] = r]
        BY <1>1
      <3> HIDE DEF r, s
      <3> QED
        BY <1>1, <3>1, <3>2
    <2>3. /\ t \in [Slots -> BOOLEAN]
          /\ t[cur] /\ \A i \in Slots \ {cur} : (t[i] <=> told[i])
      BY <1>1
    <2>4. Occupied(cur) /\ slot[cur].status # "CONNECTED"
      BY <1>4, <1>14 DEF Established
    <2> HIDE DEF s, t
    <2>5. \A i \in Slots :
              /\ s[i].tcp = slot[i].tcp
              /\ \/ s[i].status = slot[i].status /\ (t[i] <=> told[i])
                 \/ /\ Occupied(i) /\ slot[i].status # "CONNECTED"
                    /\ s[i].status = "CONNECTED" /\ t[i]
              /\ i \in S => Occupied(i)
      BY <1>1, <2>2, <2>3, <2>4
    <2>6. PlaceTypes /\ SlotInv /\ s \in [Slots -> ClientSlots] /\ t \in [Slots -> BOOLEAN]
      BY <1>1, <2>2, <2>3
    <2> QED
      BY <2>1, <2>5, <2>6, LeaveConnects
  (* ... or after its heartbeat has changed.                                *)
  <1>15. ASSUME NEW h \in Heartbeats, NEW D, \A i \in D : Occupied(i),
                Leave([slot EXCEPT ![cur] = [slot[cur] EXCEPT !.hb = h]], told, D)
         PROVE  Connection!Next
    <2> DEFINE s == [slot EXCEPT ![cur] = [slot[cur] EXCEPT !.hb = h]]
    <2>1. [slot[cur] EXCEPT !.hb = h] \in ClientSlots
      BY <1>1, SlotTypes
    <2>2. /\ s \in [Slots -> ClientSlots]
          /\ \A i \in Slots : s[i].tcp = slot[i].tcp /\ s[i].status = slot[i].status
      BY <1>1, <1>10, <2>1
    <2>3. Leave(s, told, D)
      BY <1>15
    <2> HIDE DEF s
    <2>4. \A i \in Slots :
              /\ s[i].tcp = slot[i].tcp
              /\ s[i].status = slot[i].status /\ (told[i] <=> told[i])
              /\ i \in D => Occupied(i)
      BY <1>15, <2>2
    <2>5. PlaceTypes /\ SlotInv /\ s \in [Slots -> ClientSlots] /\ told \in [Slots -> BOOLEAN]
      BY <1>1, <2>2
    <2> QED
      BY <2>3, <2>4, <2>5, LeaveConnects
  <1>16. slot[cur].hb \in Heartbeats /\ now \in Millis
    BY <1>1 DEF ClientSlots, Inv, Types, ControlTypes
  <1>17. ASSUME NEW kind \in ClientFrames, ReadMessage(kind)
         PROVE  Connection!Next
    <2>1. PICK S \in SUBSET CallbackDrops :
              Leave(IF kind = "pong" THEN [slot EXCEPT ![cur].hb = PongNoted(@)] ELSE slot,
                    told, S)
      BY <1>17 DEF ReadMessage
    <2>2. CASE kind = "pong"
      <3>1. Leave([slot EXCEPT ![cur] = [slot[cur] EXCEPT !.hb = PongNoted(slot[cur].hb)]],
                  told, S)
        BY <2>1, <2>2
      <3>2. PongNoted(slot[cur].hb) \in Heartbeats
        BY <1>16, HeartbeatTypes
      <3> QED
        BY <1>1, <1>15, <3>1, <3>2
    <2>3. CASE kind # "pong"
      BY <1>1, <2>1, <2>3, PlainLeaveConnects
    <2> QED
      BY <2>2, <2>3
  <1>18. CASE HBTimeout
    <2> DEFINE h == CheckPong(slot[cur].hb, now)
    <2>1. h \in Heartbeats
      BY <1>16, HeartbeatTypes
    <2>2. CASE GivesUp(slot[cur].hb, now)
      <3>1. PICK S \in SUBSET CallbackDrops :
                Leave([slot EXCEPT ![cur].hb = h], told, S \union {cur})
        BY <1>18, <2>2 DEF HBTimeout
      <3>2. \A i \in S \union {cur} : Occupied(i)
        BY <1>1, <1>18, <2>2 DEF HBTimeout, LateGiveUp
      <3>3. Leave([slot EXCEPT ![cur] = [slot[cur] EXCEPT !.hb = h]], told, S \union {cur})
        BY <3>1
      <3> HIDE DEF h
      <3> QED
        BY <1>15, <2>1, <3>2, <3>3
    <2>3. CASE ~GivesUp(slot[cur].hb, now)
      <3>1. /\ slot' = [slot EXCEPT ![cur] = [slot[cur] EXCEPT !.hb = h]]
            /\ UNCHANGED <<told, owed>>
        BY <1>18, <2>3 DEF HBTimeout
      <3>2. \A i \in Slots : slot'[i].tcp = slot[i].tcp /\ slot'[i].status = slot[i].status
        BY <1>1, <1>10, <3>1
      <3> QED
        BY <3>1, <3>2, UnchangedConnects
    <2> QED
      BY <2>2, <2>3
  <1> QED
    BY <1>5, <1>6, <1>7, <1>8, <1>11, <1>12, <1>13, <1>14, <1>17, <1>18 DEF Serve

(* The calls of the sketch.                                                *)
LEMMA AppConnects ==
    ASSUME Inv, App
    PROVE  Connection!Next
  <1>1. /\ PlaceTypes /\ SlotInv /\ slot \in [Slots -> ClientSlots]
        /\ \A D \in {AllOccupied, LostSlots} : \A i \in D : i \in Slots /\ Occupied(i)
        /\ \A S \in SUBSET CallbackDrops : \A i \in S : i \in Slots /\ Occupied(i)
    BY DEF Inv, Types, PlaceTypes, CallbackDrops, AllOccupied, LostSlots
  <1>2. ASSUME NEW i \in Slots, AppSend(i) \/ AppDisconnect(i)
        PROVE  Connection!Next
    <2>1. PICK S \in SUBSET CallbackDrops : Leave(slot, told, S \union {i})
      BY <1>2 DEF AppSend, AppDisconnect
    <2>2. \A j \in S \union {i} : Occupied(j)
      BY <1>1, <1>2 DEF AppSend, AppDisconnect
    <2> QED
      BY <1>1, <2>1, <2>2, PlainLeaveConnects
  <1>3. CASE AppBroadcast \/ AppPingConnected
    <2>1. PICK S \in SUBSET CallbackDrops, lost \in SUBSET LostSlots :
              Leave(slot, told, S \union lost)
      BY <1>3 DEF AppBroadcast, AppPingConnected
    <2>2. \A i \in S \union lost : Occupied(i)
      BY <1>1
    <2> QED
      BY <1>1, <2>1, <2>2, PlainLeaveConnects
  <1>4. CASE AppDisconnectAll
    BY <1>1, <1>4, PlainLeaveConnects DEF AppDisconnectAll
  <1>5. CASE AppEnableHeartbeat \/ AppDisableHeartbeat \/ AppBegin
    <2>1. \A i \in Slots : slot'[i].tcp = slot[i].tcp /\ slot'[i].status = slot[i].status
      BY <1>1, <1>5 DEF AppEnableHeartbeat, AppDisableHeartbeat, AppBegin, ClientSlots
    <2>2. UNCHANGED <<told, owed>>
      BY <1>5 DEF AppEnableHeartbeat, AppDisableHeartbeat, AppBegin
    <2> QED
      BY <2>1, <2>2, UnchangedConnects
  <1>6. CASE AppClose
    <2>1. ASSUME NEW i \in Slots
          PROVE  Connection!Step(i)
      <3>1. Good(slot[i], told[i], owed[i], seen[i], misses[i]) /\ owed[i] \in Int
        BY <1>1 DEF SlotInv, PlaceTypes
      <3>2. slot'[i].tcp = NoPeer /\ slot'[i].status = "NOT_CONNECTED"
        BY <1>6 DEF AppClose, EmptySlot
      <3>3. /\ told'[i] = (told[i] /\ i \notin AllOccupied)
            /\ owed'[i] = IF i \in AllOccupied /\ owed[i] >= 0 THEN owed[i] - 1 ELSE owed[i]
        BY <1>6 DEF AppClose, ToldAfter, OwedAfter
      <3>4. CASE Occupied(i)
        <4>1. i \in AllOccupied /\ owed[i] >= 0
          BY <3>1, <3>4 DEF AllOccupied, Good, Occupied
        <4>2. owed'[i] = owed[i] - 1
          BY <3>3, <4>1
        <4>3. told'[i] = FALSE
          BY <3>3, <4>1
        <4>4. PlaceTypes /\ SlotInv
          BY <1>1
        <4>5. Connection!Ends(i)
          BY <3>2, <3>4, <4>2, <4>3, <4>4, VacatedEnds
        <4> QED
          BY <4>5 DEF Connection!Step
      <3>5. CASE ~Occupied(i)
        <4>1. slot[i].tcp = NoPeer /\ slot[i].status = "NOT_CONNECTED" /\ i \notin AllOccupied
          BY <3>1, <3>5 DEF Occupied, Good, Vacant, AllOccupied
        <4>2. told'[i] = told[i]
          BY <1>1, <3>3, <4>1 DEF PlaceTypes
        <4> QED
          BY <3>2, <3>3, <4>1, <4>2, KeptStays DEF Connection!Step
      <3> QED
        BY <3>4, <3>5
    <2> QED
      BY <2>1 DEF Connection!Next
  <1> QED
    BY <1>2, <1>3, <1>4, <1>5, <1>6 DEF App, AppSends

(* A step of the server is a step of its connections.                      *)
LEMMA ConnectionStep ==
    ASSUME Inv, ~LateGiveUp, [Next]_vars
    PROVE  [Connection!Next]_<<[i \in Slots |-> Stage(i)], told, owed>>
  <1>1. CASE Environment \/ UNCHANGED vars \/ EnterLoop \/ AcceptDone
    <2>1. UNCHANGED <<slot, told, owed>>
      BY <1>1, EnvironmentKeepsSlots DEF vars, place, EnterLoop, AcceptDone
    <2> QED
      BY <2>1, UnchangedConnects
  <1>2. ASSUME NEW p \in Peers, Accept(p)
        PROVE  Connection!Next
    BY <1>2, NewClientConnects DEF Accept
  <1>3. ASSUME NEW p \in Peers, AcceptFull(p)
        PROVE  Connection!Next
    BY <1>3, UnchangedConnects DEF AcceptFull, NoFreeSpace
  <1> QED
    BY <1>1, <1>2, <1>3, ServeConnects, AppConnects DEF Next, Loop

(* The slots of a new server are places without connections.               *)
LEMMA ConnectionInit == Init => Connection!Init
  BY DEF Init, EmptySlot, Connection!Init, Stage, Occupied

(* As long as no late timeout empties a slot twice, the server implements   *)
(* Connections: sockets open, come up and end in order, and each end is     *)
(* told once.                                                              *)
THEOREM ConnectionsImplemented == Spec /\ []~LateGiveUp => ConnectionSpec
  <1>1. Init => Connection!Init
    BY ConnectionInit
  <1>2. Inv /\ ~LateGiveUp /\ [Next]_vars =>
            [Connection!Next]_<<[i \in Slots |-> Stage(i)], told, owed>>
    BY ConnectionStep
  <1> QED
    BY <1>1, <1>2, Invariance, PTL DEF Spec, ConnectionSpec, Connection!Spec

(* A heartbeat that never gives up: it only pings                          *)
(* (DisconnectTimeoutCount = 0), or the sketch never enables one, before     *)
(* begin() or later.                                                       *)
NeverGivesUp ==
    DisconnectTimeoutCount = 0 \/ (~HeartbeatOn /\ "enableHeartbeat" \notin AppCalls)

NoHeartbeats == ~heartbeat /\ \A i \in Slots : ~slot[i].hb.enabled

(* Disconnecting leaves every heartbeat switched off.                      *)
LEMMA LeaveStaysOff ==
    ASSUME NEW s \in [Slots -> ClientSlots], NEW D, \A i \in Slots : ~s[i].hb.enabled
    PROVE  /\ \A i \in Slots : ~SlotsAfter(s, D)[i].hb.enabled
           /\ \A t : Leave(s, t, D) => \A i \in Slots : ~slot'[i].hb.enabled
  <1>1. \A x \in ClientSlots : Disconnected(x).hb = x.hb
    BY DEF Disconnected, ClientSlots
  <1> QED
    BY <1>1 DEF Leave, SlotsAfter

(* So does all of handleClientData.                                        *)
LEMMA ServeStaysOff ==
    ASSUME Types, NoHeartbeats, Serve
    PROVE  NoHeartbeats'
  <1>1. /\ cur \in Slots
        /\ slot \in [Slots -> ClientSlots] /\ slot[cur] \in ClientSlots
        /\ slot[cur].hb \in Heartbeats /\ now \in Millis
        /\ \A i \in Slots : ~slot[i].hb.enabled
        /\ ~slot[cur].hb.enabled
    BY DEF Types, ControlTypes, PlaceTypes, ClientSlots, NoHeartbeats
  <1>2. ~heartbeat'
    BY DEF NoHeartbeats, Serve, SkipSlot, NoData, ReadLine, HandshakeFails, Established,
           ReadsData, ReadsFrame, ReadMessage, ReadLastFrame, FrameCut, PingNotDue, PingPeer,
           PingFails, HBTimeout
  <1>3. ASSUME \A i \in Slots : ~slot'[i].hb.enabled
        PROVE  NoHeartbeats'
    BY <1>2, <1>3 DEF NoHeartbeats
  <1>4. ASSUME NEW D, Leave(slot, told, D)
        PROVE  NoHeartbeats'
    BY <1>1, <1>3, <1>4, LeaveStaysOff
  <1>5. CASE UNCHANGED place
    BY <1>1, <1>3, <1>5 DEF place
  <1>6. CASE SkipSlot \/ NoData \/ PingNotDue \/ HandshakeFails \/ PingFails
    BY <1>4, <1>5, <1>6 DEF SkipSlot, NoData, PingNotDue, HandshakeFails, PingFails
  <1>7. ASSUME NEW kind \in ClientFrames, ReadLastFrame(kind)
        PROVE  NoHeartbeats'
    BY <1>4, <1>7 DEF ReadLastFrame
  <1>8. ASSUME NEW line \in ClientLines, ReadLine(line)
        PROVE  NoHeartbeats'
    <2>1. \A r : [slot[cur] EXCEPT !.req = r].hb = slot[cur].hb
      BY <1>1 DEF ClientSlots
    <2>2. slot' = [slot EXCEPT ![cur] = [slot[cur] EXCEPT !.req = AfterLine(slot[cur].req, line)]]
      BY <1>8 DEF ReadLine
    <2> QED
      BY <1>1, <1>3, <2>1, <2>2
  <1>9. CASE FrameCut
    <2>1. [slot[cur] EXCEPT !.rx = TRUE].hb = slot[cur].hb
      BY <1>1 DEF ClientSlots
    <2> QED
      BY <1>1, <1>3, <1>9, <2>1 DEF FrameCut
  <1>10. CASE Established
    <2> DEFINE r == [slot[cur] EXCEPT !.status = "CONNECTED", !.rx = FALSE]
               s == [slot EXCEPT ![cur].status = "CONNECTED", ![cur].rx = FALSE]
    <2>1. r \in ClientSlots /\ r.hb = slot[cur].hb
      BY <1>1, SlotTypes DEF ClientSlots
    <2>2. s = [slot EXCEPT ![cur] = r]
      BY <1>1
    <2>3. PICK S : Leave(s, [told EXCEPT ![cur] = TRUE], S)
      BY <1>10 DEF Established
    <2> HIDE DEF r, s
    <2>4. s \in [Slots -> ClientSlots] /\ \A i \in Slots : ~s[i].hb.enabled
      BY <1>1, <2>1, <2>2
    <2> QED
      BY <1>3, <2>3, <2>4, LeaveStaysOff
  <1>11. ASSUME NEW kind \in ClientFrames, ReadMessage(kind)
         PROVE  NoHeartbeats'
    <2> DEFINE r == [slot[cur] EXCEPT !.hb = PongNoted(slot[cur].hb)]
               s == [slot EXCEPT ![cur] = r]
    <2>1. PongNoted(slot[cur].hb) \in Heartbeats /\ ~PongNoted(slot[cur].hb).enabled
      BY <1>1, HeartbeatTypes DEF PongNoted, Heartbeats
    <2>2. r \in ClientSlots /\ ~r.hb.enabled
      BY <1>1, <2>1, SlotTypes DEF ClientSlots
    <2>3. PICK S : Leave(s, told, S) \/ Leave(slot, told, S)
      BY <1>11 DEF ReadMessage
    <2> HIDE DEF r
    <2>4. s \in [Slots -> ClientSlots] /\ \A i \in Slots : ~s[i].hb.enabled
      BY <1>1, <2>2
    <2> HIDE DEF s
    <2> QED
      BY <1>3, <1>4, <2>3, <2>4, LeaveStaysOff
  <1>12. CASE PingPeer
    BY <1>1, <1>12 DEF PingPeer, PingDue
  <1>13. CASE HBTimeout
    <2>1. ~PongOverdue(slot[cur].hb, now) /\ CheckPong(slot[cur].hb, now) = slot[cur].hb
      BY <1>1 DEF CheckPong, PongOverdue
    <2>2. ~GivesUp(slot[cur].hb, now)
      BY <2>1 DEF GivesUp
    <2>3. slot' = [slot EXCEPT ![cur].hb = slot[cur].hb]
      BY <1>13, <2>1, <2>2 DEF HBTimeout
    <2>4. [slot[cur] EXCEPT !.hb = slot[cur].hb].hb = slot[cur].hb
      BY <1>1 DEF ClientSlots
    <2> QED
      BY <1>1, <1>3, <2>3, <2>4
  <1> QED
    BY <1>6, <1>7, <1>8, <1>9, <1>10, <1>11, <1>12, <1>13 DEF Serve

(* ... newClient, and the calls other than enableHeartbeat.                *)
LEMMA NewClientStaysOff ==
    ASSUME Types, NoHeartbeats, NEW p \in Peers, NEW line, NewClient(p, line)
    PROVE  NoHeartbeats'
  <1>1. slot \in [Slots -> ClientSlots] /\ \A i \in Slots : ~slot[i].hb.enabled
    BY DEF Types, PlaceTypes, NoHeartbeats
  <1>2. PICK i \in Slots, D \in SUBSET Slots :
            slot' = [SlotsAfter(slot, D) EXCEPT
                         ![i] = GivenLine(Taken(SlotsAfter(slot, D)[i], p), line)]
    BY DEF NewClient, CallbackDrops
  <1> DEFINE left == SlotsAfter(slot, D)
  <1>3. left \in [Slots -> ClientSlots] /\ \A j \in Slots : ~left[j].hb.enabled
    <2>1. \A x \in ClientSlots : Disconnected(x) \in ClientSlots
      BY SlotTypes
    <2>2. left \in [Slots -> ClientSlots]
      BY <1>1, <2>1 DEF SlotsAfter
    <2> QED
      BY <1>1, <2>2, LeaveStaysOff
  <1> HIDE DEF left
  <1>4. ASSUME NEW x \in ClientSlots
        PROVE  ~GivenLine(Taken(x, p), line).hb.enabled
    BY DEF GivenLine, Taken, FreshHeartbeat, ClientSlots, NoHeartbeats
  <1>5. slot' = [left EXCEPT ![i] = GivenLine(Taken(left[i], p), line)]
    BY <1>2 DEF left
  <1>6. ~heartbeat'
    BY DEF NewClient, NoHeartbeats
  <1> QED
    BY <1>3, <1>4, <1>5, <1>6 DEF NoHeartbeats

LEMMA AppStaysOff ==
    ASSUME Types, NoHeartbeats, "enableHeartbeat" \notin AppCalls, App
    PROVE  NoHeartbeats'
  <1>1. /\ slot \in [Slots -> ClientSlots]
        /\ \A i \in Slots : ~slot[i].hb.enabled /\ slot[i].hb \in Heartbeats
    BY DEF Types, PlaceTypes, ClientSlots, NoHeartbeats
  <1>2. ~AppEnableHeartbeat
    BY DEF AppEnableHeartbeat, Call
  <1>3. CASE AppSends \/ AppPingConnected \/ AppDisconnectAll \/ \E i \in Slots : AppDisconnect(i)
    <2>1. UNCHANGED heartbeat /\ \E D : Leave(slot, told, D)
      BY <1>3 DEF AppSends, AppSend, AppBroadcast, AppPingConnected, AppDisconnectAll,
                  AppDisconnect
    <2> QED
      BY <1>1, <2>1, LeaveStaysOff DEF NoHeartbeats
  <1>4. CASE AppDisableHeartbeat
    BY <1>1, <1>4 DEF AppDisableHeartbeat, DisableHeartbeat, NoHeartbeats, ClientSlots, Heartbeats
  <1>5. CASE AppClose
    BY <1>5 DEF AppClose, EmptySlot, NoHeartbeat, NoHeartbeats
  <1>6. CASE AppBegin
    <2>1. slot' = [i \in Slots |-> [slot[i] EXCEPT !.hb = [slot[i].hb EXCEPT !.enabled = heartbeat]]]
      BY <1>6 DEF AppBegin
    <2>2. \A i \in Slots : ~[slot[i].hb EXCEPT !.enabled = heartbeat].enabled
      BY <1>1 DEF Heartbeats, NoHeartbeats
    <2>3. \A i \in Slots : slot'[i].hb = [slot[i].hb EXCEPT !.enabled = heartbeat]
      BY <1>1, <2>1 DEF ClientSlots
    <2>4. ~heartbeat'
      BY <1>6 DEF AppBegin, NoHeartbeats
    <2> QED
      BY <2>2, <2>3, <2>4 DEF NoHeartbeats
  <1> QED
    BY <1>2, <1>3, <1>4, <1>5, <1>6 DEF App

LEMMA StaysOffStep ==
    ASSUME Types, NoHeartbeats, "enableHeartbeat" \notin AppCalls, [Next]_vars
    PROVE  NoHeartbeats'
  <1>1. CASE Environment \/ EnterLoop \/ AcceptDone \/ UNCHANGED vars
    BY <1>1 DEF NoHeartbeats, Environment, Tick, PeerConnects, PeerGivesUp, PeerDrops, PeerMoves,
                EnterLoop, AcceptDone, vars, place
  <1>2. ASSUME NEW p \in Peers, Accept(p) \/ AcceptFull(p)
        PROVE  NoHeartbeats'
    BY <1>2, NewClientStaysOff DEF Accept, AcceptFull, NoFreeSpace, NoHeartbeats
  <1> QED
    BY <1>1, <1>2, ServeStaysOff, AppStaysOff DEF Next, Loop

LEMMA InitOff ==
    ASSUME Init, ~HeartbeatOn
    PROVE  NoHeartbeats
  BY DEF Init, EmptySlot, NoHeartbeat, NoHeartbeats

(* A switched-off heartbeat never gives up.                                *)
LEMMA OffNeverLate == Types /\ NoHeartbeats => ~LateGiveUp
  BY DEF Types, ControlTypes, NoHeartbeats, LateGiveUp, GivesUp, PongOverdue

(* A server whose heartbeat never gives up implements Connections.         *)
THEOREM ConnectionsWithoutHeartbeat ==
    ASSUME NeverGivesUp
    PROVE  Spec => ConnectionSpec
  <1>1. CASE DisconnectTimeoutCount = 0
    <2>1. Inv => ~LateGiveUp
      BY <1>1 DEF LateGiveUp, GivesUp
    <2> QED
      BY <2>1, Invariance, ConnectionsImplemented, PTL
  <1>2. CASE ~HeartbeatOn /\ "enableHeartbeat" \notin AppCalls
    <2>1. Init => NoHeartbeats
      BY <1>2, InitOff
    <2>2. Inv /\ NoHeartbeats /\ [Next]_vars => NoHeartbeats'
      BY <1>2, StaysOffStep DEF Inv
    <2>3. Inv /\ NoHeartbeats => ~LateGiveUp
      BY OffNeverLate DEF Inv
    <2> QED
      BY <2>1, <2>2, <2>3, Invariance, ConnectionsImplemented, PTL DEF Spec
  <1> QED
    BY <1>1, <1>2 DEF NeverGivesUp

-----------------------------------------------------------------------------
(***************************************************************************)
(* The heartbeat of the slots, with an array that is switched on before     *)
(* begin() and writes that do not fail: an upgraded peer is dropped only    *)
(* when it has left a ping unanswered.                                     *)
(***************************************************************************)

(* The difference of two readings, with and without a wrap between them.    *)
LEMMA ElapsedCases ==
    ASSUME NEW t \in Millis, NEW since \in Millis
    PROVE  /\ Elapsed(t, since) \in Millis
           /\ Elapsed(t, since) = IF t >= since THEN t - since ELSE t - since + ClockMod
  <1>1. \A m \in Nat \ {0} : /\ \A a \in 0 .. m - 1 : a % m = a
                             /\ \A a \in -m .. -1 : a % m = a + m
    BY SMT
  <1>2. CASE t >= since
    <2>1. t - since \in 0 .. ClockMod - 1
      BY <1>2 DEF Millis
    <2> QED
      BY <1>1, <1>2, <2>1 DEF Elapsed, Millis
  <1>3. CASE t < since
    <2>1. t - since \in -ClockMod .. -1 /\ ~(t >= since)
          /\ t - since + ClockMod \in 0 .. ClockMod - 1
      BY <1>3 DEF Millis
    <2> QED
      BY <1>1, <2>1 DEF Elapsed, Millis
  <1> QED
    BY <1>2, <1>3 DEF Millis

(* A tick adds one to it, until it wraps.                                  *)
LEMMA ElapsedTick ==
    ASSUME NEW t \in Millis, NEW since \in Millis, Elapsed(t, since) < ClockMod - 1
    PROVE  Elapsed((t + 1) % ClockMod, since) = Elapsed(t, since) + 1
  <1>1. PICK u \in Millis : u = (t + 1) % ClockMod
    <2>1. t + 1 \in Int
      BY DEF Millis
    <2> QED
      BY <2>1, RemainderInRange DEF Millis
  <1>2. u = IF t = ClockMod - 1 THEN 0 ELSE t + 1
    <2>1. \A m \in Nat \ {0} : m % m = 0 /\ \A a \in 0 .. m - 1 : a % m = a
      BY SMT
    <2>2. CASE t = ClockMod - 1
      BY <1>1, <2>1, <2>2
    <2>3. CASE t # ClockMod - 1
      <3>1. t + 1 \in 0 .. ClockMod - 1
        BY <2>3 DEF Millis
      <3> QED
        BY <1>1, <2>1, <2>3, <3>1
    <2> QED
      BY <2>2, <2>3
  <1>3. Elapsed(t, since) = IF t >= since THEN t - since ELSE t - since + ClockMod
    BY ElapsedCases
  <1>4. Elapsed(u, since) = IF u >= since THEN u - since ELSE u - since + ClockMod
    BY ElapsedCases
  <1>5. Elapsed(u, since) = Elapsed(t, since) + 1
    BY <1>2, <1>3, <1>4 DEF Millis
  <1> QED
    BY <1>1, <1>5

(* A reading taken d ticks back is d ticks old.                            *)
LEMMA Backdated ==
    ASSUME NEW t \in Millis, NEW d \in Millis
    PROVE  Elapsed(t, Elapsed(t, d)) = d
  <1>1. PICK b \in Millis : b = Elapsed(t, d)
    BY ElapsedCases
  <1>2. b = IF t >= d THEN t - d ELSE t - d + ClockMod
    BY <1>1, ElapsedCases
  <1>3. Elapsed(t, b) = IF t >= b THEN t - b ELSE t - b + ClockMod
    BY ElapsedCases
  <1>4. Elapsed(t, b) = d
    BY <1>2, <1>3 DEF Millis
  <1> QED
    BY <1>1, <1>4

(***************************************************************************)
(* The invariant.  A slot that has missed pongs either pings before its     *)
(* next handleHBTimeout as an upgraded one, or it is upgraded and its last  *)
(* ping is answered or timed from when it was sent.                        *)
(***************************************************************************)
PingElapsed(i) == Elapsed(now, slot[i].hb.lastPing)
Missed(i) == slot[i].hb.pongTimeoutCount

(* This pass of loop() has been through handleHBTimeout of the slot, ...    *)
Checked(i) == pc = "app" \/ (pc # "accept" /\ i < cur)

(* ... so as many ticks at most have passed since the last one.            *)
Slack(i) == lag + (IF Checked(i) THEN 0 ELSE MaxLag)

AtTimeout(i) == pc = "timeout" /\ cur = i /\ slot[i].status = "CONNECTED"

ForceBound == IF PongTimeout > PingInterval THEN PongTimeout ELSE PingInterval + 1

ForcedPing(i) ==
    /\ ~AtTimeout(i)
    /\ PingElapsed(i) > PingInterval
    /\ PingElapsed(i) <= ForceBound + Slack(i)

PingTimed(i) == pingAge[i] > PongTimeout \/ pingAge[i] = PingElapsed(i)

CountedRight(i) ==
    Occupied(i) /\ slot[i].hb.enabled =>
        \/ Missed(i) = 0
        \/ ForcedPing(i)
        \/ slot[i].status = "CONNECTED" /\ (slot[i].hb.pongReceived \/ PingTimed(i))

SwitchedOn == heartbeat => \A i \in Slots : Occupied(i) => slot[i].hb.enabled

HeartInv == SwitchedOn /\ \A i \in Slots : CountedRight(i)

(* What is assumed of the array and of the clock.                          *)
SteadyHeartbeat ==
    /\ "enableHeartbeat" \notin AppCalls
    /\ ~WritesFail
    /\ PingInterval + 2 * MaxLag + 1 < ClockMod
    /\ PongTimeout + 2 * MaxLag < ClockMod

-----------------------------------------------------------------------------
(* What a step may do to the heartbeat of a slot that is occupied after it, *)
(* other than Tick.                                                        *)
Fresh(i) == slot'[i].hb = FreshHeartbeat /\ heartbeat' = heartbeat

Stays(i) ==
    /\ Occupied(i)
    /\ UNCHANGED <<now, heartbeat>>
    /\ slot'[i].hb = slot[i].hb
    /\ slot'[i].status = slot[i].status
    /\ pingAge'[i] = pingAge[i]
    /\ Slack(i)' >= Slack(i)
    /\ AtTimeout(i)' => AtTimeout(i) \/ ~PingDue(slot[i].hb, now)

Upgraded(i) ==
    /\ Occupied(i)
    /\ slot[i].status = "HEADER"
    /\ UNCHANGED <<now, heartbeat>>
    /\ slot'[i].hb = slot[i].hb
    /\ Slack(i)' >= Slack(i)
    /\ pc' # "timeout"

Ponged(i) ==
    /\ Occupied(i)
    /\ slot'[i].status = "CONNECTED"
    /\ UNCHANGED heartbeat
    /\ slot'[i].hb = PongNoted(slot[i].hb)

Pinged(i) ==
    /\ Occupied(i)
    /\ slot'[i].status = "CONNECTED"
    /\ UNCHANGED <<now, heartbeat>>
    /\ slot'[i].hb = PingSent(slot[i].hb, now)
    /\ pingAge'[i] = 0

TimedOut(i) ==
    /\ Occupied(i)
    /\ pc = "timeout" /\ cur = i /\ Checked(i)'
    /\ UNCHANGED <<now, lag, heartbeat>>
    /\ slot'[i].hb = CheckPong(slot[i].hb, now)
    /\ slot'[i].status = slot[i].status
    /\ pingAge'[i] = pingAge[i]

SwitchedOff(i) ==
    /\ Occupied(i)
    /\ heartbeat' = FALSE
    /\ slot'[i].hb = DisableHeartbeat(slot[i].hb)

Restarted(i) ==
    /\ Occupied(i)
    /\ UNCHANGED <<now, lag, pc, cur, heartbeat>>
    /\ slot'[i].hb = [slot[i].hb EXCEPT !.enabled = heartbeat]
    /\ slot'[i].status = slot[i].status
    /\ pingAge'[i] = pingAge[i]

SlotStep(i) ==
    \/ Tick
    \/ Fresh(i) \/ Stays(i) \/ Upgraded(i) \/ Ponged(i) \/ Pinged(i) \/ TimedOut(i)
    \/ SwitchedOff(i) \/ Restarted(i)

(* No step but a handleHBTimeout gives a slot less time.                   *)
LEMMA SlackKept ==
    ASSUME ControlTypes, NEW i \in Slots,
           \/ UNCHANGED <<lag, pc, cur>>
           \/ EnterLoop \/ AcceptDone
           \/ pc \in {"data", "ping"} /\ pc' \in {"ping", "timeout"} /\ UNCHANGED <<lag, cur>>
           \/ pc \in {"data", "timeout"} /\ NextSlot /\ UNCHANGED lag /\ i # cur
    PROVE  Slack(i)' >= Slack(i)
  <1>1. lag \in 0 .. MaxLag /\ MaxLag \in Nat /\ cur \in 0 .. MaxClients - 1
        /\ i \in 0 .. MaxClients - 1
    BY DEF ControlTypes, Slots
  <1>2. CASE UNCHANGED <<lag, pc, cur>>
    BY <1>1, <1>2 DEF Slack, Checked
  <1>3. CASE EnterLoop
    BY <1>1, <1>3 DEF EnterLoop, Slack, Checked
  <1>4. CASE AcceptDone
    BY <1>1, <1>4 DEF AcceptDone, Slack, Checked
  <1>5. CASE pc \in {"data", "ping"} /\ pc' \in {"ping", "timeout"} /\ UNCHANGED <<lag, cur>>
    BY <1>1, <1>5 DEF Slack, Checked
  <1>6. CASE pc \in {"data", "timeout"} /\ NextSlot /\ UNCHANGED lag /\ i # cur
    BY <1>1, <1>6 DEF NextSlot, Slack, Checked, Slots
  <1> QED
    BY <1>2, <1>3, <1>4, <1>5, <1>6

(* Going on to the next slot, the last one has been checked.               *)
LEMMA NextChecked ==
    ASSUME ControlTypes, NextSlot, NEW i \in Slots, i = cur
    PROVE  Checked(i)'
  BY DEF ControlTypes, NextSlot, Checked, Slots

(* A slot that is occupied after some clientDisconnects is as it was        *)
(* without them.                                                           *)
LEMMA LeftSlot ==
    ASSUME NEW s \in [Slots -> ClientSlots], NEW t, NEW D, Leave(s, t, D),
           NEW i \in Slots, Occupied(i)'
    PROVE  slot'[i] = s[i] /\ i \notin D
  <1>1. \A x \in ClientSlots : Disconnected(x).tcp = NoPeer
    BY DEF Disconnected, ClientSlots
  <1>2. slot'[i] = IF i \in D THEN Disconnected(s[i]) ELSE s[i]
    BY DEF Leave, SlotsAfter
  <1> QED
    BY <1>1, <1>2 DEF Occupied

(* So steps that only disconnect leave the slots alone that stay occupied.  *)
LEMMA PlainLeaveStays ==
    ASSUME Types, NEW i \in Slots, Occupied(i)', NEW D, UNCHANGED place \/ Leave(slot, told, D),
           UNCHANGED <<now, heartbeat, pingAge>>, Slack(i)' >= Slack(i),
           AtTimeout(i)' => AtTimeout(i) \/ ~PingDue(slot[i].hb, now)
    PROVE  Stays(i)
  <1>1. slot'[i] = slot[i]
    BY LeftSlot DEF place, Types, PlaceTypes
  <1> QED
    BY <1>1 DEF Stays, Occupied

(* newClient: the slot it fills starts afresh.                             *)
LEMMA NewClientSlotStep ==
    ASSUME Types, NEW p \in Peers, NEW line, NewClient(p, line), NEW i \in Slots, Occupied(i)'
    PROVE  SlotStep(i)
  <1>a. PICK j \in Slots, S \in SUBSET CallbackDrops :
            LET E == IF Occupied(j) THEN S \union {j} ELSE {} IN
            /\ slot' = [SlotsAfter(slot, E) EXCEPT ![j] = GivenLine(Taken(@, p), line)]
            /\ pingAge' = [pingAge EXCEPT ![j] = NoPing]
    BY DEF NewClient
  <1> DEFINE D == IF Occupied(j) THEN S \union {j} ELSE {}
  <1>1. /\ slot' = [SlotsAfter(slot, D) EXCEPT
                        ![j] = GivenLine(Taken(SlotsAfter(slot, D)[j], p), line)]
        /\ pingAge' = [pingAge EXCEPT ![j] = NoPing]
    BY <1>a
  <1> HIDE DEF D
  <1>2. SlotsAfter(slot, D) \in [Slots -> ClientSlots]
    BY SlotTypes DEF SlotsAfter, Types, PlaceTypes
  <1>3. UNCHANGED <<now, lag, pc, cur, heartbeat>>
    BY DEF NewClient
  <1>4. CASE i = j
    <2>1. \A x \in ClientSlots : GivenLine(Taken(x, p), line).hb = FreshHeartbeat
      BY DEF GivenLine, Taken, ClientSlots
    <2> QED
      BY <1>1, <1>2, <1>3, <1>4, <2>1 DEF SlotStep, Fresh
  <1>5. CASE i # j
    <2>1. slot'[i] = SlotsAfter(slot, D)[i]
      BY <1>1, <1>2, <1>5
    <2>2. SlotsAfter(slot, D)[i] = IF i \in D THEN Disconnected(slot[i]) ELSE slot[i]
      BY DEF SlotsAfter
    <2>3. \A x \in ClientSlots : Disconnected(x).tcp = NoPeer
      BY DEF Disconnected, ClientSlots
    <2>4. slot[i] \in ClientSlots
      BY DEF Types, PlaceTypes
    <2>5. slot'[i] = slot[i] /\ Occupied(i)
      BY <2>1, <2>2, <2>3, <2>4 DEF Occupied
    <2>6. pingAge'[i] = pingAge[i]
      BY <1>1, <1>5 DEF Types, HistoryTypes
    <2>7. Slack(i)' >= Slack(i)
      BY <1>3, SlackKept DEF Types
    <2>8. AtTimeout(i)' => AtTimeout(i)
      BY <1>3, <2>5 DEF AtTimeout
    <2> QED
      BY <1>3, <2>5, <2>6, <2>7, <2>8 DEF SlotStep, Stays
  <1> QED
    BY <1>4, <1>5

(* The sketch's calls.                                                     *)
LEMMA AppSlotStep ==
    ASSUME Types, SteadyHeartbeat, App, NEW i \in Slots, Occupied(i)'
    PROVE  SlotStep(i)
  <1>1. /\ slot \in [Slots -> ClientSlots] /\ slot[i] \in ClientSlots
        /\ slot[i].hb \in Heartbeats
    BY DEF Types, PlaceTypes, ClientSlots
  <1>2. pc = "app" /\ UNCHANGED <<now, lag, pc, cur, pingAge>>
    BY DEF App, AppSends, AppSend, AppBroadcast, AppPingConnected, AppDisconnect,
           AppDisconnectAll, AppEnableHeartbeat, AppDisableHeartbeat, AppClose, AppBegin,
           Call, pings
  <1>3. Slack(i)' >= Slack(i)
    BY <1>2, SlackKept DEF Types
  <1>4. ~AppEnableHeartbeat
    BY DEF AppEnableHeartbeat, Call, SteadyHeartbeat
  <1>5. CASE AppSends \/ AppPingConnected \/ AppDisconnectAll \/ \E j \in Slots : AppDisconnect(j)
    <2>1. UNCHANGED heartbeat /\ \E D : Leave(slot, told, D)
      BY <1>5 DEF AppSends, AppSend, AppBroadcast, AppPingConnected, AppDisconnectAll,
                  AppDisconnect
    <2>2. ~AtTimeout(i)'
      BY <1>2 DEF AtTimeout
    <2> QED
      BY <1>2, <1>3, <2>1, <2>2, PlainLeaveStays DEF SlotStep
  <1>6. CASE AppDisableHeartbeat
    <2>1. slot'[i] = [slot[i] EXCEPT !.hb = DisableHeartbeat(slot[i].hb)] /\ heartbeat' = FALSE
      BY <1>6 DEF AppDisableHeartbeat
    <2>2. slot'[i].tcp = slot[i].tcp /\ slot'[i].hb = DisableHeartbeat(slot[i].hb)
      BY <1>1, <2>1 DEF ClientSlots
    <2> QED
      BY <2>1, <2>2 DEF SlotStep, SwitchedOff, Occupied
  <1>7. ~AppClose
    <2>1. AppClose => slot'[i].tcp = NoPeer
      BY DEF AppClose, EmptySlot
    <2> QED
      BY <2>1 DEF Occupied
  <1>8. CASE AppBegin
    <2> DEFINE h == [slot[i].hb EXCEPT !.enabled = heartbeat]
    <2>1. slot'[i] = [slot[i] EXCEPT !.hb = h] /\ heartbeat' = heartbeat
      BY <1>8 DEF AppBegin
    <2> HIDE DEF h
    <2>2. slot'[i].tcp = slot[i].tcp /\ slot'[i].hb = h /\ slot'[i].status = slot[i].status
      BY <1>1, <2>1 DEF ClientSlots
    <2>3. Occupied(i) /\ pingAge'[i] = pingAge[i]
      BY <1>2, <2>2 DEF Occupied
    <2> QED
      BY <1>2, <2>1, <2>2, <2>3 DEF SlotStep, Restarted, h
  <1> QED
    BY <1>4, <1>5, <1>6, <1>7, <1>8 DEF App

(* A step that changes only the slot cur, and disconnects others.          *)
LEMMA OtherStays ==
    ASSUME Types, NEW r \in ClientSlots, NEW t, NEW D,
           \/ slot' = [slot EXCEPT ![cur] = r]
           \/ Leave([slot EXCEPT ![cur] = r], t, D),
           NEW i \in Slots, i # cur, Occupied(i)', UNCHANGED <<now, heartbeat>>,
           pingAge'[i] = pingAge[i], Slack(i)' >= Slack(i), ~AtTimeout(i)'
    PROVE  Stays(i)
  <1> DEFINE s == [slot EXCEPT ![cur] = r]
  <1>1. s \in [Slots -> ClientSlots] /\ s[i] = slot[i]
    BY DEF Types, PlaceTypes
  <1> HIDE DEF s
  <1>2. slot' = s \/ Leave(s, t, D)
    BY DEF s
  <1>3. slot'[i] = slot[i]
    BY <1>1, <1>2, LeftSlot
  <1> QED
    BY <1>3 DEF Stays, Occupied

(* ... and what it does to that one.                                       *)
LEMMA CurrentBecomes ==
    ASSUME Types, NEW r \in ClientSlots, r.tcp = slot[cur].tcp, NEW t, NEW D,
           \/ slot' = [slot EXCEPT ![cur] = r]
           \/ Leave([slot EXCEPT ![cur] = r], t, D),
           NEW i \in Slots, i = cur, Occupied(i)'
    PROVE  slot'[i] = r /\ Occupied(i)
  <1> DEFINE s == [slot EXCEPT ![cur] = r]
  <1>1. s \in [Slots -> ClientSlots] /\ s[i] = r
    BY DEF Types, PlaceTypes
  <1> HIDE DEF s
  <1>2. slot' = s \/ Leave(s, t, D)
    BY DEF s
  <1>3. slot'[i] = r
    BY <1>1, <1>2, LeftSlot
  <1> QED
    BY <1>3 DEF Occupied

(* handleClientData.                                                       *)
LEMMA ServeSlotStep ==
    ASSUME Types, SteadyHeartbeat, Serve, NEW i \in Slots, Occupied(i)'
    PROVE  SlotStep(i)
  <1>1. /\ cur \in Slots
        /\ slot \in [Slots -> ClientSlots] /\ slot[cur] \in ClientSlots
        /\ slot[cur].hb \in Heartbeats /\ now \in Millis
        /\ pingAge \in [Slots -> NoPing .. PongTimeout + 1]
    BY DEF Types, ControlTypes, PlaceTypes, HistoryTypes, ClientSlots
  <1>2. UNCHANGED <<now, lag, heartbeat>>
    BY DEF Serve, SkipSlot, NoData, ReadLine, HandshakeFails, Established, ReadsData, ReadsFrame,
           ReadMessage, ReadLastFrame, FrameCut, PingNotDue, PingPeer, PingFails, HBTimeout
  <1>3. ASSUME ReadsData
        PROVE  Slack(i)' >= Slack(i) /\ ~AtTimeout(i)' /\ pc' = "ping"
    <2>1. Slack(i)' >= Slack(i)
      BY <1>3, SlackKept DEF Types, ReadsData
    <2> QED
      BY <1>3, <2>1 DEF ReadsData, AtTimeout
  <1>4. ASSUME pc \in {"data", "timeout"}, NextSlot, i # cur
        PROVE  Slack(i)' >= Slack(i) /\ ~AtTimeout(i)'
    <2>1. Slack(i)' >= Slack(i)
      BY <1>2, <1>4, SlackKept DEF Types
    <2> QED
      BY <1>4, <2>1 DEF NextSlot, AtTimeout
  <1>5. ASSUME pc = "ping", pc' = "timeout", UNCHANGED cur
        PROVE  Slack(i)' >= Slack(i) /\ (i # cur => ~AtTimeout(i)')
    <2>1. Slack(i)' >= Slack(i)
      BY <1>2, <1>5, SlackKept DEF Types
    <2> QED
      BY <1>5, <2>1 DEF AtTimeout
  <1>6. ASSUME ReadsData, UNCHANGED pingAge, NEW D, UNCHANGED place \/ Leave(slot, told, D)
        PROVE  SlotStep(i)
    BY <1>2, <1>3, <1>6, PlainLeaveStays DEF SlotStep
  <1>7. CASE SkipSlot
    <2>1. i # cur
      <3>1. ASSUME i = cur
            PROVE  FALSE
        <4>1. CASE UNCHANGED place /\ ~Occupied(cur)
          BY <3>1, <4>1 DEF place, Occupied
        <4>2. ASSUME NEW S, Leave(slot, told, S \union {cur})
              PROVE  FALSE
          BY <1>1, <3>1, <4>2, LeftSlot
        <4> QED
          BY <1>7, <4>1, <4>2 DEF SkipSlot
      <3> QED
        BY <3>1
    <2>2. Slack(i)' >= Slack(i) /\ ~AtTimeout(i)'
      BY <1>4, <1>7, <2>1 DEF SkipSlot
    <2>3. UNCHANGED pingAge /\ \E D : UNCHANGED place \/ Leave(slot, told, D)
      BY <1>7 DEF SkipSlot, pings
    <2> QED
      BY <1>2, <2>2, <2>3, PlainLeaveStays DEF SlotStep
  <1>8. CASE NoData \/ HandshakeFails
    <2>1. ReadsData /\ UNCHANGED pingAge /\ \E D : UNCHANGED place \/ Leave(slot, told, D)
      BY <1>8 DEF NoData, HandshakeFails, pings
    <2> QED
      BY <1>6, <2>1
  <1>9. ASSUME NEW kind, ReadLastFrame(kind)
        PROVE  SlotStep(i)
    <2>1. ReadsData /\ UNCHANGED pingAge /\ \E D : UNCHANGED place \/ Leave(slot, told, D)
      BY <1>9 DEF ReadLastFrame, ReadsFrame, pings
    <2> QED
      BY <1>6, <2>1
  <1>10. ASSUME NEW r \in ClientSlots, r.tcp = slot[cur].tcp, r.hb = slot[cur].hb,
                r.status = slot[cur].status, slot' = [slot EXCEPT ![cur] = r],
                ReadsData, UNCHANGED pingAge
         PROVE  SlotStep(i)
    <2>1. slot'[i] = IF i = cur THEN r ELSE slot[i]
      BY <1>1, <1>10
    <2>2. slot'[i].hb = slot[i].hb /\ slot'[i].status = slot[i].status /\ slot'[i].tcp = slot[i].tcp
      BY <1>10, <2>1
    <2> QED
      BY <1>2, <1>3, <1>10, <2>2 DEF SlotStep, Stays, Occupied
  <1>11. ASSUME NEW line \in ClientLines, ReadLine(line)
         PROVE  SlotStep(i)
    <2> DEFINE r == [slot[cur] EXCEPT !.req = AfterLine(slot[cur].req, line)]
    <2>1. AfterLine(slot[cur].req, line) \in Requests
      BY <1>1, RequestTypes DEF ClientSlots
    <2>2. r \in ClientSlots /\ r.tcp = slot[cur].tcp /\ r.hb = slot[cur].hb
          /\ r.status = slot[cur].status
      BY <1>1, <2>1, SlotTypes DEF ClientSlots
    <2>3. slot' = [slot EXCEPT ![cur] = r] /\ ReadsData /\ UNCHANGED pingAge
      BY <1>11 DEF ReadLine, pings
    <2> HIDE DEF r
    <2> QED
      BY <1>10, <2>2, <2>3
  <1>12. CASE FrameCut
    <2> DEFINE r == [slot[cur] EXCEPT !.rx = TRUE]
    <2>1. r \in ClientSlots /\ r.tcp = slot[cur].tcp /\ r.hb = slot[cur].hb
          /\ r.status = slot[cur].status
      BY <1>1, SlotTypes DEF ClientSlots
    <2>2. slot' = [slot EXCEPT ![cur] = r] /\ ReadsData /\ UNCHANGED pingAge
      BY <1>12 DEF FrameCut, pings
    <2> HIDE DEF r
    <2> QED
      BY <1>10, <2>1, <2>2
  <1>13. CASE Established
    <2> DEFINE r == [slot[cur] EXCEPT !.status = "CONNECTED", !.rx = FALSE]
    <2>1. r \in ClientSlots /\ r.tcp = slot[cur].tcp /\ r.hb = slot[cur].hb
      BY <1>1, SlotTypes DEF ClientSlots
    <2>2. [slot EXCEPT ![cur].status = "CONNECTED", ![cur].rx = FALSE] = [slot EXCEPT ![cur] = r]
      BY <1>1
    <2>3. PICK S, t : Leave([slot EXCEPT ![cur] = r], t, S)
      BY <1>13, <2>2 DEF Established
    <2>4. ReadsData /\ slot[cur].status = "HEADER" /\ pingAge' = [pingAge EXCEPT ![cur] = 0]
      BY <1>13 DEF Established
    <2> HIDE DEF r
    <2>5. CASE i = cur
      <3>1. slot'[i] = r /\ Occupied(i)
        BY <2>1, <2>3, <2>5, CurrentBecomes
      <3> QED
        BY <1>2, <1>3, <2>1, <2>4, <2>5, <3>1 DEF SlotStep, Upgraded
    <2>6. CASE i # cur
      <3>1. pingAge'[i] = pingAge[i]
        BY <1>1, <2>4, <2>6
      <3> QED
        BY <1>2, <1>3, <2>1, <2>3, <2>4, <2>6, <3>1, OtherStays DEF SlotStep
    <2> QED
      BY <2>5, <2>6
  <1>14. ASSUME NEW kind, ReadMessage(kind)
         PROVE  SlotStep(i)
    <2>1. ReadsData /\ slot[cur].status = "CONNECTED"
      BY <1>14 DEF ReadMessage, ReadsFrame
    <2>2. CASE kind # "pong"
      <3>1. UNCHANGED pingAge /\ \E D : Leave(slot, told, D)
        BY <1>14, <2>2 DEF ReadMessage
      <3> QED
        BY <1>6, <2>1, <3>1
    <2>3. CASE kind = "pong"
      <3> DEFINE r == [slot[cur] EXCEPT !.hb = PongNoted(slot[cur].hb)]
      <3>1. r \in ClientSlots /\ r.tcp = slot[cur].tcp /\ r.hb = PongNoted(slot[cur].hb)
            /\ r.status = slot[cur].status
        <4>1. PongNoted(slot[cur].hb) \in Heartbeats
          BY <1>1, HeartbeatTypes
        <4> QED
          BY <1>1, <4>1, SlotTypes DEF ClientSlots
      <3>2. PICK S : Leave([slot EXCEPT ![cur] = r], told, S)
        BY <1>14, <2>3 DEF ReadMessage
      <3>3. pingAge' = [pingAge EXCEPT ![cur] = NoPing]
        BY <1>14, <2>3 DEF ReadMessage
      <3> HIDE DEF r
      <3>4. CASE i = cur
        <4>1. slot'[i] = r /\ Occupied(i)
          BY <3>1, <3>2, <3>4, CurrentBecomes
        <4> QED
          BY <1>2, <2>1, <3>1, <3>4, <4>1 DEF SlotStep, Ponged
      <3>5. CASE i # cur
        <4>1. pingAge'[i] = pingAge[i]
          BY <1>1, <3>3, <3>5
        <4> QED
          BY <1>2, <1>3, <2>1, <3>1, <3>2, <3>5, <4>1, OtherStays DEF SlotStep
      <3> QED
        BY <3>4, <3>5
    <2> QED
      BY <2>2, <2>3
  <1>15. CASE PingNotDue
    <2>1. pc = "ping" /\ pc' = "timeout" /\ UNCHANGED <<cur, place, pingAge>>
          /\ ~PingDue(slot[cur].hb, now)
      BY <1>15 DEF PingNotDue, pings
    <2>2. AtTimeout(i)' => ~PingDue(slot[i].hb, now)
      BY <2>1 DEF AtTimeout
    <2> QED
      BY <1>2, <1>5, <2>1, <2>2, PlainLeaveStays DEF SlotStep
  <1>16. CASE PingPeer
    <2> DEFINE r == [slot[cur] EXCEPT !.hb = PingSent(slot[cur].hb, now)]
    <2>1. r \in ClientSlots /\ r.tcp = slot[cur].tcp /\ r.hb = PingSent(slot[cur].hb, now)
          /\ r.status = slot[cur].status
      <3>1. PingSent(slot[cur].hb, now) \in Heartbeats
        BY <1>1, HeartbeatTypes
      <3> QED
        BY <1>1, <3>1, SlotTypes DEF ClientSlots
    <2>2. /\ slot' = [slot EXCEPT ![cur] = r]
          /\ pc = "ping" /\ pc' = "timeout" /\ UNCHANGED cur
          /\ slot[cur].status = "CONNECTED"
          /\ pingAge' = [pingAge EXCEPT ![cur] = 0]
      BY <1>16 DEF PingPeer
    <2> HIDE DEF r
    <2>3. CASE i = cur
      <3>1. slot'[i] = r /\ Occupied(i)
        BY <2>1, <2>2, <2>3, CurrentBecomes
      <3> QED
        BY <1>1, <1>2, <2>1, <2>2, <2>3, <3>1 DEF SlotStep, Pinged
    <2>4. CASE i # cur
      <3>1. pingAge'[i] = pingAge[i]
        BY <1>1, <2>2, <2>4
      <3> QED
        BY <1>2, <1>5, <2>1, <2>2, <2>4, <3>1, OtherStays DEF SlotStep
    <2> QED
      BY <2>3, <2>4
  <1>17. CASE PingFails
    <2>1. pc = "ping" /\ pc' = "timeout" /\ UNCHANGED <<cur, pingAge>>
          /\ \E D : UNCHANGED place \/ Leave(slot, told, D)
      BY <1>17 DEF PingFails, pings
    <2>2. ~AtTimeout(i)'
      <3>1. CASE i # cur
        BY <1>5, <2>1, <3>1
      <3>2. CASE i = cur
        <4>1. ASSUME NEW S, Leave(slot, told, S \union {cur})
              PROVE  FALSE
          BY <1>1, <3>2, <4>1, LeftSlot
        <4>2. UNCHANGED place /\ slot[cur].status # "CONNECTED"
          BY <1>17, <4>1 DEF PingFails, SteadyHeartbeat
        <4> QED
          BY <3>2, <4>2 DEF AtTimeout, place
      <3> QED
        BY <3>1, <3>2
    <2> QED
      BY <1>2, <1>5, <2>1, <2>2, PlainLeaveStays DEF SlotStep
  <1>18. CASE HBTimeout
    <2> DEFINE h == CheckPong(slot[cur].hb, now)
               r == [slot[cur] EXCEPT !.hb = h]
    <2>1. r \in ClientSlots /\ r.tcp = slot[cur].tcp /\ r.hb = h /\ r.status = slot[cur].status
      <3>1. h \in Heartbeats
        BY <1>1, HeartbeatTypes
      <3> QED
        BY <1>1, <3>1, SlotTypes DEF ClientSlots
    <2>2. pc = "timeout" /\ NextSlot /\ UNCHANGED pingAge
      BY <1>18 DEF HBTimeout
    <2>3. \/ slot' = [slot EXCEPT ![cur] = r]
          \/ \E S : Leave([slot EXCEPT ![cur] = r], told, S \union {cur})
      BY <1>18 DEF HBTimeout
    <2> HIDE DEF h, r
    <2>4. CASE i = cur
      <3>1. [slot EXCEPT ![cur] = r] \in [Slots -> ClientSlots]
        BY <1>1, <2>1
      <3>2. ASSUME NEW S, Leave([slot EXCEPT ![cur] = r], told, S \union {cur})
            PROVE  FALSE
        <4>1. PICK s \in [Slots -> ClientSlots] : s = [slot EXCEPT ![cur] = r]
          BY <3>1
        <4>2. i \notin S \union {cur}
          BY <3>2, <4>1, LeftSlot
        <4> QED
          BY <2>4, <4>2
      <3>3. slot' = [slot EXCEPT ![cur] = r]
        BY <2>3, <3>2
      <3>4. slot'[i] = r /\ Occupied(i)
        BY <2>1, <2>4, <3>3, CurrentBecomes
      <3>5. Checked(i)'
        BY <2>2, <2>4, NextChecked DEF Types
      <3> QED
        BY <1>2, <2>1, <2>2, <2>4, <3>4, <3>5 DEF SlotStep, TimedOut, h
    <2>5. CASE i # cur
      BY <1>2, <1>4, <2>1, <2>2, <2>3, <2>5, OtherStays DEF SlotStep
    <2> QED
      BY <2>4, <2>5
  <1> QED
    BY <1>7, <1>8, <1>9, <1>11, <1>12, <1>13, <1>14, <1>15, <1>16, <1>17, <1>18 DEF Serve

(* Every step.                                                             *)
LEMMA SlotStepHolds ==
    ASSUME Types, SteadyHeartbeat, [Next]_vars, NEW i \in Slots, Occupied(i)'
    PROVE  SlotStep(i)
  <1>1. ASSUME UNCHANGED <<slot, now, heartbeat, pingAge>>, Slack(i)' >= Slack(i),
               AtTimeout(i)' => AtTimeout(i)
        PROVE  SlotStep(i)
    BY <1>1 DEF SlotStep, Stays, Occupied
  <1>2. CASE EnterLoop \/ AcceptDone
    <2>1. Slack(i)' >= Slack(i)
      BY <1>2, SlackKept DEF Types
    <2>2. ~AtTimeout(i)'
      BY <1>2 DEF EnterLoop, AcceptDone, AtTimeout
    <2> QED
      BY <1>1, <1>2, <2>1, <2>2 DEF EnterLoop, AcceptDone, place, pings
  <1>3. CASE UNCHANGED <<slot, now, heartbeat, pingAge, lag, pc, cur>>
    <2>1. Slack(i)' >= Slack(i)
      BY <1>3, SlackKept DEF Types
    <2> QED
      BY <1>1, <1>3, <2>1 DEF AtTimeout
  <1>4. CASE Environment \/ UNCHANGED vars
    BY <1>3, <1>4 DEF Environment, PeerConnects, PeerGivesUp, PeerDrops, PeerMoves, SlotStep,
                      vars, place, pings
  <1>5. ASSUME NEW p \in Peers, Accept(p)
        PROVE  SlotStep(i)
    BY <1>5, NewClientSlotStep DEF Accept
  <1>6. ASSUME NEW p \in Peers, AcceptFull(p)
        PROVE  SlotStep(i)
    BY <1>3, <1>6 DEF AcceptFull, NoFreeSpace, pings
  <1> QED
    BY <1>2, <1>4, <1>5, <1>6, ServeSlotStep, AppSlotStep DEF Next, Loop

-----------------------------------------------------------------------------
(* Nothing switches the heartbeat of the array on, or that of an occupied   *)
(* slot alone off.                                                         *)
LEMMA SwitchedOnKept ==
    ASSUME Types, SwitchedOn, SteadyHeartbeat, [Next]_vars
    PROVE  SwitchedOn'
  <1> SUFFICES ASSUME heartbeat', NEW i \in Slots, Occupied(i)'
               PROVE  slot'[i].hb.enabled
    BY DEF SwitchedOn
  <1>1. SlotStep(i)
    BY SlotStepHolds
  <1>2. slot[i].hb \in Heartbeats /\ heartbeat \in BOOLEAN
    BY DEF Types, ControlTypes, PlaceTypes, ClientSlots
  <1>3. Occupied(i) /\ heartbeat => slot[i].hb.enabled
    BY DEF SwitchedOn
  <1>4. CASE Tick
    BY <1>3, <1>4 DEF Tick, place, Occupied
  <1>5. CASE Fresh(i)
    BY <1>5 DEF Fresh, FreshHeartbeat
  <1>6. CASE Stays(i) \/ Upgraded(i)
    BY <1>3, <1>6 DEF Stays, Upgraded
  <1>7. CASE Ponged(i)
    BY <1>2, <1>3, <1>7 DEF Ponged, PongNoted, Heartbeats
  <1>8. CASE Pinged(i)
    BY <1>2, <1>3, <1>8 DEF Pinged, PingSent, Heartbeats
  <1>9. CASE TimedOut(i)
    <2>1. CheckPong(slot[i].hb, now).enabled = slot[i].hb.enabled
      BY <1>2 DEF CheckPong, Heartbeats
    <2> QED
      BY <1>3, <1>9, <2>1 DEF TimedOut
  <1>10. ~SwitchedOff(i)
    BY DEF SwitchedOff
  <1>11. CASE Restarted(i)
    BY <1>2, <1>11 DEF Restarted, Heartbeats
  <1> QED
    BY <1>1, <1>4, <1>5, <1>6, <1>7, <1>8, <1>9, <1>10, <1>11 DEF SlotStep

(* The numbers the proof calculates with.                                  *)
LEMMA SlotNumbers ==
    ASSUME Types, NEW i \in Slots
    PROVE  /\ slot[i].hb \in Heartbeats
           /\ now \in Millis /\ slot[i].hb.lastPing \in Millis
           /\ PingElapsed(i) \in 0 .. ClockMod - 1
           /\ lag \in 0 .. MaxLag
           /\ Slack(i) \in 0 .. 2 * MaxLag
           /\ pingAge[i] \in -1 .. PongTimeout + 1
           /\ Missed(i) \in 0 .. CountMod - 1
  <1>1. slot[i].hb \in Heartbeats /\ now \in Millis /\ lag \in 0 .. MaxLag
    BY DEF Types, ControlTypes, PlaceTypes, ClientSlots
  <1>2. slot[i].hb.lastPing \in Millis /\ slot[i].hb.pongTimeoutCount \in 0 .. CountMod - 1
    BY <1>1 DEF Heartbeats
  <1>3. PingElapsed(i) \in Millis
    BY <1>1, <1>2, ElapsedCases DEF PingElapsed
  <1>4. Slack(i) \in 0 .. 2 * MaxLag
    <2>1. (IF Checked(i) THEN 0 ELSE MaxLag) \in 0 .. MaxLag
      BY <1>1
    <2> QED
      BY <1>1, <2>1 DEF Slack
  <1>5. pingAge[i] \in -1 .. PongTimeout + 1
    BY DEF Types, HistoryTypes, NoPing
  <1> QED
    BY <1>1, <1>2, <1>3, <1>4, <1>5 DEF Millis, Missed

(* ... and after a step.                                                   *)
LEMMA NextNumbers ==
    ASSUME Types', NEW i \in Slots
    PROVE  PingElapsed(i)' \in 0 .. ClockMod - 1 /\ Slack(i)' \in 0 .. 2 * MaxLag
  <1>1. slot'[i].hb \in Heartbeats /\ now' \in Millis /\ lag' \in 0 .. MaxLag
    BY DEF Types, ControlTypes, PlaceTypes, ClientSlots
  <1>2. slot'[i].hb.lastPing \in Millis
    BY <1>1 DEF Heartbeats
  <1>3. PingElapsed(i)' \in Millis
    BY <1>1, <1>2, ElapsedCases DEF PingElapsed
  <1>4. Slack(i)' \in 0 .. 2 * MaxLag
    <2>1. Slack(i)' = lag' + 0 \/ Slack(i)' = lag' + MaxLag
      BY DEF Slack
    <2> QED
      BY <1>1, <2>1
  <1> QED
    BY <1>3, <1>4 DEF Millis

(* A heartbeat that is left alone, as long as a forced ping is not passed   *)
(* over.                                                                   *)
LEMMA KeptRight ==
    ASSUME Types, Types', NEW i \in Slots, Occupied(i), slot[i].hb.enabled, CountedRight(i),
           now' = now, slot'[i].hb.lastPing = slot[i].hb.lastPing,
           slot'[i].hb.pongTimeoutCount = slot[i].hb.pongTimeoutCount,
           slot[i].hb.pongReceived => slot'[i].hb.pongReceived,
           slot'[i].status = slot[i].status, pingAge'[i] = pingAge[i],
           Slack(i)' >= Slack(i),
           AtTimeout(i)' => AtTimeout(i) \/ ~(PingElapsed(i) > PingInterval)
    PROVE  CountedRight(i)'
  <1>1. PingElapsed(i)' = PingElapsed(i) /\ Missed(i)' = Missed(i)
    BY DEF PingElapsed, Missed
  <1>2. PingTimed(i) => PingTimed(i)'
    BY <1>1 DEF PingTimed
  <1>3. ForcedPing(i) => ForcedPing(i)'
    <2>1. PingElapsed(i) \in Nat /\ Slack(i) \in Nat /\ Slack(i)' \in Nat /\ ForceBound \in Nat
      BY SlotNumbers, NextNumbers DEF ForceBound
    <2>2. \A e, b, s, t \in Nat : e <= b + s /\ t >= s => e <= b + t
      OBVIOUS
    <2>3. PingElapsed(i) <= ForceBound + Slack(i) => PingElapsed(i) <= ForceBound + Slack(i)'
      BY <2>1, <2>2
    <2> QED
      BY <1>1, <2>3 DEF ForcedPing
  <1> QED
    BY <1>1, <1>2, <1>3 DEF CountedRight

(* A tick passes for the code's clock as for the ping that is out.          *)
LEMMA TickRight ==
    ASSUME Types, Types', SteadyHeartbeat, Tick, NEW i \in Slots, CountedRight(i)
    PROVE  CountedRight(i)'
  <1> SUFFICES ASSUME Occupied(i), slot[i].hb.enabled, Missed(i) # 0
               PROVE  ForcedPing(i)' \/ (slot[i].status = "CONNECTED" /\
                                         (slot[i].hb.pongReceived \/ PingTimed(i)'))
    BY DEF CountedRight, Tick, place, Occupied, Missed
  <1>1. /\ UNCHANGED <<slot, pc, cur>>
        /\ now' = (now + 1) % ClockMod
        /\ lag' = lag + 1
        /\ pingAge' = [j \in Slots |->
                           IF pingAge[j] = NoPing THEN NoPing
                           ELSE Older(pingAge[j], PongTimeout + 1)]
    BY DEF Tick, place
  <1>2. ASSUME PingElapsed(i) < ClockMod - 1
        PROVE  PingElapsed(i)' = PingElapsed(i) + 1
    <2>1. now \in Millis /\ slot[i].hb.lastPing \in Millis
      BY SlotNumbers
    <2>2. Elapsed((now + 1) % ClockMod, slot[i].hb.lastPing) = Elapsed(now, slot[i].hb.lastPing) + 1
      BY <1>2, <2>1, ElapsedTick DEF PingElapsed
    <2> QED
      BY <1>1, <2>2 DEF PingElapsed
  <1>3. /\ PingElapsed(i) \in Nat /\ Slack(i) \in 0 .. 2 * MaxLag /\ Slack(i)' \in 0 .. 2 * MaxLag
        /\ ForceBound \in Nat /\ ForceBound + 2 * MaxLag < ClockMod /\ MaxLag \in Nat \ {0}
        /\ lag \in Nat
    BY SlotNumbers, NextNumbers DEF ForceBound, SteadyHeartbeat
  <1>4. CASE ForcedPing(i)
    <2>1. Slack(i)' = Slack(i) + 1
      <3> DEFINE rest == IF Checked(i) THEN 0 ELSE MaxLag
      <3>1. Slack(i) = lag + rest /\ Slack(i)' = lag + 1 + rest
        BY <1>1 DEF Slack, Checked
      <3>2. rest \in Nat
        BY <1>3
      <3> HIDE DEF rest
      <3> QED
        BY <1>3, <3>1, <3>2
    <2>2. PingElapsed(i) <= ForceBound + Slack(i) /\ PingElapsed(i) > PingInterval /\ ~AtTimeout(i)
      BY <1>4 DEF ForcedPing
    <2>3. \A e, b, s, m \in Nat :
              e <= b + s /\ s + 1 <= 2 * m /\ b + 2 * m < ClockMod => e < ClockMod - 1
      OBVIOUS
    <2>4. PingElapsed(i)' = PingElapsed(i) + 1
      BY <1>2, <1>3, <2>1, <2>2, <2>3
    <2>5. PingElapsed(i)' <= ForceBound + Slack(i)' /\ PingElapsed(i)' > PingInterval
      BY <1>3, <2>1, <2>2, <2>4
    <2>6. ~AtTimeout(i)'
      BY <1>1, <2>2 DEF AtTimeout
    <2> QED
      BY <2>5, <2>6 DEF ForcedPing
  <1>5. CASE PingTimed(i)
    <2>1. pingAge[i] \in -1 .. PongTimeout + 1 /\ NoPing = -1
      BY SlotNumbers DEF NoPing
    <2>2. pingAge'[i] = IF pingAge[i] = NoPing THEN NoPing ELSE Older(pingAge[i], PongTimeout + 1)
      BY <1>1
    <2>3. CASE pingAge[i] > PongTimeout
      <3>1. pingAge'[i] > PongTimeout
        BY <2>1, <2>2, <2>3 DEF Older
      <3> QED
        BY <1>4, <1>5, <3>1 DEF CountedRight, PingTimed
    <2>4. CASE pingAge[i] = PingElapsed(i) /\ ~(pingAge[i] > PongTimeout)
      <3>1. pingAge[i] \in 0 .. PongTimeout
        BY <1>3, <2>1, <2>4
      <3>2. pingAge'[i] = pingAge[i] + 1
        BY <2>1, <2>2, <3>1 DEF Older
      <3>3. PingElapsed(i) < ClockMod - 1
        BY <1>3, <2>4, <3>1 DEF SteadyHeartbeat
      <3>4. PingElapsed(i)' = pingAge'[i]
        BY <1>2, <2>4, <3>2, <3>3
      <3> QED
        BY <1>4, <3>4 DEF CountedRight, PingTimed
    <2> QED
      BY <1>5, <2>3, <2>4 DEF PingTimed
  <1> QED
    BY <1>4, <1>5 DEF CountedRight

(* handleHBTimeout forces a ping, or clears the count, or finds the ping    *)
(* that is out still in time.                                              *)
LEMMA TimedOutRight ==
    ASSUME Types, Types', SteadyHeartbeat, NEW i \in Slots, slot[i].hb.enabled,
           CountedRight(i), TimedOut(i)
    PROVE  CountedRight(i)'
  <1>1. /\ Occupied(i) /\ now' = now
        /\ slot'[i].hb = CheckPong(slot[i].hb, now)
        /\ slot'[i].status = slot[i].status /\ pingAge'[i] = pingAge[i]
    BY DEF TimedOut
  <1>2. /\ slot[i].hb \in Heartbeats /\ now \in Millis
        /\ PingElapsed(i) \in Nat /\ Slack(i)' \in Nat /\ ForceBound \in Nat
    BY SlotNumbers, NextNumbers DEF ForceBound
  <1>3. ~AtTimeout(i)'
    <2>1. i \in Int
      BY DEF Slots
    <2> QED
      BY <2>1 DEF TimedOut, AtTimeout, Checked
  <1>4. ASSUME PingElapsed(i)' > PingInterval, PingElapsed(i)' <= ForceBound
        PROVE  ForcedPing(i)'
    <2>1. \A e, b, s \in Nat : e <= b => e <= b + s
      OBVIOUS
    <2>2. PingElapsed(i)' \in Nat
      BY NextNumbers
    <2>3. PingElapsed(i)' <= ForceBound + Slack(i)'
      BY <1>2, <1>4, <2>1, <2>2
    <2> QED
      BY <1>3, <1>4, <2>3 DEF ForcedPing
  <1>5. CASE PongOverdue(slot[i].hb, now)
    <2>1. slot'[i].hb.lastPing = Elapsed(now, PingInterval + ForcePingMargin)
      BY <1>1, <1>2, <1>5 DEF CheckPong, Heartbeats
    <2>2. PingInterval + ForcePingMargin = PingInterval + 1 /\ PingInterval + 1 \in Millis
      BY DEF ForcePingMargin, Millis, SteadyHeartbeat
    <2>3. Elapsed(now, Elapsed(now, PingInterval + 1)) = PingInterval + 1
      BY <1>2, <2>2, Backdated
    <2>4. PingElapsed(i)' = PingInterval + 1
      BY <1>1, <2>1, <2>2, <2>3 DEF PingElapsed
    <2>5. PingInterval + 1 <= ForceBound
      BY DEF ForceBound
    <2> QED
      BY <1>4, <2>4, <2>5 DEF CountedRight
  <1>6. CASE slot[i].hb.pongReceived
    <2>1. Missed(i)' = 0
      <3>1. CheckPong(slot[i].hb, now) = [slot[i].hb EXCEPT !.pongTimeoutCount = 0]
        BY <1>6 DEF CheckPong, PongOverdue
      <3> QED
        BY <1>1, <1>2, <3>1 DEF Missed, Heartbeats
    <2> QED
      BY <2>1 DEF CountedRight
  <1>7. CASE ~PongOverdue(slot[i].hb, now) /\ ~slot[i].hb.pongReceived
    <2>1. slot'[i].hb = slot[i].hb
      BY <1>1, <1>7 DEF CheckPong
    <2>2. PingElapsed(i)' = PingElapsed(i) /\ Missed(i)' = Missed(i)
      BY <1>1, <2>1 DEF PingElapsed, Missed
    <2>3. PingElapsed(i) <= PongTimeout
      BY <1>2, <1>7 DEF PongOverdue, PingElapsed
    <2>4. PingElapsed(i) > PingInterval => ForcedPing(i)'
      BY <1>2, <1>4, <2>2, <2>3 DEF ForceBound
    <2>5. PingTimed(i) => PingTimed(i)'
      BY <1>1, <2>2 DEF PingTimed
    <2> QED
      BY <1>1, <1>7, <2>2, <2>4, <2>5 DEF CountedRight, ForcedPing
  <1> QED
    BY <1>5, <1>6, <1>7

(* Every step.                                                             *)
LEMMA CountedRightKept ==
    ASSUME Types, Types', HeartInv, SteadyHeartbeat, [Next]_vars, NEW i \in Slots
    PROVE  CountedRight(i)'
  <1> SUFFICES ASSUME Occupied(i)', slot'[i].hb.enabled
               PROVE  CountedRight(i)'
    BY DEF CountedRight
  <1>1. SlotStep(i)
    BY SlotStepHolds
  <1>2. /\ slot[i].hb \in Heartbeats /\ now \in Millis /\ CountedRight(i)
        /\ heartbeat \in BOOLEAN
    BY DEF Types, ControlTypes, PlaceTypes, ClientSlots, HeartInv
  <1>3. CASE Tick
    BY <1>2, <1>3, TickRight
  <1>4. CASE Fresh(i)
    BY <1>4 DEF Fresh, FreshHeartbeat, CountedRight, Missed
  <1>5. CASE Stays(i)
    <2>1. PingDue(slot[i].hb, now) <=> slot[i].hb.enabled /\ PingElapsed(i) > PingInterval
      BY DEF PingDue, PingElapsed
    <2> QED
      BY <1>2, <1>5, <2>1, KeptRight DEF Stays
  <1>6. CASE Upgraded(i)
    <2>1. PingElapsed(i)' = PingElapsed(i) /\ Missed(i)' = Missed(i)
      BY <1>6 DEF Upgraded, PingElapsed, Missed
    <2>2. PingElapsed(i) \in Nat /\ Slack(i) \in Nat /\ Slack(i)' \in Nat /\ ForceBound \in Nat
      BY SlotNumbers, NextNumbers DEF ForceBound
    <2>3. \A e, b, s, t \in Nat : e <= b + s /\ t >= s => e <= b + t
      OBVIOUS
    <2>4. ForcedPing(i) => ForcedPing(i)'
      BY <1>6, <2>1, <2>2, <2>3 DEF Upgraded, ForcedPing, AtTimeout
    <2>5. Missed(i) = 0 \/ ForcedPing(i)
      BY <1>2, <1>6 DEF Upgraded, CountedRight
    <2> QED
      BY <2>1, <2>4, <2>5 DEF CountedRight
  <1>7. CASE Ponged(i)
    <2>1. slot'[i].hb.pongReceived
      BY <1>2, <1>7 DEF Ponged, PongNoted, Heartbeats
    <2> QED
      BY <1>7, <2>1 DEF Ponged, CountedRight
  <1>8. CASE Pinged(i)
    <2>1. slot'[i].hb.lastPing = now
      BY <1>2, <1>8 DEF Pinged, PingSent, Heartbeats
    <2>2. PingElapsed(i)' = 0
      <3>1. Elapsed(now, now) = 0
        BY <1>2, ElapsedCases DEF Millis
      <3> QED
        BY <1>8, <2>1, <3>1 DEF Pinged, PingElapsed
    <2> QED
      BY <1>8, <2>2 DEF Pinged, PingTimed, CountedRight
  <1>9. CASE TimedOut(i)
    <2>1. CheckPong(slot[i].hb, now).enabled = slot[i].hb.enabled
      BY <1>2 DEF CheckPong, Heartbeats
    <2> QED
      BY <1>2, <1>9, <2>1, TimedOutRight DEF TimedOut
  <1>10. ~SwitchedOff(i)
    <2>1. SwitchedOff(i) => slot'[i].hb.enabled = FALSE
      BY <1>2 DEF SwitchedOff, DisableHeartbeat, Heartbeats
    <2> QED
      BY <2>1
  <1>11. CASE Restarted(i)
    <2>1. /\ [slot[i].hb EXCEPT !.enabled = heartbeat].enabled = heartbeat
          /\ [slot[i].hb EXCEPT !.enabled = heartbeat].lastPing = slot[i].hb.lastPing
          /\ [slot[i].hb EXCEPT !.enabled = heartbeat].pongReceived = slot[i].hb.pongReceived
          /\ [slot[i].hb EXCEPT !.enabled = heartbeat].pongTimeoutCount
                 = slot[i].hb.pongTimeoutCount
      BY <1>2 DEF Heartbeats
    <2>2. slot[i].hb.enabled
      BY <1>11, <2>1 DEF Restarted, HeartInv, SwitchedOn
    <2>3. Slack(i)' >= Slack(i) /\ (AtTimeout(i)' => AtTimeout(i))
      BY <1>11, SlackKept DEF Types, Restarted, AtTimeout
    <2> QED
      BY <1>2, <1>11, <2>1, <2>2, <2>3, KeptRight DEF Restarted
  <1> QED
    BY <1>1, <1>3, <1>4, <1>5, <1>6, <1>7, <1>8, <1>9, <1>10, <1>11 DEF SlotStep

(***************************************************************************)
(* DropsOnlyUnansweredPeer.  With a count of one it is false: handleHBTimeout *)
(* also runs before the first ping.  With writes that fail it is false: the *)
(* count also grows by pings that were never out.                          *)
(***************************************************************************)
THEOREM DropsOnlyUnansweredPeerHolds ==
    ASSUME SteadyHeartbeat, DisconnectTimeoutCount # 1
    PROVE  Spec => DropsOnlyUnansweredPeer
  <1>1. Init => HeartInv
    <2>1. ASSUME Init, NEW i \in Slots
          PROVE  ~Occupied(i)
      BY <2>1 DEF Init, EmptySlot, Occupied
    <2> QED
      BY <2>1 DEF HeartInv, SwitchedOn, CountedRight
  <1>2. Inv /\ HeartInv /\ [Next]_vars => HeartInv'
    <2> SUFFICES ASSUME Inv, HeartInv, [Next]_vars PROVE HeartInv'
      OBVIOUS
    <2>1. Types /\ Types'
      BY TypesStep DEF Inv
    <2>2. SwitchedOn'
      BY <2>1, SwitchedOnKept DEF HeartInv
    <2>3. \A i \in Slots : CountedRight(i)'
      BY <2>1, CountedRightKept
    <2> QED
      BY <2>2, <2>3 DEF HeartInv
  <1>3. ASSUME Inv, HeartInv, [Next]_vars, NEW i \in Slots, HeartbeatDrop(i),
               slot[i].status = "CONNECTED"
        PROVE  pingAge[i] > PongTimeout
    <2>1. GivesUp(slot[i].hb, now) /\ pc = "timeout" /\ cur = i /\ Occupied(i)
      BY <1>3, DropIsGivingUp DEF HeartbeatDrop
    <2>2. /\ PongOverdue(slot[i].hb, now) /\ DisconnectTimeoutCount # 0
          /\ CheckPong(slot[i].hb, now).pongTimeoutCount >= DisconnectTimeoutCount
      BY <2>1 DEF GivesUp
    <2>3. /\ slot[i].hb \in Heartbeats /\ Missed(i) \in 0 .. CountMod - 1
          /\ PingElapsed(i) \in Nat /\ pingAge[i] \in -1 .. PongTimeout + 1
      BY <1>3, SlotNumbers DEF Inv
    <2>4. slot[i].hb.enabled /\ ~slot[i].hb.pongReceived /\ PingElapsed(i) > PongTimeout
      BY <2>2 DEF PongOverdue, PingElapsed
    <2>5. Missed(i) # 0
      <3>1. CheckPong(slot[i].hb, now).pongTimeoutCount = (Missed(i) + 1) % CountMod
        BY <2>2, <2>3 DEF CheckPong, Missed, Heartbeats
      <3>2. \A m \in Nat \ {0} : 1 % m <= 1
        BY SMT
      <3>3. 1 % CountMod \in 0 .. CountMod - 1
        BY RemainderInRange
      <3>4. ~(1 % CountMod >= DisconnectTimeoutCount)
        BY <2>2, <3>2, <3>3
      <3> QED
        BY <2>2, <3>1, <3>4
    <2>6. ~ForcedPing(i)
      BY <1>3, <2>1 DEF ForcedPing, AtTimeout
    <2>7. PingTimed(i)
      BY <1>3, <2>1, <2>4, <2>5, <2>6 DEF HeartInv, CountedRight
    <2> QED
      BY <2>3, <2>4, <2>7 DEF PingTimed
  <1>4. Inv /\ HeartInv /\ [Next]_vars =>
            [\A i \in Slots : HeartbeatDrop(i) /\ slot[i].status = "CONNECTED"
                                  => pingAge[i] > PongTimeout]_vars
    BY <1>3
  <1> QED
    BY <1>1, <1>2, <1>4, Invariance, PTL DEF Spec, DropsOnlyUnansweredPeer
=============================================================================
