----------------------- MODULE WebSocketsClient_proofs ----------------------
(***************************************************************************)
(* Proofs about WebSocketsClient, for every value of its constants: type   *)
(* correctness, and the safety properties that follow from the invariant   *)
(* Inv below, which relates the network object, the status, the step of    *)
(* loop() and the response.                                                *)
(***************************************************************************)
EXTENDS WebSocketsClient, TLAPS

USE HeartbeatAssumption, ClientAssumption

-----------------------------------------------------------------------------
(* The operators the actions are built from keep their types.              *)

(* A remainder is below its modulus: every clock reading is one.           *)
LEMMA RemainderInRange ==
    ASSUME NEW a \in Int, NEW m \in Nat \ {0}
    PROVE  a % m \in 0 .. m - 1
  BY SMT

(* The difference of two clock readings is a clock reading.                *)
LEMMA ElapsedType ==
    ASSUME NEW t \in Int, NEW since \in Int
    PROVE  Elapsed(t, since) \in Millis
  BY RemainderInRange DEF Elapsed, Millis

(* A saturating age stays within its cap.                                  *)
LEMMA OlderType ==
    ASSUME NEW cap \in Nat, NEW age \in 0 .. cap
    PROVE  Older(age, cap) \in 0 .. cap
  BY DEF Older

(* The heartbeat operations, begin()'s included, yield heartbeats.         *)
LEMMA HeartbeatTypes ==
    ASSUME NEW h \in Heartbeats, NEW t \in Millis
    PROVE  /\ EnableHeartbeat(h) \in Heartbeats
           /\ DisableHeartbeat(h) \in Heartbeats
           /\ PingSent(h, t) \in Heartbeats
           /\ [h EXCEPT !.lastPing = t] \in Heartbeats
           /\ PongNoted(h) \in Heartbeats
           /\ Begun(h) \in Heartbeats
           /\ CheckPong(h, t) \in Heartbeats
  <1>1. Elapsed(t, PingInterval + ForcePingMargin) \in Millis
    BY ElapsedType DEF Millis, ForcePingMargin
  <1>2. (h.pongTimeoutCount + 1) % CountMod \in 0 .. CountMod - 1
    <2>1. h.pongTimeoutCount + 1 \in Int
      BY DEF Heartbeats
    <2> QED
      BY <2>1, RemainderInRange
  <1>3. 0 \in Millis /\ 0 \in 0 .. CountMod - 1
    BY DEF Millis
  <1>4. CheckPong(h, t) \in Heartbeats
    BY <1>1, <1>2, <1>3 DEF CheckPong, Heartbeats
  <1> QED
    BY <1>3, <1>4 DEF EnableHeartbeat, DisableHeartbeat, PingSent, PongNoted, Begun, Heartbeats

(* The values the fields start from are of their types.                    *)
LEMMA InitialValueTypes ==
    /\ 0 \in Millis
    /\ ReconnectInterval \in 0 .. ReconnectInterval
    /\ HeaderAgeCap \in 0 .. HeaderAgeCap
    /\ NoResponse \in Responses
    /\ BegunResponse \in Responses
    /\ NoHeartbeat \in Heartbeats
  <1>1. 0 \in Millis /\ 0 \in 0 .. CountMod - 1
    BY DEF Millis
  <1>2. NoResponse \in Responses
    BY DEF NoResponse, Responses, Codes
  <1>3. BegunResponse \in Responses
    BY <1>2 DEF BegunResponse, Responses
  <1>4. NoHeartbeat \in Heartbeats
    BY <1>1 DEF NoHeartbeat, Heartbeats
  <1>5. ReconnectInterval \in Nat /\ HeaderAgeCap \in Nat
    BY DEF HeaderAgeCap
  <1> QED
    BY <1>1, <1>2, <1>3, <1>4, <1>5

(* Reading a line, changing the key and finding a session id keep a        *)
(* response a response.                                                    *)
LEMMA ResponseTypes ==
    ASSUME NEW r \in Responses, NEW line \in Lines
    PROVE  /\ NewKey(r) \in Responses
           /\ AfterLine(r, line) \in Responses
           /\ [r EXCEPT !.sid = TRUE] \in Responses
  BY DEF Responses, NewKey, AfterLine, Codes, Lines

-----------------------------------------------------------------------------
(* The part of TypeOK that Disconnect, and with it half of the actions,    *)
(* changes.                                                                *)
LinkTypeOK ==
    /\ tcp \in {"null", "open", "lost"}
    /\ status \in Statuses
    /\ resp \in Responses
    /\ lastConnectionFail \in Millis
    /\ told \in BOOLEAN
    /\ debt \in Int
    /\ failAge \in 0 .. ReconnectInterval

(* clientDisconnect leaves well-typed fields.                              *)
LEMMA DisconnectTypes ==
    ASSUME TypeOK, Disconnect
    PROVE  LinkTypeOK'
  BY DEF TypeOK, Disconnect, ForgetResponse, RememberFailure, ReportDisconnect, LinkTypeOK,
         Statuses, Responses, NoResponse, Codes

(* Leaving the fields alone does, too.                                     *)
LEMMA UnchangedLinkTypes ==
    ASSUME TypeOK, UNCHANGED link
    PROVE  LinkTypeOK'
  BY DEF TypeOK, link, LinkTypeOK

(* The verdicts on a response that has ended keep TypeOK.                  *)
LEMMA HeaderEndTypes ==
    ASSUME TypeOK, UNCHANGED <<now, lag>>, NEW r \in Responses, HeaderEnd(r)
    PROVE  TypeOK'
  <1>1. CASE AwaitBody(r)
    BY <1>1 DEF TypeOK, AwaitBody, Statuses, request, pings
  <1>2. CASE LostBeforeBody(r)
    BY <1>2 DEF TypeOK, LostBeforeBody, ForgetResponse, RememberFailure, ReportDisconnect,
                Statuses, Responses, NoResponse, Codes, request, pings
  <1>3. CASE HandshakeFails(r)
    BY <1>3, DisconnectTypes DEF LinkTypeOK, TypeOK, HandshakeFails, request, pings
  <1>4. CASE AskAgain(r)
    <2>1. LinkTypeOK'
      <3>1. CASE tcp = "open"
        BY <1>4, <3>1, ResponseTypes, "ignored" \in Lines
        DEF AskAgain, TypeOK, LinkTypeOK, Statuses, Lines
      <3>2. CASE tcp # "open"
        BY <1>4, <3>2, DisconnectTypes DEF AskAgain
      <3> QED
        BY <3>1, <3>2
    <2>2. NewKey(seen) \in Responses
      BY ResponseTypes, "ignored" \in Lines DEF TypeOK, Lines
    <2>3. lastHeaderSent' \in Millis /\ headerAge' \in 0 .. HeaderAgeCap
      BY <1>4 DEF AskAgain, RequestSent, TypeOK, HeaderAgeCap
    <2> QED
      BY <1>4, <2>1, <2>2, <2>3 DEF AskAgain, TypeOK, LinkTypeOK, pings
  <1>5. CASE Established(r)
    <2>1. LinkTypeOK'
      BY <1>5, DisconnectTypes DEF Established, TypeOK, LinkTypeOK, Statuses
    <2> QED
      BY <1>5, <2>1 DEF Established, HeaderDone, TypeOK, LinkTypeOK, request, pings
  <1> QED
    BY <1>1, <1>2, <1>3, <1>4, <1>5 DEF HeaderEnd

(* Every frame outcome keeps TypeOK.                                       *)
LEMMA FrameTypes ==
    ASSUME TypeOK,
           \/ \E kind \in ServerFrames : ReadMessage(kind)
           \/ ReadClose \/ ReadMalformed \/ FrameCut
    PROVE  TypeOK'
  <1>1. ASSUME NEW kind \in ServerFrames, ReadMessage(kind)
        PROVE  TypeOK'
    <2>1. LinkTypeOK'
      BY <1>1, DisconnectTypes, UnchangedLinkTypes DEF ReadMessage
    <2>2. hb' \in Heartbeats /\ pingAge' \in NoPing .. PongTimeout + 1
          /\ misses' \in 0 .. DisconnectTimeoutCount
      <3>1. CASE kind = "pong"
        <4>1. hb' \in Heartbeats
          BY <1>1, <3>1, HeartbeatTypes, InitialValueTypes DEF ReadMessage, TypeOK
        <4>2. pingAge' \in NoPing .. PongTimeout + 1
          BY <1>1, <3>1 DEF ReadMessage, NoPing
        <4>3. misses' \in 0 .. DisconnectTimeoutCount
          BY <1>1, <3>1 DEF ReadMessage, TypeOK
        <4> QED
          BY <4>1, <4>2, <4>3
      <3>2. CASE kind # "pong"
        BY <1>1, <3>2 DEF ReadMessage, TypeOK, pings
      <3> QED
        BY <3>1, <3>2
    <2> QED
      BY <1>1, <2>1, <2>2 DEF ReadMessage, ReadsFrame, ReadsData, LinkTypeOK, TypeOK, request
  <1>2. CASE ReadClose
    BY <1>2, DisconnectTypes
    DEF ReadClose, ReadsFrame, ReadsData, LinkTypeOK, TypeOK, request, pings
  <1>3. CASE ReadMalformed
    BY <1>3, DisconnectTypes
    DEF ReadMalformed, ReadsFrame, ReadsData, LinkTypeOK, TypeOK, request, pings
  <1>4. CASE FrameCut
    BY <1>4 DEF FrameCut, ReadsData, TypeOK, link, request, pings
  <1> QED
    BY <1>1, <1>2, <1>3, <1>4

(* Entering loop(), connected or not, keeps TypeOK.                        *)
LEMMA EnterLoopTypes ==
    ASSUME TypeOK,
           LoopWaits \/ ConnectFails \/ ConnectSucceeds \/ ConnectMismatch \/ LoopConnected
    PROVE  TypeOK'
  <1>1. CASE LoopWaits
    <2>1. LinkTypeOK'
      BY <1>1, DisconnectTypes, UnchangedLinkTypes DEF LoopWaits
    <2> QED
      BY <1>1, <2>1 DEF LoopWaits, EnterLoop, LinkTypeOK, TypeOK, request, pings
  <1>2. CASE ConnectFails
    BY <1>2, InitialValueTypes
    DEF ConnectFails, StartsConnect, EnterLoop, TypeOK, NoPing, request
  <1>3. CASE ConnectSucceeds
    <2>1. NewKey(resp) \in Responses
      BY ResponseTypes, "ignored" \in Lines DEF TypeOK, Lines
    <2> QED
      BY <1>3, <2>1, InitialValueTypes DEF ConnectSucceeds, StartsConnect, EnterLoop, RequestSent, TypeOK,
                              NoPing, Statuses, HeaderAgeCap
  <1>4. CASE ConnectMismatch
    <2>1. misses' \in 0 .. DisconnectTimeoutCount /\ pingAge' \in NoPing .. PongTimeout + 1
      BY <1>4 DEF ConnectMismatch, StartsConnect, NoPing
    <2>2. failAge' \in 0 .. ReconnectInterval /\ lag' \in 0 .. MaxLag
      BY <1>4 DEF ConnectMismatch, StartsConnect, EnterLoop
    <2>3. LinkTypeOK'
      BY <1>4, <2>2, InitialValueTypes DEF ConnectMismatch, LinkTypeOK, TypeOK, Statuses
    <2>4. now' \in Millis /\ pc' = pc /\ rx' = rx /\ hb' = hb /\ seen' \in Responses
      BY <1>4, InitialValueTypes DEF ConnectMismatch, StartsConnect, EnterLoop, TypeOK
    <2>5. lastHeaderSent' = lastHeaderSent /\ headerAge' = headerAge
      BY <1>4 DEF ConnectMismatch, request
    <2> QED
      BY <2>1, <2>2, <2>3, <2>4, <2>5 DEF TypeOK, LinkTypeOK
  <1>5. CASE LoopConnected
    BY <1>5 DEF LoopConnected, EnterLoop, TypeOK, link, request, pings
  <1> QED
    BY <1>1, <1>2, <1>3, <1>4, <1>5

(* The heartbeat steps keep TypeOK.                                        *)
LEMMA HeartbeatStepTypes ==
    ASSUME TypeOK, PingNotDue \/ PingPeer \/ PingFails \/ HBTimeout
    PROVE  TypeOK'
  <1>1. CASE PingNotDue
    BY <1>1 DEF PingNotDue, TypeOK, link, request, pings
  <1>2. CASE PingPeer
    <2>1. hb' \in Heartbeats
      BY <1>2, HeartbeatTypes DEF PingPeer, TypeOK
    <2> QED
      BY <1>2, <2>1 DEF PingPeer, TypeOK, link, request, NoPing
  <1>3. CASE PingFails
    BY <1>3, DisconnectTypes DEF PingFails, LinkTypeOK, TypeOK, request, pings
  <1>4. CASE HBTimeout
    <2>1. LinkTypeOK'
      BY <1>4, DisconnectTypes, UnchangedLinkTypes DEF HBTimeout
    <2>2. hb' \in Heartbeats
      BY <1>4, HeartbeatTypes DEF HBTimeout, TypeOK
    <2>3. misses' \in 0 .. DisconnectTimeoutCount
      BY <1>4 DEF HBTimeout, TypeOK, Older
    <2> QED
      BY <1>4, <2>1, <2>2, <2>3 DEF HBTimeout, LinkTypeOK, TypeOK, request
  <1> QED
    BY <1>1, <1>2, <1>3, <1>4

(* The sketch's calls keep TypeOK.                                         *)
LEMMA AppTypes ==
    ASSUME TypeOK, App
    PROVE  TypeOK'
  <1>1. CASE AppDisconnect
    BY <1>1, DisconnectTypes DEF AppDisconnect, Call, LinkTypeOK, TypeOK, request, pings
  <1>2. CASE AppSend
    BY <1>2, DisconnectTypes DEF AppSend, Call, LinkTypeOK, TypeOK, request, pings
  <1>3. CASE AppSendPing
    <2>1. LinkTypeOK'
      BY <1>3, DisconnectTypes, UnchangedLinkTypes DEF AppSendPing
    <2>2. hb' \in Heartbeats /\ pingAge' \in NoPing .. PongTimeout + 1
          /\ misses' \in 0 .. DisconnectTimeoutCount
      <3>1. [hb EXCEPT !.lastPing = now] \in Heartbeats
        BY HeartbeatTypes DEF TypeOK
      <3> QED
        BY <1>3, <3>1 DEF AppSendPing, TypeOK, pings, NoPing
    <2> QED
      BY <1>3, <2>1, <2>2 DEF AppSendPing, Call, LinkTypeOK, TypeOK, request
  <1>4. CASE AppEnableHeartbeat
    BY <1>4, HeartbeatTypes DEF AppEnableHeartbeat, Call, TypeOK, link, request
  <1>5. CASE AppDisableHeartbeat
    BY <1>5, HeartbeatTypes DEF AppDisableHeartbeat, Call, TypeOK, link, request
  <1>6. CASE AppRestart
    <2>1. Begun(hb) \in Heartbeats
      <3>1. PICK t \in Millis : TRUE
        BY InitialValueTypes
      <3> QED
        BY <3>1, HeartbeatTypes DEF TypeOK
    <2>2. LinkTypeOK'
      <3>1. debt' \in Int
        BY <1>6 DEF AppRestart, TypeOK
      <3> QED
        BY <1>6, <3>1, InitialValueTypes DEF AppRestart, LinkTypeOK, Statuses
    <2> QED
      BY <1>6, <2>1, <2>2, InitialValueTypes DEF AppRestart, Call, TypeOK, LinkTypeOK
  <1> QED
    BY <1>1, <1>2, <1>3, <1>4, <1>5, <1>6 DEF App

(* Every step keeps TypeOK.                                                *)
LEMMA TypeStep ==
    ASSUME TypeOK, [Next]_vars
    PROVE  TypeOK'
  <1>1. CASE Tick
    <2>1. now' \in Millis
      <3>1. now + 1 \in Int
        BY DEF TypeOK, Millis
      <3> QED
        BY <1>1, <3>1, RemainderInRange DEF Tick, Millis
    <2>2. failAge' \in 0 .. ReconnectInterval
      BY <1>1, OlderType DEF Tick, TypeOK
    <2>3. headerAge' \in 0 .. HeaderAgeCap
      BY <1>1, OlderType DEF Tick, TypeOK, HeaderAgeCap
    <2>4. pingAge' \in NoPing .. PongTimeout + 1
      BY <1>1 DEF Tick, TypeOK, Older, NoPing
    <2> QED
      BY <1>1, <2>1, <2>2, <2>3, <2>4 DEF Tick, TypeOK
  <1>2. CASE PeerDrops
    BY <1>2 DEF PeerDrops, TypeOK, request, pings
  <1>3. CASE HeaderTimeout
    BY <1>3, DisconnectTypes DEF HeaderTimeout, LinkTypeOK, TypeOK, request, pings
  <1>4. CASE NoData
    BY <1>4 DEF NoData, ReadsData, TypeOK, link, request, pings
  <1>5. ASSUME NEW line \in ServerLines, ReadLine(line)
        PROVE  TypeOK'
    <2>1. resp' \in Responses /\ seen' \in Responses
      BY <1>5, ResponseTypes DEF ReadLine, TypeOK
    <2> QED
      BY <1>5, <2>1 DEF ReadLine, ReadsData, TypeOK, request, pings
  <1>6. CASE ReadBlank
    BY <1>6, HeaderEndTypes DEF ReadBlank, ReadsData, TypeOK
  <1>7. CASE ReadSessionId
    BY <1>7, HeaderEndTypes, ResponseTypes, "ignored" \in Lines
    DEF ReadSessionId, ReadsData, TypeOK, Lines
  <1>8. CASE UNCHANGED vars
    BY <1>8 DEF vars, link, request, pings, TypeOK
  <1> QED
    BY <1>1, <1>2, <1>3, <1>4, <1>5, <1>6, <1>7, <1>8, FrameTypes, EnterLoopTypes,
       HeartbeatStepTypes, AppTypes DEF Next, Loop

(* Type correctness, in every reachable state.                             *)
THEOREM TypeCorrect == Spec => []TypeOK
  <1>1. ASSUME Init
        PROVE  TypeOK
    <2>1. EnableHeartbeat(NoHeartbeat) \in Heartbeats
      BY InitialValueTypes, HeartbeatTypes
    <2>2. hb \in Heartbeats /\ now \in Millis
      BY <1>1, <2>1, InitialValueTypes DEF Init
    <2>3. /\ failAge \in 0 .. ReconnectInterval
          /\ headerAge \in 0 .. HeaderAgeCap
          /\ lastConnectionFail \in Millis
          /\ lastHeaderSent \in Millis
          /\ resp \in Responses
          /\ seen \in Responses
      BY <1>1, InitialValueTypes DEF Init
    <2>4. /\ lag \in 0 .. MaxLag
          /\ pingAge \in NoPing .. PongTimeout + 1
          /\ misses \in 0 .. DisconnectTimeoutCount
          /\ debt \in Int
      BY <1>1 DEF Init, NoPing
    <2> QED
      BY <1>1, <2>2, <2>3, <2>4 DEF Init, TypeOK, Statuses
  <1>2. TypeOK /\ [Next]_vars => TypeOK'
    BY TypeStep
  <1> QED
    BY <1>1, <1>2, PTL DEF Spec

-----------------------------------------------------------------------------
(***************************************************************************)
(* The inductive invariant.  The properties of the runs do not follow from *)
(* themselves: that a second clientDisconnect reports nothing, and that    *)
(* none of the ways down is skipped, rests on which statuses go with which *)
(* object (SocketInv), and HandshakeComplete on the response fields        *)
(* holding what this socket said and nothing older (ResponseInv).          *)
(***************************************************************************)
SocketInv ==
    /\ pc = "data" => tcp # "null" /\ status # "NOT_CONNECTED"
    /\ pc = "ping" => tcp # "null" /\ status = "CONNECTED"
    /\ tcp = "open" => status # "NOT_CONNECTED"
    /\ status \in {"BODY", "CONNECTED"} => tcp # "null"

ResponseInv ==
    /\ tcp # "null" => /\ resp.code = seen.code
                       /\ resp.upgrade = seen.upgrade
                       /\ resp.accept = seen.accept
    /\ tcp = "null" => resp \in {NoResponse, BegunResponse}

Safe ==
    /\ SocketInv
    /\ AppView
    /\ EverySocketReportedOnce
    /\ RxReady
    /\ ResponseInv
    /\ HandshakeComplete

Inv == TypeOK /\ Safe

(* The event, sent only if there is an object, leaves the sketch informed  *)
(* and the account settled.                                                *)
LEMMA ReportCompletes ==
    ASSUME Inv, ReportDisconnect
    PROVE  ~told' /\ debt' = 0
  <1>1. told => tcp # "null"
    BY DEF Inv, Safe, AppView, SocketInv
  <1>2. ~told'
    BY <1>1 DEF ReportDisconnect
  <1>3. debt' = 0
    BY DEF ReportDisconnect, Inv, Safe, EverySocketReportedOnce
  <1> QED
    BY <1>2, <1>3

(* Whatever led to it, clientDisconnect restores the invariant.            *)
LEMMA DisconnectSafe ==
    ASSUME Inv, Disconnect, pc' \in {"app", "timeout"}
    PROVE  Safe'
  <1>1. tcp' = "null" /\ status' = "NOT_CONNECTED" /\ resp' = NoResponse
    BY DEF Disconnect, ForgetResponse
  <1>2. ~told' /\ debt' = 0
    BY ReportCompletes DEF Disconnect
  <1> QED
    BY <1>1, <1>2 DEF Safe, SocketInv, AppView, EverySocketReportedOnce, RxReady, ResponseInv,
                      HandshakeComplete

(* A step that leaves the link, the response history and the buffer alone  *)
(* keeps it, if it goes only where the connection allows.                  *)
LEMMA UnchangedLinkSafe ==
    ASSUME Inv, UNCHANGED <<link, seen>>, rx' = rx \/ tcp = "lost",
           \/ pc' \in {"app", "timeout"}
           \/ pc' = pc
           \/ pc' = "data" /\ IsConnected
           \/ pc' = "ping" /\ pc = "data" /\ status = "CONNECTED"
    PROVE  Safe'
  BY DEF Inv, Safe, SocketInv, AppView, EverySocketReportedOnce, RxReady, ResponseInv,
         HandshakeComplete, link, IsConnected

(* Changing the key or reading a line changes the response and its history *)
(* alike.                                                                  *)
LEMMA SameLine ==
    ASSUME NEW r \in Responses, NEW q \in Responses, NEW line \in Lines,
           r.code = q.code, r.upgrade = q.upgrade, r.accept = q.accept
    PROVE  /\ AfterLine(r, line).code = AfterLine(q, line).code
           /\ AfterLine(r, line).upgrade = AfterLine(q, line).upgrade
           /\ AfterLine(r, line).accept = AfterLine(q, line).accept
           /\ NewKey(r).code = NewKey(q).code
           /\ NewKey(r).upgrade = NewKey(q).upgrade
           /\ NewKey(r).accept = NewKey(q).accept
  BY DEF AfterLine, NewKey, Responses, Codes, Lines

(* A key changes nothing in a response without an accept value.            *)
LEMMA NewKeyOfNothing ==
    ASSUME NEW r \in {NoResponse, BegunResponse}
    PROVE  /\ NewKey(r).code = NoResponse.code
           /\ NewKey(r).upgrade = NoResponse.upgrade
           /\ NewKey(r).accept = NoResponse.accept
  <1>1. r \in Responses /\ r.code = NoResponse.code /\ r.upgrade = NoResponse.upgrade
        /\ r.accept = NoResponse.accept
    <2>1. CASE r = NoResponse
      BY <2>1, InitialValueTypes
    <2>2. CASE r = BegunResponse
      BY <2>2, InitialValueTypes DEF BegunResponse, Responses
    <2> QED
      BY <2>1, <2>2
  <1>2. NewKey(r) = [r EXCEPT !.accept = "none"]
    BY <1>1 DEF NewKey, NoResponse
  <1>3. NewKey(r).code = r.code /\ NewKey(r).upgrade = r.upgrade /\ NewKey(r).accept = "none"
    BY <1>1, <1>2 DEF Responses
  <1> QED
    BY <1>1, <1>3 DEF NoResponse

(* The verdicts on a response keep the invariant.                          *)
LEMMA HeaderEndSafe ==
    ASSUME Inv, pc = "data", status \in {"HEADER", "BODY"},
           NEW r \in Responses, HeaderEnd(r),
           r.code = resp.code, r.upgrade = resp.upgrade, r.accept = resp.accept
    PROVE  Safe'
  <1>0. tcp # "null"
    BY DEF Inv, Safe, SocketInv
  <1>1. CASE AwaitBody(r)
    BY <1>0, <1>1 DEF AwaitBody, Inv, Safe, SocketInv, AppView, EverySocketReportedOnce, RxReady,
                      ResponseInv, HandshakeComplete
  <1>2. CASE LostBeforeBody(r)
    <2>1. ~told' /\ debt' = 0
      BY <1>2, ReportCompletes DEF LostBeforeBody
    <2> QED
      BY <1>2, <2>1 DEF LostBeforeBody, ForgetResponse, Safe, SocketInv, AppView,
                        EverySocketReportedOnce, RxReady, ResponseInv, HandshakeComplete
  <1>3. CASE HandshakeFails(r)
    BY <1>3, DisconnectSafe DEF HandshakeFails
  <1>4. CASE AskAgain(r)
    <2>1. CASE tcp = "open"
      <3>1. /\ NewKey(r).code = NewKey(seen).code
            /\ NewKey(r).upgrade = NewKey(seen).upgrade
            /\ NewKey(r).accept = NewKey(seen).accept
        <4>1. seen \in Responses /\ "ignored" \in Lines
          BY DEF Inv, TypeOK, Lines
        <4>2. r.code = seen.code /\ r.upgrade = seen.upgrade /\ r.accept = seen.accept
          BY <1>0 DEF Inv, Safe, ResponseInv
        <4> QED
          BY <4>1, <4>2, SameLine
      <3> QED
        BY <1>0, <1>4, <2>1, <3>1
        DEF AskAgain, Inv, Safe, SocketInv, AppView, EverySocketReportedOnce, RxReady,
            ResponseInv, HandshakeComplete
    <2>2. CASE tcp # "open"
      BY <1>4, <2>2, DisconnectSafe DEF AskAgain
    <2> QED
      BY <2>1, <2>2
  <1>5. CASE Established(r)
    <2>1. CASE Disconnect /\ pc' = "app"
      BY <2>1, DisconnectSafe
    <2>2. CASE status' = "CONNECTED" /\ told' = TRUE /\ resp' = r /\ pc' = "ping"
               /\ tcp' = tcp /\ debt' = debt
      <3>1. HandshakeComplete'
        BY <1>0, <1>5, <2>2
        DEF Established, Accepted, CodeAccepted, Upgraded, Inv, Safe, ResponseInv, HandshakeComplete
      <3> QED
        BY <1>0, <1>5, <2>2, <3>1
        DEF Established, HeaderDone, Inv, Safe, SocketInv, AppView, EverySocketReportedOnce,
            RxReady, ResponseInv
    <2> QED
      BY <1>5, <2>1, <2>2 DEF Established
  <1> QED
    BY <1>1, <1>2, <1>3, <1>4, <1>5 DEF HeaderEnd

(* Entering loop() keeps the invariant.                                    *)
LEMMA EnterLoopSafe ==
    ASSUME Inv,
           LoopWaits \/ ConnectFails \/ ConnectSucceeds \/ ConnectMismatch \/ LoopConnected
    PROVE  Safe'
  <1>1. CASE LoopWaits
    BY <1>1, DisconnectSafe, UnchangedLinkSafe DEF LoopWaits, EnterLoop
  <1>2. CASE ConnectFails
    <2>1. resp'.code = seen'.code /\ resp'.upgrade = seen'.upgrade /\ resp'.accept = seen'.accept
      <3>1. resp \in {NoResponse, BegunResponse} /\ resp' = resp /\ seen' = NoResponse
        BY <1>2 DEF ConnectFails, StartsConnect, Inv, Safe, ResponseInv
      <3> QED
        BY <3>1 DEF NoResponse, BegunResponse
    <2>2. status # "CONNECTED" /\ status # "BODY"
      BY <1>2 DEF ConnectFails, StartsConnect, Inv, Safe, SocketInv
    <2> QED
      BY <1>2, <2>1, <2>2
      DEF ConnectFails, StartsConnect, EnterLoop, Inv, TypeOK, Safe, SocketInv, AppView,
          EverySocketReportedOnce, RxReady, ResponseInv, HandshakeComplete
  <1>3. CASE ConnectSucceeds
    BY <1>3, NewKeyOfNothing
    DEF ConnectSucceeds, StartsConnect, EnterLoop, Inv, TypeOK, Safe, SocketInv, AppView,
        EverySocketReportedOnce, RxReady, ResponseInv, HandshakeComplete
  <1>4. CASE ConnectMismatch
    BY <1>4
    DEF ConnectMismatch, StartsConnect, EnterLoop, Inv, TypeOK, Safe, SocketInv, AppView,
        EverySocketReportedOnce, RxReady, ResponseInv, HandshakeComplete
  <1>5. CASE LoopConnected
    BY <1>5, UnchangedLinkSafe DEF LoopConnected
  <1> QED
    BY <1>1, <1>2, <1>3, <1>4, <1>5

(* Every step keeps the invariant.                                         *)
LEMMA SafeStep ==
    ASSUME Inv, [Next]_vars
    PROVE  Safe'
  <1>1. CASE Tick
    BY <1>1, UnchangedLinkTypes
    DEF Tick, Inv, Safe, SocketInv, AppView, EverySocketReportedOnce, RxReady, ResponseInv,
        HandshakeComplete
  <1>2. CASE PeerDrops
    BY <1>2
    DEF PeerDrops, Inv, Safe, SocketInv, AppView, EverySocketReportedOnce, RxReady, ResponseInv,
        HandshakeComplete
  <1>3. CASE HeaderTimeout
    BY <1>3, DisconnectSafe DEF HeaderTimeout
  <1>4. CASE NoData
    BY <1>4, UnchangedLinkSafe DEF NoData, ReadsData
  <1>5. ASSUME NEW line \in ServerLines, ReadLine(line)
        PROVE  Safe'
    <2>1. tcp # "null"
      BY <1>5 DEF ReadLine, ReadsData, Inv, Safe, SocketInv
    <2>2. /\ resp'.code = seen'.code
          /\ resp'.upgrade = seen'.upgrade
          /\ resp'.accept = seen'.accept
      BY <1>5, <2>1, SameLine DEF ReadLine, Inv, TypeOK, Safe, ResponseInv
    <2> QED
      BY <1>5, <2>1, <2>2
      DEF ReadLine, ReadsData, Inv, Safe, SocketInv, AppView, EverySocketReportedOnce, RxReady,
          ResponseInv, HandshakeComplete
  <1>6. CASE ReadBlank
    BY <1>6, HeaderEndSafe DEF ReadBlank, ReadsData, Inv, TypeOK
  <1>7. CASE ReadSessionId
    <2>1. [resp EXCEPT !.sid = TRUE] \in Responses
      BY ResponseTypes, "ignored" \in Lines DEF Inv, TypeOK, Lines
    <2>2. /\ [resp EXCEPT !.sid = TRUE].code = resp.code
          /\ [resp EXCEPT !.sid = TRUE].upgrade = resp.upgrade
          /\ [resp EXCEPT !.sid = TRUE].accept = resp.accept
      BY DEF Inv, TypeOK, Responses
    <2> QED
      BY <1>7, <2>1, <2>2, HeaderEndSafe DEF ReadSessionId, ReadsData
  <1>8. ASSUME NEW kind \in ServerFrames, ReadMessage(kind)
        PROVE  Safe'
    BY <1>8, DisconnectSafe, UnchangedLinkSafe DEF ReadMessage, ReadsFrame, ReadsData
  <1>9. CASE ReadClose \/ ReadMalformed
    BY <1>9, DisconnectSafe DEF ReadClose, ReadMalformed
  <1>10. CASE FrameCut
    BY <1>10, UnchangedLinkSafe DEF FrameCut, ReadsData
  <1>11. CASE PingNotDue
    BY <1>11, UnchangedLinkSafe DEF PingNotDue
  <1>12. CASE PingPeer
    BY <1>12, UnchangedLinkSafe DEF PingPeer
  <1>13. CASE PingFails
    BY <1>13, DisconnectSafe DEF PingFails
  <1>14. CASE HBTimeout
    BY <1>14, DisconnectSafe, UnchangedLinkSafe DEF HBTimeout
  <1>15. CASE AppDisconnect \/ AppSend \/ AppSendPing
    BY <1>15, DisconnectSafe, UnchangedLinkSafe DEF AppDisconnect, AppSend, AppSendPing, Call
  <1>16. CASE AppEnableHeartbeat \/ AppDisableHeartbeat
    BY <1>16, UnchangedLinkSafe DEF AppEnableHeartbeat, AppDisableHeartbeat, Call
  <1>17. CASE AppRestart
    BY <1>17
    DEF AppRestart, Call, Inv, TypeOK, Safe, SocketInv, AppView, EverySocketReportedOnce, RxReady,
        ResponseInv, HandshakeComplete
  <1>18. CASE UNCHANGED vars
    BY <1>18, UnchangedLinkSafe DEF vars
  <1> QED
    BY <1>1, <1>2, <1>3, <1>4, <1>5, <1>6, <1>7, <1>8, <1>9, <1>10, <1>11, <1>12, <1>13, <1>14,
       <1>15, <1>16, <1>17, <1>18, EnterLoopSafe DEF Next, Loop, App

(* The invariant holds in every reachable state.                           *)
THEOREM Invariance == Spec => []Inv
  <1>1. Init => Safe
    BY DEF Init, Safe, SocketInv, AppView, EverySocketReportedOnce, RxReady, ResponseInv,
           HandshakeComplete
  <1>2. TypeOK /\ Safe /\ TypeOK' /\ [Next]_vars => Safe'
    BY SafeStep DEF Inv
  <1> QED
    BY <1>1, <1>2, TypeCorrect, PTL DEF Spec, Inv

(* AppView: the sketch's view of the connection is never out of step with  *)
(* isConnected().                                                          *)
THEOREM AppViewHolds == Spec => []AppView
  BY Invariance, PTL DEF Inv, Safe

(* EverySocketReportedOnce: each network object that loop() creates gets   *)
(* exactly one WStype_DISCONNECTED.                                        *)
THEOREM SocketsReported == Spec => []EverySocketReportedOnce
  BY Invariance, PTL DEF Inv, Safe

(* RxReady: no connection starts in the middle of a frame header.          *)
THEOREM RxReadyHolds == Spec => []RxReady
  BY Invariance, PTL DEF Inv, Safe

(* NoNullDeref: handleClientData always has a network object.              *)
THEOREM NoNullDerefHolds == Spec => []NoNullDeref
  <1>1. Inv => NoNullDeref
    BY DEF Inv, Safe, SocketInv, NoNullDeref
  <1> QED
    BY <1>1, Invariance, PTL

(* HandshakeComplete: no response is accepted on the strength of what      *)
(* another connection, or another key, was answered.                       *)
THEOREM HandshakeCompleteHolds == Spec => []HandshakeComplete
  BY Invariance, PTL DEF Inv, Safe

-----------------------------------------------------------------------------
(***************************************************************************)
(* The pause before a reconnect, across the wrap of the clock.             *)
(***************************************************************************)

(* Remainders of the numbers the clock subtracts.                          *)
LEMMA SmallRemainders ==
    ASSUME NEW m \in Nat \ {0}
    PROVE  /\ \A a \in 0 .. m - 1 : a % m = a
           /\ \A a \in -m .. -1 : a % m = a + m
           /\ m % m = 0
  <1>1. \A a \in 0 .. m - 1 : a % m = a
    BY SMT
  <1>2. ASSUME NEW a \in -m .. -1
        PROVE  a % m = a + m
    BY SMT
  <1>3. m % m = 0
    BY SMT
  <1> QED
    BY <1>1, <1>2, <1>3

(* The difference of two readings as a case distinction.                   *)
LEMMA ElapsedCases ==
    ASSUME NEW t \in Millis, NEW since \in Millis
    PROVE  Elapsed(t, since) = IF t >= since THEN t - since ELSE t - since + ClockMod
  <1>1. CASE t >= since
    <2>1. t - since \in 0 .. ClockMod - 1
      BY <1>1 DEF Millis
    <2> QED
      BY <1>1, <2>1, SmallRemainders DEF Elapsed
  <1>2. CASE t < since
    <2>1. t - since \in -ClockMod .. -1 /\ ~(t >= since)
      BY <1>2 DEF Millis
    <2> QED
      BY <2>1, SmallRemainders DEF Elapsed
  <1> QED
    BY <1>1, <1>2 DEF Millis

(* A tick adds one to the difference, until it wraps.                      *)
LEMMA ElapsedTick ==
    ASSUME NEW t \in Millis, NEW since \in Millis, Elapsed(t, since) < ClockMod - 1
    PROVE  Elapsed((t + 1) % ClockMod, since) = Elapsed(t, since) + 1
  <1>1. (t + 1) % ClockMod = IF t = ClockMod - 1 THEN 0 ELSE t + 1
    BY SmallRemainders DEF Millis
  <1>2. (t + 1) % ClockMod \in Millis
    BY <1>1 DEF Millis
  <1>3. Elapsed(t, since) = IF t >= since THEN t - since ELSE t - since + ClockMod
    BY ElapsedCases
  <1>4. CASE t = ClockMod - 1
    <2>1. (t + 1) % ClockMod = 0 /\ 0 \in Millis /\ since > 0
      BY <1>1, <1>3, <1>4 DEF Millis
    <2>2. Elapsed(0, since) = ClockMod - since
      BY <2>1, ElapsedCases DEF Millis
    <2> QED
      BY <1>3, <1>4, <2>1, <2>2 DEF Millis
  <1>5. CASE t # ClockMod - 1
    <2>1. (t + 1) % ClockMod = t + 1 /\ t + 1 \in Millis
      BY <1>1, <1>2, <1>5
    <2>2. PICK u \in Millis : u = (t + 1) % ClockMod
      BY <1>2
    <2>3. Elapsed(u, since) = IF u >= since THEN u - since ELSE u - since + ClockMod
      BY ElapsedCases
    <2>4. Elapsed(u, since) = Elapsed(t, since) + 1
      BY <1>3, <2>1, <2>2, <2>3 DEF Millis
    <2> QED
      BY <2>2, <2>4
  <1> QED
    BY <1>4, <1>5

(* While there is no object, the code's clock difference is the true age   *)
(* of the last failure as long as that age matters.                        *)
FailAgeInv ==
    tcp = "null" =>
        failAge = ReconnectInterval \/ Elapsed(now, lastConnectionFail) = failAge

(* A failure that happens now has age 0.                                   *)
LEMMA FreshFailure ==
    ASSUME TypeOK, now' = now, lastConnectionFail' = now, failAge' = 0
    PROVE  FailAgeInv'
  <1>1. Elapsed(now, now) = 0
    BY ElapsedCases DEF TypeOK, Millis
  <1> QED
    BY <1>1 DEF FailAgeInv

(* So every disconnect establishes it, and every step keeps it.            *)
LEMMA DisconnectFailAge ==
    ASSUME TypeOK, Disconnect, now' = now
    PROVE  FailAgeInv'
  BY FreshFailure DEF Disconnect, RememberFailure

LEMMA FailAgeStep ==
    ASSUME TypeOK, FailAgeInv, PinnedCert = FALSE, [Next]_vars
    PROVE  FailAgeInv'
  <1>1. CASE Tick
    <2>1. CASE tcp # "null"
      BY <1>1, <2>1 DEF Tick, FailAgeInv
    <2>2. CASE failAge = ReconnectInterval
      BY <1>1, <2>2 DEF Tick, FailAgeInv, Older
    <2>3. CASE tcp = "null" /\ failAge # ReconnectInterval
      <3>1. Elapsed(now, lastConnectionFail) = failAge /\ failAge < ReconnectInterval
        BY <2>3 DEF FailAgeInv, TypeOK
      <3>2. Elapsed(now, lastConnectionFail) < ClockMod - 1
        BY <3>1 DEF TypeOK
      <3>3. Elapsed(now', lastConnectionFail) = failAge + 1
        BY <1>1, <3>1, <3>2, ElapsedTick DEF Tick, TypeOK
      <3>4. failAge' = failAge + 1 /\ lastConnectionFail' = lastConnectionFail
        BY <1>1, <3>1 DEF Tick, Older
      <3> QED
        BY <3>3, <3>4 DEF FailAgeInv
    <2> QED
      BY <2>1, <2>2, <2>3
  <1>2. CASE PeerDrops
    BY <1>2 DEF PeerDrops, FailAgeInv
  <1>3. CASE LoopWaits
    BY <1>3, DisconnectFailAge DEF LoopWaits, EnterLoop, link, FailAgeInv
  <1>4. CASE ConnectFails \/ ConnectSucceeds \/ ConnectMismatch
    BY <1>4 DEF ConnectFails, ConnectSucceeds, ConnectMismatch, FailAgeInv
  <1>5. ASSUME UNCHANGED <<link, now>>
        PROVE  FailAgeInv'
    BY <1>5 DEF link, FailAgeInv
  <1>6. CASE LoopConnected \/ NoData \/ FrameCut \/ PingNotDue \/ PingPeer
    BY <1>5, <1>6 DEF LoopConnected, EnterLoop, NoData, FrameCut, ReadsData, PingNotDue, PingPeer
  <1>7. CASE HeaderTimeout \/ ReadClose \/ ReadMalformed \/ PingFails
    BY <1>7, DisconnectFailAge
    DEF HeaderTimeout, ReadClose, ReadMalformed, ReadsFrame, ReadsData, PingFails
  <1>8. ASSUME NEW line \in ServerLines, ReadLine(line)
        PROVE  FailAgeInv'
    BY <1>8 DEF ReadLine, ReadsData, FailAgeInv
  <1>9. ASSUME NEW r, HeaderEnd(r), now' = now
        PROVE  FailAgeInv'
    <2>1. CASE AwaitBody(r)
      BY <1>9, <2>1 DEF AwaitBody, FailAgeInv
    <2>2. CASE LostBeforeBody(r)
      BY <1>9, <2>2, FreshFailure DEF LostBeforeBody, RememberFailure
    <2>3. CASE HandshakeFails(r)
      BY <1>9, <2>3, DisconnectFailAge DEF HandshakeFails
    <2>4. CASE AskAgain(r)
      BY <1>9, <2>4, DisconnectFailAge DEF AskAgain, FailAgeInv
    <2>5. CASE Established(r)
      BY <1>9, <2>5, DisconnectFailAge DEF Established, FailAgeInv
    <2> QED
      BY <1>9, <2>1, <2>2, <2>3, <2>4, <2>5 DEF HeaderEnd
  <1>10. CASE ReadBlank \/ ReadSessionId
    BY <1>9, <1>10 DEF ReadBlank, ReadSessionId, ReadsData
  <1>11. ASSUME NEW kind \in ServerFrames, ReadMessage(kind)
         PROVE  FailAgeInv'
    BY <1>5, <1>11, DisconnectFailAge DEF ReadMessage, ReadsFrame, ReadsData
  <1>12. CASE HBTimeout
    BY <1>5, <1>12, DisconnectFailAge DEF HBTimeout
  <1>13. CASE AppDisconnect \/ AppSend \/ AppSendPing
    BY <1>5, <1>13, DisconnectFailAge DEF AppDisconnect, AppSend, AppSendPing, Call
  <1>14. CASE AppEnableHeartbeat \/ AppDisableHeartbeat
    BY <1>5, <1>14 DEF AppEnableHeartbeat, AppDisableHeartbeat, Call
  <1>15. CASE AppRestart
    BY <1>15 DEF AppRestart, FailAgeInv
  <1>16. CASE UNCHANGED vars
    BY <1>5, <1>16 DEF vars
  <1> QED
    BY <1>1, <1>2, <1>3, <1>4, <1>6, <1>7, <1>8, <1>10, <1>11, <1>12, <1>13, <1>14, <1>15, <1>16
    DEF Next, Loop, App

(* PacedReconnect, on every build that does not verify a fingerprint: a    *)
(* connection is started only when ReconnectInterval has really passed     *)
(* since the last failure, however often the clock has wrapped.  (With a   *)
(* pinned certificate it does not hold: loop() clears the time.)           *)
THEOREM PacedReconnectHolds ==
    ASSUME PinnedCert = FALSE
    PROVE  Spec => PacedReconnect
  <1>1. Init => FailAgeInv
    BY DEF Init, FailAgeInv
  <1>2. TypeOK /\ FailAgeInv /\ [Next]_vars => FailAgeInv'
    BY FailAgeStep
  <1>3. ASSUME TypeOK, FailAgeInv, ConnectFails \/ ConnectSucceeds \/ ConnectMismatch
        PROVE  failAge = ReconnectInterval
    <2>1. tcp = "null" /\ Elapsed(now, lastConnectionFail) >= ReconnectInterval
      BY <1>3 DEF ConnectFails, ConnectSucceeds, ConnectMismatch, StartsConnect, ReconnectDue
    <2> QED
      BY <1>3, <2>1 DEF FailAgeInv, TypeOK
  <1>4. TypeOK /\ FailAgeInv
        => [(ConnectFails \/ ConnectSucceeds \/ ConnectMismatch)
             => failAge = ReconnectInterval]_vars
    BY <1>3
  <1> QED
    BY <1>1, <1>2, <1>4, TypeCorrect, PTL DEF Spec, PacedReconnect

-----------------------------------------------------------------------------
(***************************************************************************)
(* Connections.  By the invariant the stage of the one place determines    *)
(* what the sketch was told and how many sockets are owed an end, so the   *)
(* refinement only asks which stages may follow each other: a socket comes *)
(* up only from the handshake, and what is up never goes back into one.    *)
(***************************************************************************)
StagesInOrder ==
    /\ Stage = "none" => Stage' # "up"
    /\ Stage = "up" => Stage' # "opening"

(* No socket is left in the state that clientDisconnect leaves.            *)
LEMMA DisconnectedStage ==
    ASSUME tcp' = "null"
    PROVE  StagesInOrder
  BY DEF StagesInOrder, Stage

(* Nor does a step that leaves tcp alone and is not the handshake's end     *)
(* change the stage.                                                       *)
LEMMA SameStage ==
    ASSUME tcp = "null" <=> tcp' = "null", status = "CONNECTED" <=> status' = "CONNECTED"
    PROVE  StagesInOrder
  BY DEF StagesInOrder, Stage

(* The verdicts on a response: only headerDone makes a connection.         *)
LEMMA HeaderEndStage ==
    ASSUME Inv, pc = "data", status \in {"HEADER", "BODY"}, NEW r, HeaderEnd(r)
    PROVE  StagesInOrder
  <1>1. tcp # "null" /\ Stage = "opening"
    BY DEF Inv, Safe, SocketInv, Stage
  <1> QED
    BY <1>1 DEF StagesInOrder

(* Every step takes the stages in order.                                   *)
LEMMA StageStep ==
    ASSUME Inv, [Next]_vars
    PROVE  StagesInOrder
  <1>1. CASE Tick \/ UNCHANGED vars
    BY <1>1, SameStage DEF Tick, vars, link
  <1>2. CASE PeerDrops
    BY <1>2, SameStage DEF PeerDrops
  <1>3. ASSUME Disconnect
        PROVE  StagesInOrder
    BY <1>3, DisconnectedStage DEF Disconnect
  <1>4. ASSUME UNCHANGED link
        PROVE  StagesInOrder
    BY <1>4, SameStage DEF link
  <1>5. CASE LoopWaits
    BY <1>3, <1>4, <1>5 DEF LoopWaits
  <1>6. CASE ConnectFails \/ ConnectSucceeds
    <2>1. tcp = "null" /\ status # "CONNECTED" /\ status' # "CONNECTED"
      BY <1>6 DEF ConnectFails, ConnectSucceeds, StartsConnect, Inv, Safe, SocketInv
    <2> QED
      BY <2>1 DEF StagesInOrder, Stage
  <1>7. CASE ConnectMismatch
    BY <1>7, DisconnectedStage DEF ConnectMismatch, StartsConnect
  <1>8. CASE HeaderTimeout \/ ReadClose \/ ReadMalformed \/ PingFails
    BY <1>3, <1>8 DEF HeaderTimeout, ReadClose, ReadMalformed, PingFails
  <1>9. CASE LoopConnected \/ NoData \/ FrameCut \/ PingNotDue \/ PingPeer
    BY <1>4, <1>9 DEF LoopConnected, NoData, FrameCut, PingNotDue, PingPeer
  <1>10. ASSUME NEW line \in ServerLines, ReadLine(line)
         PROVE  StagesInOrder
    BY <1>10, SameStage DEF ReadLine
  <1>11. CASE ReadBlank
    BY <1>11, HeaderEndStage DEF ReadBlank, ReadsData
  <1>12. CASE ReadSessionId
    BY <1>12, HeaderEndStage DEF ReadSessionId, ReadsData
  <1>13. ASSUME NEW kind \in ServerFrames, ReadMessage(kind)
         PROVE  StagesInOrder
    BY <1>3, <1>4, <1>13 DEF ReadMessage
  <1>14. CASE HBTimeout
    BY <1>3, <1>4, <1>14 DEF HBTimeout
  <1>15. CASE AppDisconnect \/ AppSend \/ AppSendPing
    BY <1>3, <1>4, <1>15 DEF AppDisconnect, AppSend, AppSendPing
  <1>16. CASE AppEnableHeartbeat \/ AppDisableHeartbeat
    BY <1>4, <1>16 DEF AppEnableHeartbeat, AppDisableHeartbeat
  <1>17. CASE AppRestart
    BY <1>17, DisconnectedStage DEF AppRestart
  <1> QED
    BY <1>1, <1>2, <1>5, <1>6, <1>7, <1>8, <1>9, <1>10, <1>11, <1>12, <1>13, <1>14, <1>15,
       <1>16, <1>17 DEF Next, Loop, App

(* What the stage says about the rest of the place.                        *)
LEMMA StageTells ==
    ASSUME Inv
    PROVE  /\ Stage \in {"none", "opening", "up"}
           /\ told <=> Stage = "up"
           /\ debt = IF Stage = "none" THEN 0 ELSE 1
  BY DEF Inv, Safe, SocketInv, AppView, EverySocketReportedOnce, Stage

(* So a step of the client is a step of the place.                         *)
LEMMA PlaceStep ==
    ASSUME Inv, Inv', StagesInOrder
    PROVE  Connection!Next
  <1>1. told \in BOOLEAN /\ told' \in BOOLEAN
    BY DEF Inv, TypeOK
  <1>2. /\ Stage \in {"none", "opening", "up"}
        /\ told <=> Stage = "up"
        /\ debt = IF Stage = "none" THEN 0 ELSE 1
    BY StageTells
  <1>3. /\ Stage' \in {"none", "opening", "up"}
        /\ told' <=> Stage' = "up"
        /\ debt' = IF Stage' = "none" THEN 0 ELSE 1
    BY DEF Inv, Safe, SocketInv, AppView, EverySocketReportedOnce, Stage
  <1>4. told' = FALSE \/ Stage' = "up"
    BY <1>1, <1>3
  <1>5. told' = TRUE \/ Stage' # "up"
    BY <1>1, <1>3
  <1>6. told' = told \/ (Stage = "up" <=> Stage' # "up")
    BY <1>1, <1>2, <1>3
  <1>7. SUFFICES Connection!Step(0)
    BY DEF Connection!Next
  <1>8. CASE Stage = "none" /\ Stage' = "opening"
    BY <1>2, <1>3, <1>4, <1>8 DEF Connection!Step, Connection!Opens, Connection!Moves
  <1>9. CASE Stage = "opening" /\ Stage' = "up"
    BY <1>2, <1>3, <1>5, <1>9 DEF Connection!Step, Connection!ComesUp, Connection!Moves
  <1>10. CASE Stage \in {"opening", "up"} /\ Stage' = "none"
    BY <1>2, <1>3, <1>4, <1>10 DEF Connection!Step, Connection!Ends, Connection!Moves
  <1>11. CASE Stage' = Stage
    BY <1>2, <1>3, <1>6, <1>11 DEF Connection!Step, Connection!Stays
  <1> QED
    BY <1>2, <1>3, <1>8, <1>9, <1>10, <1>11 DEF StagesInOrder

(* The client implements Connections, as one place: sockets open, come up   *)
(* and end in order, and each end is told once, before the next one opens.  *)
THEOREM ConnectionsImplemented == Spec => ConnectionSpec
  <1>1. Init => Connection!Init
    BY DEF Init, Connection!Init, Stage
  <1>2. Inv /\ Inv' /\ [Next]_vars => Connection!Next
    BY StageStep, PlaceStep
  <1> QED
    BY <1>1, <1>2, Invariance, PTL DEF Spec, ConnectionSpec, Connection!Spec

-----------------------------------------------------------------------------
(***************************************************************************)
(* The age of a handshake, on a clock that does not wrap in the time that  *)
(* is looked at.  (On one that does, both properties fail: the sum of       *)
(* HeaderOverdue wraps at other readings than the clock.)                   *)
(***************************************************************************)

(* A request waits for its response, or for the rest of it.                *)
InHandshake == status \in {"HEADER", "BODY"} /\ (tcp = "open" \/ pc = "data")

(* The true age of the request is the difference the code computes, up to   *)
(* where it is counted; and a step of handleClientData that lets a          *)
(* handshake go on has found it young enough.                               *)
RequestInv ==
    /\ now <= Horizon
    /\ lastHeaderSent <= now
    /\ InHandshake => headerAge = IF now - lastHeaderSent < HeaderAgeCap
                                  THEN now - lastHeaderSent ELSE HeaderAgeCap
    /\ InHandshake /\ tcp = "open" =>
           headerAge <= TcpTimeout + lag + (IF pc = "app" THEN 0 ELSE MaxLag)
    /\ pc = "timeout" => status \notin {"HEADER", "BODY"}

(* The numbers the proofs below calculate with.                            *)
LEMMA ClientNumbers ==
    ASSUME TypeOK
    PROVE  /\ now \in Nat /\ lastHeaderSent \in Nat /\ lag \in 0 .. MaxLag
           /\ now < ClockMod /\ lastHeaderSent < ClockMod
           /\ headerAge \in 0 .. HeaderAgeCap
           /\ MaxLag \in Nat /\ TcpTimeout \in Nat /\ ClockMod \in Nat \ {0}
           /\ HeaderAgeCap = TcpTimeout + 2 * MaxLag + 1
  BY DEF TypeOK, Millis, HeaderAgeCap

(* A step that ends the handshake, or is not in one.                       *)
LEMMA OutOfHandshake ==
    ASSUME TypeOK, RequestInv, now' = now, lastHeaderSent' \in {lastHeaderSent, now, 0},
           ~InHandshake', pc' = "timeout" => status' \notin {"HEADER", "BODY"}
    PROVE  RequestInv'
  <1>1. lastHeaderSent' <= now'
    BY ClientNumbers DEF RequestInv
  <1> QED
    BY <1>1 DEF RequestInv

(* A request that is sent now.                                             *)
LEMMA FreshRequest ==
    ASSUME TypeOK, RequestInv, now' = now, lag' \in 0 .. MaxLag, RequestSent, pc' = "app"
    PROVE  RequestInv'
  <1>1. lastHeaderSent' = now' /\ headerAge' = 0 /\ now' - lastHeaderSent' = 0
    BY ClientNumbers DEF RequestSent
  <1>2. 0 < HeaderAgeCap
    BY DEF HeaderAgeCap
  <1>3. headerAge' <= TcpTimeout + lag' + 0
    <2>1. lag' \in Nat /\ TcpTimeout \in Nat /\ headerAge' = 0
      BY <1>1
    <2>2. \A x, y \in Nat : 0 <= x + y + 0
      OBVIOUS
    <2> QED
      BY <2>1, <2>2
  <1>4. headerAge' = IF now' - lastHeaderSent' < HeaderAgeCap
                     THEN now' - lastHeaderSent' ELSE HeaderAgeCap
    BY <1>1, <1>2
  <1>5. now' <= Horizon /\ lastHeaderSent' <= now'
    BY <1>1, ClientNumbers DEF RequestInv
  <1> QED
    BY <1>3, <1>4, <1>5 DEF RequestInv

(* A handshake that handleClientData has looked at and lets go on.         *)
LEMMA YoungRequest ==
    ASSUME TypeOK, RequestInv, pc = "data", status \in {"HEADER", "BODY"}, ~HeaderOverdue,
           UNCHANGED <<now, lag, request, tcp>>, pc' = "app"
    PROVE  RequestInv'
  <1>1. (lastHeaderSent + TcpTimeout) % ClockMod <= lastHeaderSent + TcpTimeout
    <2>1. lastHeaderSent + TcpTimeout \in Nat /\ ClockMod \in Nat \ {0}
      BY ClientNumbers
    <2> DEFINE a == lastHeaderSent + TcpTimeout
    <2>2. CASE a < ClockMod
      BY <2>1, <2>2, SmallRemainders
    <2>3. CASE a >= ClockMod
      <3>1. a % ClockMod \in 0 .. ClockMod - 1
        <4>1. a \in Int
          BY <2>1
        <4> QED
          BY <4>1, <2>1, RemainderInRange
      <3> HIDE DEF a
      <3> QED
        BY <2>1, <2>3, <3>1
    <2> QED
      BY <2>1, <2>2, <2>3
  <1>2. (lastHeaderSent + TcpTimeout) % ClockMod \in Nat
    <2>1. lastHeaderSent + TcpTimeout \in Int
      BY ClientNumbers
    <2> QED
      BY <2>1, RemainderInRange
  <1>3. now <= lastHeaderSent + TcpTimeout
    <2>1. now <= (lastHeaderSent + TcpTimeout) % ClockMod
      BY <1>2, ClientNumbers DEF HeaderOverdue
    <2> QED
      BY <1>1, <1>2, <2>1, ClientNumbers
  <1>4. headerAge = now - lastHeaderSent
    BY <1>3, ClientNumbers DEF RequestInv, InHandshake
  <1>5. headerAge' <= TcpTimeout + lag'
    BY <1>3, <1>4, ClientNumbers DEF request
  <1>6. headerAge' = IF now' - lastHeaderSent' < HeaderAgeCap
                     THEN now' - lastHeaderSent' ELSE HeaderAgeCap
    BY <1>3, <1>4, ClientNumbers DEF request
  <1> QED
    BY <1>5, <1>6, ClientNumbers DEF RequestInv, request

(* clientDisconnect ends it.                                               *)
LEMMA DisconnectRequest ==
    ASSUME TypeOK, RequestInv, now' = now, lastHeaderSent' \in {lastHeaderSent, now}, Disconnect
    PROVE  RequestInv'
  BY OutOfHandshake DEF Disconnect, InHandshake

(* A tick makes the clock and every request one older.                     *)
LEMMA TickRequest ==
    ASSUME TypeOK, RequestInv, Horizon < ClockMod, Tick
    PROVE  RequestInv'
  <1>1. now' = now + 1 /\ now + 1 <= Horizon
    <2>1. now # Horizon /\ now <= Horizon /\ now \in Nat /\ Horizon \in Nat
      BY ClientNumbers DEF Tick, RequestInv
    <2>2. now + 1 \in 0 .. ClockMod - 1 /\ now + 1 <= Horizon
      BY <2>1
    <2>3. (now + 1) % ClockMod = now + 1
      BY <2>2, SmallRemainders
    <2> QED
      BY <2>2, <2>3 DEF Tick
  <1>2. lastHeaderSent' = lastHeaderSent /\ lag' = lag + 1
    BY DEF Tick
  <1>3. InHandshake' <=> InHandshake
    BY DEF Tick, InHandshake
  <1>4. headerAge' = IF headerAge < HeaderAgeCap THEN headerAge + 1 ELSE HeaderAgeCap
    BY DEF Tick, Older
  <1>5. now \in Nat /\ lastHeaderSent \in Nat /\ lag \in Nat /\ headerAge \in Nat
        /\ MaxLag \in Nat /\ TcpTimeout \in Nat
        /\ HeaderAgeCap = TcpTimeout + 2 * MaxLag + 1
    BY ClientNumbers
  <1>6. lastHeaderSent' <= now'
    BY <1>1, <1>2, <1>5 DEF RequestInv
  <1>7. ASSUME InHandshake
        PROVE  headerAge' = IF now' - lastHeaderSent' < HeaderAgeCap
                            THEN now' - lastHeaderSent' ELSE HeaderAgeCap
    <2>1. headerAge = IF now - lastHeaderSent < HeaderAgeCap
                      THEN now - lastHeaderSent ELSE HeaderAgeCap
      BY <1>7 DEF RequestInv
    <2> QED
      BY <1>1, <1>2, <1>4, <1>5, <2>1
  <1>8. headerAge' <= headerAge + 1
    BY <1>4, <1>5, ClientNumbers
  <1>9. ASSUME InHandshake, tcp = "open"
        PROVE  headerAge' <= TcpTimeout + lag' + (IF pc' = "app" THEN 0 ELSE MaxLag)
    <2> DEFINE more == IF pc = "app" THEN 0 ELSE MaxLag
    <2>1. headerAge <= TcpTimeout + lag + more
      BY <1>9 DEF RequestInv
    <2>2. pc' = pc
      BY DEF Tick
    <2>3. more \in Nat
      BY <1>5
    <2>4. more = IF pc' = "app" THEN 0 ELSE MaxLag
      BY <2>2
    <2>5. headerAge' \in Nat
      BY <1>4, <1>5
    <2> HIDE DEF more
    <2>6. headerAge' <= TcpTimeout + lag' + more
      BY <1>2, <1>5, <1>8, <2>1, <2>3, <2>5
    <2> QED
      BY <2>4, <2>6
  <1>10. pc' = "timeout" => status' \notin {"HEADER", "BODY"}
    BY DEF Tick, RequestInv
  <1>11. tcp' = tcp
    BY DEF Tick
  <1>12. now' <= Horizon
    BY <1>1
  <1> QED
    BY <1>3, <1>6, <1>7, <1>9, <1>10, <1>11, <1>12 DEF RequestInv

(* loop() finds the connection there: its age is bounded once more.        *)
LEMMA LoopConnectedRequest ==
    ASSUME TypeOK, RequestInv, LoopConnected
    PROVE  RequestInv'
  <1>1. /\ UNCHANGED <<now, lastHeaderSent, headerAge, tcp, status>>
        /\ pc = "app" /\ pc' = "data" /\ lag' = 0 /\ tcp = "open"
    BY DEF LoopConnected, EnterLoop, IsConnected, link, request
  <1>2. InHandshake' <=> InHandshake
    BY <1>1 DEF InHandshake
  <1>3. ASSUME InHandshake
        PROVE  headerAge' <= TcpTimeout + lag' + MaxLag
    <2>1. headerAge <= TcpTimeout + lag + 0
      BY <1>1, <1>3 DEF RequestInv
    <2> QED
      BY <1>1, <2>1, ClientNumbers
  <1>4. headerAge' = headerAge /\ now' - lastHeaderSent' = now - lastHeaderSent
    BY <1>1
  <1> QED
    BY <1>1, <1>2, <1>3, <1>4 DEF RequestInv

(* The verdicts on a response.                                             *)
LEMMA HeaderEndRequest ==
    ASSUME Inv, RequestInv, ReadsData, status \in {"HEADER", "BODY"}, NEW r, HeaderEnd(r)
    PROVE  RequestInv'
  <1>0. TypeOK /\ now' = now /\ lag' = lag /\ pc = "data" /\ ~HeaderOverdue
    BY DEF Inv, ReadsData
  <1>1. CASE AwaitBody(r)
    BY <1>0, <1>1, YoungRequest DEF AwaitBody
  <1>2. CASE LostBeforeBody(r)
    <2>1. ~InHandshake' /\ pc' = "app" /\ lastHeaderSent' = lastHeaderSent
      BY <1>2 DEF LostBeforeBody, InHandshake, request
    <2> QED
      BY <1>0, <2>1, OutOfHandshake
  <1>3. CASE HandshakeFails(r)
    BY <1>0, <1>3, DisconnectRequest DEF HandshakeFails, request
  <1>4. CASE AskAgain(r)
    <2>1. lag' \in 0 .. MaxLag
      BY <1>0, ClientNumbers
    <2> QED
      BY <1>0, <1>4, <2>1, FreshRequest DEF AskAgain
  <1>5. CASE Established(r)
    <2>1. lastHeaderSent' = lastHeaderSent
      BY <1>5 DEF Established, request
    <2>2. CASE Disconnect
      BY <1>0, <2>1, <2>2, DisconnectRequest
    <2>3. CASE status' = "CONNECTED"
      BY <1>0, <2>1, <2>3, OutOfHandshake DEF InHandshake
    <2> QED
      BY <1>5, <2>2, <2>3 DEF Established
  <1> QED
    BY <1>1, <1>2, <1>3, <1>4, <1>5 DEF HeaderEnd

(* A step on a connection that is up, or gone, or none: nothing to do.     *)
LEMMA SettledRequest ==
    ASSUME TypeOK, RequestInv, status \notin {"HEADER", "BODY"},
           UNCHANGED <<now, lastHeaderSent, status>>
    PROVE  RequestInv'
  BY OutOfHandshake DEF InHandshake

(* A call between two loops that leaves the connection alone.              *)
LEMMA IdleRequest ==
    ASSUME RequestInv, UNCHANGED <<now, lag, pc, tcp, status, request>>
    PROVE  RequestInv'
  <1>1. InHandshake' <=> InHandshake
    BY DEF InHandshake
  <1> QED
    BY <1>1 DEF RequestInv, request

(* Every step keeps the ages right.                                        *)
LEMMA RequestStep ==
    ASSUME Inv, RequestInv, Horizon < ClockMod, [Next]_vars
    PROVE  RequestInv'
  <1>0. TypeOK
    BY DEF Inv
  <1>1. CASE Tick
    BY <1>0, <1>1, TickRequest
  <1>2. CASE PeerDrops
    <2>1. UNCHANGED <<now, lag, pc, status, lastHeaderSent, headerAge>> /\ tcp' = "lost"
          /\ tcp = "open"
      BY <1>2 DEF PeerDrops, request
    <2>2. InHandshake' => InHandshake
      BY <2>1 DEF InHandshake
    <2> QED
      BY <2>1, <2>2 DEF RequestInv
  <1>3. CASE UNCHANGED vars
    BY <1>3, IdleRequest DEF vars, link
  <1>4. CASE LoopWaits \/ ConnectFails \/ ConnectMismatch
    <2>1. now' = now /\ lastHeaderSent' = lastHeaderSent /\ pc' = "app"
      BY <1>4 DEF LoopWaits, ConnectFails, ConnectMismatch, StartsConnect, EnterLoop, request
    <2>2. tcp' # "open"
      BY <1>4 DEF LoopWaits, ConnectFails, ConnectMismatch, StartsConnect, Disconnect, link
    <2>3. ~InHandshake'
      BY <2>1, <2>2 DEF InHandshake
    <2> QED
      BY <1>0, <2>1, <2>3, OutOfHandshake
  <1>5. CASE ConnectSucceeds
    <2>1. now' = now /\ lag' \in 0 .. MaxLag /\ RequestSent /\ pc' = "app"
      BY <1>5 DEF ConnectSucceeds, StartsConnect, EnterLoop
    <2> QED
      BY <1>0, <2>1, FreshRequest
  <1>6. CASE LoopConnected
    BY <1>0, <1>6, LoopConnectedRequest
  <1>7. ASSUME Disconnect, now' = now, UNCHANGED request
        PROVE  RequestInv'
    BY <1>0, <1>7, DisconnectRequest DEF request
  <1>8. ASSUME UNCHANGED <<link, request, now>>, status \notin {"HEADER", "BODY"}
        PROVE  RequestInv'
    BY <1>0, <1>8, SettledRequest DEF link, request
  <1>9. CASE HeaderTimeout \/ ReadClose \/ ReadMalformed \/ PingFails
    BY <1>7, <1>9 DEF HeaderTimeout, ReadClose, ReadMalformed, ReadsFrame, ReadsData, PingFails
  <1>10. CASE NoData
    <2>1. CASE status \in {"HEADER", "BODY"}
      BY <1>0, <1>10, <2>1, YoungRequest DEF NoData, ReadsData, link
    <2>2. CASE status \notin {"HEADER", "BODY"}
      BY <1>8, <1>10, <2>2 DEF NoData, ReadsData
    <2> QED
      BY <2>1, <2>2
  <1>11. ASSUME NEW line \in ServerLines, ReadLine(line)
         PROVE  RequestInv'
    BY <1>0, <1>11, YoungRequest DEF ReadLine, ReadsData
  <1>12. CASE ReadBlank
    BY <1>12, HeaderEndRequest DEF ReadBlank
  <1>13. CASE ReadSessionId
    BY <1>13, HeaderEndRequest DEF ReadSessionId
  <1>14. ASSUME NEW kind \in ServerFrames, ReadMessage(kind)
         PROVE  RequestInv'
    BY <1>7, <1>8, <1>14 DEF ReadMessage, ReadsFrame, ReadsData
  <1>15. CASE FrameCut
    BY <1>8, <1>15 DEF FrameCut, ReadsData
  <1>16. CASE PingNotDue \/ PingPeer
    <2>1. status = "CONNECTED"
      BY <1>16 DEF PingNotDue, PingPeer, Inv, Safe, SocketInv
    <2> QED
      BY <1>8, <1>16, <2>1 DEF PingNotDue, PingPeer
  <1>17. CASE HBTimeout
    <2>1. status \notin {"HEADER", "BODY"}
      BY <1>17 DEF HBTimeout, RequestInv
    <2> QED
      BY <1>7, <1>8, <1>17, <2>1 DEF HBTimeout
  <1>18. CASE AppDisconnect \/ AppSend \/ AppSendPing
    BY <1>7, <1>18, IdleRequest DEF AppDisconnect, AppSend, AppSendPing, Call, link
  <1>19. CASE AppEnableHeartbeat \/ AppDisableHeartbeat
    BY <1>19, IdleRequest DEF AppEnableHeartbeat, AppDisableHeartbeat, Call, link
  <1>20. CASE AppRestart
    <2>1. now' = now /\ lastHeaderSent' = 0 /\ status' = "NOT_CONNECTED"
      BY <1>20 DEF AppRestart, Call
    <2> QED
      BY <1>0, <2>1, OutOfHandshake DEF InHandshake
  <1> QED
    BY <1>1, <1>2, <1>3, <1>4, <1>5, <1>6, <1>9, <1>10, <1>11, <1>12, <1>13, <1>14, <1>15,
       <1>16, <1>17, <1>18, <1>19, <1>20 DEF Next, Loop, App

(* So they are right in every reachable state.                             *)
THEOREM RequestInvariance ==
    ASSUME Horizon < ClockMod
    PROVE  Spec => []RequestInv
  <1>1. Init => RequestInv
    <2>1. Init => now = 0 /\ lastHeaderSent = 0 /\ status = "NOT_CONNECTED" /\ pc = "app"
      BY DEF Init
    <2>2. 0 <= Horizon
      OBVIOUS
    <2> QED
      BY <2>1, <2>2 DEF RequestInv, InHandshake
  <1>2. Inv /\ RequestInv /\ [Next]_vars => RequestInv'
    BY RequestStep
  <1> QED
    BY <1>1, <1>2, Invariance, PTL DEF Spec

(* HeaderTimeoutSound: no handshake is given up before its time, as long as *)
(* the clock is at least WEBSOCKETS_TCP_TIMEOUT away from its wrap.          *)
THEOREM HeaderTimeoutSoundHolds ==
    ASSUME Horizon + TcpTimeout < ClockMod
    PROVE  Spec => HeaderTimeoutSound
  <1>1. Horizon < ClockMod
    OBVIOUS
  <1>2. ASSUME TypeOK, RequestInv, HeaderTimeout
        PROVE  headerAge > TcpTimeout
    <2>1. (lastHeaderSent + TcpTimeout) % ClockMod < now /\ InHandshake
      BY <1>2 DEF HeaderTimeout, HeaderOverdue, InHandshake
    <2>2. lastHeaderSent + TcpTimeout \in 0 .. ClockMod - 1
      BY <1>2, ClientNumbers DEF RequestInv
    <2>3. (lastHeaderSent + TcpTimeout) % ClockMod = lastHeaderSent + TcpTimeout
      BY <2>2, SmallRemainders
    <2>4. now - lastHeaderSent > TcpTimeout
      BY <1>2, <2>1, <2>3, ClientNumbers
    <2>5. headerAge = IF now - lastHeaderSent < HeaderAgeCap
                      THEN now - lastHeaderSent ELSE HeaderAgeCap
      BY <1>2, <2>1 DEF RequestInv
    <2>6. HeaderAgeCap > TcpTimeout
      BY DEF HeaderAgeCap
    <2> QED
      BY <2>4, <2>5, <2>6
  <1>3. TypeOK /\ RequestInv => [HeaderTimeout => headerAge > TcpTimeout]_vars
    BY <1>2
  <1> QED
    BY <1>1, <1>3, TypeCorrect, RequestInvariance, PTL DEF HeaderTimeoutSound

(* HandshakeBounded: no handshake lasts much longer than that.             *)
THEOREM HandshakeBoundedHolds ==
    ASSUME Horizon < ClockMod
    PROVE  Spec => []HandshakeBounded
  <1>1. ASSUME TypeOK, RequestInv, status \in {"HEADER", "BODY"}, tcp = "open"
        PROVE  headerAge < HeaderAgeCap
    <2> DEFINE more == IF pc = "app" THEN 0 ELSE MaxLag
    <2>1. headerAge <= TcpTimeout + lag + more
      BY <1>1 DEF RequestInv, InHandshake
    <2>2. more \in 0 .. MaxLag
      BY <1>1, ClientNumbers
    <2> HIDE DEF more
    <2> QED
      BY <1>1, <2>1, <2>2, ClientNumbers
  <1>2. TypeOK /\ RequestInv => HandshakeBounded
    BY <1>1 DEF HandshakeBounded
  <1> QED
    BY <1>2, TypeCorrect, RequestInvariance, PTL
=============================================================================
