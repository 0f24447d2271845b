---------------------- MODULE MCWebSocketsClient_proofs ----------------------
(***************************************************************************)
(* Proofs about the heartbeat of the client's first connection: that it    *)
(* drops only a peer that has left a ping unanswered, after as many pong    *)
(* timeouts in a row as the sketch asked for, however often the clock wraps. *)
(***************************************************************************)
EXTENDS MCWebSocketsClient, WebSocketsClient_proofs

USE HeartbeatAssumption, ClientAssumption

-----------------------------------------------------------------------------
(* What the heartbeat operations do to each field.                         *)
LEMMA HeartbeatFields ==
    ASSUME NEW h \in Heartbeats, NEW t
    PROVE  /\ PongNoted(h).enabled = h.enabled
           /\ PongNoted(h).lastPing = h.lastPing
           /\ PongNoted(h).pongReceived = TRUE
           /\ PongNoted(h).pongTimeoutCount = h.pongTimeoutCount
           /\ PingSent(h, t).enabled = h.enabled
           /\ PingSent(h, t).lastPing = t
           /\ PingSent(h, t).pongTimeoutCount = h.pongTimeoutCount
           /\ [h EXCEPT !.lastPing = t].enabled = h.enabled
           /\ [h EXCEPT !.lastPing = t].lastPing = t
           /\ [h EXCEPT !.lastPing = t].pongTimeoutCount = h.pongTimeoutCount
           /\ Begun(h).enabled = h.enabled
           /\ Begun(h).pongTimeoutCount = 0
           /\ DisableHeartbeat(h).enabled = FALSE
  BY DEF PongNoted, PingSent, Begun, DisableHeartbeat, Heartbeats

(* ... and what handleHBTimeout does.                                      *)
LEMMA CheckPongFields ==
    ASSUME NEW h \in Heartbeats, NEW t
    PROVE  /\ CheckPong(h, t).enabled = h.enabled
           /\ PongOverdue(h, t) =>
                  /\ CheckPong(h, t).pongTimeoutCount = (h.pongTimeoutCount + 1) % CountMod
                  /\ CheckPong(h, t).lastPing = Elapsed(t, PingInterval + ForcePingMargin)
           /\ ~PongOverdue(h, t) =>
                  /\ CheckPong(h, t).lastPing = h.lastPing
                  /\ h.enabled /\ h.pongReceived => CheckPong(h, t).pongTimeoutCount = 0
                  /\ ~(h.enabled /\ h.pongReceived) => CheckPong(h, t) = h
  BY DEF CheckPong, Heartbeats

-----------------------------------------------------------------------------
(***************************************************************************)
(* The inductive invariant, of a first connection whose heartbeat is on.   *)
(***************************************************************************)
Missed == hb.pongTimeoutCount
PingElapsed == Elapsed(now, hb.lastPing)

(* Only a connection that is up misses pongs, and never as many as it may.  *)
CountOpen ==
    /\ pc = "timeout" => status = "CONNECTED"
    /\ status # "CONNECTED" => Missed = 0 /\ pingAge = NoPing
    /\ DisconnectTimeoutCount # 0 => Missed < DisconnectTimeoutCount

(* A pong may still be in time: the code knows when its ping was sent.     *)
PingTimed == pingAge \in 0 .. PongTimeout => PingElapsed = pingAge

(* No ping is out and some were missed: the next handleHBPing will ping.    *)
ForcedPing ==
    /\ pc # "timeout"
    /\ PingElapsed > PingInterval
    /\ PingElapsed <= PingInterval + 1 + lag + (IF pc = "app" THEN 0 ELSE MaxLag)

MissedPingOut == pingAge = NoPing => Missed = 0 \/ hb.pongReceived \/ ForcedPing

(* A pong has been read in this pass, in time, and no ping can come between *)
(* it and the handleHBTimeout that clears the count.                        *)
PongSeen ==
    /\ pc \in {"ping", "timeout"}
    /\ hb.pongReceived
    /\ pc = "ping" => PingElapsed <= PongTimeout + lag

MissesCounted ==
    DisconnectTimeoutCount # 0 => Missed <= misses \/ PongSeen

(* The first connection, or none yet, with the heartbeat on.               *)
Guarded == first /\ hb.enabled

CountInv == Guarded => CountOpen /\ PingTimed
ForceInv == Guarded => MissedPingOut
MissInv  == Guarded => MissesCounted

-----------------------------------------------------------------------------
(* What a step may do to the heartbeat of a guarded connection, other than  *)
(* Tick, PingNotDue and PingPeer.                                          *)
Untouched ==
    UNCHANGED <<now, hb, pingAge, misses>>

Stays ==
    /\ Untouched
    /\ UNCHANGED <<lag, pc, status>>

Unmissed ==
    /\ hb'.pongTimeoutCount = 0
    /\ pingAge' = NoPing
    /\ pc' # "timeout"

Entered ==
    /\ Untouched
    /\ pc = "app" /\ pc' = "data"
    /\ lag' = 0
    /\ UNCHANGED status

Served ==
    /\ Untouched
    /\ pc = "data" /\ pc' = "ping"
    /\ UNCHANGED <<lag, status>>

Answered ==
    /\ pc = "data" /\ pc' = "ping"
    /\ UNCHANGED <<now, lag, status>>
    /\ hb' = PongNoted(hb)
    /\ pingAge' = NoPing
    /\ misses' = IF pingAge \in 0 .. PongTimeout THEN 0 ELSE misses

SketchPings ==
    /\ pc = "app" /\ pc' = "app"
    /\ status = "CONNECTED"
    /\ UNCHANGED <<now, lag, status, misses>>
    /\ hb' = [hb EXCEPT !.lastPing = now]
    /\ pingAge' = 0

TimedOut ==
    /\ HBTimeout
    /\ ~GivesUp(hb, now)
    /\ UNCHANGED status

(* A first connection that has ended is not followed by another.           *)
LEMMA StillFirst ==
    ASSUME [MCNext]_<<vars, first>>, first'
    PROVE  first /\ ~(tcp # "null" /\ tcp' = "null")
  BY DEF MCNext, vars, link

(* So the steps that disconnect are not among them.                        *)
LEMMA NoDisconnect ==
    ASSUME Inv, [MCNext]_<<vars, first>>, first', status = "CONNECTED" \/ pc = "data" \/ pc = "ping"
    PROVE  ~Disconnect /\ tcp' # "null"
  <1>1. tcp # "null"
    BY DEF Inv, Safe, SocketInv
  <1> QED
    BY <1>1, StillFirst DEF Disconnect

(* A connection is guarded only if it was: no call switches the heartbeat   *)
(* on.                                                                     *)
LEMMA GuardedBefore ==
    ASSUME Inv, "enableHeartbeat" \notin AppCalls, [MCNext]_<<vars, first>>, Guarded'
    PROVE  Guarded
  <1>1. first /\ hb'.enabled = TRUE
    <2>1. hb' \in Heartbeats
      <3>1. [Next]_vars
        BY DEF MCNext
      <3>2. TypeOK'
        BY <3>1, TypeStep DEF Inv
      <3> QED
        BY <3>2 DEF TypeOK
    <2> QED
      BY <2>1, StillFirst DEF Guarded, Heartbeats
  <1>2. hb \in Heartbeats
    BY DEF Inv, TypeOK
  <1>3. hb'.enabled = hb.enabled \/ hb'.enabled = FALSE
    <2>1. CASE UNCHANGED hb
      BY <2>1
    <2>2. CASE \E t : hb' \in {PongNoted(hb), PingSent(hb, t), [hb EXCEPT !.lastPing = t],
                              Begun(hb), DisableHeartbeat(hb)}
      <3>1. PICK t : hb' \in {PongNoted(hb), PingSent(hb, t), [hb EXCEPT !.lastPing = t],
                              Begun(hb), DisableHeartbeat(hb)}
        BY <2>2
      <3>2. /\ PongNoted(hb).enabled = hb.enabled
            /\ PingSent(hb, t).enabled = hb.enabled
            /\ [hb EXCEPT !.lastPing = t].enabled = hb.enabled
            /\ Begun(hb).enabled = hb.enabled
            /\ DisableHeartbeat(hb).enabled = FALSE
        BY <1>2, HeartbeatFields
      <3> QED
        BY <3>1, <3>2, Zenon
    <2>3. CASE hb' = CheckPong(hb, now)
      BY <1>2, <2>3, CheckPongFields
    <2>4. CASE Next
      <3>1. ~AppEnableHeartbeat
        BY DEF AppEnableHeartbeat, Call
      <3>2. ASSUME NEW r, HeaderEnd(r)
            PROVE  UNCHANGED hb
        BY <3>2 DEF HeaderEnd, AwaitBody, LostBeforeBody, HandshakeFails, AskAgain, Established,
                    pings
      <3>3. CASE Tick \/ PeerDrops \/ LoopWaits \/ ConnectFails \/ ConnectSucceeds \/ ConnectMismatch
                 \/ LoopConnected \/ HeaderTimeout \/ NoData \/ ReadClose \/ ReadMalformed
                 \/ FrameCut \/ PingNotDue \/ PingFails \/ AppDisconnect \/ AppSend
        BY <2>1, <3>3
        DEF Tick, PeerDrops, LoopWaits, ConnectFails, ConnectSucceeds, ConnectMismatch,
            StartsConnect, LoopConnected, HeaderTimeout, NoData, ReadClose, ReadMalformed,
            FrameCut, PingNotDue, PingFails, AppDisconnect, AppSend, pings
      <3>4. ASSUME NEW line, ReadLine(line)
            PROVE  UNCHANGED hb
        BY <3>4 DEF ReadLine, pings
      <3>5. ASSUME NEW kind, ReadMessage(kind)
            PROVE  hb' \in {hb, PongNoted(hb)}
        BY <3>5 DEF ReadMessage, pings
      <3>6. CASE PingPeer
        BY <2>2, <3>6 DEF PingPeer
      <3>7. CASE HBTimeout
        BY <2>3, <3>7 DEF HBTimeout
      <3>8. CASE AppSendPing
        BY <2>1, <2>2, <3>8 DEF AppSendPing, pings
      <3>9. CASE AppDisableHeartbeat \/ AppRestart
        BY <2>2, <3>9 DEF AppDisableHeartbeat, AppRestart
      <3>10. CASE ReadBlank \/ ReadSessionId
        BY <2>1, <3>2, <3>10 DEF ReadBlank, ReadSessionId
      <3> QED
        BY <2>1, <2>2, <2>4, <3>1, <3>3, <3>4, <3>5, <3>6, <3>7, <3>8, <3>9, <3>10
        DEF Next, Loop, App
    <2> QED
      BY <2>1, <2>4 DEF MCNext, vars, pings
  <1> QED
    BY <1>1, <1>3 DEF Guarded

(* The verdicts on a response leave a connection without pings, missed or   *)
(* out.                                                                    *)
LEMMA HeaderEndUnmissed ==
    ASSUME CountOpen, status \in {"HEADER", "BODY"}, NEW r, HeaderEnd(r)
    PROVE  Unmissed
  <1>1. Missed = 0 /\ pingAge = NoPing
    BY DEF CountOpen
  <1> QED
    BY <1>1 DEF Unmissed, Missed, HeaderEnd, AwaitBody, LostBeforeBody, HandshakeFails,
                AskAgain, Established, pings

(* The steps a guarded connection takes, if it stays the first.            *)
LEMMA GuardedStep ==
    ASSUME Inv, CountOpen, "enableHeartbeat" \notin AppCalls,
           [MCNext]_<<vars, first>>, Guarded, Guarded'
    PROVE  Tick \/ PingNotDue \/ PingPeer \/ Stays \/ Unmissed \/ Entered \/ Served \/ Answered
           \/ SketchPings \/ TimedOut
  <1>0. /\ first'
        /\ tcp # "null" => tcp' # "null"
        /\ hb \in Heartbeats
    BY StillFirst DEF Guarded, Inv, TypeOK
  <1>1. ASSUME status # "CONNECTED", UNCHANGED <<hb, pingAge>>, pc' # "timeout"
        PROVE  Unmissed
    BY <1>1 DEF Unmissed, CountOpen, Missed
  <1>2. CASE UNCHANGED <<vars, first>>
    BY <1>2 DEF Stays, Untouched, vars, link, pings
  <1>3. CASE PeerDrops
    BY <1>3 DEF PeerDrops, Stays, Untouched, pings
  <1>4. CASE LoopWaits
    <2>1. tcp = "null" /\ pc' = "app"
      BY <1>0, <1>4 DEF LoopWaits, Disconnect, EnterLoop
    <2>2. status # "CONNECTED"
      BY <2>1 DEF Inv, Safe, SocketInv
    <2> QED
      BY <1>1, <1>4, <2>1, <2>2 DEF LoopWaits, pings
  <1>5. CASE ConnectFails \/ ConnectSucceeds \/ ConnectMismatch
    <2>1. pc' = "app" /\ status # "CONNECTED" /\ hb' = hb /\ pingAge' = NoPing
      BY <1>5 DEF ConnectFails, ConnectSucceeds, ConnectMismatch, StartsConnect, EnterLoop,
                  Inv, Safe, SocketInv
    <2> QED
      BY <2>1 DEF Unmissed, CountOpen, Missed
  <1>6. CASE LoopConnected
    BY <1>6 DEF LoopConnected, EnterLoop, Entered, Untouched, link, pings
  <1>7. CASE HeaderTimeout \/ ReadClose \/ ReadMalformed
    <2>1. Disconnect /\ pc = "data"
      BY <1>7 DEF HeaderTimeout, ReadClose, ReadMalformed, ReadsFrame, ReadsData
    <2> QED
      BY <2>1, <1>0, NoDisconnect
  <1>8. CASE NoData
    <2>1. CASE status = "CONNECTED"
      BY <1>8, <2>1 DEF NoData, ReadsData, Served, Untouched, link, pings
    <2>2. CASE status # "CONNECTED"
      BY <1>1, <1>8, <2>2 DEF NoData, pings
    <2> QED
      BY <2>1, <2>2
  <1>9. ASSUME NEW line, ReadLine(line)
        PROVE  Unmissed
    BY <1>1, <1>9 DEF ReadLine, pings
  <1>10. CASE ReadBlank \/ ReadSessionId
    BY <1>10, HeaderEndUnmissed DEF ReadBlank, ReadSessionId
  <1>11. ASSUME NEW kind, ReadMessage(kind)
         PROVE  Served \/ Answered
    <2>1. pc = "data" /\ UNCHANGED <<now, lag>>
      BY <1>11 DEF ReadMessage, ReadsFrame, ReadsData
    <2>2. pc' = "ping" /\ UNCHANGED link
      BY <1>0, <1>11, <2>1, NoDisconnect DEF ReadMessage
    <2>3. CASE kind = "pong"
      BY <1>11, <2>1, <2>2, <2>3 DEF ReadMessage, Answered, link
    <2>4. CASE kind # "pong"
      BY <1>11, <2>1, <2>2, <2>4 DEF ReadMessage, Served, Untouched, link, pings
    <2> QED
      BY <2>3, <2>4
  <1>12. CASE FrameCut
    BY <1>12 DEF FrameCut, ReadsData, Served, Untouched, link, pings
  <1>13. CASE PingFails
    BY <1>0, <1>13, NoDisconnect DEF PingFails
  <1>14. CASE HBTimeout
    <2>1. status = "CONNECTED"
      BY <1>14 DEF HBTimeout, CountOpen
    <2>2. ~GivesUp(hb, now)
      BY <1>0, <1>14, <2>1, NoDisconnect DEF HBTimeout
    <2> QED
      BY <1>14, <2>2 DEF HBTimeout, TimedOut, link
  <1>15. CASE AppDisconnect \/ AppSend
    BY <1>0, <1>15 DEF AppDisconnect, AppSend, Disconnect
  <1>16. CASE AppSendPing
    BY <1>0, <1>16 DEF AppSendPing, Call, Disconnect, SketchPings, link
  <1>17. ~AppEnableHeartbeat
    BY DEF AppEnableHeartbeat, Call
  <1>18. ~AppDisableHeartbeat
    <2>1. ASSUME AppDisableHeartbeat
          PROVE  hb'.enabled = FALSE
      BY <1>0, <2>1, HeartbeatFields DEF AppDisableHeartbeat
    <2> QED
      BY <2>1 DEF Guarded
  <1>19. CASE AppRestart
    <2>1. tcp = "null" /\ pc' = "app" /\ hb' = Begun(hb) /\ pingAge' = pingAge
      BY <1>0, <1>19 DEF AppRestart, Call
    <2>2. pingAge = NoPing
      BY <2>1 DEF Inv, Safe, SocketInv, CountOpen
    <2> QED
      BY <1>0, <2>1, <2>2, HeartbeatFields DEF Unmissed
  <1>20. CASE Next
    BY <1>3, <1>4, <1>5, <1>6, <1>7, <1>8, <1>9, <1>10, <1>11, <1>12, <1>13, <1>14, <1>15,
       <1>16, <1>17, <1>18, <1>19, <1>20 DEF Next, Loop, App
  <1> QED
    BY <1>2, <1>20 DEF MCNext

-----------------------------------------------------------------------------
(***************************************************************************)
(* Every such step keeps the three invariants.                             *)
(***************************************************************************)

(* The numbers the proofs calculate with.                                  *)
LEMMA HeartbeatNumbers ==
    ASSUME TypeOK
    PROVE  /\ hb \in Heartbeats
           /\ now \in Millis /\ hb.lastPing \in Millis
           /\ PingElapsed \in 0 .. ClockMod - 1
           /\ lag \in 0 .. MaxLag
           /\ Missed \in 0 .. CountMod - 1
           /\ misses \in 0 .. DisconnectTimeoutCount
           /\ pingAge \in -1 .. PongTimeout + 1
           /\ NoPing = -1
  <1>1. hb \in Heartbeats /\ now \in Millis
    BY DEF TypeOK
  <1>2. hb.lastPing \in Millis /\ hb.pongTimeoutCount \in 0 .. CountMod - 1
    BY <1>1 DEF Heartbeats
  <1>3. Elapsed(now, hb.lastPing) \in Millis
    <2>1. now \in Int /\ hb.lastPing \in Int
      BY <1>1, <1>2 DEF Millis
    <2> QED
      BY <2>1, ElapsedType
  <1>4. lag \in 0 .. MaxLag /\ misses \in 0 .. DisconnectTimeoutCount
        /\ pingAge \in -1 .. PongTimeout + 1 /\ NoPing = -1
    BY DEF TypeOK, NoPing
  <1> QED
    BY <1>1, <1>2, <1>3, <1>4 DEF Millis, PingElapsed, Missed

(* A ping that is sent now has been out for no time.                       *)
LEMMA JustSent ==
    ASSUME NEW t \in Millis
    PROVE  Elapsed(t, t) = 0
  BY ElapsedCases DEF Millis

(* A reading taken d ticks back is d ticks old.                            *)
LEMMA Backdated ==
    ASSUME NEW t \in Millis, NEW d \in Millis
    PROVE  Elapsed(t, Elapsed(t, d)) = d
  <1>1. PICK b \in Millis : b = Elapsed(t, d)
    <2>1. t \in Int /\ d \in Int
      BY DEF Millis
    <2> QED
      BY <2>1, ElapsedType
  <1>2. b = IF t >= d THEN t - d ELSE t - d + ClockMod
    BY <1>1, ElapsedCases
  <1>3. Elapsed(t, b) = IF t >= b THEN t - b ELSE t - b + ClockMod
    BY ElapsedCases
  <1>4. Elapsed(t, b) = d
    BY <1>2, <1>3 DEF Millis
  <1> QED
    BY <1>1, <1>4

(* A tick adds one to the time since the last ping.                        *)
LEMMA TickElapsed ==
    ASSUME TypeOK, Tick, PingElapsed < ClockMod - 1
    PROVE  PingElapsed' = PingElapsed + 1
  <1>1. now \in Millis /\ hb.lastPing \in Millis
    BY HeartbeatNumbers
  <1>2. now' = (now + 1) % ClockMod /\ hb' = hb
    BY DEF Tick
  <1>3. Elapsed((now + 1) % ClockMod, hb.lastPing) = Elapsed(now, hb.lastPing) + 1
    BY <1>1, ElapsedTick DEF PingElapsed
  <1> QED
    BY <1>2, <1>3 DEF PingElapsed

(* An untouched heartbeat is as old as it was.                             *)
LEMMA SameElapsed ==
    ASSUME UNCHANGED <<now, hb>>
    PROVE  PingElapsed' = PingElapsed /\ Missed' = Missed
  BY DEF PingElapsed, Missed

(* What handleHBTimeout does when it does not give up, in terms of the      *)
(* invariant's parts.                                                      *)
LEMMA TimedOutHeartbeat ==
    ASSUME TypeOK, hb.enabled, TimedOut, PingInterval + 1 < ClockMod
    PROVE  \/ /\ PingElapsed > PongTimeout /\ ~hb.pongReceived
              /\ Missed' = (Missed + 1) % CountMod
              /\ DisconnectTimeoutCount # 0 => Missed' < DisconnectTimeoutCount
              /\ PingElapsed' = PingInterval + 1
              /\ misses' = Older(misses, DisconnectTimeoutCount)
           \/ /\ PingElapsed' = PingElapsed
              /\ hb.pongReceived => Missed' = 0
              /\ ~hb.pongReceived => Missed' = Missed
              /\ misses' = misses
  <1>1. hb' = CheckPong(hb, now) /\ now' = now
        /\ misses' = IF PongOverdue(hb, now) THEN Older(misses, DisconnectTimeoutCount) ELSE misses
    BY DEF TimedOut, HBTimeout
  <1>2. hb \in Heartbeats /\ now \in Millis
    BY HeartbeatNumbers
  <1>3. CASE PongOverdue(hb, now)
    <2>1. PingElapsed > PongTimeout /\ ~hb.pongReceived
      BY <1>3 DEF PongOverdue, PingElapsed
    <2>2. CheckPong(hb, now).pongTimeoutCount = (Missed + 1) % CountMod
          /\ CheckPong(hb, now).lastPing = Elapsed(now, PingInterval + ForcePingMargin)
      BY <1>2, <1>3, CheckPongFields DEF Missed
    <2>3. DisconnectTimeoutCount # 0 => Missed' < DisconnectTimeoutCount
      <3>1. Missed' \in Int
        <4>1. hb' \in Heartbeats
          BY <1>1, <1>2, HeartbeatTypes
        <4> QED
          BY <4>1 DEF Missed, Heartbeats
      <3>2. DisconnectTimeoutCount # 0 => ~(Missed' >= DisconnectTimeoutCount)
        BY <1>1, <1>3 DEF TimedOut, GivesUp, Missed
      <3> QED
        BY <3>1, <3>2
    <2>4. PingElapsed' = PingInterval + 1
      <3>1. PingInterval + ForcePingMargin = PingInterval + 1 /\ PingInterval + 1 \in Millis
        BY DEF ForcePingMargin, Millis
      <3>2. Elapsed(now, Elapsed(now, PingInterval + 1)) = PingInterval + 1
        BY <1>2, <3>1, Backdated
      <3> QED
        BY <1>1, <2>2, <3>1, <3>2 DEF PingElapsed
    <2> QED
      BY <1>1, <1>3, <2>1, <2>2, <2>3, <2>4 DEF Missed
  <1>4. CASE ~PongOverdue(hb, now)
    <2>1. PingElapsed' = PingElapsed
      BY <1>1, <1>2, <1>4, CheckPongFields DEF PingElapsed
    <2>2. hb.pongReceived => Missed' = 0
      BY <1>1, <1>2, <1>4, CheckPongFields DEF Missed
    <2>3. ~hb.pongReceived => Missed' = Missed
      BY <1>1, <1>2, <1>4, CheckPongFields DEF Missed
    <2> QED
      BY <1>1, <1>4, <2>1, <2>2, <2>3
  <1> QED
    BY <1>3, <1>4

(* The step of the invariant, for the steps that GuardedStep names.        *)
LEMMA CountKept ==
    ASSUME Inv, CountOpen, PingTimed, hb.enabled, PongTimeout < ClockMod,
           PingInterval + 1 < ClockMod,
           \/ Tick \/ PingNotDue \/ PingPeer \/ Stays \/ Unmissed \/ Entered \/ Served
           \/ Answered \/ SketchPings \/ TimedOut
    PROVE  CountOpen' /\ PingTimed'
  <1>0. TypeOK /\ hb \in Heartbeats /\ now \in Millis /\ NoPing = -1
    BY HeartbeatNumbers DEF Inv
  <1>1. CASE Tick
    <2>1. UNCHANGED <<pc, status, hb, misses>>
      BY <1>1 DEF Tick
    <2>2. pingAge' = IF pingAge = NoPing THEN NoPing ELSE Older(pingAge, PongTimeout + 1)
      BY <1>1 DEF Tick
    <2>3. CountOpen'
      BY <2>1, <2>2 DEF CountOpen, Missed
    <2>4. ASSUME pingAge' \in 0 .. PongTimeout
          PROVE  PingElapsed' = pingAge'
      <3>1. pingAge' = pingAge + 1 /\ pingAge \in 0 .. PongTimeout - 1
        BY <1>0, <2>2, <2>4, HeartbeatNumbers DEF Older
      <3>2. PingElapsed = pingAge
        BY <3>1 DEF PingTimed
      <3>3. PingElapsed < ClockMod - 1
        BY <3>1, <3>2
      <3> QED
        BY <1>0, <1>1, <3>1, <3>2, <3>3, TickElapsed
    <2> QED
      BY <2>3, <2>4 DEF PingTimed
  <1>2. CASE PingNotDue
    <2>1. UNCHANGED <<now, hb, pingAge, status>> /\ status = "CONNECTED"
      BY <1>2 DEF PingNotDue, link, pings, Inv, Safe, SocketInv
    <2> QED
      BY <2>1, SameElapsed DEF CountOpen, PingTimed
  <1>3. CASE PingPeer \/ SketchPings
    <2>1. status' = "CONNECTED" /\ pingAge' = 0 /\ now' = now
      BY <1>3 DEF PingPeer, SketchPings, link, Inv, Safe, SocketInv
    <2>2. Missed' = Missed /\ hb'.lastPing = now
      <3>1. hb' \in {PingSent(hb, now), [hb EXCEPT !.lastPing = now]}
        BY <1>3 DEF PingPeer, SketchPings
      <3>2. /\ PingSent(hb, now).lastPing = now
            /\ PingSent(hb, now).pongTimeoutCount = hb.pongTimeoutCount
            /\ [hb EXCEPT !.lastPing = now].lastPing = now
            /\ [hb EXCEPT !.lastPing = now].pongTimeoutCount = hb.pongTimeoutCount
        BY <1>0 DEF PingSent, Heartbeats
      <3> QED
        BY <3>1, <3>2, Zenon DEF Missed
    <2>3. PingElapsed' = 0
      BY <1>0, <2>1, <2>2, JustSent DEF PingElapsed
    <2> QED
      BY <2>1, <2>2, <2>3 DEF CountOpen, PingTimed
  <1>4. CASE Stays \/ Entered \/ Served
    <2>1. UNCHANGED <<now, hb, pingAge, status>> /\ (pc' = pc \/ pc' # "timeout")
      BY <1>4 DEF Stays, Entered, Served, Untouched
    <2> QED
      BY <2>1, SameElapsed DEF CountOpen, PingTimed
  <1>5. CASE Unmissed
    <2>1. Missed' = 0 /\ pingAge' = NoPing /\ pc' # "timeout"
      BY <1>5 DEF Unmissed, Missed
    <2>2. DisconnectTimeoutCount # 0 => 0 < DisconnectTimeoutCount
      OBVIOUS
    <2> QED
      BY <1>0, <2>1, <2>2 DEF CountOpen, PingTimed
  <1>6. CASE Answered
    <2>1. status' = status /\ pingAge' = NoPing /\ pc' # "timeout"
      BY <1>6 DEF Answered
    <2>2. Missed' = Missed
      BY <1>0, <1>6, HeartbeatFields DEF Answered, Missed
    <2> QED
      BY <1>0, <2>1, <2>2 DEF CountOpen, PingTimed
  <1>7. CASE TimedOut
    <2>1. status = "CONNECTED" /\ status' = status /\ pingAge' = pingAge
      BY <1>7 DEF TimedOut, HBTimeout, CountOpen
    <2>2. CASE PingElapsed > PongTimeout
               /\ (DisconnectTimeoutCount # 0 => Missed' < DisconnectTimeoutCount)
      <3>1. pingAge \notin 0 .. PongTimeout
        BY <2>2, HeartbeatNumbers, <1>0 DEF PingTimed
      <3> QED
        BY <2>1, <2>2, <3>1 DEF CountOpen, PingTimed
    <2>3. CASE PingElapsed' = PingElapsed /\ Missed' \in {Missed, 0}
      <3>1. DisconnectTimeoutCount # 0 => Missed' < DisconnectTimeoutCount
        <4>1. DisconnectTimeoutCount # 0 => Missed < DisconnectTimeoutCount
                                            /\ 0 < DisconnectTimeoutCount
          BY DEF CountOpen
        <4> QED
          BY <2>3, <4>1
      <3> QED
        BY <2>1, <2>3, <3>1 DEF CountOpen, PingTimed
    <2> QED
      BY <1>0, <1>7, <2>2, <2>3, TimedOutHeartbeat
  <1> QED
    BY <1>1, <1>2, <1>3, <1>4, <1>5, <1>6, <1>7

(* A forced ping stays due until it is sent: the clock cannot go round in   *)
(* between.                                                                *)
LEMMA ForceKept ==
    ASSUME Inv, CountOpen, PingTimed, MissedPingOut, hb.enabled,
           PingInterval + 2 * MaxLag + 1 < ClockMod,
           \/ Tick \/ PingNotDue \/ PingPeer \/ Stays \/ Unmissed \/ Entered \/ Served
           \/ Answered \/ SketchPings \/ TimedOut
    PROVE  MissedPingOut'
  <1>0. TypeOK /\ hb \in Heartbeats /\ now \in Millis /\ NoPing = -1
        /\ lag \in 0 .. MaxLag /\ PingElapsed \in Nat /\ PingInterval \in Nat /\ MaxLag \in Nat
    BY HeartbeatNumbers DEF Inv
  <1>1. CASE Tick
    <2>1. UNCHANGED <<pc, hb>> /\ lag' = lag + 1 /\ lag < MaxLag
      BY <1>1 DEF Tick
    <2>2. pingAge' = NoPing => pingAge = NoPing
      BY <1>0, <1>1, HeartbeatNumbers DEF Tick, Older
    <2>3. ASSUME ForcedPing
          PROVE  ForcedPing'
      <3> DEFINE more == IF pc = "app" THEN 0 ELSE MaxLag
      <3>1. more \in 0 .. MaxLag /\ more = IF pc' = "app" THEN 0 ELSE MaxLag
        BY <1>0, <2>1
      <3>2. PingElapsed > PingInterval /\ PingElapsed <= PingInterval + 1 + lag + more
        BY <2>3 DEF ForcedPing
      <3> HIDE DEF more
      <3>3. PingElapsed < ClockMod - 1
        BY <1>0, <2>1, <3>1, <3>2
      <3>4. PingElapsed' = PingElapsed + 1
        BY <1>0, <1>1, <3>3, TickElapsed
      <3>5. PingElapsed' > PingInterval /\ PingElapsed' <= PingInterval + 1 + lag' + more
        BY <1>0, <2>1, <3>1, <3>2, <3>4
      <3>6. pc' # "timeout"
        BY <2>1, <2>3 DEF ForcedPing
      <3> QED
        BY <3>1, <3>5, <3>6 DEF ForcedPing
    <2> QED
      BY <2>1, <2>2, <2>3 DEF MissedPingOut, Missed
  <1>2. CASE PingNotDue
    <2>1. UNCHANGED <<now, hb, pingAge>> /\ ~PingDue(hb, now) /\ pc = "ping"
      BY <1>2 DEF PingNotDue, pings
    <2>2. ~ForcedPing
      BY <2>1 DEF ForcedPing, PingDue, PingElapsed
    <2> QED
      BY <2>1, <2>2, SameElapsed DEF MissedPingOut
  <1>3. CASE PingPeer \/ SketchPings
    <2>1. pingAge' = 0
      BY <1>3 DEF PingPeer, SketchPings
    <2> QED
      BY <1>0, <2>1 DEF MissedPingOut
  <1>4. CASE Stays \/ Served
    <2>1. UNCHANGED <<hb, pingAge, lag>> /\ PingElapsed' = PingElapsed /\ Missed' = Missed
      BY <1>4, SameElapsed DEF Stays, Served, Untouched
    <2>2. pc' = pc \/ (pc = "data" /\ pc' = "ping")
      BY <1>4 DEF Stays, Served
    <2>3. ForcedPing => ForcedPing'
      BY <2>1, <2>2 DEF ForcedPing
    <2> QED
      BY <2>1, <2>3 DEF MissedPingOut
  <1>5. CASE Entered
    <2>1. UNCHANGED <<hb, pingAge>> /\ PingElapsed' = PingElapsed /\ Missed' = Missed
          /\ pc = "app" /\ pc' = "data" /\ lag' = 0
      BY <1>5, SameElapsed DEF Entered, Untouched
    <2>2. ASSUME ForcedPing
          PROVE  ForcedPing'
      <3>1. PingElapsed > PingInterval /\ PingElapsed <= PingInterval + 1 + lag + 0
        BY <2>1, <2>2 DEF ForcedPing
      <3>2. PingElapsed' > PingInterval /\ PingElapsed' <= PingInterval + 1 + lag' + MaxLag
        BY <1>0, <2>1, <3>1
      <3> QED
        BY <2>1, <3>2 DEF ForcedPing
    <2> QED
      BY <2>1, <2>2 DEF MissedPingOut
  <1>6. CASE Unmissed
    BY <1>6 DEF Unmissed, MissedPingOut, Missed
  <1>7. CASE Answered
    BY <1>0, <1>7, HeartbeatFields DEF Answered, MissedPingOut
  <1>8. CASE TimedOut
    <2>1. pingAge' = pingAge /\ pc = "timeout" /\ pc' = "app" /\ lag' = lag
      BY <1>8 DEF TimedOut, HBTimeout
    <2>2. CASE PingElapsed' = PingInterval + 1
      <3>1. PingElapsed' > PingInterval /\ PingElapsed' <= PingInterval + 1 + lag' + 0
        BY <1>0, <2>1, <2>2
      <3>2. ForcedPing'
        BY <2>1, <3>1 DEF ForcedPing
      <3> QED
        BY <3>2 DEF MissedPingOut
    <2>3. CASE (hb.pongReceived => Missed' = 0) /\ (~hb.pongReceived => Missed' = Missed)
      <3>1. pingAge = NoPing => Missed = 0 \/ hb.pongReceived
        BY <2>1 DEF MissedPingOut, ForcedPing
      <3> QED
        BY <2>1, <2>3, <3>1 DEF MissedPingOut
    <2>4. PingInterval + 1 < ClockMod
      BY <1>0
    <2> QED
      BY <1>0, <1>8, <2>2, <2>3, <2>4, TimedOutHeartbeat
  <1> QED
    BY <1>1, <1>2, <1>3, <1>4, <1>5, <1>6, <1>7, <1>8

(* The code counts no more timeouts than there were since a pong came in    *)
(* time: no ping comes between a pong and the handleHBTimeout that sees it.  *)
LEMMA MissesKept ==
    ASSUME Inv, CountOpen, PingTimed, MissesCounted, TypeOK', hb.enabled,
           PongTimeout + MaxLag <= PingInterval, PingInterval + 1 < ClockMod,
           \/ Tick \/ PingNotDue \/ PingPeer \/ Stays \/ Unmissed \/ Entered \/ Served
           \/ Answered \/ SketchPings \/ TimedOut
    PROVE  MissesCounted'
  <1>0. /\ TypeOK /\ hb \in Heartbeats /\ now \in Millis /\ NoPing = -1
        /\ lag \in 0 .. MaxLag /\ PingElapsed \in Nat
        /\ PingInterval \in Nat /\ PongTimeout \in Nat /\ MaxLag \in Nat
        /\ Missed \in 0 .. CountMod - 1 /\ misses \in 0 .. DisconnectTimeoutCount
    BY HeartbeatNumbers DEF Inv
  <1>1. CASE Tick
    <2>1. UNCHANGED <<pc, hb, misses>> /\ lag' = lag + 1 /\ lag < MaxLag
      BY <1>1 DEF Tick
    <2>2. ASSUME PongSeen
          PROVE  PongSeen'
      <3>1. ASSUME pc = "ping"
            PROVE  PingElapsed' <= PongTimeout + lag'
        <4>1. PingElapsed <= PongTimeout + lag
          BY <2>2, <3>1 DEF PongSeen
        <4>2. PingElapsed < ClockMod - 1
          BY <1>0, <2>1, <4>1
        <4>3. PingElapsed' = PingElapsed + 1
          BY <1>0, <1>1, <4>2, TickElapsed
        <4> QED
          BY <1>0, <2>1, <4>1, <4>3
      <3> QED
        BY <2>1, <2>2, <3>1 DEF PongSeen
    <2> QED
      BY <2>1, <2>2 DEF MissesCounted, Missed
  <1>2. CASE PingNotDue
    <2>1. UNCHANGED <<hb, misses>> /\ pc' = "timeout"
      BY <1>2 DEF PingNotDue, pings
    <2> QED
      BY <2>1 DEF MissesCounted, Missed, PongSeen
  <1>3. CASE PingPeer
    <2>a. misses' = misses /\ hb' = PingSent(hb, now)
      BY <1>3 DEF PingPeer
    <2>b. Missed' = Missed
      BY <1>0, <2>a DEF Missed, Heartbeats, PingSent
    <2>1. misses' = misses /\ Missed' = Missed
      BY <2>a, <2>b
    <2>2. PingElapsed > PingInterval /\ pc = "ping"
      BY <1>3 DEF PingPeer, PingDue, PingElapsed
    <2>3. ~(PingElapsed <= PongTimeout + lag)
      BY <1>0, <2>2
    <2> QED
      BY <2>1, <2>2, <2>3 DEF MissesCounted, PongSeen
  <1>4. CASE SketchPings
    <2>1. misses' = misses /\ pc = "app" /\ hb' = [hb EXCEPT !.lastPing = now]
      BY <1>4 DEF SketchPings
    <2>2. Missed' = Missed
      BY <1>0, <2>1 DEF Missed, Heartbeats
    <2> QED
      BY <2>1, <2>2 DEF MissesCounted, PongSeen
  <1>5. CASE Stays
    <2>1. UNCHANGED <<now, hb, misses, lag, pc>>
      BY <1>5 DEF Stays, Untouched
    <2> QED
      BY <2>1 DEF MissesCounted, Missed, PongSeen, PingElapsed
  <1>6. CASE Entered \/ Served
    <2>1. UNCHANGED <<hb, misses>> /\ pc \in {"app", "data"}
      BY <1>6 DEF Entered, Served, Untouched
    <2> QED
      BY <2>1 DEF MissesCounted, Missed, PongSeen
  <1>7. CASE Unmissed
    <2>1. Missed' = 0 /\ misses' \in Nat
      BY <1>7 DEF Unmissed, Missed, TypeOK
    <2>2. Missed' <= misses'
      BY <2>1
    <2> QED
      BY <2>2 DEF MissesCounted
  <1>8. CASE Answered
    <2>1. UNCHANGED <<now, lag>> /\ pc = "data" /\ pc' = "ping" /\ hb' = PongNoted(hb)
      BY <1>8 DEF Answered
    <2>2. /\ Missed' = Missed
          /\ PingElapsed' = PingElapsed
          /\ hb'.pongReceived
      BY <1>0, <2>1, HeartbeatFields DEF Missed, PingElapsed
    <2>3. CASE pingAge \in 0 .. PongTimeout
      <3>1. PingElapsed <= PongTimeout + lag
        BY <1>0, <2>3 DEF PingTimed
      <3>2. PongSeen'
        BY <2>1, <2>2, <3>1 DEF PongSeen
      <3> QED
        BY <3>2 DEF MissesCounted
    <2>4. CASE pingAge \notin 0 .. PongTimeout
      <3>1. misses' = misses
        BY <1>8, <2>4 DEF Answered
      <3> QED
        BY <2>1, <2>2, <3>1 DEF MissesCounted, PongSeen
    <2> QED
      BY <2>3, <2>4
  <1>9. CASE TimedOut
    <2>1. pc = "timeout"
      BY <1>9 DEF TimedOut, HBTimeout
    <2>2. CASE /\ ~hb.pongReceived
               /\ Missed' = (Missed + 1) % CountMod
               /\ DisconnectTimeoutCount # 0 => Missed' < DisconnectTimeoutCount
               /\ misses' = Older(misses, DisconnectTimeoutCount)
      <3>1. ASSUME DisconnectTimeoutCount # 0
            PROVE  Missed' <= misses'
        <4>1. Missed <= misses /\ Missed < DisconnectTimeoutCount
          BY <2>2, <3>1 DEF MissesCounted, PongSeen, CountOpen
        <4>2. Missed + 1 \in 0 .. CountMod - 1
          BY <1>0, <4>1
        <4>3. Missed' = Missed + 1
          BY <2>2, <4>2, SmallRemainders
        <4>4. Missed + 1 <= Older(misses, DisconnectTimeoutCount)
          BY <1>0, <4>1 DEF Older
        <4> QED
          BY <2>2, <4>3, <4>4
      <3> QED
        BY <3>1 DEF MissesCounted
    <2>3. CASE /\ hb.pongReceived => Missed' = 0
               /\ ~hb.pongReceived => Missed' = Missed
               /\ misses' = misses
      <3>1. ASSUME DisconnectTimeoutCount # 0
            PROVE  Missed' <= misses'
        <4>1. CASE hb.pongReceived
          BY <1>0, <2>3, <4>1
        <4>2. CASE ~hb.pongReceived
          BY <2>3, <3>1, <4>2 DEF MissesCounted, PongSeen
        <4> QED
          BY <4>1, <4>2
      <3> QED
        BY <3>1 DEF MissesCounted
    <2> QED
      BY <1>0, <1>9, <2>2, <2>3, TimedOutHeartbeat
  <1> QED
    BY <1>1, <1>2, <1>3, <1>4, <1>5, <1>6, <1>7, <1>8, <1>9

-----------------------------------------------------------------------------
(* Watching for the first connection's end changes nothing of the client.  *)
LEMMA WatchedClient == MCSpec => Spec
  <1>1. MCInit => Init
    BY DEF MCInit
  <1>2. [MCNext]_<<vars, first>> => [Next]_vars
    BY DEF MCNext
  <1> QED
    BY <1>1, <1>2, PTL DEF MCSpec, Spec

(* The heartbeat drops a peer in one step only, and for one reason.        *)
LEMMA DropIsGivingUp ==
    ASSUME Inv, [MCNext]_<<vars, first>>, HeartbeatDrop
    PROVE  HBTimeout /\ GivesUp(hb, now) /\ hb.enabled
  <1>1. pc = "timeout" /\ status = "CONNECTED" /\ status' # status
    BY DEF HeartbeatDrop
  <1>2. HBTimeout
    BY <1>1
    DEF MCNext, vars, link, Next, Loop, App, Tick, PeerDrops, LoopWaits, ConnectFails,
        ConnectSucceeds, ConnectMismatch, StartsConnect, LoopConnected, EnterLoop, HeaderTimeout,
        NoData, ReadLine, ReadBlank, ReadSessionId, ReadMessage, ReadClose, ReadMalformed,
        ReadsFrame, FrameCut, ReadsData, PingNotDue, PingPeer, PingFails, AppDisconnect, AppSend,
        AppSendPing, AppEnableHeartbeat, AppDisableHeartbeat, AppRestart, Call
  <1>3. GivesUp(hb, now)
    BY <1>1, <1>2 DEF HBTimeout, link
  <1> QED
    BY <1>2, <1>3 DEF GivesUp, PongOverdue

(* What the code knew when it gave up.                                     *)
LEMMA GivingUp ==
    ASSUME TypeOK, CountOpen, GivesUp(hb, now)
    PROVE  /\ DisconnectTimeoutCount # 0
           /\ ~hb.pongReceived
           /\ PingElapsed > PongTimeout
           /\ Missed + 1 >= DisconnectTimeoutCount
  <1>1. DisconnectTimeoutCount # 0 /\ ~hb.pongReceived /\ PingElapsed > PongTimeout
        /\ PongOverdue(hb, now)
    BY DEF GivesUp, PongOverdue, PingElapsed
  <1>2. hb \in Heartbeats /\ Missed \in 0 .. CountMod - 1
    BY HeartbeatNumbers
  <1>3. CheckPong(hb, now).pongTimeoutCount = (Missed + 1) % CountMod
    BY <1>1, <1>2, CheckPongFields DEF Missed
  <1>4. Missed < DisconnectTimeoutCount
    BY <1>1 DEF CountOpen
  <1>5. Missed + 1 \in 0 .. CountMod - 1
    BY <1>2, <1>4
  <1>6. (Missed + 1) % CountMod = Missed + 1
    BY <1>5, SmallRemainders
  <1>7. CheckPong(hb, now).pongTimeoutCount >= DisconnectTimeoutCount
    BY DEF GivesUp
  <1> QED
    BY <1>1, <1>3, <1>6, <1>7

(* The count of timeouts is kept, and pings are timed, on every first       *)
(* connection whose heartbeat is on from begin().                          *)
THEOREM CountInvariance ==
    ASSUME "enableHeartbeat" \notin AppCalls, PongTimeout < ClockMod, PingInterval + 1 < ClockMod
    PROVE  MCSpec => []CountInv
  <1>1. MCInit => CountInv
    BY DEF MCInit, Init, NoHeartbeat, EnableHeartbeat, NoPing, CountInv, CountOpen, PingTimed,
           Missed
  <1>2. Inv /\ CountInv /\ [MCNext]_<<vars, first>> => CountInv'
    BY GuardedBefore, GuardedStep, CountKept DEF CountInv, Guarded
  <1> QED
    BY <1>1, <1>2, WatchedClient, Invariance, PTL DEF MCSpec

(* FirstDropsOnlyUnansweredPeer: the heartbeat of the first connection       *)
(* drops nobody who was not sent a ping, or answered it in time.  With a     *)
(* count of one this is false, because handleHBTimeout also runs before the  *)
(* first ping; and the clock must not go round between a forced ping's two   *)
(* passes.                                                                 *)
THEOREM FirstDropsOnlyUnansweredPeerHolds ==
    ASSUME "enableHeartbeat" \notin AppCalls, DisconnectTimeoutCount # 1,
           PongTimeout < ClockMod, PingInterval + 2 * MaxLag + 1 < ClockMod
    PROVE  MCSpec => FirstDropsOnlyUnansweredPeer
  <1>0. PingInterval + 1 < ClockMod
    OBVIOUS
  <1>1. MCInit => ForceInv
    BY DEF MCInit, Init, NoHeartbeat, EnableHeartbeat, ForceInv, MissedPingOut, Missed
  <1>2. Inv /\ CountInv /\ ForceInv /\ [MCNext]_<<vars, first>> => ForceInv'
    BY GuardedBefore, GuardedStep, ForceKept DEF CountInv, ForceInv, Guarded
  <1>3. ASSUME Inv, CountInv, ForceInv, [MCNext]_<<vars, first>>, first, HeartbeatDrop
        PROVE  pingAge > PongTimeout
    <2>1. HBTimeout /\ GivesUp(hb, now) /\ hb.enabled
      BY <1>3, DropIsGivingUp
    <2>2. TypeOK /\ CountOpen /\ PingTimed /\ MissedPingOut
      BY <1>3, <2>1 DEF Inv, CountInv, ForceInv, Guarded
    <2>3. /\ DisconnectTimeoutCount # 0
          /\ ~hb.pongReceived
          /\ PingElapsed > PongTimeout
          /\ Missed + 1 >= DisconnectTimeoutCount
      BY <2>1, <2>2, GivingUp
    <2>4. Missed # 0
      BY <2>3
    <2>5. ~ForcedPing
      BY <2>1 DEF HBTimeout, ForcedPing
    <2>6. pingAge # NoPing
      BY <2>2, <2>3, <2>4, <2>5 DEF MissedPingOut
    <2>7. /\ pingAge \in -1 .. PongTimeout + 1 /\ NoPing = -1
          /\ PingElapsed \in Nat
      BY <2>2, HeartbeatNumbers
    <2>8. pingAge \notin 0 .. PongTimeout
      BY <2>2, <2>3, <2>7 DEF PingTimed
    <2> QED
      BY <2>6, <2>7, <2>8
  <1>4. Inv /\ CountInv /\ ForceInv /\ [MCNext]_<<vars, first>>
        => [first /\ HeartbeatDrop => pingAge > PongTimeout]_vars
    BY <1>3
  <1> QED
    BY <1>0, <1>1, <1>2, <1>4, WatchedClient, Invariance, CountInvariance, PTL
    DEF MCSpec, FirstDropsOnlyUnansweredPeer

(* FirstEnoughMisses: ... and only after DisconnectTimeoutCount timeouts    *)
(* without an answer in time, if pings are further apart than the time for   *)
(* an answer by what one loop() may take: else a ping can come between a     *)
(* pong and the handleHBTimeout that should have seen it.                   *)
THEOREM FirstEnoughMissesHolds ==
    ASSUME "enableHeartbeat" \notin AppCalls, PongTimeout + MaxLag <= PingInterval,
           PingInterval + 1 < ClockMod
    PROVE  MCSpec => FirstEnoughMisses
  <1>0. PongTimeout < ClockMod
    OBVIOUS
  <1>1. MCInit => MissInv
    <2>1. MCInit => (hb.pongTimeoutCount = 0 /\ misses = 0)
      BY DEF MCInit, Init, NoHeartbeat, EnableHeartbeat
    <2> QED
      BY <2>1 DEF MissInv, MissesCounted, Missed
  <1>2. ASSUME Inv, CountInv, MissInv, [MCNext]_<<vars, first>>, TypeOK'
        PROVE  MissInv'
    BY <1>2, GuardedBefore, GuardedStep, MissesKept DEF CountInv, MissInv, Guarded
  <1>3. ASSUME Inv, CountInv, MissInv, [MCNext]_<<vars, first>>, first, HeartbeatDrop
        PROVE  misses' = DisconnectTimeoutCount
    <2>1. HBTimeout /\ GivesUp(hb, now) /\ hb.enabled
      BY <1>3, DropIsGivingUp
    <2>2. TypeOK /\ CountOpen /\ MissesCounted
      BY <1>3, <2>1 DEF Inv, CountInv, MissInv, Guarded
    <2>3. /\ DisconnectTimeoutCount # 0
          /\ ~hb.pongReceived
          /\ Missed + 1 >= DisconnectTimeoutCount
      BY <2>1, <2>2, GivingUp
    <2>4. Missed <= misses
      BY <2>2, <2>3 DEF MissesCounted, PongSeen
    <2>5. misses' = Older(misses, DisconnectTimeoutCount)
      BY <2>1 DEF HBTimeout, GivesUp
    <2>6. Missed \in Nat /\ misses \in 0 .. DisconnectTimeoutCount
      BY <2>2, HeartbeatNumbers
    <2> QED
      BY <2>3, <2>4, <2>5, <2>6 DEF Older
  <1>4. Inv /\ CountInv /\ MissInv /\ [MCNext]_<<vars, first>>
        => [first /\ HeartbeatDrop => misses' = DisconnectTimeoutCount]_vars
    BY <1>3
  <1>5. Inv /\ CountInv /\ MissInv /\ Inv' /\ [MCNext]_<<vars, first>> => MissInv'
    BY <1>2 DEF Inv
  <1> QED
    BY <1>0, <1>1, <1>4, <1>5, WatchedClient, Invariance, CountInvariance, PTL
    DEF MCSpec, FirstEnoughMisses
=============================================================================
