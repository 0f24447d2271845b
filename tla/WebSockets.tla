----------------------------- MODULE WebSockets -----------------------------
(***************************************************************************)
(* What src/src/WebSockets.{h,cpp} gives both ends of a connection: the    *)
(* millis() clock, the connection states, and the ping/pong heartbeat that *)
(* is kept inside every WSclient_t.  It has no variables: the client and   *)
(* the server hold the heartbeat records and the clock.                    *)
(***************************************************************************)
EXTENDS Integers, Sequences

CONSTANTS
    ClockMod,               \* millis() counts modulo ClockMod (2^32 on the boards)
    CountMod,               \* pongTimeoutCount counts modulo CountMod (uint8_t: 256)
    PingInterval,           \* enableHeartbeat's arguments, in ticks
    PongTimeout,
    DisconnectTimeoutCount

ASSUME HeartbeatAssumption ==
    /\ ClockMod \in Nat \ {0}
    /\ CountMod \in Nat \ {0}
    /\ PingInterval \in Nat \ {0}
    /\ PongTimeout \in Nat
    /\ DisconnectTimeoutCount \in 0 .. CountMod - 1

Millis == 0 .. ClockMod - 1

(* Mutant of Elapsed: the difference of two readings, without the wrap.    *)
SignedElapsed(t, since) == t - since

(* Unsigned subtraction of two clock readings, as in millis() - lastPing.  *)
Elapsed(t, since) == (t - since) % ClockMod

Statuses == {"NOT_CONNECTED", "HEADER", "BODY", "CONNECTED"}

-----------------------------------------------------------------------------
(***************************************************************************)
(* The heartbeat fields of a WSclient_t.  enabled stands for pingInterval  *)
(* # 0.  500 ms, the margin by which a missed pong backdates lastPing, is  *)
(* one tick.                                                               *)
(***************************************************************************)
Heartbeats == [enabled          : BOOLEAN,
               lastPing         : Millis,
               pongReceived     : BOOLEAN,
               pongTimeoutCount : 0 .. CountMod - 1]

ForcePingMargin == 1

NoHeartbeat == [enabled |-> FALSE, lastPing |-> 0,
                pongReceived |-> FALSE, pongTimeoutCount |-> 0]

(* enableHeartbeat and disableHeartbeat leave lastPing and the count alone. *)
EnableHeartbeat(h)  == [h EXCEPT !.enabled = TRUE, !.pongReceived = FALSE]
DisableHeartbeat(h) == [h EXCEPT !.enabled = FALSE]

(* The two tests of handleHBPing and of handleHBTimeout.                   *)
PingDue(h, t) ==
    h.enabled /\ Elapsed(t, h.lastPing) > PingInterval

PongOverdue(h, t) ==
    h.enabled /\ ~h.pongReceived /\ Elapsed(t, h.lastPing) > PongTimeout

(* Mutant of PingSent: a ping that is out clears the count, like a pong.    *)
PingSentClearing(h, t) ==
    [h EXCEPT !.lastPing = t, !.pongReceived = FALSE, !.pongTimeoutCount = 0]

PingSent(h, t) == [h EXCEPT !.lastPing = t, !.pongReceived = FALSE]

(* Mutant of PongNoted: a pong is only handed to messageReceived.          *)
PongIgnored(h) == h

(* The WSop_pong case of handleWebsocketPayloadCb.                         *)
PongNoted(h) == [h EXCEPT !.pongReceived = TRUE]

(* Mutant of CheckPong: a pong in time does not clear the count.           *)
CheckPongCounting(h, t) ==
    IF PongOverdue(h, t)
    THEN [h EXCEPT !.pongTimeoutCount = (@ + 1) % CountMod,
                   !.lastPing = Elapsed(t, PingInterval + ForcePingMargin)]
    ELSE h

(* handleHBTimeout: an answered ping clears the count, an overdue one adds  *)
(* to it and backdates lastPing so that the next loop() pings again.        *)
CheckPong(h, t) ==
    IF PongOverdue(h, t)
    THEN [h EXCEPT !.pongTimeoutCount = (@ + 1) % CountMod,
                   !.lastPing = Elapsed(t, PingInterval + ForcePingMargin)]
    ELSE IF h.enabled /\ h.pongReceived
         THEN [h EXCEPT !.pongTimeoutCount = 0]
         ELSE h

(* Mutant of GivesUp: one timeout more, which a full counter never reaches. *)
GivesUpAbove(h, t) ==
    /\ PongOverdue(h, t)
    /\ DisconnectTimeoutCount # 0
    /\ CheckPong(h, t).pongTimeoutCount > DisconnectTimeoutCount

(* Whether handleHBTimeout goes on to disconnect the peer.                 *)
GivesUp(h, t) ==
    /\ PongOverdue(h, t)
    /\ DisconnectTimeoutCount # 0
    /\ CheckPong(h, t).pongTimeoutCount >= DisconnectTimeoutCount
=============================================================================
