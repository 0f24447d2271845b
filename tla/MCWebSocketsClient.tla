------------------------ MODULE MCWebSocketsClient --------------------------
(***************************************************************************)
(* Model checking of WebSocketsClient: what the .cfg files cannot say.     *)
(*                                                                         *)
(* The heartbeat's fields outlive a connection on the client, and with     *)
(* them the timeouts of the connection before (the run ClientStaleCount).  *)
(* What the heartbeat promises is therefore promised to the first          *)
(* connection after begin(), which first tells from the others.            *)
(***************************************************************************)
EXTENDS WebSocketsClient

VARIABLE first              \* no connection has ended yet

MCInit == Init /\ first = TRUE

MCNext == Next /\ first' = (first /\ ~(tcp # "null" /\ tcp' = "null"))

MCSpec == MCInit /\ [][MCNext]_<<vars, first>>

MCFairSpec == MCSpec /\ WF_vars(Loop) /\ WF_vars(Tick)

(* Of the first connection: the heartbeat drops only a peer that let a ping *)
(* go unanswered for longer than PongTimeout (handleHBTimeout also runs     *)
(* before the first ping, and after a forced one).                          *)
FirstDropsOnlyUnansweredPeer == [][first /\ HeartbeatDrop => pingAge > PongTimeout]_vars

(* ... and only after DisconnectTimeoutCount timeouts in a row.             *)
FirstEnoughMisses == [][first /\ HeartbeatDrop => misses' = DisconnectTimeoutCount]_vars
=============================================================================
