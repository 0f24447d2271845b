------------------------ MODULE WebSockets4WebServer ------------------------
(***************************************************************************)
(* src/src/WebSockets4WebServer.h: the server without a listening socket.  *)
(* A web server of the sketch accepts the peers, and hands those whose      *)
(* request begins with a GET below the hooked path over, between two        *)
(* loop()s of this server, with the request line already read.             *)
(*                                                                         *)
(* The constructor calls begin(), so Init is that of WebSocketsServer.  The *)
(* hook does not ask whether the server is running: after close() it goes   *)
(* on filling slots, which nothing serves before the next begin().  close() *)
(* also resets client->num, the slot the events name, to 0 until then: with *)
(* more than one slot the events of those sockets would name slot 0, so a   *)
(* run that closes the server has one slot.                                *)
(***************************************************************************)
EXTENDS WebSocketsServer

ASSUME HookAssumption == AppCalls \intersect {"close", "begin"} # {} => MaxClients = 1

(* WebSocketsServerCore::loop(): handleClientData alone.                   *)
EnterCoreLoop ==
    /\ pc = "app"
    /\ running
    /\ lag' = 0
    /\ pc' = "data"
    /\ UNCHANGED <<now, cur, running, heartbeat, place, seen, pings>>

(* handleNewClient, and handleHeader of "GET <url>".                       *)
HookForWebserver(p) == pc = "app" /\ NewClient(p, "get")

(* The web server forgets the socket, the copy the hook made is dropped.    *)
HookFull(p) == pc = "app" /\ NoFreeSpace(p)

HookLoop == EnterCoreLoop \/ Serve

HookNext ==
    \/ Environment \/ HookLoop \/ App
    \/ \E p \in Peers : HookForWebserver(p) \/ HookFull(p)

HookSpec == Init /\ [][HookNext]_vars
=============================================================================
