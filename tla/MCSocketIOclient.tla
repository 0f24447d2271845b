-------------------------- MODULE MCSocketIOclient --------------------------
(* Model checking of SocketIOclient.                                       *)
EXTENDS SocketIOclient
=============================================================================
