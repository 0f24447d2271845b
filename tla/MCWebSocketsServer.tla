------------------------ MODULE MCWebSocketsServer --------------------------
(* Model checking of WebSocketsServer: what the .cfg files cannot say.     *)
EXTENDS WebSocketsServer, TLC

(* The peers are told apart by nothing but the slots they are in.          *)
PeerSymmetry == Permutations(Peers)
=============================================================================
