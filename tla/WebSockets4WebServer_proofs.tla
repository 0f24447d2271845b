--------------------- MODULE WebSockets4WebServer_proofs --------------------
(***************************************************************************)
(* Proofs about WebSockets4WebServer: the invariant of the polled server    *)
(* survives a web server that puts sockets into the slots between two       *)
(* loops, with the request line already read, and with it the properties    *)
(* that do not depend on who accepts.  ClosedHoldsNone does: the hook fills  *)
(* the slots of a closed server.                                           *)
(***************************************************************************)
EXTENDS WebSockets4WebServer, WebSocketsServer_proofs

USE HeartbeatAssumption, ServerAssumption, HookAssumption

(* A step of the hooked server that is not one of Environment, Serve and    *)
(* App enters the loop, or is one of NewClient and NoFreeSpace.             *)
LEMMA HookSteps ==
    ASSUME HookNext
    PROVE  \/ Environment \/ Serve \/ App \/ EnterCoreLoop
           \/ \E p \in Peers : NewClient(p, "get") \/ NoFreeSpace(p)
  BY DEF HookNext, HookLoop, HookForWebserver, HookFull

(* Every step keeps the invariant.                                         *)
LEMMA HookInvStep ==
    ASSUME Inv, [HookNext]_vars
    PROVE  Inv'
  <1>1. "get" \in Lines \union {NoLine}
    BY DEF Lines
  <1>2. ASSUME NEW p \in Peers, NewClient(p, "get") \/ NoFreeSpace(p)
        PROVE  Inv'
    BY <1>1, <1>2, NewClientTypes, NewClientGood, NoFreeSpaceTypes, NoFreeSpaceGood DEF Inv
  <1>3. CASE EnterCoreLoop
    <2>1. 0 \in 0 .. MaxLag
      OBVIOUS
    <2>2. Types'
      BY <1>3, <2>1
      DEF EnterCoreLoop, Inv, Types, ControlTypes, PlaceTypes, HistoryTypes, place, pings
    <2> QED
      BY <1>3, <2>2, UnchangedGood DEF EnterCoreLoop, Inv, pings
  <1>4. CASE UNCHANGED vars
    <2>1. Types'
      BY <1>4 DEF vars, Inv, Types, ControlTypes, PlaceTypes, HistoryTypes, place, pings
    <2> QED
      BY <1>4, <2>1, UnchangedGood DEF vars, Inv, pings
  <1>5. CASE Environment \/ Serve \/ App
    BY <1>5, EnvironmentTypes, EnvironmentGood, ServeTypes, ServeGood, AppTypes, AppGood DEF Inv
  <1> QED
    BY <1>2, <1>3, <1>4, <1>5, HookSteps

(* The invariant holds.                                                    *)
THEOREM HookInvariance == HookSpec => []Inv
  <1>1. Init => Inv
    BY InitInv
  <1>2. Inv /\ [HookNext]_vars => Inv'
    BY HookInvStep
  <1> QED
    BY <1>1, <1>2, PTL DEF HookSpec

(* Every variable of the hooked server keeps its type.                     *)
THEOREM HookTypeCorrect == HookSpec => []TypeOK
  BY HookInvariance, InvTypes, PTL

(* The hook neither leaks a socket nor puts one into two slots.            *)
THEOREM HookSocketsAreConserved == HookSpec => []SocketsConserved
  BY HookInvariance, InvConserves, PTL

(* The sketch thinks a slot connected exactly when it is WSC_CONNECTED.     *)
THEOREM HookAppViewHolds == HookSpec => []AppView
  <1>1. Inv => AppView
    BY InvViews
  <1> QED
    BY <1>1, HookInvariance, PTL

(* The handshake of a slot behind the hook: the upgrade headers, a key,      *)
(* version 13 last, the number of mandatory-header lines and no rejected one *)
(* are its present peer's, where the request line the web server has read    *)
(* counts as its GET.  Of the authorization only that the last one this peer *)
(* sent, if any, was right.                                                *)
THEOREM HookHandshakeCompleteHolds == HookSpec => []HandshakeComplete
  <1>1. Inv => HandshakeComplete
    BY InvViews
  <1> QED
    BY <1>1, HookInvariance, PTL

(* A step of the hooked server is a step of its connections.               *)
LEMMA HookConnectionStep ==
    ASSUME Inv, ~LateGiveUp, [HookNext]_vars
    PROVE  [Connection!Next]_<<[i \in Slots |-> Stage(i)], told, owed>>
  <1>1. CASE Environment \/ UNCHANGED vars \/ EnterCoreLoop
    <2>1. UNCHANGED <<slot, told, owed>>
      BY <1>1, EnvironmentKeepsSlots DEF vars, place, EnterCoreLoop
    <2> QED
      BY <2>1, UnchangedConnects
  <1>2. ASSUME NEW p \in Peers, NewClient(p, "get") \/ NoFreeSpace(p)
        PROVE  Connection!Next
    <2>1. "get" \in Lines \union {NoLine}
      BY DEF Lines
    <2> QED
      BY <1>2, <2>1, NewClientConnects, UnchangedConnects DEF NoFreeSpace
  <1> QED
    BY <1>1, <1>2, ServeConnects, AppConnects, HookSteps

(* The hooked server implements Connections, under the same condition as    *)
(* the polled one.                                                         *)
THEOREM HookConnectionsImplemented == HookSpec /\ []~LateGiveUp => ConnectionSpec
  <1>1. Init => Connection!Init
    BY ConnectionInit
  <1>2. Inv /\ ~LateGiveUp /\ [HookNext]_vars =>
            [Connection!Next]_<<[i \in Slots |-> Stage(i)], told, owed>>
    BY HookConnectionStep
  <1> QED
    BY <1>1, <1>2, HookInvariance, PTL DEF HookSpec, ConnectionSpec, Connection!Spec

(* The hook switches no heartbeat on, either.                              *)
LEMMA HookStaysOffStep ==
    ASSUME Types, NoHeartbeats, "enableHeartbeat" \notin AppCalls, [HookNext]_vars
    PROVE  NoHeartbeats'
  <1>1. CASE Environment \/ EnterCoreLoop \/ UNCHANGED vars
    BY <1>1, EnvironmentKeepsSlots
    DEF NoHeartbeats, Environment, Tick, PeerConnects, PeerGivesUp, PeerDrops, PeerMoves,
        EnterCoreLoop, vars, place
  <1>2. ASSUME NEW p \in Peers, NewClient(p, "get") \/ NoFreeSpace(p)
        PROVE  NoHeartbeats'
    BY <1>2, NewClientStaysOff DEF NoFreeSpace, NoHeartbeats
  <1> QED
    BY <1>1, <1>2, ServeStaysOff, AppStaysOff, HookSteps

(* A hooked server whose heartbeat never gives up implements Connections.    *)
THEOREM HookConnectionsWithoutHeartbeat ==
    ASSUME NeverGivesUp
    PROVE  HookSpec => ConnectionSpec
  <1>1. CASE DisconnectTimeoutCount = 0
    <2>1. Inv => ~LateGiveUp
      BY <1>1 DEF LateGiveUp, GivesUp
    <2> QED
      BY <2>1, HookInvariance, HookConnectionsImplemented, PTL
  <1>2. CASE ~HeartbeatOn /\ "enableHeartbeat" \notin AppCalls
    <2>1. Init => NoHeartbeats
      BY <1>2, InitOff
    <2>2. Inv /\ NoHeartbeats /\ [HookNext]_vars => NoHeartbeats'
      BY <1>2, HookStaysOffStep DEF Inv
    <2>3. Inv /\ NoHeartbeats => ~LateGiveUp
      BY OffNeverLate DEF Inv
    <2> QED
      BY <2>1, <2>2, <2>3, HookInvariance, HookConnectionsImplemented, PTL DEF HookSpec
  <1> QED
    BY <1>1, <1>2 DEF NeverGivesUp
=============================================================================
