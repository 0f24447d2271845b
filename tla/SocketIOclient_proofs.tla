------------------------ MODULE SocketIOclient_proofs ------------------------
(***************************************************************************)
(* SocketIOclient implements WebSocketsClient, so the theorems about the   *)
(* client are theorems about the Socket.IO client, and on top of them the  *)
(* sketch's view of the connection.                                        *)
(***************************************************************************)
EXTENDS SocketIOclient, WebSocketsClient_proofs

(* The Engine.IO ping does to the client what a sendTXT of its sketch does. *)
LEMMA EioPingImplements ==
    ASSUME EioPing
    PROVE  [Next]_vars
  <1>1. CASE tcp = "lost"
    <2>1. AppSend
      BY <1>1, SocketIOAssumption DEF EioPing, InEioPart, CleanUp, AppSend, Call
    <2> QED
      BY <2>1 DEF Next, App
  <1>2. CASE tcp # "lost"
    BY <1>2 DEF EioPing, CleanUp, vars
  <1> QED
    BY <1>1, <1>2

(* Every step of the Socket.IO client is a step of the client or none.     *)
LEMMA IOStepImplements ==
    ASSUME [IONext]_ioVars
    PROVE  [Next]_vars
  <1>1. CASE Environment
    BY <1>1 DEF Environment, Next
  <1>2. CASE BaseLoop
    BY <1>2 DEF BaseLoop, Next, Loop
  <1>3. CASE EioNotDue
    BY <1>3 DEF EioNotDue
  <1>4. CASE EioPing
    BY <1>4, EioPingImplements
  <1>5. CASE SketchDisconnect \/ SketchSend
    BY <1>5 DEF SketchDisconnect, SketchSend, Next, App
  <1>6. ASSUME NEW eio4 \in BOOLEAN, SketchBegin(eio4)
        PROVE  [Next]_vars
    BY <1>6 DEF SketchBegin, Next, App
  <1>7. ASSUME NEW disable \in BOOLEAN, ConfigureEIOping(disable)
        PROVE  [Next]_vars
    BY <1>7 DEF ConfigureEIOping
  <1>8. CASE UNCHANGED ioVars
    BY <1>8 DEF ioVars
  <1> QED
    BY <1>1, <1>2, <1>3, <1>4, <1>5, <1>6, <1>7, <1>8 DEF IONext

(* ImplementsClient: the class is a WebSocketsClient with a callback of its *)
(* own, whatever handleCbEvent sends and whenever the ping is due.          *)
THEOREM ClientImplemented == IOSpec => ImplementsClient
  <1>1. IOInit => Init
    BY DEF IOInit
  <1>2. [IONext]_ioVars => [Next]_vars
    BY IOStepImplements
  <1> QED
    BY <1>1, <1>2, PTL DEF IOSpec, ImplementsClient, Spec

(* ... and has its inductive invariant.                                    *)
THEOREM IOInvariance == IOSpec => []Inv
  BY ClientImplemented, Invariance, PTL DEF ImplementsClient

-----------------------------------------------------------------------------
(***************************************************************************)
(* IOView.  It is inductive beside the client's invariant: debt counts the *)
(* objects that are not reported yet, so a step that leaves the state      *)
(* WSC_CONNECTED has reported one.                                         *)
(***************************************************************************)

(* A disconnect, of whatever way, that finds an object and reports it.     *)
LEMMA ReportedView ==
    ASSUME Inv, NoNewView, status' # "CONNECTED", debt' = debt - 1
    PROVE  IOView'
  <1>1. debt' < debt
    BY DEF Inv, TypeOK
  <1> QED
    BY <1>1 DEF NoNewView, PassedOn, Reported, IOView

(* A step that reports nothing and does not change who is connected.       *)
LEMMA QuietView ==
    ASSUME Inv, IOView, NoNewView, status' = "CONNECTED" <=> status = "CONNECTED",
           debt' \in {debt, debt + 1}
    PROVE  IOView'
  <1>1. CASE ConnectMismatch
    BY <1>1 DEF ConnectMismatch, NoNewView, PassedOn, Reported, IOView
  <1>2. CASE ~ConnectMismatch
    <2>1. ~(debt' < debt)
      BY DEF Inv, TypeOK
    <2> QED
      BY <1>2, <2>1 DEF NoNewView, PassedOn, Reported, IOView
  <1> QED
    BY <1>1, <1>2

(* clientDisconnect and its event, passed on.                              *)
LEMMA DisconnectView ==
    ASSUME Inv, IOView, Disconnect, NoNewView
    PROVE  IOView'
  <1>1. status' = "NOT_CONNECTED"
    BY DEF Disconnect
  <1>2. CASE tcp = "null"
    <2>1. status # "CONNECTED" /\ debt' = debt
      BY <1>2 DEF Inv, Safe, SocketInv, Disconnect, ReportDisconnect
    <2> QED
      BY <1>1, <2>1, QuietView
  <1>3. CASE tcp # "null"
    <2>1. debt' = debt - 1
      BY <1>3 DEF Disconnect, ReportDisconnect
    <2> QED
      BY <1>1, <2>1, ReportedView
  <1> QED
    BY <1>2, <1>3

(* A step that leaves the connection alone.                                *)
LEMMA UnchangedLinkView ==
    ASSUME Inv, IOView, NoNewView, UNCHANGED link
    PROVE  IOView'
  BY QuietView DEF link

(* The verdicts on a response, with the events handleCbEvent makes of them. *)
LEMMA HeaderEndView ==
    ASSUME Inv, IOView, pc = "data", status \in {"HEADER", "BODY"},
           NEW r, HeaderEnd(r), HeaderEvents(r)
    PROVE  IOView'
  <1>1. tcp # "null"
    BY DEF Inv, Safe, SocketInv
  <1>2. CASE AwaitBody(r)
    <2>1. NoNewView
      BY <1>2 DEF AwaitBody, HeaderEvents
    <2> QED
      BY <1>2, <2>1, QuietView DEF AwaitBody
  <1>3. CASE LostBeforeBody(r)
    <2>1. NoNewView /\ debt' = debt - 1
      BY <1>1, <1>3 DEF LostBeforeBody, HeaderEvents, ReportDisconnect
    <2> QED
      BY <1>3, <2>1, ReportedView DEF LostBeforeBody
  <1>4. CASE HandshakeFails(r)
    <2>1. NoNewView
      BY <1>4 DEF HandshakeFails, HeaderEvents, Refused, Accepted
    <2> QED
      BY <1>4, <2>1, DisconnectView DEF HandshakeFails
  <1>5. CASE AskAgain(r)
    <2>1. NoNewView
      BY <1>5 DEF AskAgain, HeaderEvents
    <2> QED
      BY <1>5, <2>1, DisconnectView, QuietView DEF AskAgain
  <1>6. CASE Established(r)
    <2>1. Greets
      BY <1>6 DEF Established, HeaderEvents
    <2>2. CASE tcp = "lost"
      BY <2>1, <2>2 DEF Greets, IOView
    <2>3. CASE tcp # "lost" /\ Disconnect
      <3>1. debt' < debt /\ status' = "NOT_CONNECTED"
        BY <1>1, <2>3 DEF Disconnect, ReportDisconnect, Inv, TypeOK
      <3> QED
        BY <2>1, <2>3, <3>1 DEF Greets, PassedOn, Reported, IOView
    <2>4. CASE tcp # "lost" /\ status' = "CONNECTED" /\ debt' = debt
      <3>1. ~(debt' < debt) /\ ~ConnectMismatch
        BY <2>4 DEF Inv, TypeOK, ConnectMismatch
      <3> QED
        BY <2>1, <2>4, <3>1 DEF Greets, PassedOn, Reported, IOView
    <2> QED
      BY <1>6, <2>2, <2>3, <2>4 DEF Established
  <1> QED
    BY <1>2, <1>3, <1>4, <1>5, <1>6 DEF HeaderEnd

(* The packets of a connection that is up.                                 *)
LEMMA MessageView ==
    ASSUME Inv, IOView, NEW kind, ReadMessage(kind), PacketEvents(kind)
    PROVE  IOView'
  <1>1. status = "CONNECTED" /\ tcp # "null" /\ (Disconnect \/ UNCHANGED link)
    BY DEF ReadMessage, ReadsFrame, ReadsData, Inv, Safe, SocketInv
  <1>2. CASE NoNewView
    BY <1>1, <1>2, DisconnectView, UnchangedLinkView
  <1>3. CASE SioDisconnect
    <2>1. CASE Disconnect
      <3>1. debt' < debt /\ status' = "NOT_CONNECTED"
        BY <1>1, <2>1 DEF Disconnect, ReportDisconnect, Inv, TypeOK
      <3> QED
        BY <1>3, <3>1 DEF SioDisconnect, PassedOn, Reported, IOView
    <2>2. CASE UNCHANGED link
      <3>1. debt' = debt /\ status' = "CONNECTED" /\ ~ConnectMismatch
        BY <1>1, <2>2 DEF link, ConnectMismatch
      <3>2. ~(debt' < debt)
        BY <3>1 DEF Inv, TypeOK
      <3> QED
        BY <1>3, <3>1, <3>2 DEF SioDisconnect, PassedOn, Reported, IOView
    <2> QED
      BY <1>1, <2>1, <2>2
  <1> QED
    BY <1>2, <1>3 DEF PacketEvents

(* The other steps of loop().                                              *)
LEMMA LoopView ==
    ASSUME Inv, IOView, NoNewView,
           \/ LoopWaits \/ ConnectFails \/ ConnectSucceeds \/ ConnectMismatch
           \/ LoopConnected \/ HeaderTimeout \/ NoData
           \/ \E line \in ServerLines : ReadLine(line)
           \/ ReadClose \/ ReadMalformed \/ FrameCut
           \/ PingNotDue \/ PingPeer \/ PingFails \/ HBTimeout
    PROVE  IOView'
  <1>1. CASE ConnectFails \/ ConnectSucceeds
    <2>1. status # "CONNECTED"
      BY <1>1 DEF ConnectFails, ConnectSucceeds, StartsConnect, Inv, Safe, SocketInv
    <2> QED
      BY <1>1, <2>1, QuietView DEF ConnectFails, ConnectSucceeds
  <1>2. CASE ConnectMismatch
    BY <1>2 DEF ConnectMismatch, NoNewView, PassedOn, Reported, IOView
  <1>3. CASE LoopWaits \/ HBTimeout
    BY <1>3, DisconnectView, UnchangedLinkView DEF LoopWaits, HBTimeout
  <1>4. CASE HeaderTimeout \/ ReadClose \/ ReadMalformed \/ PingFails
    BY <1>4, DisconnectView DEF HeaderTimeout, ReadClose, ReadMalformed, PingFails
  <1>5. CASE LoopConnected \/ NoData \/ FrameCut \/ PingNotDue \/ PingPeer
    BY <1>5, UnchangedLinkView DEF LoopConnected, NoData, FrameCut, PingNotDue, PingPeer
  <1>6. ASSUME NEW line \in ServerLines, ReadLine(line)
        PROVE  IOView'
    BY <1>6, QuietView DEF ReadLine
  <1> QED
    BY <1>1, <1>2, <1>3, <1>4, <1>5, <1>6

(* Every step keeps the view right.                                        *)
LEMMA ViewStep ==
    ASSUME Inv, IOView, [IONext]_ioVars
    PROVE  IOView'
  <1>1. CASE Environment
    BY <1>1 DEF Environment, Tick, PeerDrops, IOView
  <1>2. CASE BaseLoop
    <2>1. CASE ReadBlank /\ HeaderEvents(resp)
      BY <2>1, HeaderEndView DEF ReadBlank, ReadsData
    <2>2. CASE ReadSessionId /\ HeaderEvents([resp EXCEPT !.sid = TRUE])
      BY <2>2, HeaderEndView DEF ReadSessionId, ReadsData
    <2>3. ASSUME NEW kind \in ServerFrames, ReadMessage(kind), PacketEvents(kind)
          PROVE  IOView'
      BY <2>3, MessageView
    <2> QED
      BY <1>2, <2>1, <2>2, <2>3, LoopView DEF BaseLoop
  <1>3. CASE EioNotDue
    BY <1>3 DEF EioNotDue, vars, link, IOView
  <1>4. CASE EioPing
    BY <1>4, DisconnectView, UnchangedLinkView DEF EioPing, CleanUp
  <1>5. CASE SketchDisconnect \/ SketchSend
    BY <1>5, DisconnectView DEF SketchDisconnect, SketchSend, AppDisconnect, AppSend
  <1>6. ASSUME NEW eio4 \in BOOLEAN, SketchBegin(eio4)
        PROVE  IOView'
    <2>1. CASE tcp = "null"
      <3>1. status # "CONNECTED"
        BY <2>1 DEF Inv, Safe, SocketInv
      <3> QED
        BY <1>6, <2>1, <3>1, QuietView DEF SketchBegin, AppRestart
    <2>2. CASE tcp # "null"
      BY <1>6, <2>2, ReportedView DEF SketchBegin, AppRestart
    <2> QED
      BY <2>1, <2>2
  <1>7. ASSUME NEW disable \in BOOLEAN, ConfigureEIOping(disable)
        PROVE  IOView'
    BY <1>7 DEF ConfigureEIOping, vars, link, IOView
  <1>8. CASE UNCHANGED ioVars
    BY <1>8 DEF ioVars, vars, link, IOView
  <1> QED
    BY <1>1, <1>2, <1>3, <1>4, <1>5, <1>6, <1>7, <1>8 DEF IONext

(* IOView: but for the late CONNECT, the sketch of a Socket.IO client knows *)
(* whether it is connected.                                                 *)
THEOREM IOViewHolds == IOSpec => []IOView
  <1>1. IOInit => IOView
    BY DEF IOInit, Init, IOView
  <1>2. Inv /\ IOView /\ [IONext]_ioVars => IOView'
    BY ViewStep
  <1> QED
    BY <1>1, <1>2, IOInvariance, PTL DEF IOSpec

-----------------------------------------------------------------------------
(***************************************************************************)
(* IOTypeOK: the client's types, and those of what the class adds.         *)
(***************************************************************************)

(* The fields and the history of SocketIOclient.                           *)
EioTypes ==
    /\ inLoop \in BOOLEAN
    /\ disableHeartbeat \in BOOLEAN
    /\ lastHeartbeat \in Millis
    /\ view \in Views
    /\ eioAge \in 0 .. EioAgeCap

(* EIO_HEARTBEAT_INTERVAL and the cap of the age are numbers.              *)
LEMMA EioConstants ==
    /\ EioInterval \in Nat \ {0}
    /\ MaxLag \in Nat
    /\ EioAgeCap = EioInterval + 4 * MaxLag + 1
    /\ EioAgeCap \in Nat
    /\ 0 \in 0 .. EioAgeCap
  <1>1. EioInterval \in Nat \ {0}
    BY SocketIOAssumption, Zenon
  <1>2. MaxLag \in Nat \ {0}
    BY ClientAssumption
  <1>3. EioAgeCap = EioInterval + 4 * MaxLag + 1
    BY DEF EioAgeCap
  <1> QED
    BY <1>1, <1>2, <1>3

(* The events of a step leave a view.                                      *)
LEMMA ViewTypes ==
    ASSUME EioTypes
    PROVE  /\ NoNewView => view' \in Views
           /\ \A r : HeaderEvents(r) => view' \in Views
           /\ \A kind : PacketEvents(kind) => view' \in Views
  BY DEF EioTypes, NoNewView, HeaderEvents, Greets, PacketEvents, SioDisconnect, Views

(* The age is left alone or starts again.                                  *)
LEMMA KeptAge ==
    ASSUME EioTypes, KeepAge
    PROVE  eioAge' \in {eioAge, 0} /\ eioAge' \in 0 .. EioAgeCap
  BY EioConstants DEF EioTypes, KeepAge

(* Every step keeps the types.                                             *)
LEMMA EioTypesStep ==
    ASSUME TypeOK, EioTypes, [IONext]_ioVars
    PROVE  EioTypes'
  <1>1. CASE Environment
    <2>1. eioAge' \in 0 .. EioAgeCap
      <3>1. CASE eioAge' = Older(eioAge, EioAgeCap)
        BY <3>1, EioConstants, OlderType DEF EioTypes
      <3>2. CASE eioAge' = 0
        BY <3>2, EioConstants
      <3> QED
        BY <1>1, <3>1, <3>2, KeptAge DEF Environment
    <2> QED
      BY <1>1, <2>1 DEF Environment, EioTypes, eioVars
  <1>2. CASE BaseLoop
    BY <1>2, ViewTypes, KeptAge DEF BaseLoop, InBaseLoop, EioTypes, eioVars
  <1>3. CASE EioNotDue
    BY <1>3, KeptAge DEF EioNotDue, InEioPart, EioTypes, eioVars
  <1>4. CASE EioPing
    BY <1>4, EioConstants, ViewTypes DEF EioPing, InEioPart, EioTypes, TypeOK
  <1>5. CASE SketchDisconnect \/ SketchSend
    BY <1>5, ViewTypes, KeptAge DEF SketchDisconnect, SketchSend, SketchCall, EioTypes, eioVars
  <1>6. ASSUME NEW eio4 \in BOOLEAN, SketchBegin(eio4)
        PROVE  EioTypes'
    BY <1>6, ViewTypes, KeptAge DEF SketchBegin, SketchCall, EioTypes
  <1>7. ASSUME NEW disable \in BOOLEAN, ConfigureEIOping(disable)
        PROVE  EioTypes'
    BY <1>7, KeptAge DEF ConfigureEIOping, SketchCall, EioTypes
  <1>8. CASE UNCHANGED ioVars
    BY <1>8 DEF ioVars, eioVars, EioTypes
  <1> QED
    BY <1>1, <1>2, <1>3, <1>4, <1>5, <1>6, <1>7, <1>8 DEF IONext

(* IOTypeOK: type correctness of the Socket.IO client.                     *)
THEOREM IOTypeCorrect == IOSpec => []IOTypeOK
  <1>1. IOInit => EioTypes
    BY EioConstants, InitialValueTypes DEF IOInit, EioTypes, Views
  <1>2. TypeOK /\ EioTypes /\ [IONext]_ioVars => EioTypes'
    BY EioTypesStep
  <1>3. Inv /\ EioTypes => IOTypeOK
    BY DEF Inv, EioTypes, IOTypeOK
  <1>4. Inv => TypeOK
    BY DEF Inv
  <1> QED
    BY <1>1, <1>2, <1>3, <1>4, IOInvariance, PTL DEF IOSpec

-----------------------------------------------------------------------------
(***************************************************************************)
(* EioPingsKeepComing.  While the wait began after the second half of       *)
(* loop() was last run, it is no longer than the ticks since: lag counts    *)
(* those since the pass began, and a pass that has begun may find as many   *)
(* again.  Once that half has run it has found _lastHeartbeat young, or set *)
(* it, and the server has not waited for much longer than it is old, by a   *)
(* clock that may have wrapped in between.                                 *)
(***************************************************************************)
Late == lag + (IF inLoop THEN MaxLag ELSE 0)

HeartbeatAge ==
    IF lastHeartbeat <= now THEN now - lastHeartbeat ELSE now - lastHeartbeat + ClockMod

EioInv ==
    /\ \/ eioAge <= Late
       \/ HeartbeatAge <= EioInterval + Late /\ eioAge <= HeartbeatAge + 2 * MaxLag
    /\ pc # "app" => inLoop

(* The numbers the proofs calculate with.                                  *)
LEMMA EioNumbers ==
    ASSUME TypeOK, EioTypes
    PROVE  /\ now \in 0 .. ClockMod - 1 /\ lastHeartbeat \in 0 .. ClockMod - 1
           /\ ClockMod \in Nat \ {0}
           /\ eioAge \in Nat /\ lag \in 0 .. MaxLag /\ MaxLag \in Nat /\ EioInterval \in Nat
           /\ EioAgeCap = EioInterval + 4 * MaxLag + 1
           /\ HeartbeatAge \in Nat
           /\ Late \in Nat /\ Late <= lag + MaxLag /\ (~inLoop => Late = lag)
  <1>1. /\ now \in 0 .. ClockMod - 1 /\ lastHeartbeat \in 0 .. ClockMod - 1
        /\ ClockMod \in Nat \ {0}
    BY HeartbeatAssumption DEF TypeOK, EioTypes, Millis
  <1>2. HeartbeatAge \in Nat
    BY <1>1 DEF HeartbeatAge
  <1>3. lag \in 0 .. MaxLag /\ MaxLag \in Nat
    BY EioConstants DEF TypeOK
  <1>4. Late \in Nat /\ Late <= lag + MaxLag /\ (~inLoop => Late = lag)
    BY <1>3 DEF Late
  <1> QED
    BY <1>1, <1>2, <1>3, <1>4, EioConstants DEF EioTypes

(* A step at whose end the server's wait is no longer, in the same pass.    *)
LEMMA NoLongerWait ==
    ASSUME TypeOK, EioTypes, EioInv, UNCHANGED <<now, lastHeartbeat, lag, inLoop>>,
           eioAge' \in {eioAge, 0}, pc' = pc \/ inLoop
    PROVE  EioInv'
  <1>1. eioAge' <= eioAge /\ eioAge' \in Nat
    BY EioNumbers
  <1>2. Late' = Late /\ HeartbeatAge' = HeartbeatAge
    BY DEF Late, HeartbeatAge
  <1>3. \/ eioAge' <= Late'
        \/ HeartbeatAge' <= EioInterval + Late' /\ eioAge' <= HeartbeatAge' + 2 * MaxLag
    BY <1>1, <1>2, EioNumbers DEF EioInv
  <1> QED
    BY <1>3 DEF EioInv

(* A tick makes everything one older, also the tick that wraps the clock.   *)
LEMMA TickEio ==
    ASSUME TypeOK, EioTypes, EioInv, EioInterval + 2 * MaxLag < ClockMod,
           Tick, UNCHANGED <<inLoop, lastHeartbeat>>,
           eioAge' = Older(eioAge, EioAgeCap) \/ eioAge' = 0
    PROVE  EioInv'
  <1>1. now' = IF now = ClockMod - 1 THEN 0 ELSE now + 1
    <2>1. CASE now = ClockMod - 1
      <3>1. now + 1 = ClockMod
        BY <2>1, EioNumbers
      <3>2. ClockMod % ClockMod = 0
        BY EioNumbers
      <3> QED
        BY <2>1, <3>1, <3>2 DEF Tick
    <2>2. CASE now # ClockMod - 1
      <3>1. now + 1 \in 0 .. ClockMod - 1
        BY <2>2, EioNumbers
      <3>2. (now + 1) % ClockMod = now + 1
        BY <3>1, EioNumbers, SmallRemainders
      <3> QED
        BY <2>2, <3>2 DEF Tick
    <2> QED
      BY <2>1, <2>2
  <1>2. lag' = lag + 1 /\ lag < MaxLag /\ pc' = pc
    BY DEF Tick
  <1>3. Late' = Late + 1
    BY <1>2, EioNumbers DEF Late
  <1>4. eioAge' <= eioAge + 1 /\ eioAge' \in Nat
    <2>1. eioAge' \in {eioAge, eioAge + 1, EioAgeCap, 0}
      BY DEF Older
    <2>2. CASE eioAge' = EioAgeCap /\ ~(eioAge < EioAgeCap)
      BY <2>2, EioNumbers
    <2>3. CASE eioAge' \in {eioAge + 1, 0}
      BY <2>3, EioNumbers
    <2> QED
      BY <2>2, <2>3 DEF Older
  <1>5. CASE eioAge <= Late
    <2>1. eioAge' <= Late'
      BY <1>3, <1>4, <1>5, EioNumbers
    <2> QED
      BY <1>2, <2>1 DEF EioInv
  <1>6. CASE HeartbeatAge <= EioInterval + Late /\ eioAge <= HeartbeatAge + 2 * MaxLag
    <2>1. HeartbeatAge < ClockMod - 1
      BY <1>2, <1>6, EioNumbers
    <2>2. HeartbeatAge' = HeartbeatAge + 1
      BY <1>1, <2>1, EioNumbers DEF HeartbeatAge
    <2>3. /\ HeartbeatAge' <= EioInterval + Late'
          /\ eioAge' <= HeartbeatAge' + 2 * MaxLag
      BY <1>3, <1>4, <1>6, <2>2, EioNumbers
    <2> QED
      BY <1>2, <2>3 DEF EioInv
  <1> QED
    BY <1>5, <1>6 DEF EioInv

(* A pass begins, or goes on.                                              *)
LEMMA BaseLoopPass ==
    ASSUME BaseLoop
    PROVE  (now' = now /\ pc = "app" /\ lag' = 0) \/ (pc # "app" /\ UNCHANGED <<now, lag>>)
  BY DEF BaseLoop, LoopWaits, ConnectFails, ConnectSucceeds, ConnectMismatch, StartsConnect,
         EnterLoop, LoopConnected, HeaderTimeout, NoData, ReadLine, ReadClose, ReadMalformed,
         ReadsFrame, FrameCut, PingNotDue, PingPeer, PingFails, HBTimeout, ReadBlank,
         ReadSessionId, ReadMessage, ReadsData

(* The ticks of the pass before are those the new one may find.            *)
LEMMA BaseLoopEio ==
    ASSUME TypeOK, EioTypes, EioInv, BaseLoop
    PROVE  EioInv'
  <1>1. eioAge' \in {eioAge, 0} /\ lastHeartbeat' = lastHeartbeat /\ inLoop' = TRUE
        /\ (pc = "app" => ~inLoop)
    BY KeptAge DEF BaseLoop, InBaseLoop, eioVars
  <1>2. CASE pc # "app" /\ UNCHANGED <<now, lag>>
    <2>1. inLoop = TRUE
      BY <1>2 DEF EioInv, EioTypes
    <2> QED
      BY <1>1, <1>2, <2>1, NoLongerWait
  <1>3. CASE pc = "app" /\ lag' = 0 /\ now' = now
    <2>1. eioAge' <= eioAge /\ eioAge' \in Nat
      BY <1>1, EioNumbers
    <2>2. HeartbeatAge' = HeartbeatAge
      BY <1>1, <1>3 DEF HeartbeatAge
    <2>3. Late' = MaxLag
      BY <1>1, <1>3, EioNumbers DEF Late
    <2>4. Late <= MaxLag
      BY <1>1, <1>3, EioNumbers
    <2>5. \/ eioAge' <= Late'
          \/ HeartbeatAge' <= EioInterval + Late' /\ eioAge' <= HeartbeatAge' + 2 * MaxLag
      BY <2>1, <2>2, <2>3, <2>4, EioNumbers DEF EioInv
    <2> QED
      BY <1>1, <2>5 DEF EioInv
  <1> QED
    BY <1>2, <1>3, BaseLoopPass

(* The second half of loop() has found the last ping young enough, ...     *)
LEMMA EioNotDueEio ==
    ASSUME TypeOK, EioTypes, EioInv, EioNotDue
    PROVE  EioInv'
  <1>1. /\ UNCHANGED <<now, lag, pc, lastHeartbeat>> /\ pc = "app"
        /\ inLoop' = FALSE
        /\ status' = status /\ disableHeartbeat' = disableHeartbeat
    BY DEF EioNotDue, InEioPart, vars, link, eioVars
  <1>2. eioAge' \in {eioAge, 0}
    BY KeptAge DEF EioNotDue
  <1>3. Late' = lag
    BY <1>1, EioNumbers DEF Late
  <1>4. CASE disableHeartbeat
    <2>1. ~Waiting'
      BY <1>1, <1>4 DEF Waiting
    <2>2. eioAge' = 0
      BY <2>1 DEF EioNotDue, KeepAge
    <2>3. eioAge' <= Late'
      BY <1>3, <2>2, EioNumbers
    <2> QED
      BY <1>1, <2>3 DEF EioInv
  <1>5. CASE ~disableHeartbeat
    <2>1. lastHeartbeat <= now /\ now - lastHeartbeat <= EioInterval
      BY <1>5, EioNumbers DEF EioNotDue, EioPingDue
    <2>2. HeartbeatAge' = HeartbeatAge /\ HeartbeatAge <= EioInterval
      BY <1>1, <2>1 DEF HeartbeatAge
    <2>3. eioAge <= HeartbeatAge + 2 * MaxLag
      BY EioNumbers DEF EioInv
    <2>4. /\ HeartbeatAge' <= EioInterval + Late'
          /\ eioAge' <= HeartbeatAge' + 2 * MaxLag
      BY <1>2, <1>3, <2>2, <2>3, EioNumbers
    <2> QED
      BY <1>1, <2>4 DEF EioInv
  <1> QED
    BY <1>4, <1>5

(* ... or sends one.                                                       *)
LEMMA EioPingEio ==
    ASSUME TypeOK, EioTypes, EioInv, EioPing
    PROVE  EioInv'
  <1>1. /\ UNCHANGED <<now, lag, pc>> /\ pc = "app" /\ inLoop' = FALSE /\ eioAge' = 0
    BY DEF EioPing, InEioPart
  <1>2. eioAge' <= Late'
    BY <1>1, EioNumbers DEF Late
  <1> QED
    BY <1>1, <1>2 DEF EioInv

(* Every step keeps the bounds.                                            *)
LEMMA EioStep ==
    ASSUME TypeOK, EioTypes, EioInv, EioInterval + 2 * MaxLag < ClockMod, [IONext]_ioVars
    PROVE  EioInv'
  <1>1. CASE Environment
    <2>1. UNCHANGED <<inLoop, lastHeartbeat>>
      BY <1>1 DEF Environment, eioVars
    <2>2. CASE Tick /\ eioAge' = IF Waiting THEN Older(eioAge, EioAgeCap) ELSE 0
      BY <2>1, <2>2, TickEio
    <2>3. CASE PeerDrops /\ KeepAge
      BY <2>1, <2>3, KeptAge, NoLongerWait DEF PeerDrops
    <2> QED
      BY <1>1, <2>2, <2>3 DEF Environment
  <1>2. CASE SketchDisconnect \/ SketchSend
    BY <1>2, KeptAge, NoLongerWait
    DEF SketchDisconnect, SketchSend, SketchCall, AppDisconnect, AppSend, Call, eioVars
  <1>3. ASSUME NEW eio4 \in BOOLEAN, SketchBegin(eio4)
        PROVE  EioInv'
    BY <1>3, KeptAge, NoLongerWait DEF SketchBegin, SketchCall, AppRestart, Call
  <1>4. ASSUME NEW disable \in BOOLEAN, ConfigureEIOping(disable)
        PROVE  EioInv'
    BY <1>4, KeptAge, NoLongerWait DEF ConfigureEIOping, SketchCall, vars
  <1>5. CASE UNCHANGED ioVars
    BY <1>5, NoLongerWait DEF ioVars, vars, eioVars
  <1> QED
    BY <1>1, <1>2, <1>3, <1>4, <1>5, BaseLoopEio, EioNotDueEio, EioPingEio DEF IONext

(* EioPingsKeepComing: no server of an EIO=3 connection waits much longer   *)
(* than EIO_HEARTBEAT_INTERVAL for a ping, whenever the connection comes up, *)
(* the ping is switched on or the clock wraps.  Assumed is that the interval *)
(* and two loops are less than one round of the clock.                     *)
THEOREM EioPingsKeepComingHolds ==
    ASSUME EioInterval + 2 * MaxLag < ClockMod
    PROVE  IOSpec => []EioPingsKeepComing
  <1>1. IOInit => EioInv
    <2>1. IOInit => eioAge = 0 /\ lag = 0 /\ inLoop = FALSE /\ pc = "app"
      BY DEF IOInit, Init
    <2> QED
      BY <2>1, EioConstants DEF EioInv, Late
  <1>2. IOTypeOK /\ EioInv /\ [IONext]_ioVars => EioInv'
    BY EioStep DEF IOTypeOK, EioTypes
  <1>3. ASSUME TypeOK, EioTypes, EioInv
        PROVE  eioAge < EioAgeCap
    BY <1>3, EioNumbers DEF EioInv
  <1>4. IOTypeOK /\ EioInv => EioPingsKeepComing
    BY <1>3 DEF IOTypeOK, EioTypes, EioPingsKeepComing
  <1> QED
    BY <1>1, <1>2, <1>4, IOTypeCorrect, PTL DEF IOSpec

(* HandshakeBounded holds of the Socket.IO client, too, with its second     *)
(* request and the body it waits for.                                       *)
THEOREM IOHandshakeBoundedHolds ==
    ASSUME Horizon < ClockMod
    PROVE  IOSpec => []HandshakeBounded
  BY ClientImplemented, HandshakeBoundedHolds, PTL DEF ImplementsClient
=============================================================================
