# Verification of arduinoWebSockets

TLA+ specifications of the WebSocket client and server library in `src/src`,
checked with TLC and, but for liveness and the concrete digests of SHA-1,
proved with TLAPS.

## 1. The system

The library runs inside an Arduino sketch. There are no threads: the sketch
calls `loop()` of a client or a server over and over, and everything happens
inside that call, including the event callbacks into the sketch. What makes it
hard is that every step can find the network changed since the step before,
that callbacks may call back into the object that is working, that one record
(`WSclient_t`) is used for one connection after another, and that all timing is
done with `millis()`, a 32-bit counter that wraps every 49 days.

| Component | State it keeps | Operations | Interacts with |
|---|---|---|---|
| `WebSockets` (base class) | per connection: `status`, the network object `tcp`, the handshake fields, the half-read frame header `cWsRXsize`, the heartbeat fields | `createHeader`, `sendFrame`, `handleWebsocket` and its continuations, `headerDone`, `readCb`, `write`, `enableHeartbeat`, `handleHBTimeout` | calls `clientDisconnect` and `messageReceived` of the subclass |
| `WebSocketsClient` | one `WSclient_t`, `_lastConnectionFail`, `_lastHeaderSent` | `begin`, `loop`, `disconnect`, `sendTXT`/`sendBIN`/`sendPing`, `enableHeartbeat`; inside `loop`: connect, `handleHeader`, `handleClientData`, `handleHBPing` | the network object, the sketch's `onEvent` callback |
| `WebSocketsServer(Core)` | the array `_clients`, `_runnning`, the heartbeat defaults, the required authorization and headers | `begin`, `close`, `loop`, `disconnect`, broadcasts and pings; inside `loop`: `handleNewClients`, `newClient`, `handleClientData` | the listening socket, one network object per slot, the callback and the header validator |
| `SocketIOclient` | `_lastHeartbeat`, `_disableHeartbeat` | `loop`, `send`, `handleCbEvent` | derives from the client, sends from inside its callback |
| `WebSockets4WebServer` | none | hands a connection of an HTTP server to `WebSocketsServerCore` | the server's `handleNewClient` |
| accept key, base64, SHA-1 | the contexts of `libsha1` and `libb64` while they work | `acceptKey`, `base64_encode`, `SHA1Update`, the coders | used by both handshakes |
| network wrappers, version, examples, CI | none | forwarding, constants | |

What makes each one correct:

* client: the sketch is told the truth about the connection, once per socket;
  a connection counts as up only after a complete handshake on *this* socket;
  nothing of an earlier connection reaches a later one; no missing socket is
  used; failed connections are retried, but paced; handshakes time out, not
  early and not never; the heartbeat drops silent peers and only those.
* server: the same per slot, and sockets are conserved: each is in exactly one
  slot, none is leaked, shared or used after it was deleted, also when
  callbacks disconnect other slots and when the server is closed.
* Socket.IO client: a WebSocket client still, whatever it sends from inside its
  callback and behind the loop; the sketch knows whether it is connected; an
  EIO=3 server is pinged in time.
* accept key: the digest is SHA-1's and the code base64's, in the memory that was
  allocated for it.
* frames: what is decoded is what was encoded, and a frame cut short is not
  taken for another.

The hazards that follow from this are listed, each with its line, in
`PROJECT.json`.

## 2. Plan

In the order of importance.

1. `WebSockets`: clock and heartbeat, as operators (no variables), shared by
   both ends. *Done.*
2. `WebSocketsClient`, `MCWebSocketsClient`, `WebSocketsClient_proofs`,
   `MCWebSocketsClient_proofs`. *Done: model, runs, and proofs of every safety
   property, with the bounds on a handshake and the heartbeat of the first
   connection.*
3. `WebSocketsServer`, `MCWebSocketsServer`, `WebSocketsServer_proofs`. *Done:
   model, runs, and proofs of every safety property, the heartbeat's included.*
4. `Frame`, `FrameStream` refining `MessageChannel`, `MCFrameStream`,
   `Frame_proofs`, `FrameStream_proofs`. *Done, with the proofs of the round trip,
   of `InStep` and of the refinement.*
5. `Connections`, the abstract life of connections, implemented by the client and
   by every slot of the server. *Done, proved for the client without a condition
   and for the server but for one step it names (`LateGiveUp`).*
6. `SocketIOclient`, `SocketIOclient_proofs`. *Done, with the proof that it
   implements `WebSocketsClient`.*
7. `WebSockets4WebServer`, `WebSockets4WebServer_proofs`, the second entrance to
   the slots. *Done: the server's theorems hold with it, but for the one it breaks.*
8. `Sha1`, `Base64`, `AcceptKey`, `AcceptKey_proofs`. *Done, with the proofs of the
   padding, the code, its buffer and the way back.*
9. `Session`: client and server composed over a network that delays and cuts,
   for the heartbeat of both ends at once. *To do.*
10. `close()` and `begin()` from callbacks; the asynchronous ESP8266 build. *To
    do.*
11. A proof still worth having: the heartbeat of a client's later connections,
    once stated with what `pongTimeoutCount` carries over. *To do.*

## 3. The modules and the code

### WebSockets

Operators on heartbeat records and clock readings. `Elapsed` is the unsigned
difference of two `millis()` readings, modulo `ClockMod` (2^32 in the code).
`pongTimeoutCount` counts modulo `CountMod` (256). `enabled` stands for
`pingInterval # 0`. The 500 ms by which `handleHBTimeout` backdates `lastPing`
are one tick. `PingDue`, `PongOverdue`, `PingSent`, `PongNoted`, `CheckPong`
and `GivesUp` are the tests and assignments of `handleHBPing`,
`handleHBTimeout` and the pong case of `handleWebsocketPayloadCb`.

### WebSocketsClient

`pc` is the place inside `loop()`: `app` (the sketch runs, `loop()` is about to
be entered), `data` (`handleClientData`), `ping` (`handleHBPing`), `timeout`
(`handleHBTimeout`). Between any two steps the clock may tick and the peer may
vanish, which is all that the blocking reads and writes of the code let happen.

| Variable | Code |
|---|---|
| `tcp` | `_client.tcp`: `null`, or whether `connected()` answers yes (`open`, `lost`) |
| `status`, `rx`, `hb` | `status`, `cWsRXsize # 0`, the heartbeat fields |
| `resp` | `cCode`, `cIsUpgrade`, `cIsWebsocket`, `cAccept` (none, matching, not matching), `cSessionId # ""` |
| `lastConnectionFail`, `lastHeaderSent` | `_lastConnectionFail`, `_lastHeaderSent` |
| `now`, `lag` | `millis()`; ticks since `loop()` was entered |
| `told`, `debt`, `seen`, `failAge`, `headerAge`, `pingAge`, `misses` | history: what the sketch was told, what the server said on this socket, and the true ages behind the wrapping times |

Each action is one path through the code: `LoopWaits`, `ConnectFails`,
`ConnectSucceeds`, `ConnectMismatch` and `LoopConnected` are the branches of
`loop()`; `HeaderTimeout`, `NoData`, `ReadLine`, `ReadBlank`, `ReadSessionId`
those of `handleClientData` and `handleHeader` (with `AwaitBody`,
`LostBeforeBody`, `HandshakeFails`, `AskAgain` and `Established` for the
verdict on a response that has ended); `ReadMessage`, `ReadClose`,
`ReadMalformed` and `FrameCut` the frames; `PingNotDue`, `PingPeer`,
`PingFails` and `HBTimeout` the heartbeat; `App...` the sketch's calls.
`Disconnect` is the whole of `clientDisconnect`, with its event. A callback may
disconnect: `CallbackDisconnects`.

### WebSocketsServer

`loop()` accepts every waiting peer and then serves slot after slot (`cur`).
`net` says for every peer where its socket is: `away`, `waiting` to be
accepted, `open` or `lost` in a slot. A slot record has the peer it holds
(`tcp`), `status`, the request so far (`req`), `rx` and `hb`. `Leave(s, t, D)`
is `clientDisconnect` of all the slots in `D`, because one step of the code may
empty several: a clean-up runs the callback, and the callback may call
`disconnect()` for any slot or a send that finds another connection lost
(`CallbackDrops`). History: `told`, `owed`, `pingAge`, `misses`, and `seen`: the lines
of the socket's peer that still count (a later version or authorization
supersedes an earlier one, a GET clears what was rejected before it) and how many
mandatory-header lines it has sent since its last GET.

`cMandatoryHeadersCount` of the array's first elements is set by no
constructor, so `Init` takes every value; the GET line resets it.

A socket enters a slot in `NewClient`, whoever brings it: `Accept` for the
listening socket, with nothing of the request read yet. `NoFreeSpace` is the refusal
when every slot is taken (`AllOccupied`). The sketch's calls are one action per
kind: `AppSend` to a slot, `AppBroadcast`, `AppPingConnected`, `AppDisconnect`,
`AppDisconnectAll`, `AppClose`, `AppBegin` and the two that switch the heartbeat.

### WebSockets4WebServer

The same slots without a listening socket. `HookForWebserver(p)` is the hook: the
socket of a web server's client is handed to `NewClient` with the request line
read (`GivenLine`), between two loops. `HookFull` is the hook with every slot
taken. `EnterCoreLoop` is `WebSocketsServerCore::loop`, which accepts nothing.
The hook does not look at `_runnning`, so a closed server goes on filling slots that
nothing serves until `begin()`.

### Connections

The promise of both ends about one connection after another in each of several
places (`Places`: one in the client, the slots of the server): a socket opens,
comes up or not, and ends; the sketch is told of each that came up and of the end
of each one, once, before the next is opened in its place. `Stage` in both
modules is the mapping: no socket, a socket whose status is not CONNECTED, one
whose status is. `ConnectionSpec` is the specification under it.

### SocketIOclient

As the class extends `WebSocketsClient`, the module EXTENDS its module: every action
of the client is an action here, with what `handleCbEvent` does in its callback
conjoined. `inLoop` says that `WebSocketsClient::loop()` has been called and the
second half of `SocketIOclient::loop()`, the Engine.IO ping, is still to come:
`EioNotDue` or `EioPing`. `Greets` is the WStype_CONNECTED case, with the probe and
the upgrade packet it sends, `PacketEvents` the WStype_TEXT one, by the kind of
packet. `SketchBegin` is `disconnect()` and `begin()` with an EIO=3 or an EIO=4
URL. History: `view`, what the sketch's last sIOtype event said, and `eioAge`, how
long the server has waited for a ping, counted up to `EioAgeCap`.

`ImplementsClient` is `Spec` of the client: the Socket.IO client's steps are steps
of the client or change nothing of it.

### Sha1, Base64, AcceptKey

`Sha1` is `libsha1`: `SHA1Update` fills the 64 byte buffer piece by piece and
notes the blocks it transforms, `SHA1Final` pads byte by byte as the code does,
`SHA1Transform` is the 80 rounds, with a word as its two halves of 16 bits, which
keeps TLC's integers in range; `and`, `xor` and `or` of two halves are computed from
the bits they have in common (`Common`). The blocks are transformed after `SHA1Final` instead
of as they fill, which changes no result: a transformation reads the state and its
block only. The bit counters are scaled (`WordMod`) so that the carry between them
is met by messages of a few blocks.

`Base64` is both coders of `libb64`, a state per direction that says where in a group
of three bytes, or of four characters, the next one falls, and the buffer of
`base64_encode`. `char` is taken to be signed, as the decoder's test of its
fragment needs. `AcceptKey` composes them as `acceptKey` and `base64_encode` do,
and cuts every input into pieces of any size. `InputAssumption` says what `size_t`
and `uint8_t` say in C: inputs are bytes, and a message has fewer bits than the two
counters can count, which a 32-bit length cannot exceed.

### Frame, FrameStream, MessageChannel

`Frame` has no state: `CreateHeader` is `createHeader`, `HeaderSize` the size
`sendFrame` computes a second time to place the header before the payload, and
`Masked`, `LengthEnd`, `PayloadLen`, `MaskKey` and `Decoded` are the reads of
`handleWebsocketCb`. `SizeMax` is the largest `size_t` (2^32 - 1; 2^31 - 1 in
the run, TLC's largest integer).

`FrameStream` is one direction of an open connection. The stream has no frame
boundaries for the reader: `wire` holds for each write what is left of it, header
bytes one for one, a payload as its length and key. `buffer` and `size` are
`cWsHeader`, `cWsRXsize` and the number of bytes `handleWebsocketWaitFor` asks
`readCb` for. `ReadHeader` completes one part and goes through
`handleWebsocketCb` from the top (`NextPart`); `ReadPayload` ends in
`handleWebsocketPayloadCb` (`FrameRead`). `WriteGivesUp` is `write` after its
timeout, with any part of header and payload written and the connection still
up. `OutOfStep` notes that a read does not end where the writer's part ends;
what the reader makes of the bytes after that is not modelled. The other end,
the pong that answers a ping, is a stream of its own.

`MessageChannel` is the promise: messages arrive whole, once and in order until
the channel ends. `FrameStream` implements it with `sent` and `delivered` as
they are and `open` as "up and in step".

## 4. The runs

| Run | Question | Bounds |
|---|---|---|
| `ClientHandshake` | the sketch's view, one report per socket, the handshake's verdict and its timeout, neither early nor much too late; the client implements `Connections` | a client that also takes what Socket.IO allows (code 200, a session id in a cookie or in the body, a second request) and pins a certificate; 8 kinds of header lines in every order, failed connects, cut connections, callbacks that disconnect; 8 ticks of a clock modulo 12, a timeout of 2: several reconnects, no wrap |
| `SocketIO` | the Socket.IO client: its sketch's view, its pings, no missing socket, and that it implements the client | every starting value of a clock modulo 6, wrapping for ever; the session id in a cookie or in the body, a second request, a pinned certificate, EIO=3 and EIO=4, `configureEIOping` at any time; no heartbeat of the client's own, whose runs are the next ones |
| `ClientHeartbeat` | the heartbeat is right about the first connection; the reconnect pause is kept; silent peers are dropped, lost connections retried | a plain client; every starting value of a clock modulo 8, wrapping for ever; two timeouts to give up, a pause of two ticks; fairness below |
| `ServerSlots` | sockets and slots; each slot implements `Connections` | 2 slots, 3 interchangeable peers (symmetry), callbacks that drop any slots, close and begin |
| `HookedServer` | the same slots behind a web server's hook, and the verdict on every request | 1 slot, 2 peers that follow each other in it, 11 kinds of header lines, 2 mandatory headers, an authorization, close and begin, the heartbeat switched on and off; no time passes |
| `ServerHeartbeat` | the server's heartbeat, and that it frees what must be freed | every starting value of a clock modulo 8, wrapping; 1 slot, successive peers; fairness below |
| `AcceptKey` | SHA-1's padding and digests, the base64 code, its buffer, and the way back | messages of 0 to 130 bytes around the ends of blocks, the vectors of `libsha1.c` and RFC 6455's key; texts of 0 to 10, 16 and 53 to 55 bytes (a line is 54) and 49 groups of extreme bytes; every cut into pieces |
| `Frames` | reader and writer stay in step; the stream is a message channel that delivers everything | two frames of 23 kinds, with the lengths 0, 125, 126, 300, 65534, 65535, 70000 and one above `MaxDataSize`, masked and not, one close, one unknown opcode; at most one write that gives up, at every byte of the header; fairness below |

The bounds are the smallest at which the interesting case exists: a slot that
is free while another is not and a peer that waits for one (2 slots, 3 peers);
two timeouts, so that one of them can be stale; a clock long enough to hold
ping interval, pong timeout and lag apart (`PongTimeout` 1 < `PingInterval`
4 < `ClockMod` / 2), and started everywhere when it may wrap. The counter
`pongTimeoutCount` has no room above `DisconnectTimeoutCount` in the server's
run, so that its own wrap is met.

`HandshakeBounded` and `HeaderTimeoutSound` are checked on a
clock that does not wrap (`Horizon`), `EnoughMisses` and `DropsOnlyUnansweredPeer` of the client on
the first connection (`FirstEnoughMisses`, `FirstDropsOnlyUnansweredPeer`) and `PacedReconnect` without a pinned certificate: outside
these the code does not keep them, which is what the next runs show. The
server's heartbeat is checked without failing writes (`WritesFail = FALSE`): a
ping that could not be written counts as an unanswered one in the code.

Runs that end in a violation, each a disagreement of the code with its own
comments:

| Run | What it shows |
|---|---|
| `ClientStaleCount` | `pongTimeoutCount` is reset by `begin()` and by a pong only: a connection made after a heartbeat disconnect is dropped at its first timeout |
| `ClientPinnedCert` | after a certificate mismatch `loop()` clears the time of the failure that `clientDisconnect` has just set: no pause |
| `ClientClockWrap` | `_lastHeaderSent + WEBSOCKETS_TCP_TIMEOUT` wraps before the clock does: a handshake of the last five seconds of the clock is given up at once |
| `ClientDefaultHeartbeat` | with `pongTimeout` above `pingInterval`, as in the defaults of `SocketIOclient::begin`, each ping restarts the wait and a silent peer is kept for ever |

Smaller ones met on the way and not given a run: the buffer of `base64_encode`
has room for the code of every length but 4, which needs two bytes more, and 7,
which needs one more; `handleCbEvent`
reports `sIOtype_CONNECT` for a connection that its own send has just found lost
and reported as disconnected; an EIO=3 URL does not turn the Engine.IO ping on again
after an EIO=4 one; the first handshake after
`begin()` needs no `Upgrade` header (`cIsWebsocket` is preset); the heartbeat
counts timeouts before the first ping (client) and during the handshake
(server), where no ping can be sent; a pong that arrives in the loop after such
a timeout is forgotten, because the forced ping clears `pongReceived` before the
count is cleared; mandatory headers are counted rather than told apart; the
authorization value of a slot is not reset with the rest of the request, and
stands in for the one a next peer does not send. The
properties are stated so that they do not promise what these take away, and the
hazards list says so.

## 5. Fairness

`FairSpec` adds weak fairness of `Loop` and of `Tick`: the Arduino core calls
the sketch's `loop()` for ever and a sketch calls the library's `loop()` from
it, and the clock does not stop. Nothing is assumed of the peers, of the
network or of the sketch's calls. `MaxLag` bounds the ticks between two calls
of `loop()`; `Tick` waits for `Loop` then, which is how a sketch that does not
block is described.

`FrameStream` assumes weak fairness of `Read`: the loop that polls
`available()` reads what has come. Nothing makes the writer send.

## 6. The proofs

`WebSocketsClient_proofs` proves, for every width of the clock and of the
counter, every interval and timeout, every set of lines, frames and calls the
assumptions `HeartbeatAssumption` and `ClientAssumption` allow:

* `TypeCorrect`: `Spec => []TypeOK`. The delicate part is arithmetic: a
  backdated `lastPing` and a wrapped counter stay in range (`ElapsedType`,
  `RemainderInRange`).
* `Invariance`: `Spec => []Inv`, where `Inv` adds to `TypeOK` what each step of
  `loop()` may rely on. `AppView`, `EverySocketReportedOnce`, `RxReady`,
  `NoNullDeref` and `HandshakeComplete` follow from it. None of them is
  inductive alone: that the sketch's view agrees with the status needs that a
  status other than NOT_CONNECTED comes with a socket, except for the HEADER
  that `LostBeforeBody` leaves behind; that a handshake is complete needs that
  the recorded response says no more than the server said on this socket.
* `PacedReconnectHolds`: without a pinned certificate, the pause is kept. Its
  invariant ties the true age of the last failure to the wrapping
  `_lastConnectionFail`: as long as the age is below the interval, it is the
  difference of the two readings; `ElapsedTick` carries that over the wrap.
* `ConnectionsImplemented`: `Spec => ConnectionSpec`. Of each step it is shown
  which of a socket's stages it moves (`StagesInOrder`); the invariant tells a
  step that disconnects a socket from one that is called without any.
* `HandshakeBoundedHolds` and `HeaderTimeoutSoundHolds`, from `RequestInvariance`:
  as long as the clock has not wrapped, the true age of a request is the
  difference of `now` and `_lastHeaderSent`, capped, and at most the timeout and
  two loops. The first needs `Horizon < ClockMod`; the second needs the clock to
  stay `TcpTimeout` away from its wrap, because the code adds before it compares.
  `ClientClockWrap` is the counterexample without that.

`MCWebSocketsClient_proofs` is about the heartbeat of the first connection, for
every interval and timeout and on a clock that wraps for ever. The three parts of
the invariant are: the count of timeouts is zero while no connection is up and
below the limit while one is (`CountOpen`); as long as a pong may be in time, the
code's clock difference is the true age of the ping (`PingTimed`); when timeouts
are counted and no ping is out, the next `handleHBPing` is going to ping
(`ForcedPing`), or a pong has been read that `handleHBTimeout` has not seen yet.

* `FirstDropsOnlyUnansweredPeerHolds`, if the heartbeat is switched on before
  `begin()` and never again, more than one timeout is allowed, and the clock
  cannot go round between two loops. With one timeout allowed it is false:
  `handleHBTimeout` runs before the first ping as well.
* `FirstEnoughMissesHolds`, if `PongTimeout + MaxLag <= PingInterval`. With less
  between them a ping can be sent between a pong and the `handleHBTimeout` that
  should have seen it, and the pong is forgotten.

`SocketIOclient_proofs`, from the same assumptions and `SocketIOAssumption`:

* `ClientImplemented`: `IOSpec => ImplementsClient`. Every step of `loop()` and of
  the sketch is the client's step with conjuncts of its own; the Engine.IO ping is
  the client's `AppSend` when the connection turns out to be lost and leaves the
  client alone when it does not. So every theorem above holds of a Socket.IO client
  (`IOInvariance`).
* `IOViewHolds`: the sketch's view. It is inductive together with the client's
  invariant, which says in which steps a disconnect was reported.
* `IOTypeCorrect` and `IOHandshakeBoundedHolds`: the types of what the class adds,
  and the client's bound on a handshake, carried over by the refinement.
* `EioPingsKeepComingHolds`, on a clock that wraps, if the interval and two loops
  (`EioInterval + 2 * MaxLag`) are shorter than a turn of it. As long as the clock is
  at or past `_lastHeartbeat`, the time the server has waited is at most what the code
  computes. An old `_lastHeartbeat` can lie ahead of the wrapped clock when the ping
  is switched on again; the difference is then huge in 64 bits and the ping due at
  once, which costs at most two loops more. Hence the bound of interval and four
  loops; TLC reaches it.

`WebSocketsServer_proofs`, from `HeartbeatAssumption` and `ServerAssumption`, for
any number of slots, peers and mandatory headers:

* `Invariance`: `Spec => []Inv`. `Inv` is `Types`, `SlotInv` (each slot is `Good`:
  a slot without a socket is `Vacant`, with none of the last request's upgrade
  fields left; what the sketch was told agrees with the status; at most one event is
  owed; every field of the request but the authorization comes from a line of this socket,
  and the count of mandatory headers is that of its lines) and `PlaceInv`
  (`Matched`: live sockets and occupied slots are in one-to-one correspondence).
  The three need each other: that a clean-up empties one slot and not two needs
  the correspondence, and that a new socket starts with nothing needs `Vacant`.
  `LeaveGood` and `LeavePlace` do the work for every step that disconnects, whatever
  set of slots its callbacks empty.
* `TypeCorrect`, `SocketsAreConserved`, `AppViewHolds` and `HandshakeCompleteHolds`
  follow from it. `HandshakeComplete` claims what the code gives: of the present
  peer a GET, both upgrade headers, a key, version 13 last, and since the GET as many
  mandatory-header lines as there are such headers and none rejected. It does not
  claim that those lines name different headers, nor, where an authorization is
  required, that this peer sent one: only that the last one it sent, if any, was
  right. `ClosedHoldsNoneHolds` adds that a closed server is between two
  loops with empty slots.
* `EnoughMissesHolds`: the code's count is never above the number of timeouts of
  the connection, which survives the wrap of the counter. These are the
  timeouts of the whole connection, with or without pongs between them: that they
  come one after the other without a pong does not hold of the server (section 4).
* `DropsOnlyUnansweredPeerHolds` under `SteadyHeartbeat`: the sketch never switches
  the heartbeat on while it runs, writes do not fail, and the clock cannot go
  round within two loops; and more than one timeout is allowed. The invariant
  (`CountedRight`) says of an occupied slot that has counted timeouts that its
  ping is forced before its next `handleHBTimeout`, or that its last ping was
  answered or is timed from when it was sent. The first ping of a slot is not
  written to `lastPing`, and timeouts are counted during the handshake, so the time
  of a ping is only right once something was missed: that is why the invariant
  says nothing of a count of zero. TLC finds the counterexample when one of
  the three hypotheses on writes, count and clock is dropped.
* `ConnectionsImplemented`: `Spec /\ []~LateGiveUp => ConnectionSpec`. `LateGiveUp`
  is the one step that leaves `Connections`: `handleHBTimeout` gives up on a slot
  that `handleClientData` or a failed ping has emptied in the same pass, and the
  end of its socket is told a second time. Nothing in the code prevents it, so the
  condition cannot be proved away. `ConnectionsWithoutHeartbeat` removes it for a
  server that allows any number of timeouts, or whose heartbeat is never on.

`WebSockets4WebServer_proofs` proves the same invariant and theorems for `HookSpec`:
the hook's steps are a `NewClient` or a refusal outside the loop. `ClosedHoldsNone`
is not among them, because the hook does fill the slots of a closed server.

`AcceptKey_proofs`, from `WordAssumption` and `InputAssumption`, for every message, every
text, every cut of them into pieces and every width of the bit counters:

* `Invariance`: `Spec => []Inv`. Each coder is at a place in its input, `pos`, and the
  invariant says what it has made of the bytes up to there, whichever calls brought
  them. For `SHA1Update` that is `HoldsText`: the blocks and the buffer together are the
  text so far, and the two counters its length in bits, the carry included
  (`HeldNext`, `CountedBits`). For the encoder it is `EncodedAs`: the characters written
  so far are those of the code up to the place of the next byte, and `result` is
  what the last byte left over. For the decoder it is `DecodedAs`: the bytes of the
  letters read so far, with the fragment of the one half done.
* `MessagePaddedHolds`: `SHA1Final` appends one byte at a time and tests the counter
  after each. `PaddingHolds` and `PaddedEnough` say that this test is met after as many
  zeros as FIPS 180 asks for (`Zeros`) and not before, `FinalBlocks` that the last call
  completes a block.
* `CodeSpellsHolds`: one character after the other is that of base64's definition, with
  a line feed behind each 72 that another follows.
* `BufferFitsHolds`: with the length of the code and `CodeFits`: it fits its buffer for
  every length but 4 and 7, by arithmetic above 30 bytes, case by case below; 4 bytes
  write two past its end and 7 bytes one.
* `DecodesBackHolds`: the decoder skips padding and line feeds (`NotRead`) and makes of
  the letters the text again.
* `GroupWritten` and `GroupReadBack` state what both coders do with three bytes, without
  the text around them: the bits are cut (`Cut`) and joined (`Joined`), the alphabet
  inverted (`AlphabetRead`).

These are inductions over the bytes of a text. `SetInduction` is induction over the
naturals with a set in the place of the property, from the library's theorem that a
well-founded relation has minimal elements. `RunExists` and `FoldRuns` say, by it, that
a recursive function and a fold do what their step does, one element after the other;
the coders' loops (`EncodeBlockRuns`, `DecodeBlockRuns`, `PaddingRuns`) are instances.

`Frame_proofs` proves for every frame, that is for every length up to the largest
`size_t`, every opcode, and every key (assumption `SizeAssumption`):

* `HeaderFits`: `createHeader` writes exactly as many bytes as `sendFrame`
  reserved, and at most the 14 of the buffers.
* `RoundTrip`: `handleWebsocketCb` reads from a header what was put into it and
  waits for exactly its bytes. The header is cut into its three parts
  (`HeaderParts`), and each of the three forms of the length is put together again
  from its bytes (`TwoBytes`, `FourBytes`).

`FrameStream_proofs` builds on these, for every set of frames and any number of
them. The invariant: while the connection is up and in step, the wire is `Aligned`,
that is it holds, in order, the frames sent and not delivered, then at most one
that was cut; the first of them lacks what is already in the buffer; and `Reading`,
buffer and awaited size are those of a reader of that frame.

* `TypeCorrect`, and `InStepHolds`: every read ends where the writer's part ends,
  unless a write gave up half way.
* `MessageChannelImplemented`: `Spec => ChannelSpec`. A delivery is the first frame
  not delivered yet, which is what `Aligned` says; all other steps are sends, the
  end of the channel, or stutters.

The proof of every invariant has a lemma per group of actions, and a final step
that combines them.

Only model-checked:

* liveness and everything that needs ENABLED: `SilentPeerDropped`, `Retries`,
  `HandshakeEnds`, `LostReleased`, `AllDelivered`;
* `KnownDigests`, the test vectors of `libsha1.c` and RFC 6455's key: about 80 rounds of
  SHA-1 on concrete words there is nothing to prove but the computation. That every
  word stays a word is proved (`TransformType`);
* the findings, which are counterexamples.

## 7. Not modelled

* The bytes of a frame in the client and the server: there a frame is read in
  one step (`readCb` blocks until it is there), cut off in its header
  (`FrameCut`) or refused (`ReadMalformed`). `FrameStream` has the bytes, and
  neither handshake nor heartbeat. In it a payload is its length and its key.
* What a reader out of step makes of the bytes it reads.
* Text: header lines are kinds of lines. A line the client does not know is
  `ignored`; half a line that `readStringUntil` returns on its timeout is one.
* The failure of `new`. That of `malloc` is a refused frame.
* Calls made by the sketch inside its WStype_DISCONNECTED callback of the
  client, and `close()` or `begin()` inside a callback of the server.
* `begin()` on a connected client, which leaks the socket: `AppRestart` is
  `disconnect()` and `begin()`.
* `ReconnectInterval` 0, and the setters (`setAuthorization`, `setExtraHeaders`,
  `onValidateHttpHeader` and the like) at run time.
* More than one slot behind the hook while the server is closed: `close()` sets the
  `num` of every slot to 0, and the events of two slots would have one name
  (`HookAssumption`).
* What is inside an Engine.IO or a Socket.IO packet, beyond its kind.
* The cores' own SHA-1, which the ESP boards use. The table edge of the decoder:
  its input is what the encoder writes.
* The asynchronous ESP8266 build, whose callbacks come from a library that is not
  in the repository.
