SPECIFICATION MCFairSpec

CONSTANTS
    ClockMod = 8
    CountMod = 4
    PingInterval = 4
    PongTimeout = 1
    DisconnectTimeoutCount = 2
    ReconnectInterval = 2
    TcpTimeout = 2
    IsSocketIO = FALSE
    PinnedCert = FALSE
    HeartbeatOn = TRUE
    ServerLines = {"101", "upgrade", "websocket", "accept"}
    ServerFrames = {"pong"}
    AppCalls = {}
    NetworkFails = TRUE
    Horizon = 8
    MaxLag = 1

INVARIANTS
    TypeOK

PROPERTIES
    PacedReconnect
    FirstDropsOnlyUnansweredPeer
    FirstEnoughMisses
    SilentPeerDropped
    Retries
