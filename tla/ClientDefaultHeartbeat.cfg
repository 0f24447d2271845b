SPECIFICATION FairSpec

CONSTANTS
    ClockMod = 8
    CountMod = 4
    PingInterval = 3
    PongTimeout = 5
    DisconnectTimeoutCount = 2
    ReconnectInterval = 1
    TcpTimeout = 2
    IsSocketIO = FALSE
    PinnedCert = FALSE
    HeartbeatOn = TRUE
    ServerLines = {"101", "upgrade", "websocket", "accept"}
    ServerFrames = {"pong"}
    AppCalls = {}
    NetworkFails = TRUE
    Horizon = 8
    MaxLag = 1

PROPERTIES
    SilentPeerDropped
