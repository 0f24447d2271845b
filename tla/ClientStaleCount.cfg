SPECIFICATION Spec

CONSTANTS
    ClockMod = 12
    CountMod = 4
    PingInterval = 4
    PongTimeout = 1
    DisconnectTimeoutCount = 2
    ReconnectInterval = 2
    TcpTimeout = 3
    IsSocketIO = FALSE
    PinnedCert = FALSE
    HeartbeatOn = TRUE
    ServerLines = {"101", "upgrade", "websocket", "accept"}
    ServerFrames = {"message", "ping", "pong"}
    AppCalls = {"send", "disableHeartbeat"}
    NetworkFails = FALSE
    Horizon = 12
    MaxLag = 1

PROPERTIES
    EnoughMisses
