SPECIFICATION Spec

CONSTANTS
    ClockMod = 12
    CountMod = 4
    PingInterval = 4
    PongTimeout = 1
    DisconnectTimeoutCount = 2
    ReconnectInterval = 2
    TcpTimeout = 3
    IsSocketIO = FALSE
    PinnedCert = FALSE
    HeartbeatOn = FALSE
    ServerLines = {"101", "other", "upgrade", "websocket", "accept", "wrong accept"}
    ServerFrames = {"message", "close", "malformed"}
    AppCalls = {"disconnect", "send", "begin"}
    NetworkFails = TRUE
    Horizon = 12
    MaxLag = 1

PROPERTIES
    HeaderTimeoutSound
