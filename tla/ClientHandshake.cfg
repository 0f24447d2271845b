SPECIFICATION Spec

CONSTANTS
    ClockMod = 12
    CountMod = 4
    PingInterval = 4
    PongTimeout = 1
    DisconnectTimeoutCount = 2
    ReconnectInterval = 2
    TcpTimeout = 2
    IsSocketIO = TRUE
    PinnedCert = TRUE
    HeartbeatOn = FALSE
    ServerLines = {"101", "200", "other", "upgrade", "websocket", "accept", "wrong accept", "cookie"}
    ServerFrames = {"message", "close", "malformed"}
    AppCalls = {"disconnect", "send", "sendPing", "enableHeartbeat", "disableHeartbeat", "begin"}
    NetworkFails = TRUE
    Horizon = 8
    MaxLag = 1

INVARIANTS
    AppView
    EverySocketReportedOnce
    RxReady
    HandshakeComplete
    HandshakeBounded

PROPERTIES
    HeaderTimeoutSound
    ConnectionSpec
