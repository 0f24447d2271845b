SPECIFICATION IOSpec

CONSTANTS
    ClockMod = 6
    CountMod = 3
    PingInterval = 2
    PongTimeout = 1
    DisconnectTimeoutCount = 2
    ReconnectInterval = 1
    TcpTimeout = 1
    IsSocketIO = TRUE
    PinnedCert = TRUE
    HeartbeatOn = FALSE
    ServerLines = {"200", "upgrade", "websocket", "accept", "cookie", "ignored"}
    ServerFrames = {"message", "close"}
    AppCalls = {"disconnect", "send", "begin"}
    NetworkFails = TRUE
    Horizon = 6
    MaxLag = 1
    EioInterval = 1

INVARIANTS
    IOTypeOK
    IOView
    EioPingsKeepComing
    NoNullDeref

PROPERTIES
    ImplementsClient
