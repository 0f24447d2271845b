SPECIFICATION HookSpec

CONSTANTS
    p1 = p1
    p2 = p2
    ClockMod = 8
    CountMod = 3
    PingInterval = 4
    PongTimeout = 1
    DisconnectTimeoutCount = 2
    MaxClients = 1
    Peers = {p1, p2}
    NoPeer = NoPeer
    AuthRequired = TRUE
    MandatoryHeaders = {"m1", "m2"}
    HeartbeatOn = FALSE
    ClientLines = {"get", "upgrade", "websocket", "key", "version", "other version", "auth", "other auth", "rejected", "m1", "m2"}
    ClientFrames = {"close"}
    AppCalls = {"enableHeartbeat", "disableHeartbeat", "close", "begin", "send"}
    WritesFail = TRUE
    Horizon = 0
    MaxLag = 1

INVARIANTS
    SocketsConserved
    HandshakeComplete

PROPERTIES
    ConnectionSpec
