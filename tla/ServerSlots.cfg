SPECIFICATION Spec

CONSTANTS
    p1 = p1
    p2 = p2
    p3 = p3
    ClockMod = 8
    CountMod = 3
    PingInterval = 4
    PongTimeout = 1
    DisconnectTimeoutCount = 2
    MaxClients = 2
    Peers = {p1, p2, p3}
    NoPeer = NoPeer
    AuthRequired = FALSE
    MandatoryHeaders = {}
    HeartbeatOn = FALSE
    ClientLines = {"get", "upgrade", "websocket", "key", "version"}
    ClientFrames = {"message", "close"}
    AppCalls = {"disconnect", "close", "begin"}
    WritesFail = TRUE
    Horizon = 0
    MaxLag = 1

SYMMETRY PeerSymmetry

INVARIANTS
    SocketsConserved
    AppView
    ClosedHoldsNone

PROPERTIES
    ConnectionSpec
