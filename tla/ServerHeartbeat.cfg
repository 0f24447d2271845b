SPECIFICATION FairSpec

CONSTANTS
    p1 = p1
    ClockMod = 8
    CountMod = 3
    PingInterval = 4
    PongTimeout = 1
    DisconnectTimeoutCount = 2
    MaxClients = 1
    Peers = {p1}
    NoPeer = NoPeer
    AuthRequired = FALSE
    MandatoryHeaders = {}
    HeartbeatOn = TRUE
    ClientLines = {"get", "upgrade", "websocket", "key", "version"}
    ClientFrames = {"pong", "close"}
    AppCalls = {"send", "disconnect"}
    WritesFail = FALSE
    Horizon = 8
    MaxLag = 1

INVARIANTS
    TypeOK

PROPERTIES
    DropsOnlyUnansweredPeer
    EnoughMisses
    HandshakeEnds
    SilentPeerDropped
    LostReleased
