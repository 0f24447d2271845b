SPECIFICATION FairSpec

CONSTANTS
    FramesSent <- MCFrames
    MaxFrames = 2
    SizeMax = 2147483647
    MaxDataSize = 70000

INVARIANTS
    TypeOK
    InStep

PROPERTIES
    ChannelSpec
    AllDelivered

CHECK_DEADLOCK FALSE
