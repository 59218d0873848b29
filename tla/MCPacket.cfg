SPECIFICATION FairSpec
CONSTANTS
    Messages <- MCMessages
    PacketSizes = {9, 10, 11}
    Headers <- MCHeaders
    MaxSent = 2
    MaxPacket = 24
    MaxMessage = 32
    MaxPackets = 3
    MaxFrames = 3
    IdModulus = 3
INVARIANTS
    WithinLimits
    DescriptorsTile
PROPERTIES
    ImplementsChannel
    MessageArrives
CHECK_DEADLOCK FALSE
