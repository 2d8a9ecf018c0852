CONSTANTS
    Packets <- MCPackets
    Messages <- MCMessages
    LocalIp <- MCLocalIp
    MaxDown = 2
    MaxUp = 3
    MaxChunk = 12
    MaxBuffer = 31
    InitBufferSize = 13
SPECIFICATION FairSpec
INVARIANTS
    TypeOK
    ReadableIsUnread
    BuffersSuffice
PROPERTIES
    ImplementsChannel
    AllArrive
CHECK_DEADLOCK FALSE
