CONSTANTS
    Packets <- MCJoinPackets
    MaxDown = 1
    MaxChunk = 12
    MaxBuffer = 31
SPECIFICATION DownSpec
INVARIANTS
    JoinUnderstood
CHECK_DEADLOCK FALSE
