CONSTANTS
    QUEUE_MAXSIZE = 2
    MaxPartners = 3
    MaxNotices = 5
    MaxPackets = 4
SPECIFICATION FairSpec
INVARIANTS
    TypeOK
    HeardInOrder
    SilentWhenAlone
PROPERTIES
    NobodyWaitsForEver
CHECK_DEADLOCK FALSE
