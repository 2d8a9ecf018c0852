CONSTANTS
    Conns = {c1, c2, c3, c4}
    NoConn = NoConn
    PeerIp <- OwnIp
    NoAddr = NoAddr
    AddrMayFail = TRUE
    MaxRooms = 2
    MaxParticipants = 3
    RoomIdSpace = 4
    SentTypes = {"ImgSend", "CloseCamera"}
    MaxQueue = 1
SYMMETRY ConnSymmetry
SPECIFICATION Spec
INVARIANTS
    TypeOK
    MembershipConsistent
    ClosedIsForgotten
    MappedIsParticipant
    OwnerPresent
    WithinCapacity
PROPERTIES
    ImplementsMeetings
