CONSTANTS
    Conns = {c1, c2, c3}
    NoConn = NoConn
    PeerIp <- OwnIp
    LocalIp <- OwnIp
    NoAddr = NoAddr
    NoLocalIp = NoLocalIp
    AddrMayFail = FALSE
    MaxRooms = 2
    MaxParticipants = 3
    RoomIdSpace = 6
    ByteSize = 4
    SentTypes = {"ImgSend"}
    MaxQueue = 9
    MaxPending = 2
    MaxSessions = 3
SYMMETRY ConnSymmetry
SPECIFICATION RosterSpec
INVARIANTS
    RosterAgrees
    ImagesFromMembers
CHECK_DEADLOCK FALSE
