---------------------------- MODULE MeetingServer ----------------------------
(***************************************************************************)
(* The message server (server/): MeetingService, RoomManager, Room and the *)
(* open/closed life of network::Connection.  main.cpp runs everything on   *)
(* one io_context thread, so every handler runs to completion before the   *)
(* next: one action per handler, with the re-entrant calls it makes (a     *)
(* close that closes other connections) folded into its effect.            *)
(*                                                                         *)
(* A connection id is never reused by the program.  An element of Conns is *)
(* a slot that stands for a fresh connection each time it is accepted;     *)
(* this is sound because a closed connection is referenced nowhere         *)
(* (ClosedIsForgotten).                                                    *)
(***************************************************************************)
EXTENDS Integers, Sequences, FiniteSets

CONSTANTS
    Conns,           \* connection slots
    NoConn,          \* no connection: the owner of a room id not in use
    PeerIp,          \* the peer address of each connection
    NoAddr,          \* the 0 that peer_ip_network() returns on an error
    AddrMayFail,     \* may remote_endpoint() fail (the peer has just reset)?
    MaxRooms,        \* ServerConfig::max_rooms
    MaxParticipants, \* ServerConfig::max_participants_per_room
    RoomIdSpace,     \* 2^32 in the program: room ids are uint32_t
    SentTypes,       \* the packet types sent in a room that are enumerated
    MaxQueue         \* bound: packets are read while every queue is shorter

ASSUME ConstantsAssumption ==
    /\ AddrMayFail \in BOOLEAN
    /\ MaxRooms \in Nat \ {0}
    /\ MaxParticipants \in Nat \ {0}
    /\ RoomIdSpace \in Nat /\ RoomIdSpace > 2
    /\ MaxQueue \in Nat \ {0}
    /\ IsFiniteSet(Conns) /\ NoConn \notin Conns
    /\ SentTypes \subseteq {"ImgSend", "AudioSend", "TextSend", "CloseCamera"}

VARIABLES
    conn,            \* Connection::is_open() of every slot
    connection_room, \* MeetingService::_connection_room
    rooms,           \* the keys of RoomManager::_rooms
    participants,    \* Room::_participants: the connections of each room
    owner,           \* the participant of each room with is_owner
    ip_network,      \* Participant::ip_network of a connection in a room
    next_room_id,    \* RoomManager::_next_room_id
    wrapped,         \* history: has _next_room_id overflowed?
    outbox           \* Connection::_write_queue: packets still to be written

serverVars == <<conn, connection_room, rooms, participants, owner,
                ip_network, next_room_id, wrapped, outbox>>

RoomIds == 0 .. RoomIdSpace - 1
NoRoom == -1
Ips == {PeerIp[c] : c \in Conns} \cup {NoAddr}
-----------------------------------------------------------------------------
(***************************************************************************)
(* Outbound packets.  The payload is a room number or response code, or    *)
(* the addresses of PARTNER_JOIN2 (a set: the client ignores repeats).     *)
(***************************************************************************)
AsReceived == [ImgSend |-> "ImgRecv", AudioSend |-> "AudioRecv",
               TextSend |-> "TextRecv"]

MessageTypes ==
    {"CreateMeetingResponse", "JoinMeetingResponse", "PartnerJoin",
     "PartnerJoin2", "PartnerExit", "CloseCamera", "ImgRecv", "AudioRecv",
     "TextRecv"}

Packet == [type : MessageTypes, ip : Ips, code : RoomIds, ips : SUBSET Ips]

Response(type, code) ==
    [type |-> type, ip |-> NoAddr, code |-> code, ips |-> {}]
Notice(type, ip) ==
    [type |-> type, ip |-> ip, code |-> 0, ips |-> {}]
PartnerList(ips) ==
    [type |-> "PartnerJoin2", ip |-> NoAddr, code |-> 0, ips |-> ips]

\* The two refusals of handle_join_meeting: 0, and (uint32_t)-1.
CodeNone == 0
CodeFull == RoomIdSpace - 1

\* Room::broadcast: every open participant but one gets the packet.
broadcast(ob, dest, p) ==
    [d \in Conns |->
        IF d \in dest /\ conn[d] = "open" THEN Append(ob[d], p) ELSE ob[d]]

send(ob, c, p) == [ob EXCEPT ![c] = Append(@, p)]
-----------------------------------------------------------------------------
Init ==
    /\ conn = [c \in Conns |-> "closed"]
    /\ connection_room = [c \in Conns |-> NoRoom]
    /\ rooms = {}
    /\ participants = [r \in RoomIds |-> {}]
    /\ owner = [r \in RoomIds |-> NoConn]
    /\ ip_network = [c \in Conns |-> NoAddr]
    /\ next_room_id = 1
    /\ wrapped = FALSE
    /\ outbox = [c \in Conns |-> << >>]

\* Server::do_accept, Connection::start and MeetingService::on_new_connection.
on_new_connection(c) ==
    /\ conn[c] = "closed"
    /\ conn' = [conn EXCEPT ![c] = "open"]
    /\ UNCHANGED <<connection_room, rooms, participants, owner, ip_network,
                   next_room_id, wrapped, outbox>>

\* The loop of on_connection_read has decoded one more packet of c.
Reading(c) == conn[c] = "open" /\ \A d \in Conns : Len(outbox[d]) < MaxQueue
InLobby(c) == connection_room[c] = NoRoom
IsParticipant(c) == ~InLobby(c) /\ c \in participants[connection_room[c]]

\* peer_ip_network(): the peer address, or 0 once the endpoint is gone.
peer_ip_network(c) ==
    {PeerIp[c]} \cup (IF AddrMayFail THEN {NoAddr} ELSE {})

\* Mutant: the counter is wider than the id.
Increment_Wide(n) == n + 1

\* _next_room_id++ on a uint32_t.
Increment(n) == IF n = RoomIdSpace - 1 THEN 0 ELSE n + 1

\* Mutant: the id is taken without counting it.
create_room_NoIncrement(c, ip) ==
    LET id == next_room_id
    IN  /\ rooms' = rooms \cup {id}
        /\ connection_room' = [connection_room EXCEPT ![c] = id]
        /\ IF id \in rooms
           THEN UNCHANGED <<participants, owner, ip_network>>
           ELSE /\ participants' = [participants EXCEPT ![id] = {c}]
                /\ owner' = [owner EXCEPT ![id] = c]
                /\ ip_network' = [ip_network EXCEPT ![c] = ip]
        /\ outbox' = send(outbox, c, Response("CreateMeetingResponse", id))
        /\ UNCHANGED <<next_room_id, wrapped>>

\* RoomManager::create_room.  If the id is still in use the new Room is
\* dropped by emplace and get_room finds the old one.
create_room(c, ip) ==
    LET id == next_room_id
    IN  /\ rooms' = rooms \cup {id}
        /\ next_room_id' = Increment(id)
        /\ wrapped' = (wrapped \/ id = RoomIdSpace - 1)
        /\ connection_room' = [connection_room EXCEPT ![c] = id]
        /\ IF id \in rooms
           THEN UNCHANGED <<participants, owner, ip_network>>
           ELSE /\ participants' = [participants EXCEPT ![id] = {c}]
                /\ owner' = [owner EXCEPT ![id] = c]
                /\ ip_network' = [ip_network EXCEPT ![c] = ip]
        /\ outbox' = send(outbox, c, Response("CreateMeetingResponse", id))

handle_create_meeting(c) ==
    /\ Reading(c) /\ InLobby(c)
    /\ \/ /\ Cardinality(rooms) < MaxRooms
          /\ \E ip \in peer_ip_network(c) : create_room(c, ip)
       \/ /\ Cardinality(rooms) >= MaxRooms
          /\ outbox' = send(outbox, c,
                            Response("CreateMeetingResponse", CodeNone))
          /\ UNCHANGED <<connection_room, rooms, participants, owner,
                         ip_network, next_room_id, wrapped>>
    /\ UNCHANGED conn

\* handle_join_meeting when join_room answers Ok.  The address is read
\* twice: for the participant entry and for the notice to the others.
join_accepted(c, r, ip, noticeIp) ==
    LET others == participants[r]
        listed == {ip_network[d] : d \in others}
        answered == send(outbox, c, Response("JoinMeetingResponse", r))
        announced == broadcast(answered, others, Notice("PartnerJoin", noticeIp))
    IN  /\ participants' = [participants EXCEPT ![r] = @ \cup {c}]
        /\ ip_network' = [ip_network EXCEPT ![c] = ip]
        /\ connection_room' = [connection_room EXCEPT ![c] = r]
        /\ outbox' = send(announced, c, PartnerList(listed))
        /\ UNCHANGED <<rooms, owner, next_room_id, wrapped>>

\* Mutant: one participant too many is admitted.
handle_join_meeting_OneMore(c, r) ==
    /\ Reading(c) /\ InLobby(c)
    /\ r \in rooms /\ Cardinality(participants[r]) <= MaxParticipants
    /\ join_accepted(c, r, PeerIp[c], PeerIp[c])
    /\ UNCHANGED conn

\* handle_join_meeting: a room that is missing or full refuses.  A closed
\* room has left _rooms before the handler that closed it returned.
handle_join_meeting(c, r) ==
    /\ Reading(c) /\ InLobby(c)
    /\ \/ /\ r \in rooms /\ Cardinality(participants[r]) < MaxParticipants
          /\ \E ip \in peer_ip_network(c) : \E noticeIp \in {ip, NoAddr} :
                /\ noticeIp \in peer_ip_network(c)
                /\ join_accepted(c, r, ip, noticeIp)
       \/ /\ ~(r \in rooms /\ Cardinality(participants[r]) < MaxParticipants)
          /\ outbox' = send(outbox, c,
                            Response("JoinMeetingResponse",
                                IF r \in rooms THEN CodeFull ELSE CodeNone))
          /\ UNCHANGED <<connection_room, rooms, participants, owner,
                         ip_network, next_room_id, wrapped>>
    /\ UNCHANGED conn

\* Mutant: the packet goes on with the address it came with, which is zero.
handle_packet_Unstamped(c, type) ==
    /\ Reading(c) /\ ~InLobby(c)
    /\ outbox' = IF IsParticipant(c)
                 THEN broadcast(outbox, participants[connection_room[c]] \ {c},
                                Notice(IF type = "CloseCamera" THEN type
                                       ELSE AsReceived[type], NoAddr))
                 ELSE outbox
    /\ UNCHANGED <<conn, connection_room, rooms, participants, owner,
                   ip_network, next_room_id, wrapped>>

\* Room::handle_packet: media and CLOSE_CAMERA go to the other participants
\* under the sender's stored address.  A sender that is mapped to the room
\* without being a participant is ignored.
handle_packet(c, type) ==
    /\ Reading(c) /\ ~InLobby(c)
    /\ LET r == connection_room[c]
           out == IF type = "CloseCamera" THEN type ELSE AsReceived[type]
       IN  outbox' = IF IsParticipant(c)
                     THEN broadcast(outbox, participants[r] \ {c},
                                    Notice(out, ip_network[c]))
                     ELSE outbox
    /\ UNCHANGED <<conn, connection_room, rooms, participants, owner,
                   ip_network, next_room_id, wrapped>>
-----------------------------------------------------------------------------
(***************************************************************************)
(* Connection::close and everything it re-enters.                          *)
(***************************************************************************)
\* The connection leaves the service and every connection in gone closes.
Forget(gone, unmapped) ==
    /\ conn' = [d \in Conns |-> IF d \in gone THEN "closed" ELSE conn[d]]
    /\ connection_room' =
         [d \in Conns |-> IF d \in unmapped THEN NoRoom ELSE connection_room[d]]

\* on_connection_close of a connection in no room, or mapped to a room it is
\* not a participant of: remove_participant finds nothing.
close_outsider(c) ==
    /\ ~IsParticipant(c)
    /\ Forget({c}, {c})
    /\ outbox' = [outbox EXCEPT ![c] = << >>]
    /\ UNCHANGED <<rooms, participants, owner, ip_network>>

\* Mutants: the close leaves the connection mapped; the exit is not
\* announced; the owner leaves like any member.
remove_participant_StillMapped(c) ==
    LET r == connection_room[c]
    IN  /\ IsParticipant(c) /\ c # owner[r]
        /\ participants' = [participants EXCEPT ![r] = @ \ {c}]
        /\ ip_network' = [ip_network EXCEPT ![c] = NoAddr]
        /\ Forget({c}, {})
        /\ outbox' = [outbox EXCEPT ![c] = << >>]
        /\ UNCHANGED <<rooms, owner>>

remove_participant_Silent(c) ==
    LET r == connection_room[c]
    IN  /\ IsParticipant(c) /\ c # owner[r]
        /\ participants' = [participants EXCEPT ![r] = @ \ {c}]
        /\ ip_network' = [ip_network EXCEPT ![c] = NoAddr]
        /\ Forget({c}, {c})
        /\ outbox' = [outbox EXCEPT ![c] = << >>]
        /\ UNCHANGED <<rooms, owner>>

remove_participant_AnyRole(c) ==
    LET r == connection_room[c]
        rest == participants[r] \ {c}
    IN  /\ IsParticipant(c)
        /\ participants' = [participants EXCEPT ![r] = rest]
        /\ ip_network' = [ip_network EXCEPT ![c] = NoAddr]
        /\ Forget({c}, {c})
        /\ outbox' = broadcast([outbox EXCEPT ![c] = << >>], rest,
                               Notice("PartnerExit", ip_network[c]))
        /\ UNCHANGED <<rooms, owner>>

\* Room::remove_participant of a member: the others are told.
remove_participant(c) ==
    LET r == connection_room[c]
        rest == participants[r] \ {c}
    IN  /\ IsParticipant(c) /\ c # owner[r]
        /\ participants' = [participants EXCEPT ![r] = rest]
        /\ ip_network' = [ip_network EXCEPT ![c] = NoAddr]
        /\ Forget({c}, {c})
        /\ outbox' = broadcast([outbox EXCEPT ![c] = << >>], rest,
                               Notice("PartnerExit", ip_network[c]))
        /\ UNCHANGED <<rooms, owner>>

\* Mutants: cleanup_room is skipped; connections in no room are closed too.
close_room_NoCleanup(c) ==
    LET r == connection_room[c]
    IN  /\ IsParticipant(c) /\ c = owner[r]
        /\ Forget(participants[r], {c})
        /\ participants' = [participants EXCEPT ![r] = {}]
        /\ rooms' = rooms \ {r}
        /\ outbox' = [d \in Conns |->
                        IF d \in participants[r] THEN << >> ELSE outbox[d]]
        /\ owner' = [owner EXCEPT ![r] = NoConn]
        /\ ip_network' = [d \in Conns |->
                IF d \in participants[r] THEN NoAddr ELSE ip_network[d]]

close_room_LobbyToo(c) ==
    LET r == connection_room[c]
        gone == participants[r] \cup {d \in Conns : InLobby(d)}
        mapped == {d \in Conns : connection_room[d] = r}
    IN  /\ IsParticipant(c) /\ c = owner[r]
        /\ Forget(gone, mapped)
        /\ participants' = [participants EXCEPT ![r] = {}]
        /\ rooms' = rooms \ {r}
        /\ outbox' = [d \in Conns |-> IF d \in gone THEN << >> ELSE outbox[d]]
        /\ owner' = [owner EXCEPT ![r] = NoConn]
        /\ ip_network' = [d \in Conns |->
                IF d \in participants[r] THEN NoAddr ELSE ip_network[d]]

\* remove_participant of the owner: close_room closes every participant (their
\* close handlers find the room closed), then cleanup_room unmaps whatever
\* still points at the room and remove_room erases it.
close_room(c) ==
    LET r == connection_room[c]
        mapped == {d \in Conns : connection_room[d] = r}
    IN  /\ IsParticipant(c) /\ c = owner[r]
        /\ Forget(participants[r], mapped)
        /\ participants' = [participants EXCEPT ![r] = {}]
        /\ rooms' = rooms \ {r}
        /\ outbox' = [d \in Conns |->
                        IF d \in participants[r] THEN << >> ELSE outbox[d]]
        /\ owner' = [owner EXCEPT ![r] = NoConn]
        /\ ip_network' = [d \in Conns |->
                IF d \in participants[r] THEN NoAddr ELSE ip_network[d]]

CloseEffect(c) ==
    /\ close_outsider(c) \/ remove_participant(c) \/ close_room(c)
    /\ UNCHANGED <<next_room_id, wrapped>>

\* A read or write error, or the end of the stream (do_read, do_write).
connection_lost(c) == conn[c] = "open" /\ CloseEffect(c)

\* A packet that cannot be decoded, whatever the state of the connection.
read_invalid(c) == Reading(c) /\ CloseEffect(c)

\* A packet other than create or join before the connection has a room, or
\* a join without a room number.
handle_unexpected_lobby(c) == Reading(c) /\ InLobby(c) /\ CloseEffect(c)

\* do_write: the front packet of the queue has been written in full.
do_write(c) ==
    /\ conn[c] = "open" /\ outbox[c] # << >>
    /\ outbox' = [outbox EXCEPT ![c] = Tail(@)]
    /\ UNCHANGED <<conn, connection_room, rooms, participants, owner,
                   ip_network, next_room_id, wrapped>>

\* Everything but the write queue draining.
ServerStep(c) ==
    \/ on_new_connection(c)
    \/ handle_create_meeting(c)
    \/ \E r \in RoomIds : handle_join_meeting(c, r)
    \/ \E t \in SentTypes : handle_packet(c, t)
    \/ connection_lost(c)
    \/ read_invalid(c)
    \/ handle_unexpected_lobby(c)

Next == \E c \in Conns : ServerStep(c) \/ do_write(c)

Spec == Init /\ [][Next]_serverVars
-----------------------------------------------------------------------------
\* Every variable has the type of the member it models.
TypeOK ==
    /\ conn \in [Conns -> {"open", "closed"}]
    /\ connection_room \in [Conns -> RoomIds \cup {NoRoom}]
    /\ rooms \in SUBSET RoomIds
    /\ participants \in [RoomIds -> SUBSET Conns]
    /\ owner \in [RoomIds -> Conns \cup {NoConn}]
    /\ ip_network \in [Conns -> Ips]
    /\ next_room_id \in RoomIds
    /\ wrapped \in BOOLEAN
    /\ outbox \in [Conns -> Seq(Packet)]

\* A connection that closed, alone or with its room, is left behind nowhere:
\* not in _connection_room, not among the participants of any room, and
\* nothing waits to be written to it.
ClosedIsForgotten ==
    \A c \in Conns : conn[c] = "closed" =>
        /\ connection_room[c] = NoRoom
        /\ \A r \in RoomIds : c \notin participants[r]
        /\ outbox[c] = << >>

\* _connection_room and the rooms' participants agree: a participant is
\* mapped to its room (so its packets and its close reach that room, and it
\* is in no second room), and no mapping points at a room that was removed.
MembershipConsistent ==
    /\ \A r \in RoomIds : \A c \in participants[r] :
          r \in rooms /\ connection_room[c] = r
    /\ \A c \in Conns : connection_room[c] # NoRoom => connection_room[c] \in rooms

\* Until the uint32_t room counter overflows, whoever is mapped to a room is
\* a participant of it: no packet is swallowed by handle_packet, and the
\* close of every mapped connection is announced.
MappedIsParticipant ==
    ~wrapped => \A c \in Conns : connection_room[c] # NoRoom =>
                    c \in participants[connection_room[c]]

\* What makes the next id fresh: every room so far has a smaller one.
IdsBelowNext ==
    ~wrapped => next_room_id > 0 /\ \A r \in rooms : r < next_room_id

\* A room in the manager has its owner among its participants, connected: a
\* meeting never outlives its owner, however the two closes interleave.
OwnerPresent ==
    \A r \in rooms : owner[r] \in participants[r] /\ conn[owner[r]] = "open"

\* The limits of ServerConfig hold at every moment.
WithinCapacity ==
    /\ Cardinality(rooms) <= MaxRooms
    /\ \A r \in RoomIds : Cardinality(participants[r]) <= MaxParticipants

\* The server implements the abstract Meetings: the user behind a connection
\* attends the meeting of the owner of the room it is a participant of.  The
\* cascade of re-entrant closes is one abstract Disconnect.
M == INSTANCE Meetings WITH
        Users <- Conns,
        None <- NoConn,
        MeetingLimit <- MaxRooms,
        AttendanceLimit <- MaxParticipants,
        online <- {c \in Conns : conn[c] = "open"},
        meeting <- [c \in Conns |->
            IF IsParticipant(c) THEN owner[connection_room[c]] ELSE NoConn]

\* Every behaviour of the server is one of Meetings.
ImplementsMeetings == M!Spec
==============================================================================
