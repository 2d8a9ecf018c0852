---------------------------- MODULE MeetingRoster ----------------------------
(***************************************************************************)
(* The server composed with the member list of every client: the partner   *)
(* map of MeetingWidget, which the client builds from nothing but the      *)
(* packets it receives.  A packet is on three threads before it gets       *)
(* there: it leaves the server's write queue, arrives, and waits in the    *)
(* socket or in the event queue of the UI thread until it is handled.  The *)
(* client may end its session meanwhile; what was posted to the UI thread  *)
(* is then handled all the same.                                           *)
(*                                                                         *)
(* The client tests a server by a connection over which nothing is sent    *)
(* (ConnectAction::None); it changes no list and is left out.              *)
(***************************************************************************)
EXTENDS MeetingServer

CONSTANTS
    LocalIp,      \* Connection::localIp of each client while it is connected
    NoLocalIp,    \* ... and UINT32_MAX, which it gives otherwise
    ByteSize,     \* 256: a room id is read with its lowest byte as the highest
    MaxPending,   \* bound: the server goes on while fewer packets are to be handled
    MaxSessions   \* bound: sessions that begin

\* The map of members is keyed by address, on either end.  So no two clients
\* are seen with the same one, none has for its own that of another, and the
\* server can tell it.
ASSUME AddressAssumption ==
    /\ ~AddrMayFail
    /\ \A c, d \in Conns : c # d => PeerIp[c] # PeerIp[d] /\ LocalIp[c] # PeerIp[d]

ASSUME RosterAssumption ==
    /\ ByteSize \in Nat \ {0}
    /\ MaxPending \in Nat \ {0} /\ MaxSessions \in Nat

VARIABLES
    partner,   \* the keys of MeetingWidget::partner, for each client
    session,   \* of each client: "in" (_sessionActive), "ending" (ended, its
               \* socket still there) or "out" (no socket)
    incoming,  \* what has arrived at each client and is still to be handled
    leftover,  \* history: partner when the session began, as long as it lasts
    sessions   \* how many sessions have begun

clientVars == <<partner, session, incoming, leftover, sessions>>
rosterVars == <<serverVars, clientVars>>

\* Mutant: whatever is not "no such meeting" is taken for a room number.
Accepted_NotNone(m) ==
    /\ m.type \in {"CreateMeetingResponse", "JoinMeetingResponse"}
    /\ m.code # CodeNone

\* decode_join_meeting_response copies the four bytes in host order, so that
\* the top bit of the lowest one is the sign of what is tested for > 0.
Understood(code) == code # CodeNone /\ code % ByteSize < ByteSize \div 2

\* handle_create_meeting_response and handle_join_meeting_response put the
\* client itself in its map when they see that it has a room.
Accepted(m) ==
    \/ m.type = "CreateMeetingResponse" /\ m.code # CodeNone
    \/ m.type = "JoinMeetingResponse" /\ Understood(m.code) /\ m.code # CodeFull

\* What one packet does to the map: handle_partner_join, handle_partner_join2
\* and handle_img_recv, which adds a sender it does not know, and
\* handle_partner_exit.  Text, audio and CLOSE_CAMERA leave it alone.
added(c, m) ==
    CASE Accepted(m) -> {LocalIp[c]}
      [] m.type \in {"PartnerJoin", "ImgRecv"} -> {m.ip}
      [] m.type = "PartnerJoin2" -> m.ips
      [] OTHER -> {}

removed(m) == IF m.type = "PartnerExit" THEN {m.ip} ELSE {}

handle_message(c, p, m) == (p \ removed(m)) \cup added(c, m)

\* The map once the client has handled the packets s as well: who is in it,
\* or is added by one of them, and not removed by a later one.
StaysFrom(i, ip, s) == \A j \in i .. Len(s) : ip \notin removed(s[j])

Replay(c, p, s) ==
    {ip \in p : StaysFrom(1, ip, s)} \cup
    UNION {{ip \in added(c, s[i]) : StaysFrom(i + 1, ip, s)} : i \in DOMAIN s}
-----------------------------------------------------------------------------
RosterInit ==
    /\ Init
    /\ partner = [c \in Conns |-> {}]
    /\ session = [c \in Conns |-> "out"]
    /\ incoming = [c \in Conns |-> << >>]
    /\ leftover = [c \in Conns |-> {}]
    /\ sessions = 0

\* A session begins (on_connect_finished_slot).  What the one before has posted
\* is handled by then, for it was posted before the connection was made.  The
\* map is not cleared.
accept(c) ==
    /\ session[c] = "out" /\ incoming[c] = << >> /\ sessions < MaxSessions
    /\ on_new_connection(c)
    /\ session' = [session EXCEPT ![c] = "in"]
    /\ leftover' = [leftover EXCEPT ![c] = partner[c]]
    /\ sessions' = sessions + 1
    /\ UNCHANGED <<partner, incoming>>

\* What the client of c is still to handle, on its way or arrived.
Pending(c) == incoming[c] \o outbox[c]
Unhandled == UNION {{c} \X DOMAIN Pending(c) : c \in Conns}

\* The server handles something of an open connection.
server_step(c) ==
    /\ conn[c] = "open" /\ Cardinality(Unhandled) < MaxPending
    /\ ServerStep(c)
    /\ UNCHANGED clientVars

\* The next packet of the write queue arrives, or finds no socket any more.
deliver(c) ==
    /\ do_write(c)
    /\ \/ /\ session[c] # "out"
          /\ incoming' = [incoming EXCEPT ![c] = Append(@, Head(outbox[c]))]
       \/ session[c] = "out" /\ UNCHANGED incoming
    /\ UNCHANGED <<partner, session, leftover, sessions>>

\* on_request_message_slot, on_user_info_message_slot and on_video_message_slot:
\* the UI thread handles the next packet, in whatever state the session is.
handle(c) ==
    /\ incoming[c] # << >>
    /\ partner' = [partner EXCEPT ![c] = handle_message(c, @, Head(incoming[c]))]
    /\ incoming' = [incoming EXCEPT ![c] = Tail(@)]
    /\ UNCHANGED <<serverVars, session, leftover, sessions>>

\* An answer handled after the end, with the disconnection under way: localIp()
\* has forgotten the address.
handle_late_answer(c) ==
    /\ session[c] # "in" /\ incoming[c] # << >> /\ Accepted(Head(incoming[c]))
    /\ partner' = [partner EXCEPT ![c] = @ \cup {NoLocalIp}]
    /\ incoming' = [incoming EXCEPT ![c] = Tail(@)]
    /\ UNCHANGED <<serverVars, session, leftover, sessions>>

\* end_meeting_session: the window is closed, or the connection is reported
\* closed or broken.  clear_partner empties the map.
end_meeting_session(c) ==
    /\ session[c] = "in"
    /\ session' = [session EXCEPT ![c] = "ending"]
    /\ partner' = [partner EXCEPT ![c] = {}]
    /\ leftover' = [leftover EXCEPT ![c] = {}]
    /\ UNCHANGED <<serverVars, incoming, sessions>>

\* The IO thread destroys the socket: what it has not read is lost, what it has
\* posted is still to be handled.
disconnect(c) ==
    /\ session[c] = "ending"
    /\ session' = [session EXCEPT ![c] = "out"]
    /\ \E posted \in 0 .. Len(incoming[c]) :
          incoming' = [incoming EXCEPT ![c] = SubSeq(@, 1, posted)]
    /\ UNCHANGED <<serverVars, partner, leftover, sessions>>

RosterNext ==
    \E c \in Conns :
        \/ accept(c) \/ server_step(c) \/ deliver(c)
        \/ handle(c) \/ handle_late_answer(c)
        \/ end_meeting_session(c) \/ disconnect(c)

RosterSpec == RosterInit /\ [][RosterNext]_rosterVars

-----------------------------------------------------------------------------
\* The members of the room that c is in, as c should list them.  It lists itself
\* when it has made the room or understands that it was let in.
RoomAddresses(c) ==
    (IF owner[connection_room[c]] = c \/ Understood(connection_room[c])
     THEN {LocalIp[c]} ELSE {})
        \cup {ip_network[d] : d \in participants[connection_room[c]] \ {c}}

\* As long as the room counter has not overflowed (ids 0 and 2^32-1 double as
\* refusals, and a room may then have the number of one), every client that is
\* in a room and in a session will, once it has handled what is under way,
\* list the addresses of all of the room's other participants, and nobody
\* else whom it has not brought with it from the session before: the notices of
\* joins and exits, interleaved with the newcomer's own list in whatever order
\* the handlers ran, lose nobody and keep nobody.  A client without a room
\* will list whom it has brought: a refused create or join leaves no trace.
RosterAgrees ==
    ~wrapped => \A c \in Conns : session[c] = "in" =>
        LET listed == Replay(c, partner[c], Pending(c))
        IN  /\ IsParticipant(c) => /\ RoomAddresses(c) \subseteq listed
                                   /\ listed \subseteq RoomAddresses(c) \cup leftover[c]
            /\ conn[c] = "open" /\ InLobby(c) => listed = leftover[c]

\* An image that is handled in a session always comes from somebody the receiver
\* lists by then, so that handle_img_recv never resurrects a member who has
\* left.
ImagesFromMembers ==
    ~wrapped => \A c \in Conns : session[c] = "in" =>
        \A i \in DOMAIN Pending(c) : Pending(c)[i].type = "ImgRecv" =>
            Pending(c)[i].ip \in
                Replay(c, partner[c], SubSeq(Pending(c), 1, i - 1))
==============================================================================
