------------------------- MODULE MeetingServerProofs -------------------------
(***************************************************************************)
(* Theorems about MeetingServer, for every number of connections and every *)
(* value of the limits: type correctness, the agreement of                 *)
(* _connection_room with the participants of the rooms, the limits of      *)
(* ServerConfig, and the step simulation of the abstract Meetings.  The    *)
(* last two rest on the second: the hosts of Meetings are exactly the      *)
(* owners of the rooms, and those who attend a meeting exactly the         *)
(* participants of its host's room.                                        *)
(*                                                                         *)
(* Then about MeetingRoster, for any addresses that are told apart:        *)
(* whoever is in a room lists the others that are in it once what is under *)
(* way is handled, and nobody else whom it has not brought from an earlier *)
(* session; and every image comes from somebody who is listed by then.     *)
(***************************************************************************)
EXTENDS MeetingRoster, FiniteSetTheorems, SequenceTheorems, TLAPS
-----------------------------------------------------------------------------
(***************************************************************************)
(* Type correctness.                                                       *)
(***************************************************************************)
LEMMA NoticeType ==
    ASSUME NEW t \in MessageTypes, NEW ip \in Ips
    PROVE  Notice(t, ip) \in Packet
BY ConstantsAssumption DEF Notice, Packet, RoomIds

LEMMA ResponseType ==
    ASSUME NEW t \in MessageTypes, NEW code \in RoomIds
    PROVE  Response(t, code) \in Packet
BY DEF Response, Packet, Ips

LEMMA PartnerListType ==
    ASSUME NEW ips \in SUBSET Ips
    PROVE  PartnerList(ips) \in Packet
BY ConstantsAssumption DEF PartnerList, Packet, Ips, RoomIds, MessageTypes

LEMMA CodeType == CodeNone \in RoomIds /\ CodeFull \in RoomIds /\ NoRoom \notin RoomIds
BY ConstantsAssumption DEF CodeNone, CodeFull, RoomIds, NoRoom

\* broadcast and send keep the queues queues of packets.
LEMMA BroadcastType ==
    ASSUME NEW ob \in [Conns -> Seq(Packet)], NEW dest, NEW p \in Packet
    PROVE  broadcast(ob, dest, p) \in [Conns -> Seq(Packet)]
BY DEF broadcast

LEMMA SendType ==
    ASSUME NEW ob \in [Conns -> Seq(Packet)], NEW c \in Conns, NEW p \in Packet
    PROVE  send(ob, c, p) \in [Conns -> Seq(Packet)]
BY DEF send

LEMMA PeerType ==
    ASSUME NEW c \in Conns, NEW ip \in peer_ip_network(c)
    PROVE  ip \in Ips
BY DEF peer_ip_network, Ips

LEMMA IncrementType ==
    ASSUME NEW n \in RoomIds
    PROVE  Increment(n) \in RoomIds
BY ConstantsAssumption DEF Increment, RoomIds

LEMMA ForgetType ==
    ASSUME TypeOK, NEW gone, NEW unmapped, Forget(gone, unmapped)
    PROVE  /\ conn' \in [Conns -> {"open", "closed"}]
           /\ connection_room' \in [Conns -> RoomIds \cup {NoRoom}]
BY DEF TypeOK, Forget

LEMMA InitType == Init => TypeOK
<1> SUFFICES ASSUME Init PROVE TypeOK
  OBVIOUS
<1>1. next_room_id \in RoomIds
  BY ConstantsAssumption DEF Init, RoomIds
<1>2. << >> \in Seq(Packet)
  OBVIOUS
<1> QED
  BY <1>1, <1>2 DEF Init, TypeOK, Ips

LEMMA CreateType ==
    ASSUME TypeOK, NEW c \in Conns, handle_create_meeting(c)
    PROVE  TypeOK'
<1>1. CASE \E ip \in peer_ip_network(c) : create_room(c, ip)
  <2>1. PICK ip \in peer_ip_network(c) : create_room(c, ip)
    BY <1>1
  <2>2. ip \in Ips
    BY PeerType
  <2>3. outbox' \in [Conns -> Seq(Packet)]
    BY <2>1, ResponseType, SendType DEF create_room, TypeOK, MessageTypes
  <2>4. next_room_id' \in RoomIds
    BY <2>1, IncrementType DEF create_room, TypeOK
  <2>5. /\ rooms' \in SUBSET RoomIds
        /\ wrapped' \in BOOLEAN
        /\ connection_room' \in [Conns -> RoomIds \cup {NoRoom}]
    BY <2>1 DEF create_room, TypeOK
  <2>6. /\ participants' \in [RoomIds -> SUBSET Conns]
        /\ owner' \in [RoomIds -> Conns \cup {NoConn}]
        /\ ip_network' \in [Conns -> Ips]
    <3>1. CASE next_room_id \in rooms
      BY <2>1, <3>1 DEF create_room, TypeOK
    <3>2. CASE next_room_id \notin rooms
      <4>1. /\ participants' = [participants EXCEPT ![next_room_id] = {c}]
            /\ owner' = [owner EXCEPT ![next_room_id] = c]
            /\ ip_network' = [ip_network EXCEPT ![c] = ip]
        BY <2>1, <3>2 DEF create_room
      <4> QED
        BY <2>2, <4>1 DEF TypeOK
    <3> QED
      BY <3>1, <3>2
  <2> QED
    BY <2>3, <2>4, <2>5, <2>6 DEF handle_create_meeting, TypeOK
<1>2. CASE outbox' = send(outbox, c, Response("CreateMeetingResponse", CodeNone))
           /\ UNCHANGED <<connection_room, rooms, participants, owner,
                          ip_network, next_room_id, wrapped>>
  <2>1. outbox' \in [Conns -> Seq(Packet)]
    BY <1>2, CodeType, ResponseType, SendType DEF TypeOK, MessageTypes
  <2> QED
    BY <1>2, <2>1 DEF handle_create_meeting, TypeOK
<1> QED
  BY <1>1, <1>2 DEF handle_create_meeting

LEMMA JoinAcceptedType ==
    ASSUME TypeOK, NEW c \in Conns, NEW r \in RoomIds, NEW ip \in Ips,
           NEW noticeIp \in Ips, join_accepted(c, r, ip, noticeIp), conn' = conn
    PROVE  TypeOK'
<1> DEFINE answered == send(outbox, c, Response("JoinMeetingResponse", r))
           announced == broadcast(answered, participants[r],
                                  Notice("PartnerJoin", noticeIp))
           listed == {ip_network[d] : d \in participants[r]}
<1>1. answered \in [Conns -> Seq(Packet)]
  BY ResponseType, SendType DEF TypeOK, MessageTypes
<1>2. announced \in [Conns -> Seq(Packet)]
  <2>1. Notice("PartnerJoin", noticeIp) \in Packet
    BY NoticeType DEF MessageTypes
  <2> HIDE DEF answered
  <2> QED
    BY <1>1, <2>1, BroadcastType
<1>3. PartnerList(listed) \in Packet
  <2>1. listed \in SUBSET Ips
    BY DEF TypeOK
  <2> HIDE DEF listed
  <2> QED
    BY <2>1, PartnerListType
<1>4. outbox' = send(announced, c, PartnerList(listed))
  BY DEF join_accepted
<1>5. outbox' \in [Conns -> Seq(Packet)]
  <2> HIDE DEF announced, listed
  <2> QED
    BY <1>2, <1>3, <1>4, SendType
<1>6. /\ participants' \in [RoomIds -> SUBSET Conns]
      /\ ip_network' \in [Conns -> Ips]
      /\ connection_room' \in [Conns -> RoomIds \cup {NoRoom}]
      /\ UNCHANGED <<rooms, owner, next_room_id, wrapped>>
  BY DEF join_accepted, TypeOK
<1> QED
  BY <1>5, <1>6 DEF TypeOK

LEMMA JoinType ==
    ASSUME TypeOK, NEW c \in Conns, NEW r \in RoomIds,
           handle_join_meeting(c, r)
    PROVE  TypeOK'
<1>1. CASE \E ip \in peer_ip_network(c) : \E noticeIp \in {ip, NoAddr} :
              join_accepted(c, r, ip, noticeIp)
  <2>1. PICK ip \in peer_ip_network(c) : \E noticeIp \in {ip, NoAddr} :
              join_accepted(c, r, ip, noticeIp)
    BY <1>1
  <2>2. PICK noticeIp \in {ip, NoAddr} : join_accepted(c, r, ip, noticeIp)
    BY <2>1
  <2>3. ip \in Ips /\ noticeIp \in Ips
    BY PeerType DEF Ips
  <2> QED
    BY <2>2, <2>3, JoinAcceptedType DEF handle_join_meeting
<1>2. CASE /\ outbox' = send(outbox, c, Response("JoinMeetingResponse",
                                IF r \in rooms THEN CodeFull ELSE CodeNone))
           /\ UNCHANGED <<connection_room, rooms, participants, owner,
                          ip_network, next_room_id, wrapped>>
  <2>1. outbox' \in [Conns -> Seq(Packet)]
    BY <1>2, CodeType, ResponseType, SendType DEF TypeOK, MessageTypes
  <2> QED
    BY <1>2, <2>1 DEF handle_join_meeting, TypeOK
<1> QED
  BY <1>1, <1>2 DEF handle_join_meeting

LEMMA PacketType ==
    ASSUME TypeOK, NEW c \in Conns, NEW t \in SentTypes, handle_packet(c, t)
    PROVE  TypeOK'
<1> DEFINE out == IF t = "CloseCamera" THEN t ELSE AsReceived[t]
<1>1. out \in MessageTypes
  BY ConstantsAssumption DEF MessageTypes, AsReceived
<1>2. Notice(out, ip_network[c]) \in Packet
  <2> HIDE DEF out
  <2> QED
    BY <1>1, NoticeType DEF TypeOK
<1>3. outbox' \in [Conns -> Seq(Packet)]
  BY <1>2, BroadcastType DEF handle_packet, TypeOK
<1> QED
  BY <1>3 DEF handle_packet, TypeOK

LEMMA CloseType ==
    ASSUME TypeOK, NEW c \in Conns, CloseEffect(c)
    PROVE  TypeOK'
<1>1. CASE close_outsider(c)
  BY <1>1, ForgetType DEF close_outsider, CloseEffect, TypeOK
<1>2. CASE remove_participant(c)
  <2>1. connection_room[c] \in RoomIds
    BY <1>2 DEF remove_participant, IsParticipant, InLobby, TypeOK
  <2>2. Notice("PartnerExit", ip_network[c]) \in Packet
    BY NoticeType DEF TypeOK, MessageTypes
  <2>3. [outbox EXCEPT ![c] = << >>] \in [Conns -> Seq(Packet)]
    BY DEF TypeOK
  <2>4. outbox' \in [Conns -> Seq(Packet)]
    BY <1>2, <2>2, <2>3, BroadcastType DEF remove_participant
  <2>5. /\ participants' \in [RoomIds -> SUBSET Conns]
        /\ ip_network' \in [Conns -> Ips]
    BY <1>2, <2>1 DEF remove_participant, TypeOK, Ips
  <2>6. /\ conn' \in [Conns -> {"open", "closed"}]
        /\ connection_room' \in [Conns -> RoomIds \cup {NoRoom}]
    BY <1>2, ForgetType DEF remove_participant
  <2> QED
    BY <1>2, <2>4, <2>5, <2>6 DEF remove_participant, CloseEffect, TypeOK
<1>3. CASE close_room(c)
  <2>1. connection_room[c] \in RoomIds
    BY <1>3 DEF close_room, IsParticipant, InLobby, TypeOK
  <2>2. /\ conn' \in [Conns -> {"open", "closed"}]
        /\ connection_room' \in [Conns -> RoomIds \cup {NoRoom}]
    BY <1>3, ForgetType DEF close_room
  <2>3. outbox' \in [Conns -> Seq(Packet)]
    BY <1>3 DEF close_room, TypeOK
  <2>4. /\ participants' \in [RoomIds -> SUBSET Conns]
        /\ owner' \in [RoomIds -> Conns \cup {NoConn}]
        /\ rooms' \in SUBSET RoomIds
        /\ ip_network' \in [Conns -> Ips]
    BY <1>3, <2>1 DEF close_room, TypeOK, Ips
  <2> QED
    BY <2>2, <2>3, <2>4, <1>3 DEF close_room, CloseEffect, TypeOK
<1> QED
  BY <1>1, <1>2, <1>3 DEF CloseEffect

LEMMA WriteType ==
    ASSUME TypeOK, NEW c \in Conns, do_write(c)
    PROVE  TypeOK'
<1>1. Tail(outbox[c]) \in Seq(Packet)
  BY DEF do_write, TypeOK
<1> QED
  BY <1>1 DEF do_write, TypeOK

LEMMA StepType == TypeOK /\ [Next]_serverVars => TypeOK'
<1> SUFFICES ASSUME TypeOK, [Next]_serverVars PROVE TypeOK'
  OBVIOUS
<1>1. CASE Next
  <2>1. PICK c \in Conns : ServerStep(c) \/ do_write(c)
    BY <1>1 DEF Next
  <2>2. CASE on_new_connection(c)
    BY <2>2 DEF on_new_connection, TypeOK
  <2>3. CASE handle_create_meeting(c)
    BY <2>3, CreateType
  <2>4. CASE \E r \in RoomIds : handle_join_meeting(c, r)
    BY <2>4, JoinType
  <2>5. CASE \E t \in SentTypes : handle_packet(c, t)
    BY <2>5, PacketType
  <2>6. CASE CloseEffect(c)
    BY <2>6, CloseType
  <2>7. CASE do_write(c)
    BY <2>7, WriteType
  <2> QED
    BY <2>1, <2>2, <2>3, <2>4, <2>5, <2>6, <2>7
    DEF ServerStep, connection_lost, read_invalid, handle_unexpected_lobby
<1>2. CASE UNCHANGED serverVars
  BY <1>2 DEF serverVars, TypeOK
<1> QED
  BY <1>1, <1>2

\* The members of MeetingService, RoomManager, Room and Connection keep their
\* types in every execution; in particular a room id is always a uint32_t.
THEOREM TypeCorrect == Spec => []TypeOK
BY InitType, StepType, PTL DEF Spec
-----------------------------------------------------------------------------
(***************************************************************************)
(* Membership.  None of the invariants is inductive alone: a closing owner *)
(* takes exactly its room's mapped connections along because               *)
(* _connection_room and the participants agree, and a new room starts      *)
(* empty because every id in use is below the counter.                     *)
(***************************************************************************)
MembershipInv ==
    /\ TypeOK
    /\ ClosedIsForgotten
    /\ MembershipConsistent
    /\ MappedIsParticipant
    /\ IdsBelowNext
    /\ OwnerPresent

Membership == ClosedIsForgotten /\ MembershipConsistent /\ MappedIsParticipant
              /\ IdsBelowNext /\ OwnerPresent

membershipVars == <<conn, connection_room, rooms, participants, owner,
                    next_room_id, wrapped>>

LEMMA InitMembership == Init => Membership
BY CodeType, ConstantsAssumption
DEF Init, Membership, ClosedIsForgotten, MembershipConsistent,
    MappedIsParticipant, IdsBelowNext, OwnerPresent

\* A step that only moves packets between open connections.
LEMMA QueueMembership ==
    ASSUME MembershipInv, UNCHANGED membershipVars,
           \A c \in Conns : conn[c] = "closed" => outbox'[c] = outbox[c]
    PROVE  Membership'
BY DEF MembershipInv, membershipVars, Membership, ClosedIsForgotten,
       MembershipConsistent, MappedIsParticipant, IdsBelowNext, OwnerPresent

\* Neither broadcast nor send touches the queue of a closed connection.
LEMMA BroadcastClosed ==
    ASSUME NEW ob, NEW dest, NEW p, NEW d \in Conns, conn[d] = "closed"
    PROVE  broadcast(ob, dest, p)[d] = ob[d]
BY DEF broadcast

LEMMA SendClosed ==
    ASSUME NEW ob \in [Conns -> Seq(Packet)], NEW c \in Conns, NEW p,
           conn[c] = "open", NEW d \in Conns, conn[d] = "closed"
    PROVE  send(ob, c, p)[d] = ob[d]
BY DEF send

LEMMA ConnectMembership ==
    ASSUME MembershipInv, NEW c \in Conns, on_new_connection(c)
    PROVE  Membership'
BY DEF MembershipInv, on_new_connection, Membership, ClosedIsForgotten, TypeOK,
       MembershipConsistent, MappedIsParticipant, IdsBelowNext, OwnerPresent

LEMMA CreateMembership ==
    ASSUME MembershipInv, NEW c \in Conns, handle_create_meeting(c)
    PROVE  Membership'
<1> DEFINE id == next_room_id
<1>0. /\ conn[c] = "open" /\ connection_room[c] = NoRoom /\ conn' = conn
      /\ TypeOK /\ id \in RoomIds
  BY DEF handle_create_meeting, Reading, InLobby, MembershipInv, TypeOK
<1>1. CASE \E ip \in peer_ip_network(c) : create_room(c, ip)
  <2>1. PICK ip \in peer_ip_network(c) : create_room(c, ip)
    BY <1>1
  <2>2. /\ rooms' = rooms \cup {id}
        /\ wrapped' = (wrapped \/ id = RoomIdSpace - 1)
        /\ connection_room' = [connection_room EXCEPT ![c] = id]
        /\ next_room_id' = Increment(id)
        /\ outbox' = send(outbox, c, Response("CreateMeetingResponse", id))
    BY <2>1 DEF create_room
  <2>3. \/ id \in rooms /\ UNCHANGED <<participants, owner>>
        \/ /\ id \notin rooms
           /\ participants' = [participants EXCEPT ![id] = {c}]
           /\ owner' = [owner EXCEPT ![id] = c]
    BY <2>1 DEF create_room
  <2>4. \A r \in RoomIds : c \notin participants[r]
    BY <1>0, CodeType DEF MembershipInv, MembershipConsistent
  <2>5. ASSUME NEW d \in Conns, conn[d] = "closed"
        PROVE  outbox'[d] = outbox[d]
    <3>1. outbox \in [Conns -> Seq(Packet)]
      BY <1>0 DEF TypeOK
    <3> QED
      BY <1>0, <2>2, <2>5, <3>1, SendClosed
  <2>6. ClosedIsForgotten'
    <3>1. \A d \in Conns : conn[d] = "closed" =>
             d # c /\ connection_room'[d] = NoRoom /\ outbox'[d] = << >>
      BY <1>0, <2>2, <2>5 DEF MembershipInv, ClosedIsForgotten, TypeOK
    <3>2. \A d \in Conns : conn[d] = "closed" =>
             \A r \in RoomIds : d \notin participants'[r]
      <4> SUFFICES ASSUME NEW d \in Conns, conn[d] = "closed", NEW r \in RoomIds
                   PROVE  d \notin participants'[r]
        OBVIOUS
      <4>1. d # c /\ d \notin participants[r]
        BY <3>1 DEF MembershipInv, ClosedIsForgotten
      <4>2. CASE UNCHANGED <<participants, owner>>
        BY <4>1, <4>2
      <4>3. CASE participants' = [participants EXCEPT ![id] = {c}]
        BY <1>0, <4>1, <4>3 DEF TypeOK
      <4> QED
        BY <2>3, <4>2, <4>3
    <3> QED
      BY <1>0, <3>1, <3>2 DEF ClosedIsForgotten
  <2>7. MembershipConsistent'
    <3>1. ASSUME NEW r \in RoomIds, NEW d \in participants'[r]
          PROVE  r \in rooms' /\ connection_room'[d] = r
      <4>1. CASE d \in participants[r]
        BY <1>0, <2>2, <2>4, <4>1, CodeType
        DEF MembershipInv, MembershipConsistent, TypeOK
      <4>2. CASE d \notin participants[r]
        BY <1>0, <2>2, <2>3, <4>2 DEF TypeOK
      <4> QED
        BY <4>1, <4>2
    <3>2. ASSUME NEW d \in Conns, connection_room'[d] # NoRoom
          PROVE  connection_room'[d] \in rooms'
      BY <1>0, <2>2, <3>2 DEF MembershipInv, MembershipConsistent, TypeOK
    <3> QED
      BY <3>1, <3>2 DEF MembershipConsistent
  <2>8. ~wrapped' => ~wrapped /\ id \notin rooms /\ id # RoomIdSpace - 1
    <3>1. ~wrapped' => ~wrapped /\ id # RoomIdSpace - 1
      BY <2>2, Zenon
    <3>2. ~wrapped => id \notin rooms
      BY <1>0 DEF MembershipInv, IdsBelowNext, RoomIds, TypeOK
    <3> QED
      BY <3>1, <3>2
  <2>9. MappedIsParticipant'
    <3> SUFFICES ASSUME ~wrapped', NEW d \in Conns, connection_room'[d] # NoRoom
                 PROVE  d \in participants'[connection_room'[d]]
      BY DEF MappedIsParticipant
    <3>1. /\ participants' = [participants EXCEPT ![id] = {c}]
          /\ id \notin rooms /\ ~wrapped
      BY <2>3, <2>8
    <3>2. CASE d = c
      BY <1>0, <2>2, <3>1, <3>2 DEF TypeOK
    <3>3. CASE d # c
      <4>1. connection_room'[d] = connection_room[d]
        BY <1>0, <2>2, <3>3 DEF TypeOK
      <4>2. /\ connection_room[d] \in rooms
            /\ d \in participants[connection_room[d]]
        BY <4>1, <3>1
        DEF MembershipInv, MappedIsParticipant, MembershipConsistent
      <4> QED
        BY <1>0, <3>1, <4>1, <4>2 DEF TypeOK
    <3> QED
      BY <3>2, <3>3
  <2>10. IdsBelowNext'
    BY <1>0, <2>2, <2>8, ConstantsAssumption
    DEF MembershipInv, IdsBelowNext, TypeOK, RoomIds, Increment
  <2>11. OwnerPresent'
    <3> SUFFICES ASSUME NEW r \in rooms'
                 PROVE  /\ owner'[r] \in participants'[r]
                        /\ conn[owner'[r]] = "open"
      BY <1>0 DEF OwnerPresent
    <3>1. CASE r \in rooms
      BY <1>0, <2>3, <3>1 DEF MembershipInv, OwnerPresent, TypeOK
    <3>2. CASE r \notin rooms
      BY <1>0, <2>2, <2>3, <3>2 DEF TypeOK
    <3> QED
      BY <3>1, <3>2
  <2> QED
    BY <2>6, <2>7, <2>9, <2>10, <2>11 DEF Membership
<1>2. CASE outbox' = send(outbox, c, Response("CreateMeetingResponse", CodeNone))
           /\ UNCHANGED <<connection_room, rooms, participants, owner,
                          ip_network, next_room_id, wrapped>>
  <2>1. \A d \in Conns : conn[d] = "closed" => outbox'[d] = outbox[d]
    BY <1>0, <1>2, SendClosed DEF TypeOK
  <2> QED
    BY <1>0, <1>2, <2>1, QueueMembership DEF membershipVars
<1> QED
  BY <1>1, <1>2 DEF handle_create_meeting

LEMMA JoinMembership ==
    ASSUME MembershipInv, NEW c \in Conns, NEW r \in RoomIds,
           handle_join_meeting(c, r)
    PROVE  Membership'
<1>0. /\ conn[c] = "open" /\ connection_room[c] = NoRoom /\ conn' = conn /\ TypeOK
  BY DEF handle_join_meeting, Reading, InLobby, MembershipInv
<1>1. CASE \E ip \in peer_ip_network(c) : \E noticeIp \in {ip, NoAddr} :
              r \in rooms /\ join_accepted(c, r, ip, noticeIp)
  <2>1. PICK ip \in peer_ip_network(c) : \E noticeIp \in {ip, NoAddr} :
              r \in rooms /\ join_accepted(c, r, ip, noticeIp)
    BY <1>1
  <2>2. PICK noticeIp \in {ip, NoAddr} :
              r \in rooms /\ join_accepted(c, r, ip, noticeIp)
    BY <2>1
  <2>3. /\ r \in rooms
        /\ participants' = [participants EXCEPT ![r] = @ \cup {c}]
        /\ connection_room' = [connection_room EXCEPT ![c] = r]
        /\ UNCHANGED <<rooms, owner, next_room_id, wrapped>>
    BY <2>2 DEF join_accepted
  <2>4. \A d \in Conns : conn[d] = "closed" => outbox'[d] = outbox[d]
    <3> DEFINE answered == send(outbox, c, Response("JoinMeetingResponse", r))
               announced == broadcast(answered, participants[r],
                                      Notice("PartnerJoin", noticeIp))
               listed == {ip_network[d] : d \in participants[r]}
    <3>1. outbox' = send(announced, c, PartnerList(listed))
      BY <2>2 DEF join_accepted
    <3>2. answered \in [Conns -> Seq(Packet)]
      BY <1>0, ResponseType, SendType DEF TypeOK, MessageTypes
    <3>3. announced \in [Conns -> Seq(Packet)]
      <4>1. Notice("PartnerJoin", noticeIp) \in Packet
        BY PeerType, NoticeType DEF MessageTypes, Ips
      <4> HIDE DEF answered
      <4> QED
        BY <3>2, <4>1, BroadcastType
    <3>4. ASSUME NEW d \in Conns, conn[d] = "closed"
          PROVE  outbox'[d] = outbox[d]
      <4>1. answered[d] = outbox[d]
        BY <1>0, <3>4, SendClosed DEF TypeOK
      <4>2. announced[d] = answered[d]
        BY <3>4, BroadcastClosed
      <4>3. outbox'[d] = announced[d]
        <5> HIDE DEF announced, listed
        <5> QED
          BY <1>0, <3>1, <3>3, <3>4, SendClosed
      <4> QED
        BY <4>1, <4>2, <4>3
    <3> QED
      BY <3>4
  <2>5. ClosedIsForgotten'
    BY <1>0, <2>3, <2>4 DEF MembershipInv, ClosedIsForgotten, TypeOK
  <2>6. \A q \in RoomIds : c \notin participants[q]
    BY <1>0, CodeType DEF MembershipInv, MembershipConsistent
  <2>7. MembershipConsistent'
    BY <1>0, <2>3, <2>6 DEF MembershipInv, MembershipConsistent, TypeOK
  <2>8. MappedIsParticipant'
    BY <1>0, <2>3
    DEF MembershipInv, MappedIsParticipant, MembershipConsistent, TypeOK
  <2>9. IdsBelowNext' /\ OwnerPresent'
    BY <1>0, <2>3 DEF MembershipInv, IdsBelowNext, OwnerPresent, TypeOK
  <2> QED
    BY <2>5, <2>7, <2>8, <2>9 DEF Membership
<1>2. CASE /\ outbox' = send(outbox, c, Response("JoinMeetingResponse",
                                IF r \in rooms THEN CodeFull ELSE CodeNone))
           /\ UNCHANGED <<connection_room, rooms, participants, owner,
                          ip_network, next_room_id, wrapped>>
  <2>1. \A d \in Conns : conn[d] = "closed" => outbox'[d] = outbox[d]
    BY <1>0, <1>2, SendClosed DEF TypeOK
  <2> QED
    BY <1>0, <1>2, <2>1, QueueMembership DEF membershipVars
<1> QED
  BY <1>1, <1>2 DEF handle_join_meeting

LEMMA PacketMembership ==
    ASSUME MembershipInv, NEW c \in Conns, NEW t \in SentTypes,
           handle_packet(c, t)
    PROVE  Membership'
<1>1. \A d \in Conns : conn[d] = "closed" => outbox'[d] = outbox[d]
  BY BroadcastClosed DEF handle_packet
<1> QED
  BY <1>1, QueueMembership DEF handle_packet, membershipVars

LEMMA WriteMembership ==
    ASSUME MembershipInv, NEW c \in Conns, do_write(c)
    PROVE  Membership'
<1>1. \A d \in Conns : conn[d] = "closed" => outbox'[d] = outbox[d]
  BY DEF do_write, MembershipInv, TypeOK
<1> QED
  BY <1>1, QueueMembership DEF do_write, membershipVars

\* The close of a connection that is in no room.
LEMMA OutsiderMembership ==
    ASSUME MembershipInv, NEW c \in Conns, conn[c] = "open",
           close_outsider(c), UNCHANGED <<next_room_id, wrapped>>
    PROVE  Membership'
<1>1. /\ TypeOK
      /\ conn' = [d \in Conns |-> IF d \in {c} THEN "closed" ELSE conn[d]]
      /\ connection_room' =
            [d \in Conns |-> IF d \in {c} THEN NoRoom ELSE connection_room[d]]
      /\ outbox' = [outbox EXCEPT ![c] = << >>]
      /\ UNCHANGED <<rooms, participants, owner, next_room_id, wrapped>>
  BY DEF close_outsider, Forget, MembershipInv
<1>2. \A r \in RoomIds : c \notin participants[r]
  BY CodeType DEF close_outsider, IsParticipant, InLobby, MembershipInv,
                  MembershipConsistent
<1>3. ClosedIsForgotten'
  BY <1>1, <1>2 DEF MembershipInv, ClosedIsForgotten, TypeOK
<1>4. MembershipConsistent'
  BY <1>1, <1>2 DEF MembershipInv, MembershipConsistent, TypeOK
<1>5. MappedIsParticipant'
  BY <1>1, <1>2 DEF MembershipInv, MappedIsParticipant, TypeOK
<1>6. IdsBelowNext' /\ OwnerPresent'
  BY <1>1, <1>2 DEF MembershipInv, IdsBelowNext, OwnerPresent, TypeOK
<1> QED
  BY <1>3, <1>4, <1>5, <1>6 DEF Membership

\* A member leaves: nobody else is affected.
LEMMA LeaveMembership ==
    ASSUME MembershipInv, NEW c \in Conns, conn[c] = "open",
           remove_participant(c), UNCHANGED <<next_room_id, wrapped>>
    PROVE  Membership'
<1> DEFINE r == connection_room[c]
           rest == participants[r] \ {c}
           p == Notice("PartnerExit", ip_network[c])
<1>1. /\ TypeOK
      /\ conn' = [d \in Conns |-> IF d \in {c} THEN "closed" ELSE conn[d]]
      /\ connection_room' =
            [d \in Conns |-> IF d \in {c} THEN NoRoom ELSE connection_room[d]]
      /\ participants' = [participants EXCEPT ![r] = rest]
      /\ outbox' = broadcast([outbox EXCEPT ![c] = << >>], rest, p)
      /\ UNCHANGED <<rooms, owner, next_room_id, wrapped>>
      /\ c # owner[r]
  BY DEF remove_participant, Forget, MembershipInv
<1>2. r \in RoomIds /\ c \in participants[r]
  BY DEF remove_participant, IsParticipant, InLobby, MembershipInv, TypeOK
<1>3. \A q \in RoomIds : /\ participants'[q] \subseteq participants[q]
                         /\ c \notin participants'[q]
                         /\ participants[q] \subseteq participants'[q] \cup {c}
  <2>1. \A q \in RoomIds : q # r => c \notin participants[q]
    BY DEF MembershipInv, MembershipConsistent
  <2> HIDE DEF r
  <2> QED
    BY <1>1, <1>2, <2>1 DEF TypeOK
<1>4. ASSUME NEW d \in Conns, conn'[d] = "closed"
      PROVE  outbox'[d] = << >>
  <2>1. d \notin rest \/ conn[d] = "closed"
    BY <1>1, <1>4 DEF TypeOK
  <2>2. outbox'[d] = [outbox EXCEPT ![c] = << >>][d]
    <3> HIDE DEF p, rest
    <3> QED
      BY <1>1, <2>1 DEF broadcast
  <2>3. d = c \/ conn[d] = "closed"
    BY <1>1, <1>4 DEF TypeOK
  <2> QED
    BY <1>1, <2>2, <2>3 DEF MembershipInv, ClosedIsForgotten, TypeOK
<1> HIDE DEF r, rest, p
<1>5. ClosedIsForgotten'
  <2> SUFFICES ASSUME NEW d \in Conns, conn'[d] = "closed"
               PROVE  /\ connection_room'[d] = NoRoom
                      /\ \A q \in RoomIds : d \notin participants'[q]
    BY <1>4 DEF ClosedIsForgotten
  <2>1. CASE d = c
    BY <1>1, <1>3, <2>1
  <2>2. CASE d # c
    <3>1. conn[d] = "closed" /\ connection_room'[d] = connection_room[d]
      BY <1>1, <2>2
    <3>2. connection_room[d] = NoRoom /\ \A q \in RoomIds : d \notin participants[q]
      BY <3>1 DEF MembershipInv, ClosedIsForgotten
    <3> QED
      BY <1>3, <3>1, <3>2
  <2> QED
    BY <2>1, <2>2
<1>6. MembershipConsistent'
  BY <1>1, <1>3 DEF MembershipInv, MembershipConsistent, TypeOK
<1>7. MappedIsParticipant'
  BY <1>1, <1>3 DEF MembershipInv, MappedIsParticipant, TypeOK
<1>8. IdsBelowNext'
  BY <1>1 DEF MembershipInv, IdsBelowNext
<1>9. OwnerPresent'
  <2> SUFFICES ASSUME NEW q \in rooms
               PROVE  /\ owner[q] \in participants'[q]
                      /\ conn'[owner[q]] = "open"
    BY <1>1 DEF OwnerPresent
  <2>1. /\ owner[q] \in participants[q] /\ conn[owner[q]] = "open"
        /\ connection_room[owner[q]] = q /\ q \in RoomIds /\ owner[q] \in Conns
    BY DEF MembershipInv, OwnerPresent, MembershipConsistent, TypeOK
  <2>2. owner[q] # c
    BY <1>1, <2>1 DEF r
  <2> QED
    BY <1>1, <1>3, <2>1, <2>2
<1> QED
  BY <1>5, <1>6, <1>7, <1>8, <1>9 DEF Membership

\* The owner leaves and takes the room along: exactly the connections mapped
\* to it were its participants or lose their mapping.
LEMMA CloseRoomMembership ==
    ASSUME MembershipInv, NEW c \in Conns,
           close_room(c), UNCHANGED <<next_room_id, wrapped>>
    PROVE  Membership'
<1> DEFINE r == connection_room[c]
           mapped == {d \in Conns : connection_room[d] = r}
<1>1. /\ TypeOK
      /\ conn' = [d \in Conns |->
                    IF d \in participants[r] THEN "closed" ELSE conn[d]]
      /\ connection_room' =
            [d \in Conns |-> IF d \in mapped THEN NoRoom ELSE connection_room[d]]
      /\ participants' = [participants EXCEPT ![r] = {}]
      /\ rooms' = rooms \ {r}
      /\ outbox' = [d \in Conns |->
                      IF d \in participants[r] THEN << >> ELSE outbox[d]]
      /\ owner' = [owner EXCEPT ![r] = NoConn]
      /\ UNCHANGED <<next_room_id, wrapped>>
  BY DEF close_room, Forget, MembershipInv
<1>2. r \in RoomIds
  BY DEF close_room, IsParticipant, InLobby, MembershipInv, TypeOK
<1>3. /\ participants[r] \subseteq mapped
      /\ \A q \in RoomIds : q # r => participants[q] \cap mapped = {}
  BY <1>2 DEF MembershipInv, MembershipConsistent, TypeOK
<1>4. /\ participants'[r] = {} /\ owner'[r] = NoConn
      /\ \A q \in RoomIds : q # r => /\ participants'[q] = participants[q]
                                     /\ owner'[q] = owner[q]
  <2> HIDE DEF r
  <2> QED
    BY <1>1, <1>2 DEF TypeOK
<1>5. \A d \in mapped : connection_room[d] = r
  OBVIOUS
<1>6. \A d \in Conns \ mapped : connection_room[d] # r
  OBVIOUS
<1> HIDE DEF r, mapped
<1>7. ClosedIsForgotten'
  <2> SUFFICES ASSUME NEW d \in Conns, conn'[d] = "closed"
               PROVE  /\ connection_room'[d] = NoRoom
                      /\ \A q \in RoomIds : d \notin participants'[q]
                      /\ outbox'[d] = << >>
    BY DEF ClosedIsForgotten
  <2>1. CASE d \in participants[r]
    BY <1>1, <1>3, <1>4, <2>1
  <2>2. CASE d \notin participants[r]
    <3>1. conn[d] = "closed"
      BY <1>1, <2>2
    <3>2. /\ connection_room[d] = NoRoom /\ outbox[d] = << >>
          /\ \A q \in RoomIds : d \notin participants[q]
      BY <3>1 DEF MembershipInv, ClosedIsForgotten
    <3> QED
      BY <1>1, <1>4, <2>2, <3>2
  <2> QED
    BY <2>1, <2>2
<1>8. MembershipConsistent'
  <2>1. ASSUME NEW q \in RoomIds, NEW d \in participants'[q]
        PROVE  q \in rooms' /\ connection_room'[d] = q
    <3>1. q # r /\ d \in participants[q]
      BY <1>4, <2>1
    <3>2. q \in rooms /\ connection_room[d] = q /\ d \in Conns /\ d \notin mapped
      BY <1>3, <3>1 DEF MembershipInv, MembershipConsistent, TypeOK
    <3> QED
      BY <1>1, <3>1, <3>2
  <2>2. ASSUME NEW d \in Conns, connection_room'[d] # NoRoom
        PROVE  connection_room'[d] \in rooms'
    <3>1. d \notin mapped /\ connection_room'[d] = connection_room[d]
      BY <1>1, <2>2
    <3> QED
      BY <1>1, <1>6, <2>2, <3>1 DEF MembershipInv, MembershipConsistent
  <2> QED
    BY <2>1, <2>2 DEF MembershipConsistent
<1>9. MappedIsParticipant'
  <2> SUFFICES ASSUME ~wrapped, NEW d \in Conns, connection_room'[d] # NoRoom
               PROVE  d \in participants'[connection_room'[d]]
    BY <1>1 DEF MappedIsParticipant
  <2>1. d \notin mapped /\ connection_room'[d] = connection_room[d]
    BY <1>1
  <2>2. /\ d \in participants[connection_room[d]] /\ connection_room[d] # r
        /\ connection_room[d] \in RoomIds
    BY <1>6, <2>1 DEF MembershipInv, MappedIsParticipant, TypeOK
  <2> QED
    BY <1>4, <2>1, <2>2
<1>10. IdsBelowNext'
  BY <1>1 DEF MembershipInv, IdsBelowNext
<1>11. OwnerPresent'
  <2> SUFFICES ASSUME NEW q \in rooms'
               PROVE  /\ owner'[q] \in participants'[q]
                      /\ conn'[owner'[q]] = "open"
    BY DEF OwnerPresent
  <2>1. q \in rooms /\ q # r /\ q \in RoomIds
    BY <1>1 DEF TypeOK
  <2>2. /\ owner[q] \in participants[q] /\ conn[owner[q]] = "open"
        /\ owner[q] \in Conns
    BY <2>1 DEF MembershipInv, OwnerPresent, TypeOK
  <2>3. owner[q] \notin participants[r]
    BY <1>3, <2>1, <2>2
  <2> QED
    BY <1>1, <1>4, <2>1, <2>2, <2>3
<1> QED
  BY <1>7, <1>8, <1>9, <1>10, <1>11 DEF Membership

LEMMA StepMembership == MembershipInv /\ [Next]_serverVars => MembershipInv'
<1> SUFFICES ASSUME MembershipInv, [Next]_serverVars PROVE MembershipInv'
  OBVIOUS
<1>1. TypeOK'
  BY StepType DEF MembershipInv
<1>2. Membership'
  <2>1. CASE UNCHANGED serverVars
    BY <2>1 DEF serverVars, MembershipInv, Membership, ClosedIsForgotten,
                MembershipConsistent, MappedIsParticipant, IdsBelowNext,
                OwnerPresent
  <2>2. CASE Next
    <3>1. PICK c \in Conns : ServerStep(c) \/ do_write(c)
      BY <2>2 DEF Next
    <3>2. CASE on_new_connection(c)
      BY <3>2, ConnectMembership
    <3>3. CASE handle_create_meeting(c)
      BY <3>3, CreateMembership
    <3>4. CASE \E r \in RoomIds : handle_join_meeting(c, r)
      BY <3>4, JoinMembership
    <3>5. CASE \E t \in SentTypes : handle_packet(c, t)
      BY <3>5, PacketMembership
    <3>6. CASE conn[c] = "open" /\ CloseEffect(c)
      BY <3>6, OutsiderMembership, LeaveMembership, CloseRoomMembership
      DEF CloseEffect
    <3>7. CASE do_write(c)
      BY <3>7, WriteMembership
    <3> QED
      BY <3>1, <3>2, <3>3, <3>4, <3>5, <3>6, <3>7
      DEF ServerStep, connection_lost, read_invalid, handle_unexpected_lobby,
          Reading
  <2> QED
    BY <2>1, <2>2
<1> QED
  BY <1>1, <1>2 DEF MembershipInv, Membership

LEMMA MembershipInvariant == Spec => []MembershipInv
<1>1. Init => MembershipInv
  BY InitType, InitMembership DEF MembershipInv, Membership
<1> QED
  BY <1>1, StepMembership, PTL DEF Spec

\* A closed connection, alone or with its room, is left behind nowhere.
THEOREM ClosedForgotten == Spec => []ClosedIsForgotten
<1>1. MembershipInv => ClosedIsForgotten
  BY DEF MembershipInv
<1> QED
  BY <1>1, MembershipInvariant, PTL

\* _connection_room and the participants of the rooms agree.
THEOREM MembershipAgrees == Spec => []MembershipConsistent
<1>1. MembershipInv => MembershipConsistent
  BY DEF MembershipInv
<1> QED
  BY <1>1, MembershipInvariant, PTL

\* Until the id counter overflows, who is mapped to a room is in it.
THEOREM MappedParticipates == Spec => []MappedIsParticipant
<1>1. MembershipInv => MappedIsParticipant
  BY DEF MembershipInv
<1> QED
  BY <1>1, MembershipInvariant, PTL

\* A meeting never outlives its owner.
THEOREM OwnerStays == Spec => []OwnerPresent
<1>1. MembershipInv => OwnerPresent
  BY DEF MembershipInv
<1> QED
  BY <1>1, MembershipInvariant, PTL

-----------------------------------------------------------------------------
(***************************************************************************)
(* Capacity.                                                               *)
(***************************************************************************)
CapacityInv == MembershipInv /\ WithinCapacity

LEMMA Finite ==
    ASSUME TypeOK
    PROVE  /\ IsFiniteSet(rooms)
           /\ \A r \in RoomIds : IsFiniteSet(participants[r])
<1>1. IsFiniteSet(RoomIds)
  BY ConstantsAssumption, FS_Interval DEF RoomIds
<1>2. IsFiniteSet(rooms)
  BY <1>1, FS_Subset DEF TypeOK
<1>3. ASSUME NEW r \in RoomIds PROVE IsFiniteSet(participants[r])
  BY ConstantsAssumption, FS_Subset DEF TypeOK
<1> QED
  BY <1>2, <1>3

\* A step that adds nobody to a room and no room.
LEMMA ShrinkCapacity ==
    ASSUME CapacityInv, rooms' \subseteq rooms,
           \A r \in RoomIds : participants'[r] \subseteq participants[r]
    PROVE  WithinCapacity'
<1>1. Cardinality(rooms') <= Cardinality(rooms) /\ Cardinality(rooms') \in Nat
      /\ Cardinality(rooms) \in Nat
  BY Finite, FS_Subset, FS_CardinalityType DEF CapacityInv, MembershipInv
<1>2. ASSUME NEW r \in RoomIds
      PROVE  Cardinality(participants'[r]) <= MaxParticipants
  <2>1. IsFiniteSet(participants[r])
    BY Finite DEF CapacityInv, MembershipInv
  <2>2. /\ Cardinality(participants'[r]) <= Cardinality(participants[r])
        /\ IsFiniteSet(participants'[r])
    BY <2>1, FS_Subset
  <2>3. /\ Cardinality(participants[r]) \in Nat
        /\ Cardinality(participants'[r]) \in Nat
    BY <2>1, <2>2, FS_CardinalityType
  <2>4. Cardinality(participants[r]) <= MaxParticipants
    BY DEF CapacityInv, WithinCapacity
  <2> QED
    BY <2>2, <2>3, <2>4, ConstantsAssumption
<1> QED
  BY <1>1, <1>2, ConstantsAssumption DEF CapacityInv, WithinCapacity

LEMMA CreateCapacity ==
    ASSUME CapacityInv, NEW c \in Conns, handle_create_meeting(c)
    PROVE  WithinCapacity'
<1>1. CASE Cardinality(rooms) < MaxRooms /\ \E ip : create_room(c, ip)
  <2>1. PICK ip : create_room(c, ip)
    BY <1>1
  <2> DEFINE id == next_room_id
  <2>2. rooms' = rooms \cup {id}
    BY <2>1 DEF create_room
  <2>3. Cardinality(rooms') <= MaxRooms
    <3>1. IsFiniteSet(rooms) /\ Cardinality(rooms) \in Nat
      BY Finite, FS_CardinalityType DEF CapacityInv, MembershipInv
    <3>2. \/ Cardinality(rooms') = Cardinality(rooms)
          \/ Cardinality(rooms') = Cardinality(rooms) + 1
      BY <2>2, <3>1, FS_AddElement
    <3> QED
      BY <1>1, <3>1, <3>2, ConstantsAssumption
  <2>4. ASSUME NEW r \in RoomIds
        PROVE  Cardinality(participants'[r]) <= MaxParticipants
    <3>1. participants'[r] = participants[r] \/ participants'[r] = {c}
      <4>1. CASE id \in rooms
        BY <2>1, <4>1 DEF create_room
      <4>2. CASE id \notin rooms
        <5>1. participants' = [participants EXCEPT ![id] = {c}]
          BY <2>1, <4>2 DEF create_room
        <5> QED
          BY <5>1 DEF CapacityInv, MembershipInv, TypeOK
      <4> QED
        BY <4>1, <4>2
    <3>2. Cardinality({c}) = 1
      BY FS_Singleton
    <3> QED
      BY <3>1, <3>2, ConstantsAssumption DEF CapacityInv, WithinCapacity
  <2> QED
    BY <2>3, <2>4 DEF WithinCapacity
<1>2. CASE UNCHANGED <<rooms, participants>>
  BY <1>2, ShrinkCapacity
<1> QED
  BY <1>1, <1>2 DEF handle_create_meeting

LEMMA JoinCapacity ==
    ASSUME CapacityInv, NEW c \in Conns, NEW r \in RoomIds,
           handle_join_meeting(c, r)
    PROVE  WithinCapacity'
<1>1. CASE /\ Cardinality(participants[r]) < MaxParticipants
           /\ participants' = [participants EXCEPT ![r] = @ \cup {c}]
           /\ rooms' = rooms
  <2>1. ASSUME NEW q \in RoomIds
        PROVE  Cardinality(participants'[q]) <= MaxParticipants
    <3>1. CASE q # r
      <4>1. participants'[q] = participants[q]
        BY <1>1, <3>1 DEF CapacityInv, MembershipInv, TypeOK
      <4> QED
        BY <4>1 DEF CapacityInv, WithinCapacity
    <3>2. CASE q = r
      <4>1. participants'[q] = participants[r] \cup {c}
        BY <1>1, <3>2 DEF CapacityInv, MembershipInv, TypeOK
      <4>2. IsFiniteSet(participants[r]) /\ Cardinality(participants[r]) \in Nat
        BY Finite, FS_CardinalityType DEF CapacityInv, MembershipInv
      <4>3. \/ Cardinality(participants'[q]) = Cardinality(participants[r])
            \/ Cardinality(participants'[q]) = Cardinality(participants[r]) + 1
        BY <4>1, <4>2, FS_AddElement
      <4> QED
        BY <1>1, <4>2, <4>3, ConstantsAssumption
    <3> QED
      BY <3>1, <3>2
  <2> QED
    BY <1>1, <2>1 DEF CapacityInv, WithinCapacity
<1>2. CASE UNCHANGED <<rooms, participants>>
  BY <1>2, ShrinkCapacity
<1> QED
  BY <1>1, <1>2 DEF handle_join_meeting, join_accepted

LEMMA CloseCapacity ==
    ASSUME CapacityInv, NEW c \in Conns, CloseEffect(c)
    PROVE  WithinCapacity'
<1>1. rooms' \subseteq rooms
  BY DEF CloseEffect, close_outsider, remove_participant, close_room
<1>2. ASSUME NEW r \in RoomIds PROVE participants'[r] \subseteq participants[r]
  <2>1. CASE close_outsider(c)
    BY <2>1 DEF close_outsider
  <2>2. CASE remove_participant(c)
    BY <2>2 DEF remove_participant, CapacityInv, MembershipInv, TypeOK
  <2>3. CASE close_room(c)
    BY <2>3 DEF close_room, CapacityInv, MembershipInv, TypeOK
  <2> QED
    BY <2>1, <2>2, <2>3 DEF CloseEffect
<1> QED
  BY <1>1, <1>2, ShrinkCapacity

LEMMA StepCapacity == CapacityInv /\ [Next]_serverVars => CapacityInv'
<1> SUFFICES ASSUME CapacityInv, [Next]_serverVars PROVE WithinCapacity'
  BY StepMembership DEF CapacityInv
<1>1. CASE UNCHANGED <<rooms, participants>>
  BY <1>1, ShrinkCapacity
<1>2. CASE Next
  <2>1. PICK c \in Conns : ServerStep(c) \/ do_write(c)
    BY <1>2 DEF Next
  <2>2. CASE handle_create_meeting(c)
    BY <2>2, CreateCapacity
  <2>3. CASE \E r \in RoomIds : handle_join_meeting(c, r)
    BY <2>3, JoinCapacity
  <2>4. CASE CloseEffect(c)
    BY <2>4, CloseCapacity
  <2> QED
    BY <2>1, <1>1, <2>2, <2>3, <2>4
    DEF ServerStep, on_new_connection, handle_packet, do_write,
        connection_lost, read_invalid, handle_unexpected_lobby
<1> QED
  BY <1>1, <1>2 DEF serverVars

\* No order of creations, joins and closes exceeds max_rooms or
\* max_participants_per_room.
THEOREM CapacityHolds == Spec => []WithinCapacity
<1>1. Init => CapacityInv
  <2> SUFFICES ASSUME Init PROVE WithinCapacity
    BY InitType, InitMembership DEF CapacityInv, MembershipInv, Membership
  <2>1. Cardinality({}) = 0
    BY FS_EmptySet
  <2> QED
    BY <2>1, ConstantsAssumption DEF Init, WithinCapacity
<1>2. CapacityInv => WithinCapacity
  BY DEF CapacityInv
<1> QED
  BY <1>1, <1>2, StepCapacity, PTL DEF Spec
-----------------------------------------------------------------------------
(***************************************************************************)
(* Simulation.                                                             *)
(***************************************************************************)
\* The refinement mapping of M, under names of its own.
Online == {c \in Conns : conn[c] = "open"}
MeetingOf(c) == IF IsParticipant(c) THEN owner[connection_room[c]] ELSE NoConn
MeetingMap == [c \in Conns |-> MeetingOf(c)]

\* A participant of r attends the meeting of r's owner, and nobody else does.
LEMMA AttendingIsRoom ==
    ASSUME MembershipInv, NEW r \in rooms
    PROVE  /\ {u \in Conns : MeetingMap[u] = owner[r]} = participants[r]
           /\ owner[r] \in Conns /\ MeetingMap[owner[r]] = owner[r]
           /\ IsParticipant(owner[r])
<1>1. /\ r \in RoomIds /\ owner[r] \in participants[r] /\ owner[r] \in Conns
      /\ owner[r] # NoConn
  BY ConstantsAssumption DEF MembershipInv, OwnerPresent, TypeOK
<1>2. ASSUME NEW u \in participants[r]
      PROVE  u \in Conns /\ IsParticipant(u) /\ MeetingMap[u] = owner[r]
  <2>1. u \in Conns /\ connection_room[u] = r
    BY <1>1 DEF MembershipInv, MembershipConsistent, TypeOK
  <2> QED
    BY <1>1, <2>1, CodeType DEF MeetingMap, MeetingOf, IsParticipant, InLobby
<1>3. ASSUME NEW u \in Conns, MeetingMap[u] = owner[r]
      PROVE  u \in participants[r]
  <2>1. IsParticipant(u) /\ owner[connection_room[u]] = owner[r]
    BY <1>1, <1>3 DEF MeetingMap, MeetingOf
  <2>2. /\ connection_room[u] \in RoomIds /\ u \in participants[connection_room[u]]
    BY <2>1 DEF IsParticipant, InLobby, MembershipInv, TypeOK
  <2>3. connection_room[u] \in rooms
    BY <2>2 DEF MembershipInv, MembershipConsistent
  <2>4. owner[connection_room[u]] \in participants[connection_room[u]]
    BY <2>3 DEF MembershipInv, OwnerPresent
  <2>5. connection_room[u] = r
    BY <1>1, <2>1, <2>2, <2>4 DEF MembershipInv, MembershipConsistent
  <2> QED
    BY <2>2, <2>5
<1> QED
  BY <1>1, <1>2, <1>3

\* There are no more hosts than rooms.
LEMMA HostsAreOwners ==
    ASSUME MembershipInv
    PROVE  /\ \A h \in Conns : MeetingMap[h] = h =>
                 IsParticipant(h) /\ owner[connection_room[h]] = h
           /\ Cardinality({h \in Conns : MeetingMap[h] = h}) <= Cardinality(rooms)
<1> DEFINE hosts == {h \in Conns : MeetingMap[h] = h}
           f == [h \in hosts |-> connection_room[h]]
<1>1. ASSUME NEW h \in Conns, MeetingMap[h] = h
      PROVE  IsParticipant(h) /\ owner[connection_room[h]] = h
  BY <1>1, ConstantsAssumption DEF MeetingMap, MeetingOf
<1>2. ASSUME NEW h \in hosts
      PROVE  connection_room[h] \in rooms /\ owner[connection_room[h]] = h
  BY <1>1 DEF IsParticipant, InLobby, MembershipInv, MembershipConsistent
<1>3. f \in Injection(hosts, rooms)
  <2>1. f \in [hosts -> rooms]
    BY <1>2
  <2>2. \A g, h \in hosts : f[g] = f[h] => g = h
    BY <1>2
  <2> HIDE DEF hosts, f
  <2> QED
    BY <2>1, <2>2 DEF Injection, IsInjective
<1>4. IsFiniteSet(rooms)
  BY Finite DEF MembershipInv
<1>5. Cardinality(hosts) <= Cardinality(rooms)
  <2> HIDE DEF hosts, f
  <2> QED
    BY <1>3, <1>4, FS_Injection
<1> QED
  BY <1>1, <1>5

\* A connection keeps its meeting when its room, the room's owner and its own
\* participation stay as they are.
LEMMA SameMeeting ==
    ASSUME NEW c \in Conns, connection_room'[c] = connection_room[c],
           ~InLobby(c) =>
             /\ participants'[connection_room[c]] = participants[connection_room[c]]
             /\ owner'[connection_room[c]] = owner[connection_room[c]]
    PROVE  MeetingOf(c)' = MeetingOf(c)
BY DEF MeetingOf, IsParticipant, InLobby

\* Meetings counts as this module does.
LEMMA SameCardinality == \A S : M!Cardinality(S) = Cardinality(S)
BY DEF M!Cardinality, Cardinality, M!IsFiniteSet, IsFiniteSet

\* The steps of Meetings, in terms of the mapping.
LEMMA ConnectStep ==
    ASSUME NEW c \in Conns, c \notin Online,
           Online' = Online \cup {c}, MeetingMap' = MeetingMap
    PROVE  M!Connect(c)
BY DEF M!Connect, Online, MeetingMap, MeetingOf

LEMMA HostStep ==
    ASSUME NEW c \in Conns, c \in Online, MeetingMap[c] = NoConn,
           Cardinality({h \in Conns : MeetingMap[h] = h}) < MaxRooms,
           Online' = Online, MeetingMap' = [MeetingMap EXCEPT ![c] = c]
    PROVE  M!Host(c)
BY SameCardinality DEF M!Host, M!Hosts, Online, MeetingMap, MeetingOf

LEMMA AttendStep ==
    ASSUME NEW c \in Conns, NEW h \in Conns, c \in Online,
           MeetingMap[c] = NoConn, MeetingMap[h] = h,
           Cardinality({u \in Conns : MeetingMap[u] = h}) < MaxParticipants,
           Online' = Online, MeetingMap' = [MeetingMap EXCEPT ![c] = h]
    PROVE  M!Attend(c, h)
BY SameCardinality DEF M!Attend, M!Hosts, M!Attending, Online, MeetingMap, MeetingOf

LEMMA DisconnectStep ==
    ASSUME NEW c \in Conns, c \in Online,
           NEW gone \in SUBSET Conns,
           gone = IF MeetingMap[c] = c
                  THEN {u \in Conns : MeetingMap[u] = c} ELSE {c},
           Online' = Online \ gone,
           MeetingMap' = [d \in Conns |->
                             IF d \in gone THEN NoConn ELSE MeetingMap[d]]
    PROVE  M!Disconnect(c)
BY DEF M!Disconnect, M!Hosts, M!Attending, Online, MeetingMap, MeetingOf

LEMMA Stutter ==
    ASSUME UNCHANGED <<Online, MeetingMap>>
    PROVE  UNCHANGED M!meetingVars
BY DEF M!meetingVars, Online, MeetingMap, MeetingOf

LEMMA CreateSimulates ==
    ASSUME CapacityInv, NEW c \in Conns, handle_create_meeting(c)
    PROVE  M!Host(c) \/ UNCHANGED M!meetingVars
<1>0. /\ TypeOK /\ MembershipInv /\ conn' = conn /\ Online' = Online
      /\ c \in Online /\ connection_room[c] = NoRoom
      /\ next_room_id \in RoomIds
  BY DEF CapacityInv, MembershipInv, TypeOK, handle_create_meeting, Reading,
         InLobby, Online
<1> DEFINE id == next_room_id
<1>1. CASE /\ Cardinality(rooms) < MaxRooms
           /\ \E ip : create_room(c, ip)
           /\ id \notin rooms
  <2>1. /\ connection_room' = [connection_room EXCEPT ![c] = id]
        /\ participants' = [participants EXCEPT ![id] = {c}]
        /\ owner' = [owner EXCEPT ![id] = c]
    BY <1>1 DEF create_room
  <2>2. MeetingOf(c)' = c
    BY <1>0, <2>1, CodeType DEF MeetingOf, IsParticipant, InLobby, TypeOK
  <2>3. ASSUME NEW d \in Conns, d # c PROVE MeetingOf(d)' = MeetingOf(d)
    <3>1. connection_room'[d] = connection_room[d]
      BY <1>0, <2>1, <2>3 DEF TypeOK
    <3>2. ~InLobby(d) => connection_room[d] # id
      BY <1>0, <1>1 DEF MembershipInv, MembershipConsistent, InLobby
    <3>3. ~InLobby(d) => connection_room[d] \in RoomIds
      BY <1>0 DEF InLobby, TypeOK
    <3> QED
      BY <1>0, <2>1, <3>1, <3>2, <3>3, SameMeeting DEF TypeOK
  <2>4. MeetingMap' = [MeetingMap EXCEPT ![c] = c]
    BY <2>2, <2>3 DEF MeetingMap
  <2>5. MeetingMap[c] = NoConn
    BY <1>0 DEF MeetingMap, MeetingOf, IsParticipant, InLobby
  <2>6. Cardinality({h \in Conns : MeetingMap[h] = h}) < MaxRooms
    <3>1. /\ Cardinality({h \in Conns : MeetingMap[h] = h}) <= Cardinality(rooms)
          /\ IsFiniteSet({h \in Conns : MeetingMap[h] = h})
      BY <1>0, HostsAreOwners, FS_Subset, ConstantsAssumption
    <3>2. /\ Cardinality({h \in Conns : MeetingMap[h] = h}) \in Nat
          /\ Cardinality(rooms) \in Nat
      BY <1>0, <3>1, Finite, FS_CardinalityType
    <3> QED
      BY <1>1, <3>1, <3>2, ConstantsAssumption
  <2> QED
    BY <1>0, <2>4, <2>5, <2>6, HostStep
<1>2. CASE (\E ip : create_room(c, ip)) /\ id \in rooms
  <2>1. /\ connection_room' = [connection_room EXCEPT ![c] = id]
        /\ UNCHANGED <<participants, owner>>
    BY <1>2 DEF create_room
  <2>2. MeetingOf(c)' = MeetingOf(c)
    <3>1. c \notin participants[id]
      BY <1>0, CodeType DEF MembershipInv, MembershipConsistent
    <3> QED
      BY <1>0, <2>1, <3>1 DEF MeetingOf, IsParticipant, InLobby, TypeOK
  <2>3. ASSUME NEW d \in Conns, d # c PROVE MeetingOf(d)' = MeetingOf(d)
    BY <1>0, <2>1, <2>3, SameMeeting DEF TypeOK
  <2>4. MeetingMap' = MeetingMap
    BY <2>2, <2>3 DEF MeetingMap
  <2> QED
    BY <1>0, <2>4, Stutter
<1>3. CASE UNCHANGED <<connection_room, participants, owner>>
  <2>1. MeetingMap' = MeetingMap
    BY <1>3 DEF MeetingMap, MeetingOf, IsParticipant, InLobby
  <2> QED
    BY <1>0, <2>1, Stutter
<1> QED
  BY <1>1, <1>2, <1>3 DEF handle_create_meeting

LEMMA JoinSimulates ==
    ASSUME CapacityInv, NEW c \in Conns, NEW r \in RoomIds,
           handle_join_meeting(c, r)
    PROVE  (\E h \in Conns : M!Attend(c, h)) \/ UNCHANGED M!meetingVars
<1>0. /\ TypeOK /\ MembershipInv /\ conn' = conn /\ Online' = Online
      /\ c \in Online /\ connection_room[c] = NoRoom
  BY DEF CapacityInv, MembershipInv, TypeOK, handle_join_meeting, Reading,
         InLobby, Online
<1>1. CASE /\ r \in rooms /\ Cardinality(participants[r]) < MaxParticipants
           /\ participants' = [participants EXCEPT ![r] = @ \cup {c}]
           /\ connection_room' = [connection_room EXCEPT ![c] = r]
           /\ owner' = owner
  <2>1. MeetingOf(c)' = owner[r]
    BY <1>0, <1>1, CodeType DEF MeetingOf, IsParticipant, InLobby, TypeOK
  <2>2. ASSUME NEW d \in Conns, d # c PROVE MeetingOf(d)' = MeetingOf(d)
    <3>1. connection_room'[d] = connection_room[d]
      BY <1>0, <1>1, <2>2 DEF TypeOK
    <3>2. ASSUME NEW q \in RoomIds
          PROVE  d \in participants'[q] <=> d \in participants[q]
      BY <1>0, <1>1, <2>2 DEF TypeOK
    <3>3. ~InLobby(d) => connection_room[d] \in RoomIds
      BY <1>0 DEF InLobby, TypeOK
    <3> QED
      BY <1>1, <3>1, <3>2, <3>3 DEF MeetingOf, IsParticipant, InLobby
  <2>3. MeetingMap' = [MeetingMap EXCEPT ![c] = owner[r]]
    BY <2>1, <2>2 DEF MeetingMap
  <2>4. MeetingMap[c] = NoConn
    BY <1>0 DEF MeetingMap, MeetingOf, IsParticipant, InLobby
  <2>5. /\ owner[r] \in Conns /\ MeetingMap[owner[r]] = owner[r]
        /\ Cardinality({u \in Conns : MeetingMap[u] = owner[r]}) < MaxParticipants
    BY <1>0, <1>1, AttendingIsRoom
  <2> QED
    BY <1>0, <2>3, <2>4, <2>5, AttendStep
<1>2. CASE UNCHANGED <<connection_room, participants, owner>>
  <2>1. MeetingMap' = MeetingMap
    BY <1>2 DEF MeetingMap, MeetingOf, IsParticipant, InLobby
  <2> QED
    BY <1>0, <2>1, Stutter
<1> QED
  BY <1>1, <1>2 DEF handle_join_meeting, join_accepted

LEMMA CloseSimulates ==
    ASSUME CapacityInv, NEW c \in Conns, conn[c] = "open", CloseEffect(c)
    PROVE  M!Disconnect(c)
<1>0. TypeOK /\ MembershipInv /\ c \in Online
  BY DEF CapacityInv, MembershipInv, Online
<1>1. CASE close_outsider(c)
  <2>1. /\ conn' = [d \in Conns |-> IF d \in {c} THEN "closed" ELSE conn[d]]
        /\ connection_room' =
              [d \in Conns |-> IF d \in {c} THEN NoRoom ELSE connection_room[d]]
        /\ UNCHANGED <<participants, owner>> /\ ~IsParticipant(c)
    BY <1>1 DEF close_outsider, Forget
  <2>2. Online' = Online \ {c}
    BY <2>1 DEF Online
  <2>3. MeetingOf(c)' = NoConn /\ MeetingMap[c] # c
    BY <2>1, ConstantsAssumption
    DEF MeetingMap, MeetingOf, IsParticipant, InLobby
  <2>4. ASSUME NEW d \in Conns, d # c PROVE MeetingOf(d)' = MeetingOf(d)
    BY <2>1, <2>4, SameMeeting
  <2>5. MeetingMap' = [d \in Conns |->
                          IF d \in {c} THEN NoConn ELSE MeetingMap[d]]
    BY <2>3, <2>4 DEF MeetingMap
  <2> QED
    BY <1>0, <2>2, <2>3, <2>5, DisconnectStep
<1>2. CASE remove_participant(c)
  <2> DEFINE r == connection_room[c]
  <2>1. /\ conn' = [d \in Conns |-> IF d \in {c} THEN "closed" ELSE conn[d]]
        /\ connection_room' =
              [d \in Conns |-> IF d \in {c} THEN NoRoom ELSE connection_room[d]]
        /\ participants' = [participants EXCEPT ![r] = participants[r] \ {c}]
        /\ owner' = owner /\ IsParticipant(c) /\ c # owner[r]
    BY <1>2 DEF remove_participant, Forget
  <2>2. Online' = Online \ {c}
    BY <2>1 DEF Online
  <2>3. MeetingOf(c)' = NoConn /\ MeetingMap[c] # c
    BY <2>1 DEF MeetingMap, MeetingOf, IsParticipant, InLobby
  <2>4. ASSUME NEW d \in Conns, d # c PROVE MeetingOf(d)' = MeetingOf(d)
    <3>1. connection_room'[d] = connection_room[d]
      BY <2>1, <2>4
    <3>2. ASSUME NEW q \in RoomIds
          PROVE  d \in participants'[q] <=> d \in participants[q]
      BY <1>0, <2>1, <2>4, <3>2 DEF TypeOK
    <3>3. ~InLobby(d) => connection_room[d] \in RoomIds
      BY <1>0 DEF InLobby, TypeOK
    <3> QED
      BY <2>1, <3>1, <3>2, <3>3 DEF MeetingOf, IsParticipant, InLobby
  <2>5. MeetingMap' = [d \in Conns |->
                          IF d \in {c} THEN NoConn ELSE MeetingMap[d]]
    BY <2>3, <2>4 DEF MeetingMap
  <2> QED
    BY <1>0, <2>2, <2>3, <2>5, DisconnectStep
<1>3. CASE close_room(c)
  <2> DEFINE r == connection_room[c]
             mapped == {d \in Conns : connection_room[d] = r}
  <2>1. /\ conn' = [d \in Conns |->
                      IF d \in participants[r] THEN "closed" ELSE conn[d]]
        /\ connection_room' =
            [d \in Conns |-> IF d \in mapped THEN NoRoom ELSE connection_room[d]]
        /\ participants' = [participants EXCEPT ![r] = {}]
        /\ owner' = [owner EXCEPT ![r] = NoConn]
        /\ IsParticipant(c) /\ c = owner[r]
    BY <1>3 DEF close_room, Forget
  <2>2. r \in RoomIds /\ r \in rooms /\ participants[r] \in SUBSET Conns
    BY <1>0, <2>1 DEF IsParticipant, InLobby, MembershipInv,
                      MembershipConsistent, TypeOK
  <2>3. /\ {u \in Conns : MeetingMap[u] = c} = participants[r]
        /\ MeetingMap[c] = c
    <3> HIDE DEF r
    <3> QED
      BY <1>0, <2>1, <2>2, AttendingIsRoom
  <2>4. Online' = Online \ participants[r]
    BY <2>1 DEF Online
  <2>5. ASSUME NEW d \in Conns, d \in participants[r]
        PROVE  MeetingOf(d)' = NoConn
    <3>1. connection_room[d] = r
      BY <1>0, <2>2, <2>5 DEF MembershipInv, MembershipConsistent
    <3> QED
      BY <2>1, <3>1 DEF MeetingOf, IsParticipant, InLobby
  <2>6. ASSUME NEW d \in Conns, d \notin participants[r]
        PROVE  MeetingOf(d)' = MeetingOf(d)
    <3>1. CASE d \in mapped
      <4>1. MeetingOf(d) = NoConn
        BY <2>6, <3>1 DEF MeetingOf, IsParticipant
      <4>2. connection_room'[d] = NoRoom
        BY <2>1, <3>1
      <4>3. MeetingOf(d)' = NoConn
        BY <4>2 DEF MeetingOf, IsParticipant, InLobby
      <4> QED
        BY <4>1, <4>3
    <3>2. CASE d \notin mapped
      <4>1. connection_room'[d] = connection_room[d] /\ connection_room[d] # r
        BY <2>1, <3>2
      <4>2. ~InLobby(d) => connection_room[d] \in RoomIds
        BY <1>0 DEF InLobby, TypeOK
      <4>3. ~InLobby(d) =>
              /\ participants'[connection_room[d]] = participants[connection_room[d]]
              /\ owner'[connection_room[d]] = owner[connection_room[d]]
        <5> HIDE DEF r, mapped
        <5> QED
          BY <1>0, <2>1, <2>2, <4>1, <4>2 DEF TypeOK
      <4> QED
        BY <4>1, <4>3, SameMeeting
    <3> QED
      BY <3>1, <3>2
  <2>7. MeetingMap' = [d \in Conns |->
                          IF d \in participants[r] THEN NoConn ELSE MeetingMap[d]]
    BY <2>5, <2>6 DEF MeetingMap
  <2> HIDE DEF r, mapped
  <2> QED
    BY <1>0, <2>2, <2>3, <2>4, <2>7, DisconnectStep
<1> QED
  BY <1>1, <1>2, <1>3 DEF CloseEffect

LEMMA StepSimulates == CapacityInv /\ [Next]_serverVars => [M!Next]_(M!meetingVars)
<1> SUFFICES ASSUME CapacityInv, [Next]_serverVars
             PROVE  M!Next \/ UNCHANGED M!meetingVars
  OBVIOUS
<1>1. CASE UNCHANGED <<conn, connection_room, participants, owner>>
  <2>1. UNCHANGED <<Online, MeetingMap>>
    BY <1>1 DEF Online, MeetingMap, MeetingOf, IsParticipant, InLobby
  <2> QED
    BY <2>1, Stutter
<1>2. CASE Next
  <2>1. PICK c \in Conns : ServerStep(c) \/ do_write(c)
    BY <1>2 DEF Next
  <2>2. CASE on_new_connection(c)
    <3>1. c \notin Online /\ Online' = Online \cup {c} /\ MeetingMap' = MeetingMap
      BY <2>2 DEF on_new_connection, Online, MeetingMap, MeetingOf,
                  IsParticipant, InLobby, CapacityInv, MembershipInv, TypeOK
    <3> QED
      BY <3>1, ConnectStep DEF M!Next
  <2>3. CASE handle_create_meeting(c)
    BY <2>3, CreateSimulates DEF M!Next
  <2>4. CASE \E r \in RoomIds : handle_join_meeting(c, r)
    BY <2>4, JoinSimulates DEF M!Next
  <2>5. CASE conn[c] = "open" /\ CloseEffect(c)
    BY <2>5, CloseSimulates DEF M!Next
  <2>6. CASE (\E t \in SentTypes : handle_packet(c, t)) \/ do_write(c)
    BY <2>6, <1>1 DEF handle_packet, do_write
  <2> QED
    BY <2>1, <2>2, <2>3, <2>4, <2>5, <2>6
    DEF ServerStep, connection_lost, read_invalid, handle_unexpected_lobby,
        Reading
<1> QED
  BY <1>1, <1>2 DEF serverVars

LEMMA InitSimulates == Init => M!Init
BY DEF Init, M!Init, IsParticipant, InLobby

\* The server implements Meetings: every handler, the cascade of closes of an
\* owner included, is one abstract step or none.
THEOREM Refinement == Spec => ImplementsMeetings
<1>1. Init => CapacityInv
  <2> SUFFICES ASSUME Init PROVE WithinCapacity
    BY InitType, InitMembership DEF CapacityInv, MembershipInv, Membership
  <2>1. Cardinality({}) = 0
    BY FS_EmptySet
  <2> QED
    BY <2>1, ConstantsAssumption DEF Init, WithinCapacity
<1> QED
  BY <1>1, InitSimulates, StepCapacity, StepSimulates, PTL
  DEF Spec, ImplementsMeetings, M!Spec

-----------------------------------------------------------------------------
(***************************************************************************)
(* What a client makes of a queue of packets, one packet at a time.  These *)
(* three lemmas are all that is used of Replay.                            *)
(***************************************************************************)
LEMMA ReplayMember ==
    ASSUME NEW c, NEW p, NEW s \in Seq(Packet), NEW ip
    PROVE  ip \in Replay(c, p, s) <=>
             \/ ip \in p /\ StaysFrom(1, ip, s)
             \/ \E i \in 1 .. Len(s) : ip \in added(c, s[i]) /\ StaysFrom(i + 1, ip, s)
<1>1. DOMAIN s = 1 .. Len(s)
  OBVIOUS
<1> QED
  BY <1>1 DEF Replay

LEMMA ReplayEmpty ==
    ASSUME NEW c, NEW p
    PROVE  Replay(c, p, << >>) = p
<1> DEFINE s == << >>
<1>1. s \in Seq(Packet) /\ Len(s) = 0
  OBVIOUS
<1> HIDE DEF s
<1>2. ASSUME NEW ip
      PROVE  ip \in Replay(c, p, s) <=> ip \in p
  <2>1. StaysFrom(1, ip, s) /\ 1 .. Len(s) = {}
    BY <1>1 DEF StaysFrom
  <2> QED
    BY <1>1, <2>1, ReplayMember
<1> QED
  BY <1>2 DEF s

LEMMA ReplayAppend ==
    ASSUME NEW c, NEW p, NEW s \in Seq(Packet), NEW m \in Packet
    PROVE  Replay(c, p, Append(s, m)) = handle_message(c, Replay(c, p, s), m)
<1> DEFINE t == Append(s, m)
<1>1. /\ t \in Seq(Packet) /\ Len(t) = Len(s) + 1 /\ Len(s) \in Nat
      /\ t[Len(t)] = m /\ \A i \in 1 .. Len(s) : t[i] = s[i]
  OBVIOUS
<1> HIDE DEF t
<1>2. ASSUME NEW ip, NEW i \in 1 .. Len(s) + 1
      PROVE  StaysFrom(i, ip, t) <=> StaysFrom(i, ip, s) /\ ip \notin removed(m)
  BY <1>1 DEF StaysFrom
<1>3. ASSUME NEW ip
      PROVE  StaysFrom(Len(t) + 1, ip, t)
  BY <1>1 DEF StaysFrom
<1>4. ASSUME NEW ip
      PROVE  ip \in Replay(c, p, t) <=> ip \in handle_message(c, Replay(c, p, s), m)
  <2>1. ip \in Replay(c, p, t) <=>
             \/ ip \in p /\ StaysFrom(1, ip, t)
             \/ \E i \in 1 .. Len(t) : ip \in added(c, t[i]) /\ StaysFrom(i + 1, ip, t)
    BY <1>1, ReplayMember
  <2>2. (\E i \in 1 .. Len(t) : ip \in added(c, t[i]) /\ StaysFrom(i + 1, ip, t)) <=>
             \/ ip \in added(c, m)
             \/ (\E i \in 1 .. Len(s) : ip \in added(c, s[i]) /\ StaysFrom(i + 1, ip, s))
                /\ ip \notin removed(m)
    <3>1. ASSUME NEW i \in 1 .. Len(t), i # Len(t)
          PROVE  /\ i \in 1 .. Len(s) /\ t[i] = s[i]
                 /\ StaysFrom(i + 1, ip, t) <=> StaysFrom(i + 1, ip, s) /\ ip \notin removed(m)
      <4>1. i \in 1 .. Len(s) /\ i + 1 \in 1 .. Len(s) + 1
        BY <1>1, <3>1
      <4> QED
        BY <1>1, <1>2, <4>1
    <3>2. ASSUME NEW i \in 1 .. Len(s)
          PROVE  i \in 1 .. Len(t) /\ i # Len(t)
      BY <1>1
    <3>3. Len(t) \in 1 .. Len(t) /\ t[Len(t)] = m /\ StaysFrom(Len(t) + 1, ip, t)
      BY <1>1, <1>3
    <3> QED
      BY <3>1, <3>2, <3>3
  <2>3. StaysFrom(1, ip, t) <=> StaysFrom(1, ip, s) /\ ip \notin removed(m)
    BY <1>1, <1>2
  <2> QED
    BY <2>1, <2>2, <2>3, ReplayMember DEF handle_message
<1> QED
  BY <1>4 DEF t

LEMMA ReplayTail ==
    ASSUME NEW c, NEW p, NEW s \in Seq(Packet), s # << >>
    PROVE  Replay(c, handle_message(c, p, Head(s)), Tail(s)) = Replay(c, p, s)
<1> DEFINE t == Tail(s)
           m == Head(s)
<1>1. /\ t \in Seq(Packet) /\ Len(s) \in Nat /\ Len(s) >= 1 /\ Len(t) = Len(s) - 1
      /\ s[1] = m /\ \A i \in 1 .. Len(t) : t[i] = s[i + 1]
  OBVIOUS
<1> HIDE DEF t, m
<1>2. ASSUME NEW ip, NEW i \in 1 .. Len(t) + 1
      PROVE  StaysFrom(i, ip, t) <=> StaysFrom(i + 1, ip, s)
  <2>1. ASSUME NEW j \in i .. Len(t)
        PROVE  j + 1 \in i + 1 .. Len(s) /\ t[j] = s[j + 1]
    BY <1>1
  <2>2. ASSUME NEW j \in i + 1 .. Len(s)
        PROVE  j - 1 \in i .. Len(t) /\ s[j] = t[j - 1]
    <3>1. j - 1 \in i .. Len(t) /\ (j - 1) + 1 = j
      BY <1>1
    <3> QED
      BY <2>1, <3>1
  <2> QED
    BY <2>1, <2>2 DEF StaysFrom
<1>3. ASSUME NEW ip
      PROVE  StaysFrom(1, ip, s) <=> StaysFrom(2, ip, s) /\ ip \notin removed(m)
  BY <1>1 DEF StaysFrom
<1>4. ASSUME NEW ip
      PROVE  ip \in Replay(c, handle_message(c, p, m), t) <=> ip \in Replay(c, p, s)
  <2>1. (\E i \in 1 .. Len(s) : ip \in added(c, s[i]) /\ StaysFrom(i + 1, ip, s)) <=>
             \/ ip \in added(c, m) /\ StaysFrom(2, ip, s)
             \/ \E i \in 1 .. Len(t) : ip \in added(c, t[i]) /\ StaysFrom(i + 1, ip, t)
    <3>1. ASSUME NEW i \in 1 .. Len(t)
          PROVE  /\ i + 1 \in 1 .. Len(s) /\ t[i] = s[i + 1]
                 /\ StaysFrom(i + 1, ip, t) <=> StaysFrom((i + 1) + 1, ip, s)
      <4>1. i + 1 \in 1 .. Len(s) /\ i + 1 \in 1 .. Len(t) + 1
        BY <1>1
      <4> QED
        BY <1>1, <1>2, <4>1
    <3>2. ASSUME NEW i \in 1 .. Len(s), i # 1
          PROVE  i - 1 \in 1 .. Len(t) /\ (i - 1) + 1 = i
      BY <1>1, <3>2
    <3>3. 1 \in 1 .. Len(s) /\ s[1] = m /\ 1 + 1 = 2
      BY <1>1
    <3>4. ASSUME NEW i \in 1 .. Len(s), ip \in added(c, s[i]), StaysFrom(i + 1, ip, s)
          PROVE  \/ ip \in added(c, m) /\ StaysFrom(2, ip, s)
                 \/ \E k \in 1 .. Len(t) : ip \in added(c, t[k]) /\ StaysFrom(k + 1, ip, t)
      <4>1. CASE i = 1
        BY <3>3, <3>4, <4>1
      <4>2. CASE i # 1
        <5>1. i - 1 \in 1 .. Len(t) /\ (i - 1) + 1 = i
          BY <3>2, <4>2
        <5>2. ip \in added(c, t[i - 1]) /\ StaysFrom((i - 1) + 1, ip, t)
          BY <3>1, <3>4, <5>1
        <5> QED
          BY <5>1, <5>2
      <4> QED
        BY <4>1, <4>2
    <3>5. ASSUME NEW k \in 1 .. Len(t), ip \in added(c, t[k]), StaysFrom(k + 1, ip, t)
          PROVE  \E i \in 1 .. Len(s) : ip \in added(c, s[i]) /\ StaysFrom(i + 1, ip, s)
      BY <3>1, <3>5
    <3>6. ASSUME ip \in added(c, m), StaysFrom(2, ip, s)
          PROVE  \E i \in 1 .. Len(s) : ip \in added(c, s[i]) /\ StaysFrom(i + 1, ip, s)
      BY <3>3, <3>6
    <3> QED
      BY <3>4, <3>5, <3>6
  <2>2. StaysFrom(1, ip, t) <=> StaysFrom(2, ip, s)
    BY <1>1, <1>2
  <2> QED
    BY <1>1, <1>3, <2>1, <2>2, ReplayMember DEF handle_message
<1> QED
  BY <1>4 DEF t, m

\* What each packet of the server does to the list of its client.
LEMMA HandleNotice ==
    ASSUME NEW c, NEW p, NEW ip,
           NEW t \in {"PartnerJoin", "PartnerExit", "CloseCamera", "ImgRecv",
                      "AudioRecv", "TextRecv"}
    PROVE  handle_message(c, p, Notice(t, ip)) =
              IF t \in {"PartnerJoin", "ImgRecv"} THEN p \cup {ip}
              ELSE IF t = "PartnerExit" THEN p \ {ip} ELSE p
<1> DEFINE m == Notice(t, ip)
<1>1. m.type = t /\ m.ip = ip
  BY DEF Notice
<1> HIDE DEF m
<1>2. ~Accepted(m)
  BY <1>1 DEF Accepted
<1>3. CASE t \in {"PartnerJoin", "ImgRecv"}
  BY <1>1, <1>2, <1>3 DEF handle_message, added, removed, m
<1>4. CASE t = "PartnerExit"
  BY <1>1, <1>2, <1>4 DEF handle_message, added, removed, m
<1>5. CASE t \in {"CloseCamera", "AudioRecv", "TextRecv"}
  BY <1>1, <1>2, <1>5 DEF handle_message, added, removed, m
<1> QED
  BY <1>3, <1>4, <1>5

LEMMA HandleMedia ==
    ASSUME NEW c, NEW p, NEW ip \in p,
           NEW t \in {"CloseCamera", "ImgRecv", "AudioRecv", "TextRecv"}
    PROVE  handle_message(c, p, Notice(t, ip)) = p
<1>1. p \cup {ip} = p
  OBVIOUS
<1> QED
  BY <1>1, HandleNotice, SMTT(20)

LEMMA HandleList ==
    ASSUME NEW c, NEW p, NEW ips
    PROVE  handle_message(c, p, PartnerList(ips)) = p \cup ips
<1> DEFINE m == PartnerList(ips)
<1>1. m.type = "PartnerJoin2" /\ m.ips = ips
  BY DEF PartnerList
<1> HIDE DEF m
<1>2. ~Accepted(m)
  BY <1>1 DEF Accepted
<1> QED
  BY <1>1, <1>2 DEF handle_message, added, removed, m

LEMMA HandleResponse ==
    ASSUME NEW c, NEW p, NEW code \in RoomIds,
           NEW t \in {"CreateMeetingResponse", "JoinMeetingResponse"}
    PROVE  handle_message(c, p, Response(t, code)) =
              IF \/ t = "CreateMeetingResponse" /\ code # CodeNone
                 \/ t = "JoinMeetingResponse" /\ Understood(code) /\ code # CodeFull
              THEN p \cup {LocalIp[c]} ELSE p
<1> DEFINE m == Response(t, code)
<1>1. m.type = t /\ m.code = code
  BY DEF Response
<1> HIDE DEF m
<1>2. Accepted(m) <=>
        \/ t = "CreateMeetingResponse" /\ code # CodeNone
        \/ t = "JoinMeetingResponse" /\ Understood(code) /\ code # CodeFull
  BY <1>1 DEF Accepted
<1>3. CASE Accepted(m)
  BY <1>1, <1>2, <1>3 DEF handle_message, added, removed, m
<1>4. CASE ~Accepted(m)
  BY <1>1, <1>2, <1>4 DEF handle_message, added, removed, m
<1> QED
  BY <1>3, <1>4
-----------------------------------------------------------------------------
(***************************************************************************)
(* Images in a queue.                                                      *)
(***************************************************************************)
\* Every image of the queue s comes from somebody whom c lists when it has
\* handled what is before it.
ImagesKnown(c, p, s) ==
    \A i \in DOMAIN s :
        s[i].type = "ImgRecv" => s[i].ip \in Replay(c, p, SubSeq(s, 1, i - 1))

LEMMA ImagesEmpty ==
    ASSUME NEW c, NEW p
    PROVE  ImagesKnown(c, p, << >>)
BY DEF ImagesKnown

LEMMA ImagesAppend ==
    ASSUME NEW c, NEW p, NEW s \in Seq(Packet), NEW m \in Packet,
           ImagesKnown(c, p, s),
           m.type = "ImgRecv" => m.ip \in Replay(c, p, s)
    PROVE  ImagesKnown(c, p, Append(s, m))
<1> DEFINE t == Append(s, m)
<1>1. /\ t \in Seq(Packet) /\ Len(t) = Len(s) + 1 /\ Len(s) \in Nat
      /\ DOMAIN t = 1 .. Len(t) /\ DOMAIN s = 1 .. Len(s)
      /\ t[Len(t)] = m /\ \A i \in 1 .. Len(s) : t[i] = s[i]
  OBVIOUS
<1> HIDE DEF t
<1>2. ASSUME NEW i \in 1 .. Len(t)
      PROVE  SubSeq(t, 1, i - 1) = SubSeq(s, 1, i - 1)
  <2>1. \A j \in 1 .. i - 1 : t[j] = s[j]
    BY <1>1
  <2> QED
    BY <2>1, <1>1
<1>3. SubSeq(t, 1, Len(t) - 1) = s
  <2>1. SubSeq(s, 1, Len(s)) = s
    BY SubSeqFull
  <2>2. Len(t) \in 1 .. Len(t) /\ Len(t) - 1 = Len(s)
    BY <1>1
  <2> QED
    BY <1>2, <2>1, <2>2
<1>4. ASSUME NEW i \in 1 .. Len(t), t[i].type = "ImgRecv"
      PROVE  t[i].ip \in Replay(c, p, SubSeq(t, 1, i - 1))
  <2>1. CASE i = Len(t)
    BY <1>1, <1>3, <1>4, <2>1
  <2>2. CASE i # Len(t)
    <3>1. i \in 1 .. Len(s)
      BY <1>1, <2>2
    <3> QED
      BY <1>1, <1>2, <1>4, <3>1 DEF ImagesKnown
  <2> QED
    BY <2>1, <2>2
<1> QED
  BY <1>1, <1>4 DEF ImagesKnown, t

LEMMA ImagesTail ==
    ASSUME NEW c, NEW p, NEW s \in Seq(Packet), s # << >>, ImagesKnown(c, p, s)
    PROVE  ImagesKnown(c, handle_message(c, p, Head(s)), Tail(s))
<1> DEFINE t == Tail(s)
<1>1. /\ t \in Seq(Packet) /\ Len(s) \in Nat /\ Len(t) = Len(s) - 1 /\ Len(s) >= 1
      /\ DOMAIN t = 1 .. Len(t) /\ DOMAIN s = 1 .. Len(s)
      /\ \A i \in 1 .. Len(t) : t[i] = s[i + 1]
  OBVIOUS
<1> HIDE DEF t
<1>2. ASSUME NEW i \in 1 .. Len(t), t[i].type = "ImgRecv"
      PROVE  t[i].ip \in Replay(c, handle_message(c, p, Head(s)), SubSeq(t, 1, i - 1))
  <2> DEFINE u == SubSeq(s, 1, i)
  <2>1. i + 1 \in 1 .. Len(s) /\ i \in 1 .. Len(s) /\ 1 \in 1 .. Len(s) /\ (i + 1) - 1 = i
    BY <1>1
  <2>2. s[i + 1].ip \in Replay(c, p, u)
    BY <1>1, <1>2, <2>1 DEF ImagesKnown
  <2>3. u \in Seq(Packet) /\ u # << >>
    BY <1>1, <2>1, SubSeqProperties
  <2>4. Head(u) = Head(s)
    <3>1. Head(u) = s[1]
      BY <2>1, HeadTailOfSubSeq
    <3> QED
      BY <3>1
  <2>5. Tail(u) = SubSeq(t, 1, i - 1)
    <3>1. Tail(u) = SubSeq(s, 2, i)
      BY <2>1, HeadTailOfSubSeq
    <3>2. SubSeq(s, 2, i) = SubSeq(t, 1, i - 1)
      <4>1. \A j \in 1 .. i - 1 : t[j] = s[j + 1]
        BY <1>1
      <4> QED
        BY <4>1, <1>1, <2>1
    <3> QED
      BY <3>1, <3>2
  <2> HIDE DEF u
  <2>6. Replay(c, handle_message(c, p, Head(u)), Tail(u)) = Replay(c, p, u)
    BY <2>3, ReplayTail
  <2> QED
    BY <1>1, <2>2, <2>4, <2>5, <2>6
<1> QED
  BY <1>1, <1>2 DEF ImagesKnown, t

\* A queue that is a part of another from its start.
LEMMA ImagesPrefix ==
    ASSUME NEW c, NEW p, NEW s \in Seq(Packet), NEW n \in 0 .. Len(s), ImagesKnown(c, p, s)
    PROVE  ImagesKnown(c, p, SubSeq(s, 1, n))
<1> DEFINE t == SubSeq(s, 1, n)
<1>1. /\ t \in Seq(Packet) /\ Len(t) = n /\ Len(s) \in Nat /\ n \in Nat /\ n <= Len(s)
      /\ DOMAIN t = 1 .. n /\ DOMAIN s = 1 .. Len(s)
      /\ \A i \in 1 .. n : t[i] = s[i]
  OBVIOUS
<1> HIDE DEF t
<1>2. ASSUME NEW i \in 1 .. n
      PROVE  SubSeq(t, 1, i - 1) = SubSeq(s, 1, i - 1)
  <2>1. \A j \in 1 .. i - 1 : t[j] = s[j]
    BY <1>1
  <2> QED
    BY <2>1, <1>1
<1>3. ASSUME NEW i \in 1 .. n, t[i].type = "ImgRecv"
      PROVE  t[i].ip \in Replay(c, p, SubSeq(t, 1, i - 1))
  <2>1. i \in 1 .. Len(s)
    BY <1>1
  <2> QED
    BY <1>1, <1>2, <1>3, <2>1 DEF ImagesKnown
<1> QED
  BY <1>1, <1>3 DEF ImagesKnown, t

-----------------------------------------------------------------------------
(***************************************************************************)
(* What is under way to a client: s has arrived, t is still to be written. *)
(***************************************************************************)
LEMMA QueueMore ==
    ASSUME NEW s \in Seq(Packet), NEW t \in Seq(Packet), NEW m \in Packet
    PROVE  s \o t \in Seq(Packet) /\ s \o Append(t, m) = Append(s \o t, m)
OBVIOUS

LEMMA QueueMoves ==
    ASSUME NEW s \in Seq(Packet), NEW t \in Seq(Packet), t # << >>
    PROVE  Append(s, Head(t)) \o Tail(t) = s \o t
OBVIOUS

LEMMA QueueFirst ==
    ASSUME NEW s \in Seq(Packet), NEW t \in Seq(Packet), s # << >>
    PROVE  s \o t # << >> /\ Head(s \o t) = Head(s) /\ Tail(s \o t) = Tail(s) \o t
OBVIOUS

LEMMA QueueDropped ==
    ASSUME NEW s \in Seq(Packet), NEW t \in Seq(Packet)
    PROVE  /\ s \o t \in Seq(Packet)
           /\ Len(s) \in 0 .. Len(s \o t)
           /\ SubSeq(s \o t, 1, Len(s)) = s
OBVIOUS
-----------------------------------------------------------------------------
(***************************************************************************)
(* The inductive invariant.                                                *)
(***************************************************************************)
\* What c will list, as soon as it has handled what is under way.
Listed(c) == Replay(c, partner[c], Pending(c))

\* Whom it should list.
ListsRightly(c) ==
    /\ IsParticipant(c) => /\ RoomAddresses(c) \subseteq Listed(c)
                           /\ Listed(c) \subseteq RoomAddresses(c) \cup leftover[c]
    /\ conn[c] = "open" /\ InLobby(c) => Listed(c) = leftover[c]

Rightly(c) ==
    session[c] = "in" => ListsRightly(c) /\ ImagesKnown(c, partner[c], Pending(c))

\* The address that is stored for a participant is the one of its connection.
AddressInv == \A r \in RoomIds : \A d \in participants[r] : ip_network[d] = PeerIp[d]

\* 0 is no room as long as the counter has not overflowed.
PositiveInv == ~wrapped => \A r \in rooms : r > 0

\* The clients' variables are functions on Conns; queues are of packets.
ClientInv ==
    /\ DOMAIN partner = Conns /\ DOMAIN session = Conns /\ DOMAIN leftover = Conns
    /\ incoming \in [Conns -> Seq(Packet)]

RosterInv ==
    /\ MembershipInv
    /\ AddressInv
    /\ PositiveInv
    /\ ClientInv
    /\ ~wrapped => \A c \in Conns : Rightly(c)

LEMMA RosterInvImplies == RosterInv => RosterAgrees /\ ImagesFromMembers
BY DEF RosterInv, Rightly, ListsRightly, Listed, ImagesKnown, RosterAgrees, ImagesFromMembers

LEMMA InitRoster == RosterInit => RosterInv
<1> SUFFICES ASSUME RosterInit PROVE RosterInv
  OBVIOUS
<1>1. MembershipInv
  BY InitType, InitMembership DEF RosterInit, MembershipInv, Membership
<1>2. AddressInv /\ PositiveInv /\ ClientInv
  BY DEF RosterInit, Init, AddressInv, PositiveInv, ClientInv
<1>3. ASSUME NEW c \in Conns
      PROVE  Rightly(c)
  BY DEF RosterInit, Rightly
<1> QED
  BY <1>1, <1>2, <1>3 DEF RosterInv

\* A step of the composition is one of the server.
LEMMA RosterStepIsStep == [RosterNext]_rosterVars => [Next]_serverVars
<1>1. ASSUME NEW c \in Conns, accept(c) \/ server_step(c) \/ deliver(c)
      PROVE  Next
  BY <1>1 DEF accept, server_step, deliver, Next, ServerStep
<1>2. ASSUME NEW c \in Conns, \/ handle(c) \/ handle_late_answer(c)
                              \/ end_meeting_session(c) \/ disconnect(c)
      PROVE  UNCHANGED serverVars
  BY <1>2 DEF handle, handle_late_answer, end_meeting_session, disconnect, serverVars
<1>3. UNCHANGED rosterVars => UNCHANGED serverVars
  BY DEF rosterVars, serverVars
<1> QED
  BY <1>1, <1>2, <1>3 DEF RosterNext

\* A participant is connected and in one room.
LEMMA InOneRoom ==
    ASSUME MembershipInv, NEW r \in RoomIds, NEW d \in participants[r]
    PROVE  d \in Conns /\ connection_room[d] = r /\ r \in rooms /\ conn[d] = "open"
BY DEF MembershipInv, MembershipConsistent, ClosedIsForgotten, TypeOK

\* Of a queue to which one packet is added.
LEMMA PendingMore ==
    ASSUME MembershipInv, ClientInv, UNCHANGED clientVars, NEW d \in Conns, NEW m \in Packet,
           outbox'[d] = Append(outbox[d], m)
    PROVE  /\ Pending(d) \in Seq(Packet)
           /\ Pending(d)' = Append(Pending(d), m)
           /\ Listed(d)' = handle_message(d, Listed(d), m)
<1>1. /\ outbox[d] \in Seq(Packet) /\ incoming[d] \in Seq(Packet)
      /\ incoming'[d] = incoming[d] /\ partner'[d] = partner[d]
  BY DEF MembershipInv, TypeOK, ClientInv, clientVars
<1>2. Pending(d) \in Seq(Packet) /\ Pending(d)' = Append(Pending(d), m)
  BY <1>1, QueueMore DEF Pending
<1>3. Replay(d, partner[d], Append(Pending(d), m))
         = handle_message(d, Replay(d, partner[d], Pending(d)), m)
  BY <1>2, ReplayAppend
<1> QED
  BY <1>1, <1>2, <1>3 DEF Listed

\* The images in such a queue, if the packet is none or of somebody listed.
LEMMA ImagesMore ==
    ASSUME MembershipInv, ClientInv, UNCHANGED clientVars, NEW d \in Conns, NEW m \in Packet,
           outbox'[d] = Append(outbox[d], m), ImagesKnown(d, partner[d], Pending(d)),
           m.type = "ImgRecv" => m.ip \in Listed(d)
    PROVE  ImagesKnown(d, partner'[d], Pending(d)')
<1>1. Pending(d) \in Seq(Packet) /\ Pending(d)' = Append(Pending(d), m)
  BY PendingMore
<1>2. partner' = partner
  BY DEF clientVars
<1>3. ImagesKnown(d, partner[d], Append(Pending(d), m))
  BY <1>1, ImagesAppend DEF Listed
<1> QED
  BY <1>1, <1>2, <1>3

\* Who is not connected any more may still have to handle what has arrived.
LEMMA ClosedRightly ==
    ASSUME MembershipInv, MembershipInv', ClientInv, UNCHANGED clientVars,
           NEW d \in Conns, conn'[d] = "closed", Rightly(d)
    PROVE  Rightly(d)'
<1> SUFFICES ASSUME session'[d] = "in"
             PROVE  ListsRightly(d)' /\ ImagesKnown(d, partner'[d], Pending(d)')
  BY DEF Rightly
<1>1. /\ outbox[d] \in Seq(Packet) /\ incoming[d] \in Seq(Packet)
      /\ incoming' = incoming /\ partner' = partner /\ session' = session
  BY DEF MembershipInv, TypeOK, ClientInv, clientVars
<1>2. outbox'[d] = << >> /\ connection_room'[d] = NoRoom
  BY DEF MembershipInv, ClosedIsForgotten
<1>3. Pending(d)' = incoming[d]
  BY <1>1, <1>2 DEF Pending
<1>4. ImagesKnown(d, partner[d], incoming[d])
  <2> DEFINE s == incoming[d]
             t == outbox[d]
  <2>1. s \in Seq(Packet) /\ t \in Seq(Packet) /\ Pending(d) = s \o t
    BY <1>1 DEF Pending
  <2> HIDE DEF s, t
  <2>2. /\ Pending(d) \in Seq(Packet) /\ Len(s) \in 0 .. Len(Pending(d))
        /\ SubSeq(Pending(d), 1, Len(s)) = s
    BY <2>1, QueueDropped
  <2>3. ImagesKnown(d, partner[d], Pending(d))
    BY <1>1 DEF Rightly
  <2>4. ImagesKnown(d, partner[d], SubSeq(Pending(d), 1, Len(s)))
    BY <2>2, <2>3, ImagesPrefix
  <2> QED
    BY <2>2, <2>4 DEF s
<1>5. ListsRightly(d)'
  BY <1>2 DEF ListsRightly, IsParticipant, InLobby
<1> QED
  BY <1>1, <1>3, <1>4, <1>5

\* A step that concerns neither a client nor its room.
LEMMA UnconcernedRightly ==
    ASSUME NEW d \in Conns, Rightly(d), Pending(d)' = Pending(d),
           partner'[d] = partner[d], session'[d] = session[d], leftover'[d] = leftover[d],
           conn'[d] = conn[d], connection_room'[d] = connection_room[d],
           ~InLobby(d) => owner'[connection_room[d]] = owner[connection_room[d]],
           ~InLobby(d) => participants'[connection_room[d]] = participants[connection_room[d]],
           ~InLobby(d) => \A e \in participants[connection_room[d]] :
                              ip_network'[e] = ip_network[e]
    PROVE  Rightly(d)'
<1>1. session[d] = "in" => ImagesKnown(d, partner'[d], Pending(d)')
  BY DEF Rightly
<1>2. InLobby(d)' <=> InLobby(d)
  BY DEF InLobby
<1>3. IsParticipant(d)' <=> IsParticipant(d)
  BY <1>2 DEF IsParticipant
<1>4. IsParticipant(d) => RoomAddresses(d)' = RoomAddresses(d)
  BY DEF RoomAddresses, IsParticipant
<1>5. Listed(d)' = Listed(d)
  BY DEF Listed
<1> QED
  BY <1>1, <1>2, <1>3, <1>4, <1>5 DEF Rightly, ListsRightly

\* The clients' part of it, for a step of the server.
LEMMA UnconcernedByServer ==
    ASSUME NEW d \in Conns, UNCHANGED clientVars, Rightly(d), outbox'[d] = outbox[d],
           conn'[d] = conn[d], connection_room'[d] = connection_room[d],
           ~InLobby(d) => /\ owner'[connection_room[d]] = owner[connection_room[d]]
                          /\ participants'[connection_room[d]] = participants[connection_room[d]]
                          /\ \A e \in participants[connection_room[d]] :
                                ip_network'[e] = ip_network[e]
    PROVE  Rightly(d)'
<1>1. /\ partner'[d] = partner[d] /\ session'[d] = session[d] /\ leftover'[d] = leftover[d]
      /\ incoming'[d] = incoming[d]
  BY DEF clientVars
<1>2. Pending(d)' = Pending(d)
  BY <1>1 DEF Pending
<1> QED
  BY <1>1, <1>2, UnconcernedRightly

-----------------------------------------------------------------------------
(***************************************************************************)
(* One lemma for each step of the server: as long as the counter has not   *)
(* overflowed, what every connected client will list is right afterwards.  *)
(***************************************************************************)
\* A refusal changes nothing for anybody.
LEMMA RefusedRightly ==
    ASSUME RosterInv, ~wrapped, UNCHANGED clientVars, NEW c \in Conns, conn[c] = "open",
           InLobby(c), NEW code \in RoomIds,
           NEW t \in {"CreateMeetingResponse", "JoinMeetingResponse"},
           code = CodeNone \/ (t = "JoinMeetingResponse" /\ code = CodeFull),
           outbox' = send(outbox, c, Response(t, code)),
           UNCHANGED <<conn, connection_room, participants, owner, ip_network>>,
           NEW d \in Conns
    PROVE  Rightly(d)'
<1> DEFINE m == Response(t, code)
<1>0. m \in Packet /\ m.type # "ImgRecv"
  BY ResponseType DEF MessageTypes, Response
<1>1. /\ outbox \in [Conns -> Seq(Packet)] /\ Rightly(d) /\ MembershipInv /\ ClientInv
      /\ session' = session /\ leftover' = leftover
  BY DEF RosterInv, MembershipInv, TypeOK, clientVars
<1>3. CASE d = c
  <2> SUFFICES ASSUME session[c] = "in"
               PROVE  ListsRightly(c)' /\ ImagesKnown(c, partner'[c], Pending(c)')
    BY <1>1, <1>3 DEF Rightly
  <2>1. outbox'[c] = Append(outbox[c], m)
    BY <1>1 DEF send
  <2>2. handle_message(c, Listed(c), m) = Listed(c)
    BY HandleResponse DEF Understood, CodeNone
  <2> HIDE DEF m
  <2>3. Listed(c)' = Listed(c)
    BY <1>0, <1>1, <2>1, <2>2, PendingMore
  <2>4. ImagesKnown(c, partner'[c], Pending(c)')
    BY <1>0, <1>1, <1>3, <2>1, ImagesMore DEF Rightly
  <2>5. Listed(c) = leftover[c]
    BY <1>1, <1>3 DEF Rightly, ListsRightly
  <2>6. InLobby(c)'
    BY DEF InLobby
  <2> QED
    BY <1>1, <2>3, <2>4, <2>5, <2>6 DEF ListsRightly, IsParticipant
<1>4. CASE d # c
  <2>1. outbox'[d] = outbox[d]
    BY <1>1, <1>4 DEF send
  <2> QED
    BY <1>1, <2>1, UnconcernedByServer
<1> QED
  BY <1>3, <1>4

LEMMA CreateRightly ==
    ASSUME RosterInv, UNCHANGED clientVars, NEW c \in Conns, handle_create_meeting(c),
           ~wrapped', NEW d \in Conns
    PROVE  Rightly(d)'
<1> DEFINE id == next_room_id
           m == Response("CreateMeetingResponse", id)
<1>0. /\ conn[c] = "open" /\ InLobby(c) /\ conn' = conn /\ id \in RoomIds
      /\ outbox \in [Conns -> Seq(Packet)] /\ connection_room \in [Conns -> RoomIds \cup {NoRoom}]
      /\ participants \in [RoomIds -> SUBSET Conns] /\ owner \in [RoomIds -> Conns \cup {NoConn}]
      /\ MembershipInv /\ ClientInv /\ session' = session /\ leftover' = leftover
  BY DEF handle_create_meeting, Reading, RosterInv, MembershipInv, TypeOK, clientVars
<1>1. CASE \E ip \in peer_ip_network(c) : create_room(c, ip)
  <2>1. PICK ip \in peer_ip_network(c) : create_room(c, ip)
    BY <1>1
  <2>2. ~wrapped
    BY <2>1, Zenon DEF create_room
  <2>3. id # CodeNone /\ id \notin rooms
    BY <1>0, <2>2 DEF RosterInv, MembershipInv, IdsBelowNext, RoomIds, TypeOK, CodeNone
  <2>4. /\ connection_room' = [connection_room EXCEPT ![c] = id]
        /\ participants' = [participants EXCEPT ![id] = {c}]
        /\ owner' = [owner EXCEPT ![id] = c]
        /\ ip_network' = [ip_network EXCEPT ![c] = ip]
        /\ outbox' = send(outbox, c, m)
    BY <2>1, <2>3 DEF create_room
  <2>5. Rightly(c) /\ Rightly(d)
    BY <2>2 DEF RosterInv
  <2>6. CASE d = c
    <3> SUFFICES ASSUME session[c] = "in"
                 PROVE  ListsRightly(c)' /\ ImagesKnown(c, partner'[c], Pending(c)')
      BY <1>0, <2>6 DEF Rightly
    <3>0. m \in Packet /\ m.type # "ImgRecv"
      BY <1>0, ResponseType DEF MessageTypes, Response
    <3>1. outbox'[c] = Append(outbox[c], m)
      BY <1>0, <2>4 DEF send
    <3>2. handle_message(c, leftover[c], m) = leftover[c] \cup {LocalIp[c]}
      BY <1>0, <2>3, HandleResponse
    <3>3. Listed(c) = leftover[c]
      BY <1>0, <2>5 DEF Rightly, ListsRightly
    <3> HIDE DEF m
    <3>4. Listed(c)' = leftover[c] \cup {LocalIp[c]}
      BY <1>0, <3>0, <3>1, <3>2, <3>3, PendingMore
    <3>5. ImagesKnown(c, partner'[c], Pending(c)')
      BY <1>0, <2>5, <3>0, <3>1, ImagesMore DEF Rightly
    <3>6. connection_room'[c] = id /\ participants'[id] = {c} /\ owner'[id] = c
      BY <1>0, <2>4
    <3>7. RoomAddresses(c)' = {LocalIp[c]} /\ ~InLobby(c)'
      <4>1. participants'[connection_room'[c]] \ {c} = {}
        BY <3>6
      <4>2. id # NoRoom
        BY <1>0, CodeType
      <4> QED
        BY <3>6, <4>1, <4>2 DEF RoomAddresses, InLobby
    <3> QED
      BY <1>0, <3>4, <3>5, <3>7 DEF ListsRightly
  <2>7. CASE d # c
    <3>1. outbox'[d] = outbox[d] /\ connection_room'[d] = connection_room[d]
      BY <1>0, <2>4, <2>7 DEF send
    <3>2. ASSUME ~InLobby(d)
          PROVE  /\ owner'[connection_room[d]] = owner[connection_room[d]]
                 /\ participants'[connection_room[d]] = participants[connection_room[d]]
                 /\ \A e \in participants[connection_room[d]] : ip_network'[e] = ip_network[e]
      <4> DEFINE r == connection_room[d]
      <4>1. r \in RoomIds /\ r \in rooms
        BY <1>0, <3>2 DEF InLobby, RosterInv, MembershipInv, MembershipConsistent
      <4>2. c \notin participants[r]
        BY <1>0, <4>1, CodeType
        DEF InLobby, RosterInv, MembershipInv, MembershipConsistent
      <4> HIDE DEF r
      <4>3. participants'[r] = participants[r] /\ owner'[r] = owner[r]
        BY <1>0, <2>3, <2>4, <4>1
      <4>4. \A e \in participants[r] : ip_network'[e] = ip_network[e]
        BY <1>0, <2>4, <4>1, <4>2 DEF RosterInv, MembershipInv, TypeOK
      <4> QED
        BY <4>3, <4>4 DEF r
    <3> QED
      BY <1>0, <2>5, <3>1, <3>2, UnconcernedByServer
  <2> QED
    BY <2>6, <2>7
<1>2. CASE outbox' = send(outbox, c, Response("CreateMeetingResponse", CodeNone))
           /\ UNCHANGED <<connection_room, rooms, participants, owner,
                          ip_network, next_room_id, wrapped>>
  BY <1>0, <1>2, CodeType, RefusedRightly
<1> QED
  BY <1>1, <1>2 DEF handle_create_meeting

\* The server reads the same address whenever it asks.
LEMMA PeerIsKnown ==
    ASSUME NEW c \in Conns, NEW ip \in peer_ip_network(c)
    PROVE  ip = PeerIp[c]
BY AddressAssumption DEF peer_ip_network

\* What join_accepted queues: the newcomer gets its answer and the list, who
\* is in the room the notice, and nobody else anything.
LEMMA JoinQueues ==
    ASSUME MembershipInv, NEW c \in Conns, conn[c] = "open", InLobby(c),
           NEW r \in RoomIds, NEW ip, NEW noticeIp, join_accepted(c, r, ip, noticeIp),
           NEW l, l = PartnerList({ip_network[e] : e \in participants[r]}),
           NEW d \in Conns
    PROVE  /\ d = c => outbox'[d] =
                  Append(Append(outbox[c], Response("JoinMeetingResponse", r)), l)
           /\ d \in participants[r] =>
                  outbox'[d] = Append(outbox[d], Notice("PartnerJoin", noticeIp))
           /\ d # c /\ d \notin participants[r] => outbox'[d] = outbox[d]
<1> DEFINE answered == send(outbox, c, Response("JoinMeetingResponse", r))
           announced == broadcast(answered, participants[r],
                                  Notice("PartnerJoin", noticeIp))
<1>1. outbox' = send(announced, c, l)
  BY DEF join_accepted
<1>2. outbox \in [Conns -> Seq(Packet)]
  BY DEF MembershipInv, TypeOK
<1>3. c \notin participants[r]
  BY CodeType DEF InLobby, MembershipInv, MembershipConsistent
<1>4. d \in participants[r] => conn[d] = "open"
  BY InOneRoom
<1>5. DOMAIN announced = Conns
  BY DEF broadcast
<1>6. announced[d] = IF d \in participants[r]
                     THEN Append(answered[d], Notice("PartnerJoin", noticeIp))
                     ELSE answered[d]
  BY <1>4 DEF broadcast
<1>7. answered[d] = IF d = c THEN Append(outbox[c], Response("JoinMeetingResponse", r))
                    ELSE outbox[d]
  BY <1>2 DEF send
<1>8. outbox'[d] = IF d = c THEN Append(announced[c], l) ELSE announced[d]
  <2> HIDE DEF announced
  <2> QED
    BY <1>1, <1>5 DEF send
<1> HIDE DEF announced, answered
<1> QED
  BY <1>3, <1>6, <1>7, <1>8

LEMMA JoinRightly ==
    ASSUME RosterInv, UNCHANGED clientVars, NEW c \in Conns, NEW r \in RoomIds,
           handle_join_meeting(c, r), ~wrapped', NEW d \in Conns
    PROVE  Rightly(d)'
<1>0. /\ conn[c] = "open" /\ InLobby(c) /\ conn' = conn /\ ~wrapped /\ MembershipInv
      /\ outbox \in [Conns -> Seq(Packet)] /\ connection_room \in [Conns -> RoomIds \cup {NoRoom}]
      /\ participants \in [RoomIds -> SUBSET Conns] /\ ip_network \in [Conns -> Ips]
      /\ rooms \subseteq RoomIds
      /\ ClientInv /\ session' = session /\ leftover' = leftover /\ partner' = partner
      /\ incoming' = incoming
  <2>1. wrapped' = wrapped
    BY DEF handle_join_meeting, join_accepted
  <2> QED
    BY <2>1 DEF handle_join_meeting, Reading, RosterInv, MembershipInv, TypeOK, clientVars
<1>1. CASE \E ip \in peer_ip_network(c) : \E noticeIp \in {ip, NoAddr} :
              /\ r \in rooms /\ noticeIp \in peer_ip_network(c)
              /\ join_accepted(c, r, ip, noticeIp)
  <2> DEFINE ip == PeerIp[c]
             answer == Response("JoinMeetingResponse", r)
             notice == Notice("PartnerJoin", ip)
             listed == {ip_network[e] : e \in participants[r]}
             own == IF Understood(r) THEN {LocalIp[c]} ELSE {}
  <2>1. r \in rooms /\ join_accepted(c, r, ip, ip) /\ ip \in Ips
    BY <1>1, PeerIsKnown DEF Ips
  <2>0. PICK list : list = PartnerList(listed)
    OBVIOUS
  <2>2. /\ connection_room' = [connection_room EXCEPT ![c] = r]
        /\ participants' = [participants EXCEPT ![r] = @ \cup {c}]
        /\ ip_network' = [ip_network EXCEPT ![c] = ip]
        /\ owner' = owner
    BY <2>1 DEF join_accepted
  <2>3. r # CodeNone /\ r # CodeFull
    BY <1>0, <2>1, ConstantsAssumption
    DEF RosterInv, PositiveInv, MembershipInv, IdsBelowNext, TypeOK, RoomIds,
        CodeNone, CodeFull
  <2>4. Rightly(c) /\ Rightly(d)
    BY <1>0 DEF RosterInv
  <2>5. (\A q \in RoomIds : c \notin participants[q]) /\ owner[r] # c
    <3>1. \A q \in RoomIds : c \notin participants[q]
      BY <1>0, CodeType DEF InLobby, MembershipInv, MembershipConsistent
    <3>2. owner[r] \in participants[r]
      BY <1>0, <2>1 DEF MembershipInv, OwnerPresent
    <3> QED
      BY <3>1, <3>2
  <2>6. answer \in Packet /\ notice \in Packet /\ PartnerList(listed) \in Packet
    <3>1. listed \in SUBSET Ips
      BY <1>0
    <3>2. answer \in Packet /\ notice \in Packet
      BY <2>1, ResponseType, NoticeType DEF MessageTypes
    <3> HIDE DEF listed
    <3> QED
      BY <3>1, <3>2, PartnerListType
  <2>7. answer.type # "ImgRecv" /\ notice.type # "ImgRecv" /\ PartnerList(listed).type # "ImgRecv"
    BY DEF Response, Notice, PartnerList
  <2>8. r # NoRoom
    BY CodeType
  <2>9. CASE d = c
    <3> SUFFICES ASSUME session[c] = "in"
                 PROVE  ListsRightly(c)' /\ ImagesKnown(c, partner'[c], Pending(c)')
      BY <1>0, <2>9 DEF Rightly
    <3> DEFINE s == Append(Pending(c), answer)
    <3>1. Pending(c) \in Seq(Packet) /\ Pending(c)' = Append(s, PartnerList(listed))
      <4>1. outbox'[c] = Append(Append(outbox[c], answer), list)
        <5>1. MembershipInv /\ conn[c] = "open" /\ InLobby(c) /\ join_accepted(c, r, ip, ip)
          BY <1>0, <2>1
        <5> QED
          BY <2>0, <5>1, JoinQueues
      <4>2. /\ incoming[c] \in Seq(Packet) /\ outbox[c] \in Seq(Packet)
            /\ incoming'[c] = incoming[c]
        BY <1>0 DEF ClientInv
      <4>3. answer \in Packet /\ list \in Packet
        BY <2>0, <2>6
      <4> HIDE DEF answer, listed
      <4>4. Append(outbox[c], answer) \in Seq(Packet)
        BY <4>2, <4>3
      <4>5. incoming[c] \o Append(outbox[c], answer) = s /\ Pending(c) \in Seq(Packet)
        BY <4>2, <4>3, QueueMore DEF Pending
      <4>6. Pending(c)' = Append(s, list)
        <5> DEFINE u == Append(outbox[c], answer)
        <5>1. Pending(c)' = incoming[c] \o Append(u, list)
          BY <4>1, <4>2 DEF Pending
        <5>2. u \in Seq(Packet) /\ incoming[c] \o u = s
          BY <4>4, <4>5
        <5> HIDE DEF u, s
        <5>3. incoming[c] \o Append(u, list) = Append(incoming[c] \o u, list)
          BY <4>2, <4>3, <5>2, QueueMore
        <5> QED
          BY <5>1, <5>2, <5>3
      <4> QED
        BY <2>0, <4>5, <4>6
    <3>2. s \in Seq(Packet)
      BY <2>6, <3>1
    <3>3. Replay(c, partner[c], s) = leftover[c] \cup own
      <4>1. Listed(c) = leftover[c]
        BY <1>0, <2>4 DEF Rightly, ListsRightly
      <4>2. Replay(c, partner[c], s) = handle_message(c, Listed(c), answer)
        BY <2>6, <3>1, ReplayAppend DEF Listed
      <4>3. handle_message(c, leftover[c], answer) = leftover[c] \cup own
        BY <2>3, HandleResponse
      <4> QED
        BY <4>1, <4>2, <4>3
    <3>4. ImagesKnown(c, partner[c], s)
      <4> HIDE DEF answer
      <4> QED
        BY <2>4, <2>6, <2>7, <3>1, ImagesAppend DEF Rightly
    <3> HIDE DEF s, listed, own
    <3>5. Listed(c)' = (leftover[c] \cup own) \cup listed
      <4>1. Replay(c, partner[c], Append(s, PartnerList(listed)))
               = handle_message(c, Replay(c, partner[c], s), PartnerList(listed))
        BY <2>6, <3>2, ReplayAppend
      <4> QED
        BY <1>0, <3>1, <3>3, <4>1, HandleList DEF Listed
    <3>6. ImagesKnown(c, partner'[c], Pending(c)')
      <4>1. ImagesKnown(c, partner[c], Append(s, PartnerList(listed)))
        BY <2>6, <2>7, <3>2, <3>4, ImagesAppend
      <4> QED
        BY <1>0, <3>1, <4>1
    <3>7. connection_room'[c] = r /\ participants'[r] = participants[r] \cup {c} /\ owner'[r] # c
      BY <1>0, <2>2, <2>5
    <3>8. RoomAddresses(c)' = own \cup listed /\ ~InLobby(c)'
      <4>1. participants'[r] \ {c} = participants[r]
        BY <2>5, <3>7
      <4>2. {ip_network'[e] : e \in participants[r]} = listed
        BY <1>0, <2>2, <2>5 DEF listed
      <4>3. ~InLobby(c)'
        BY <2>8, <3>7 DEF InLobby
      <4>4. RoomAddresses(c)' = own \cup {ip_network'[e] : e \in participants'[r] \ {c}}
        BY <3>7 DEF RoomAddresses, own
      <4> QED
        BY <4>1, <4>2, <4>3, <4>4
    <3> QED
      BY <1>0, <3>5, <3>6, <3>8 DEF ListsRightly
  <2>10. CASE d \in participants[r]
    <3> SUFFICES ASSUME session[d] = "in"
                 PROVE  ListsRightly(d)' /\ ImagesKnown(d, partner'[d], Pending(d)')
      BY <1>0 DEF Rightly
    <3>1. d # c /\ connection_room[d] = r
      BY <1>0, <2>5, <2>10, InOneRoom
    <3>2. outbox'[d] = Append(outbox[d], notice)
      <4>1. MembershipInv /\ conn[c] = "open" /\ InLobby(c) /\ join_accepted(c, r, ip, ip)
        BY <1>0, <2>1
      <4> QED
        BY <2>0, <2>10, <4>1, JoinQueues
    <3>3. /\ connection_room'[d] = r /\ participants'[r] = participants[r] \cup {c}
          /\ \A e \in participants[r] : ip_network'[e] = ip_network[e]
          /\ ip_network'[c] = ip
      BY <1>0, <2>2, <2>5, <3>1
    <3>4. /\ RoomAddresses(d) \subseteq Listed(d)
          /\ Listed(d) \subseteq RoomAddresses(d) \cup leftover[d]
      BY <2>4, <2>8, <2>10, <3>1 DEF Rightly, ListsRightly, IsParticipant, InLobby
    <3>5. handle_message(d, Listed(d), notice) = Listed(d) \cup {ip}
      BY HandleNotice
    <3>6. Listed(d)' = Listed(d) \cup {ip}
      <4> HIDE DEF notice
      <4> QED
        BY <1>0, <2>6, <3>2, <3>5, PendingMore
    <3>7. ImagesKnown(d, partner'[d], Pending(d)')
      <4> HIDE DEF notice
      <4> QED
        BY <1>0, <2>4, <2>6, <2>7, <3>2, ImagesMore DEF Rightly
    <3>8. RoomAddresses(d)' = RoomAddresses(d) \cup {ip} /\ ~InLobby(d)'
      <4> DEFINE own_d == IF owner[r] = d \/ Understood(r) THEN {LocalIp[d]} ELSE {}
      <4>1. participants'[r] \ {d} = (participants[r] \ {d}) \cup {c}
        BY <3>1, <3>3
      <4>2. {ip_network'[e] : e \in participants'[r] \ {d}}
               = {ip_network[e] : e \in participants[r] \ {d}} \cup {ip}
        BY <3>3, <4>1
      <4>3. ~InLobby(d)'
        BY <2>8, <3>3 DEF InLobby
      <4>4. RoomAddresses(d)' = own_d \cup {ip_network'[e] : e \in participants'[r] \ {d}}
        BY <2>2, <3>3 DEF RoomAddresses
      <4>5. RoomAddresses(d) = own_d \cup {ip_network[e] : e \in participants[r] \ {d}}
        BY <3>1 DEF RoomAddresses
      <4> HIDE DEF own_d
      <4> QED
        BY <4>2, <4>3, <4>4, <4>5
    <3> QED
      BY <1>0, <3>4, <3>6, <3>7, <3>8 DEF ListsRightly
  <2>11. CASE d # c /\ d \notin participants[r]
    <3>1. outbox'[d] = outbox[d]
      <4>1. MembershipInv /\ conn[c] = "open" /\ InLobby(c) /\ join_accepted(c, r, ip, ip)
        BY <1>0, <2>1
      <4> QED
        BY <2>0, <2>11, <4>1, JoinQueues
    <3>2. connection_room'[d] = connection_room[d] /\ connection_room[d] # r
      <4>1. MappedIsParticipant
        BY <1>0 DEF MembershipInv
      <4> QED
        BY <1>0, <2>2, <2>8, <2>11, <4>1 DEF MappedIsParticipant
    <3>3. ASSUME ~InLobby(d)
          PROVE  /\ participants'[connection_room[d]] = participants[connection_room[d]]
                 /\ \A e \in participants[connection_room[d]] : ip_network'[e] = ip_network[e]
      <4> DEFINE q == connection_room[d]
      <4>1. q \in RoomIds /\ q # r
        BY <1>0, <3>2, <3>3 DEF InLobby
      <4> HIDE DEF q
      <4> QED
        BY <1>0, <2>2, <2>5, <4>1 DEF q
    <3> QED
      BY <1>0, <2>2, <2>4, <3>1, <3>2, <3>3, UnconcernedByServer
  <2> QED
    BY <2>9, <2>10, <2>11
<1>2. CASE /\ outbox' = send(outbox, c, Response("JoinMeetingResponse",
                                IF r \in rooms THEN CodeFull ELSE CodeNone))
           /\ UNCHANGED <<connection_room, rooms, participants, owner,
                          ip_network, next_room_id, wrapped>>
  <2>1. CASE r \in rooms
    BY <1>0, <1>2, <2>1, CodeType, RefusedRightly
  <2>2. CASE r \notin rooms
    BY <1>0, <1>2, <2>2, CodeType, RefusedRightly
  <2> QED
    BY <2>1, <2>2
<1> QED
  BY <1>1, <1>2 DEF handle_join_meeting

LEMMA PacketRightly ==
    ASSUME RosterInv, ~wrapped, UNCHANGED clientVars, NEW c \in Conns, NEW t \in SentTypes,
           handle_packet(c, t), NEW d \in Conns
    PROVE  Rightly(d)'
<1> DEFINE r == connection_room[c]
           out == IF t = "CloseCamera" THEN t ELSE AsReceived[t]
           m == Notice(out, ip_network[c])
<1>0. /\ MembershipInv /\ ClientInv /\ conn[c] = "open" /\ ~InLobby(c)
      /\ UNCHANGED <<conn, connection_room, participants, owner, ip_network>>
      /\ outbox \in [Conns -> Seq(Packet)] /\ ip_network \in [Conns -> Ips]
      /\ r \in RoomIds /\ participants \in [RoomIds -> SUBSET Conns]
      /\ session' = session /\ leftover' = leftover
  BY DEF handle_packet, Reading, RosterInv, MembershipInv, TypeOK, InLobby, clientVars
<1>1. Rightly(d)
  BY <1>0 DEF RosterInv
<1>2. outbox' = IF IsParticipant(c) THEN broadcast(outbox, participants[r] \ {c}, m)
                ELSE outbox
  BY DEF handle_packet
<1>3. CASE IsParticipant(c) /\ d \in participants[r] \ {c}
  <2> SUFFICES ASSUME session[d] = "in"
               PROVE  ListsRightly(d)' /\ ImagesKnown(d, partner'[d], Pending(d)')
    BY <1>0 DEF Rightly
  <2>1. out \in {"CloseCamera", "ImgRecv", "AudioRecv", "TextRecv"}
    BY ConstantsAssumption DEF AsReceived
  <2>2. m \in Packet /\ m.ip = ip_network[c]
    <3>1. out \in MessageTypes /\ ip_network[c] \in Ips
      BY <1>0, <2>1 DEF MessageTypes
    <3>2. m.ip = ip_network[c]
      BY DEF Notice
    <3> HIDE DEF out
    <3> QED
      BY <3>1, <3>2, NoticeType
  <2>4. connection_room[d] = r /\ d # c /\ c \in participants[r] /\ conn[d] = "open"
    BY <1>0, <1>3, InOneRoom DEF IsParticipant
  <2>3. outbox'[d] = Append(outbox[d], m)
    <3> HIDE DEF m
    <3> QED
      BY <1>0, <1>2, <1>3, <2>4 DEF broadcast
  <2>5. /\ IsParticipant(d)
        /\ RoomAddresses(d) \subseteq Listed(d)
        /\ Listed(d) \subseteq RoomAddresses(d) \cup leftover[d]
    BY <1>0, <1>1, <1>3, <2>4 DEF Rightly, ListsRightly, IsParticipant, InLobby
  <2>6. ip_network[c] \in Listed(d)
    BY <2>4, <2>5 DEF RoomAddresses
  <2>7. handle_message(d, Listed(d), m) = Listed(d)
    <3> DEFINE p == Listed(d)
    <3> HIDE DEF out, p
    <3>1. \A ip \in p : handle_message(d, p, Notice(out, ip)) = p
      BY <2>1, HandleMedia
    <3>2. ip_network[c] \in p
      BY <2>6 DEF p
    <3> QED
      BY <3>1, <3>2 DEF p
  <2> HIDE DEF m
  <2>8. Listed(d)' = Listed(d)
    BY <1>0, <2>2, <2>3, <2>7, PendingMore
  <2>9. ImagesKnown(d, partner'[d], Pending(d)')
    BY <1>0, <1>1, <2>2, <2>3, <2>6, ImagesMore DEF Rightly
  <2>10. RoomAddresses(d)' = RoomAddresses(d) /\ ~InLobby(d)'
    BY <1>0, <2>5 DEF RoomAddresses, InLobby, IsParticipant
  <2> QED
    BY <1>0, <2>5, <2>8, <2>9, <2>10 DEF ListsRightly
<1>4. CASE ~(IsParticipant(c) /\ d \in participants[r] \ {c})
  <2>1. outbox'[d] = outbox[d]
    <3> HIDE DEF m
    <3> QED
      BY <1>2, <1>4 DEF broadcast
  <2> QED
    BY <1>0, <1>1, <2>1, UnconcernedByServer
<1> QED
  BY <1>3, <1>4

\* The close of a connection that is in no room concerns nobody else.
LEMMA OutsiderRightly ==
    ASSUME RosterInv, ~wrapped, UNCHANGED clientVars, NEW c \in Conns, close_outsider(c),
           NEW d \in Conns, conn'[d] = "open"
    PROVE  Rightly(d)'
<1>1. /\ TypeOK
      /\ conn' = [e \in Conns |-> IF e \in {c} THEN "closed" ELSE conn[e]]
      /\ connection_room' =
            [e \in Conns |-> IF e \in {c} THEN NoRoom ELSE connection_room[e]]
      /\ outbox' = [outbox EXCEPT ![c] = << >>]
      /\ UNCHANGED <<participants, owner, ip_network>>
  BY DEF close_outsider, Forget, RosterInv, MembershipInv
<1>2. d # c
  BY <1>1
<1>3. Rightly(d)
  BY DEF RosterInv
<1>4. outbox'[d] = outbox[d] /\ conn'[d] = conn[d] /\ connection_room'[d] = connection_room[d]
  BY <1>1, <1>2 DEF TypeOK
<1> QED
  BY <1>1, <1>3, <1>4, UnconcernedByServer

\* A member leaves: those who stay are told its address and nobody else's.
LEMMA LeaveRightly ==
    ASSUME RosterInv, ~wrapped, UNCHANGED clientVars, NEW c \in Conns, remove_participant(c),
           NEW d \in Conns, conn'[d] = "open"
    PROVE  Rightly(d)'
<1> DEFINE r == connection_room[c]
           rest == participants[r] \ {c}
           m == Notice("PartnerExit", ip_network[c])
<1>1. /\ TypeOK /\ MembershipInv /\ ClientInv
      /\ conn' = [e \in Conns |-> IF e \in {c} THEN "closed" ELSE conn[e]]
      /\ connection_room' =
            [e \in Conns |-> IF e \in {c} THEN NoRoom ELSE connection_room[e]]
      /\ participants' = [participants EXCEPT ![r] = rest]
      /\ ip_network' = [ip_network EXCEPT ![c] = NoAddr]
      /\ outbox' = broadcast([outbox EXCEPT ![c] = << >>], rest, m)
      /\ owner' = owner
      /\ session' = session /\ leftover' = leftover
  BY DEF remove_participant, Forget, RosterInv, MembershipInv, clientVars
<1>2. r \in RoomIds /\ c \in participants[r]
  BY DEF remove_participant, IsParticipant, InLobby, RosterInv, MembershipInv, TypeOK
<1>3. d # c /\ conn[d] = "open" /\ conn'[d] = conn[d] /\ connection_room'[d] = connection_room[d]
  BY <1>1
<1>4. Rightly(d)
  BY DEF RosterInv
<1>5. outbox'[d] = IF d \in rest THEN Append(outbox[d], m) ELSE outbox[d]
  <2> HIDE DEF m, rest
  <2> QED
    BY <1>1, <1>3 DEF broadcast, TypeOK
<1>6. /\ participants'[r] = rest
      /\ \A q \in RoomIds : q # r => participants'[q] = participants[q]
      /\ \A e \in Conns : e # c => ip_network'[e] = ip_network[e]
  <2> HIDE DEF r
  <2> QED
    BY <1>1, <1>2 DEF TypeOK
<1>7. CASE d \in rest
  <2> SUFFICES ASSUME session[d] = "in"
               PROVE  ListsRightly(d)' /\ ImagesKnown(d, partner'[d], Pending(d)')
    BY <1>1 DEF Rightly
  <2>1. connection_room[d] = r
    BY <1>1, <1>2, <1>7, InOneRoom
  <2>2. m \in Packet /\ m.type # "ImgRecv"
    <3>1. m \in Packet
      BY <1>1, NoticeType DEF TypeOK, MessageTypes
    <3> QED
      BY <3>1 DEF Notice
  <2>3. outbox'[d] = Append(outbox[d], m)
    BY <1>5, <1>7
  <2>4. /\ RoomAddresses(d) \subseteq Listed(d)
        /\ Listed(d) \subseteq RoomAddresses(d) \cup leftover[d]
    BY <1>2, <1>4, <1>7, <2>1, CodeType DEF Rightly, ListsRightly, IsParticipant, InLobby
  <2>5. Listed(d)' = Listed(d) \ {ip_network[c]}
    <3>1. handle_message(d, Listed(d), m) = Listed(d) \ {ip_network[c]}
      BY HandleNotice
    <3> HIDE DEF m
    <3> QED
      BY <1>1, <2>2, <2>3, <3>1, PendingMore
  <2>6. ImagesKnown(d, partner'[d], Pending(d)')
    <3> HIDE DEF m
    <3> QED
      BY <1>1, <1>4, <2>2, <2>3, ImagesMore DEF Rightly
  <2>7. RoomAddresses(d)' = RoomAddresses(d) \ {ip_network[c]} /\ ~InLobby(d)'
    <3> DEFINE own == IF owner[r] = d \/ Understood(r) THEN {LocalIp[d]} ELSE {}
    <3>1. \A e \in participants[r] : e \in Conns /\ ip_network[e] = PeerIp[e]
      BY <1>1, <1>2 DEF RosterInv, AddressInv, TypeOK
    <3>2. LocalIp[d] # ip_network[c]
      BY <1>2, <1>3, <3>1, AddressAssumption
    <3>3. \A e \in rest : ip_network[e] # ip_network[c] /\ ip_network'[e] = ip_network[e]
      BY <1>2, <1>6, <3>1, AddressAssumption
    <3>4. RoomAddresses(d) = own \cup {ip_network[e] : e \in participants[r] \ {d}}
      BY <2>1 DEF RoomAddresses
    <3>5. RoomAddresses(d)' = own \cup {ip_network'[e] : e \in rest \ {d}}
      BY <1>1, <1>3, <1>6, <2>1 DEF RoomAddresses
    <3>6. {ip_network'[e] : e \in rest \ {d}}
             = {ip_network[e] : e \in participants[r] \ {d}} \ {ip_network[c]}
      <4>1. {ip_network'[e] : e \in rest \ {d}} = {ip_network[e] : e \in rest \ {d}}
        BY <3>3
      <4>2. participants[r] \ {d} = (rest \ {d}) \cup {c}
        BY <1>2, <1>3
      <4>3. {ip_network[e] : e \in (rest \ {d}) \cup {c}}
               = {ip_network[e] : e \in rest \ {d}} \cup {ip_network[c]}
        OBVIOUS
      <4>4. ip_network[c] \notin {ip_network[e] : e \in rest \ {d}}
        BY <3>3
      <4> QED
        BY <4>1, <4>2, <4>3, <4>4
    <3>7. ~InLobby(d)'
      BY <1>2, <1>3, <2>1, CodeType DEF InLobby
    <3>8. ip_network[c] \notin own
      BY <3>2
    <3> HIDE DEF own
    <3> QED
      BY <3>4, <3>5, <3>6, <3>7, <3>8
  <2> QED
    BY <1>1, <2>4, <2>5, <2>6, <2>7 DEF ListsRightly
<1>8. CASE d \notin rest
  <2>1. outbox'[d] = outbox[d]
    BY <1>5, <1>8
  <2>2. ASSUME ~InLobby(d)
        PROVE  /\ participants'[connection_room[d]] = participants[connection_room[d]]
               /\ \A e \in participants[connection_room[d]] : ip_network'[e] = ip_network[e]
    <3> DEFINE q == connection_room[d]
    <3>1. q \in RoomIds /\ d \in participants[q]
      BY <1>1, <2>2 DEF InLobby, TypeOK, MembershipInv, MappedIsParticipant
    <3>2. q # r
      BY <1>3, <1>8, <3>1
    <3>3. \A e \in participants[q] : e \in Conns /\ e # c
      BY <1>1, <3>1, <3>2, InOneRoom
    <3> HIDE DEF q, r
    <3> QED
      BY <1>6, <3>1, <3>2, <3>3 DEF q
  <2> QED
    BY <1>1, <1>3, <1>4, <2>1, <2>2, UnconcernedByServer
<1> QED
  BY <1>7, <1>8

\* The room goes with its owner: who stays connected was not in it.
LEMMA CloseRoomRightly ==
    ASSUME RosterInv, ~wrapped, UNCHANGED clientVars, NEW c \in Conns, close_room(c),
           NEW d \in Conns, conn'[d] = "open"
    PROVE  Rightly(d)'
<1> DEFINE r == connection_room[c]
           mapped == {e \in Conns : connection_room[e] = r}
<1>1. /\ TypeOK /\ MembershipInv
      /\ conn' = [e \in Conns |-> IF e \in participants[r] THEN "closed" ELSE conn[e]]
      /\ connection_room' =
            [e \in Conns |-> IF e \in mapped THEN NoRoom ELSE connection_room[e]]
      /\ participants' = [participants EXCEPT ![r] = {}]
      /\ owner' = [owner EXCEPT ![r] = NoConn]
      /\ outbox' = [e \in Conns |-> IF e \in participants[r] THEN << >> ELSE outbox[e]]
      /\ ip_network' =
            [e \in Conns |-> IF e \in participants[r] THEN NoAddr ELSE ip_network[e]]
  BY DEF close_room, Forget, RosterInv, MembershipInv
<1>2. r \in RoomIds
  BY DEF close_room, IsParticipant, InLobby, RosterInv, MembershipInv, TypeOK
<1>3. d \notin participants[r] /\ conn'[d] = conn[d] /\ outbox'[d] = outbox[d]
  BY <1>1
<1>4. connection_room[d] # r /\ connection_room'[d] = connection_room[d]
  <2>1. connection_room[d] # r
    BY <1>1, <1>2, <1>3, CodeType DEF MembershipInv, MappedIsParticipant
  <2> QED
    BY <1>1, <2>1
<1>5. Rightly(d)
  BY DEF RosterInv
<1>6. ASSUME ~InLobby(d)
      PROVE  /\ owner'[connection_room[d]] = owner[connection_room[d]]
             /\ participants'[connection_room[d]] = participants[connection_room[d]]
             /\ \A e \in participants[connection_room[d]] : ip_network'[e] = ip_network[e]
  <2> DEFINE q == connection_room[d]
  <2>1. q \in RoomIds /\ q # r
    BY <1>1, <1>4, <1>6 DEF InLobby, TypeOK
  <2>2. \A e \in participants[q] : e \in Conns /\ e \notin participants[r]
    BY <1>1, <1>2, <2>1, InOneRoom
  <2> HIDE DEF q, r
  <2>3. participants'[q] = participants[q] /\ owner'[q] = owner[q]
    BY <1>1, <2>1 DEF TypeOK
  <2>4. \A e \in participants[q] : ip_network'[e] = ip_network[e]
    BY <1>1, <2>2
  <2> QED
    BY <2>3, <2>4 DEF q
<1> QED
  BY <1>3, <1>4, <1>5, <1>6, UnconcernedByServer

-----------------------------------------------------------------------------
(***************************************************************************)
(* The clients' own steps.                                                 *)
(***************************************************************************)
\* A session begins with nothing under way; what is listed is brought along.
LEMMA AcceptRightly ==
    ASSUME RosterInv, ~wrapped, NEW c \in Conns, accept(c), NEW d \in Conns
    PROVE  Rightly(d)'
<1>1. /\ MembershipInv /\ ClientInv /\ conn \in [Conns -> {"open", "closed"}]
      /\ conn[c] = "closed" /\ incoming[c] = << >>
      /\ conn' = [conn EXCEPT ![c] = "open"]
      /\ session' = [session EXCEPT ![c] = "in"]
      /\ leftover' = [leftover EXCEPT ![c] = partner[c]]
      /\ UNCHANGED <<connection_room, participants, owner, ip_network, outbox, partner, incoming>>
  BY DEF accept, on_new_connection, RosterInv, MembershipInv, TypeOK
<1>2. Rightly(d)
  BY DEF RosterInv
<1>3. CASE d = c
  <2>1. outbox'[c] = << >> /\ connection_room'[c] = NoRoom
    BY <1>1 DEF MembershipInv, ClosedIsForgotten
  <2>2. Pending(c)' = << >>
    BY <1>1, <2>1 DEF Pending
  <2>3. Listed(c)' = leftover'[c]
    BY <1>1, <2>2, ReplayEmpty DEF Listed, ClientInv
  <2>4. ImagesKnown(c, partner'[c], Pending(c)')
    BY <2>2, ImagesEmpty
  <2> QED
    BY <1>3, <2>1, <2>3, <2>4 DEF Rightly, ListsRightly, IsParticipant, InLobby
<1>4. CASE d # c
  <2>1. /\ conn'[d] = conn[d] /\ session'[d] = session[d] /\ leftover'[d] = leftover[d]
        /\ Pending(d)' = Pending(d)
    BY <1>1, <1>4 DEF ClientInv, Pending
  <2> QED
    BY <1>1, <1>2, <2>1, UnconcernedRightly
<1> QED
  BY <1>3, <1>4

\* A packet arrives: what is under way is the same.
LEMMA DeliverRightly ==
    ASSUME RosterInv, ~wrapped, NEW c \in Conns, deliver(c), NEW d \in Conns
    PROVE  Rightly(d)'
<1>1. /\ MembershipInv /\ ClientInv /\ outbox \in [Conns -> Seq(Packet)]
      /\ outbox[c] # << >> /\ outbox' = [outbox EXCEPT ![c] = Tail(@)]
      /\ UNCHANGED <<conn, connection_room, participants, owner, ip_network,
                     partner, session, leftover>>
      /\ \/ incoming' = [incoming EXCEPT ![c] = Append(@, Head(outbox[c]))]
         \/ session[c] = "out" /\ incoming' = incoming
  BY DEF deliver, do_write, RosterInv, MembershipInv, TypeOK
<1>2. Rightly(d)
  BY DEF RosterInv
<1>3. CASE d = c /\ session[c] = "out"
  BY <1>1, <1>3 DEF Rightly
<1>4. CASE d = c /\ session[c] # "out"
  <2>1. incoming[c] \in Seq(Packet) /\ outbox[c] \in Seq(Packet)
    BY <1>1 DEF ClientInv
  <2>2. outbox'[c] = Tail(outbox[c]) /\ incoming'[c] = Append(incoming[c], Head(outbox[c]))
    BY <1>1, <1>4 DEF ClientInv
  <2>3. Pending(c)' = Pending(c)
    BY <1>1, <2>1, <2>2, QueueMoves DEF Pending
  <2> QED
    BY <1>1, <1>2, <1>4, <2>3, UnconcernedRightly
<1>5. CASE d # c
  <2>1. Pending(d)' = Pending(d)
    BY <1>1, <1>5 DEF Pending, ClientInv
  <2> QED
    BY <1>1, <1>2, <2>1, UnconcernedRightly
<1> QED
  BY <1>3, <1>4, <1>5

\* The client handles a packet: what it will list stays the same.
LEMMA HandleRightly ==
    ASSUME RosterInv, ~wrapped, NEW c \in Conns, handle(c), NEW d \in Conns
    PROVE  Rightly(d)'
<1>1. /\ MembershipInv /\ ClientInv /\ incoming[c] # << >>
      /\ partner' = [partner EXCEPT ![c] = handle_message(c, @, Head(incoming[c]))]
      /\ incoming' = [incoming EXCEPT ![c] = Tail(@)]
      /\ UNCHANGED <<conn, connection_room, participants, owner, ip_network, outbox,
                     session, leftover>>
  BY DEF handle, RosterInv, serverVars
<1>2. Rightly(d)
  BY DEF RosterInv
<1>3. CASE d = c
  <2>1. incoming[c] \in Seq(Packet) /\ outbox[c] \in Seq(Packet)
    BY <1>1 DEF ClientInv, MembershipInv, TypeOK
  <2>2. /\ Pending(c) \in Seq(Packet) /\ Pending(c) # << >>
        /\ Head(Pending(c)) = Head(incoming[c])
        /\ Pending(c)' = Tail(Pending(c))
    <3>1. incoming'[c] = Tail(incoming[c]) /\ outbox'[c] = outbox[c]
      BY <1>1 DEF ClientInv
    <3> DEFINE s == incoming[c]
               t == outbox[c]
    <3>2. /\ s \in Seq(Packet) /\ t \in Seq(Packet) /\ s # << >>
          /\ Pending(c) = s \o t /\ Pending(c)' = Tail(s) \o t
      BY <1>1, <2>1, <3>1 DEF Pending
    <3>3. Head(s) = Head(incoming[c])
      OBVIOUS
    <3> HIDE DEF s, t
    <3>4. s \o t \in Seq(Packet)
      BY <3>2, QueueDropped
    <3>5. s \o t # << >> /\ Head(s \o t) = Head(s) /\ Tail(s \o t) = Tail(s) \o t
      BY <3>2, QueueFirst
    <3> QED
      BY <3>2, <3>3, <3>4, <3>5
  <2>3. partner'[c] = handle_message(c, partner[c], Head(Pending(c)))
    BY <1>1, <2>2 DEF ClientInv
  <2>4. Listed(c)' = Listed(c)
    BY <2>2, <2>3, ReplayTail DEF Listed
  <2>5. session[c] = "in" => ImagesKnown(c, partner'[c], Pending(c)')
    BY <1>2, <1>3, <2>2, <2>3, ImagesTail DEF Rightly
  <2>6. /\ IsParticipant(c)' <=> IsParticipant(c)
        /\ InLobby(c)' <=> InLobby(c)
        /\ RoomAddresses(c)' = RoomAddresses(c)
    BY <1>1 DEF IsParticipant, InLobby, RoomAddresses
  <2> QED
    BY <1>1, <1>2, <1>3, <2>4, <2>5, <2>6 DEF Rightly, ListsRightly
<1>4. CASE d # c
  <2>1. Pending(d)' = Pending(d) /\ partner'[d] = partner[d]
    BY <1>1, <1>4 DEF Pending, ClientInv
  <2> QED
    BY <1>1, <1>2, <2>1, UnconcernedRightly
<1> QED
  BY <1>3, <1>4

\* Who ends a session, loses its socket or handles an answer thereafter is in no
\* session; it is nobody else's matter.
LEMMA EndRightly ==
    ASSUME RosterInv, ~wrapped, NEW c \in Conns, NEW d \in Conns,
           end_meeting_session(c) \/ disconnect(c) \/ handle_late_answer(c)
    PROVE  Rightly(d)'
<1>1. /\ ClientInv /\ Rightly(d)
      /\ UNCHANGED <<conn, connection_room, participants, owner, ip_network, outbox>>
  BY DEF handle_late_answer, end_meeting_session, disconnect, serverVars, RosterInv
<1>2. session'[c] # "in"
  BY <1>1 DEF handle_late_answer, end_meeting_session, disconnect, ClientInv
<1>3. CASE d = c
  BY <1>2, <1>3 DEF Rightly
<1>4. CASE d # c
  <2>1. /\ partner'[d] = partner[d] /\ session'[d] = session[d] /\ leftover'[d] = leftover[d]
        /\ incoming'[d] = incoming[d]
    BY <1>1, <1>4 DEF handle_late_answer, end_meeting_session, disconnect, ClientInv
  <2>2. Pending(d)' = Pending(d)
    BY <1>1, <2>1 DEF Pending
  <2> QED
    BY <1>1, <2>1, <2>2, UnconcernedRightly
<1> QED
  BY <1>3, <1>4

LEMMA StepClient ==
    ASSUME MembershipInv, ClientInv, [RosterNext]_rosterVars
    PROVE  ClientInv'
<1>1. CASE UNCHANGED clientVars
  BY <1>1 DEF ClientInv, clientVars
<1>2. ASSUME NEW c \in Conns, accept(c) \/ end_meeting_session(c)
      PROVE  ClientInv'
  BY <1>2 DEF ClientInv, accept, end_meeting_session
<1>3. ASSUME NEW c \in Conns, deliver(c)
      PROVE  ClientInv'
  <2>1. outbox[c] \in Seq(Packet) /\ outbox[c] # << >>
    BY <1>3 DEF deliver, do_write, MembershipInv, TypeOK
  <2>2. Head(outbox[c]) \in Packet
    BY <2>1
  <2>3. incoming[c] \in Seq(Packet) /\ incoming \in [Conns -> Seq(Packet)]
    BY DEF ClientInv
  <2>4. Append(incoming[c], Head(outbox[c])) \in Seq(Packet)
    BY <2>2, <2>3
  <2>5. incoming' \in [Conns -> Seq(Packet)]
    BY <1>3, <2>3, <2>4 DEF deliver
  <2> QED
    BY <1>3, <2>5 DEF ClientInv, deliver
<1>4. ASSUME NEW c \in Conns, handle(c) \/ handle_late_answer(c)
      PROVE  ClientInv'
  <2>1. Tail(incoming[c]) \in Seq(Packet)
    BY <1>4 DEF ClientInv, handle, handle_late_answer
  <2> QED
    BY <1>4, <2>1 DEF ClientInv, handle, handle_late_answer
<1>5. ASSUME NEW c \in Conns, disconnect(c)
      PROVE  ClientInv'
  <2>1. PICK posted \in 0 .. Len(incoming[c]) :
            incoming' = [incoming EXCEPT ![c] = SubSeq(@, 1, posted)]
    BY <1>5 DEF disconnect
  <2>2. SubSeq(incoming[c], 1, posted) \in Seq(Packet)
    BY DEF ClientInv
  <2> QED
    BY <1>5, <2>1, <2>2 DEF ClientInv, disconnect
<1> QED
  BY <1>1, <1>2, <1>3, <1>4, <1>5 DEF RosterNext, server_step, rosterVars
-----------------------------------------------------------------------------
(***************************************************************************)
(* The rest of the invariant.                                              *)
(***************************************************************************)
\* Only an address that the server has read is stored.
LEMMA StepAddress ==
    ASSUME RosterInv, NEW c \in Conns, ServerStep(c) \/ do_write(c), MembershipInv'
    PROVE  AddressInv'
<1>0. TypeOK /\ MembershipInv
  BY DEF RosterInv, MembershipInv
<1> SUFFICES ASSUME NEW r \in RoomIds, NEW d \in participants'[r]
             PROVE  ip_network'[d] = PeerIp[d]
  BY DEF AddressInv
<1>1. d \in Conns /\ conn'[d] = "open"
  BY DEF MembershipInv, ClosedIsForgotten, TypeOK
<1>2. d \in participants[r] => ip_network[d] = PeerIp[d]
  BY DEF RosterInv, AddressInv
<1>3. CASE UNCHANGED <<participants, ip_network>>
  BY <1>2, <1>3
<1>4. CASE handle_create_meeting(c)
  <2>1. CASE \E ip \in peer_ip_network(c) : create_room(c, ip)
    <3>1. create_room(c, PeerIp[c])
      BY <2>1, PeerIsKnown
    <3>2. CASE next_room_id \in rooms
      BY <1>3, <3>1, <3>2 DEF create_room
    <3>3. CASE next_room_id \notin rooms
      <4>1. /\ participants' = [participants EXCEPT ![next_room_id] = {c}]
            /\ ip_network' = [ip_network EXCEPT ![c] = PeerIp[c]]
        BY <3>1, <3>3 DEF create_room
      <4>2. d = c \/ d \in participants[r]
        BY <1>0, <4>1 DEF TypeOK
      <4> QED
        BY <1>0, <1>1, <1>2, <4>1, <4>2 DEF TypeOK
    <3> QED
      BY <3>2, <3>3
  <2>2. CASE UNCHANGED <<participants, ip_network>>
    BY <1>3, <2>2
  <2> QED
    BY <1>4, <2>1, <2>2 DEF handle_create_meeting
<1>5. CASE \E q \in RoomIds : handle_join_meeting(c, q)
  <2>1. PICK q \in RoomIds : handle_join_meeting(c, q)
    BY <1>5
  <2>2. CASE \E ip \in peer_ip_network(c) : \E noticeIp \in {ip, NoAddr} :
                join_accepted(c, q, ip, noticeIp)
    <3>1. PICK ip \in peer_ip_network(c) : \E noticeIp \in {ip, NoAddr} :
                join_accepted(c, q, ip, noticeIp)
      BY <2>2
    <3>2. /\ participants' = [participants EXCEPT ![q] = @ \cup {c}]
          /\ ip_network' = [ip_network EXCEPT ![c] = PeerIp[c]]
      BY <3>1, PeerIsKnown DEF join_accepted
    <3>3. d = c \/ d \in participants[r]
      BY <1>0, <3>2 DEF TypeOK
    <3> QED
      BY <1>0, <1>1, <1>2, <3>2, <3>3 DEF TypeOK
  <2>3. CASE UNCHANGED <<participants, ip_network>>
    BY <1>3, <2>3
  <2> QED
    BY <2>1, <2>2, <2>3 DEF handle_join_meeting
<1>6. CASE CloseEffect(c)
  <2>1. CASE close_outsider(c)
    BY <1>3, <2>1 DEF close_outsider
  <2>2. CASE remove_participant(c)
    <3>1. /\ participants' = [participants EXCEPT ![connection_room[c]] = @ \ {c}]
          /\ ip_network' = [ip_network EXCEPT ![c] = NoAddr]
          /\ conn' = [e \in Conns |-> IF e \in {c} THEN "closed" ELSE conn[e]]
      BY <2>2 DEF remove_participant, Forget
    <3>2. d # c /\ d \in participants[r]
      BY <1>0, <1>1, <3>1 DEF TypeOK
    <3> QED
      BY <1>0, <1>1, <1>2, <3>1, <3>2 DEF TypeOK
  <2>3. CASE close_room(c)
    <3> DEFINE q == connection_room[c]
    <3>1. /\ participants' = [participants EXCEPT ![q] = {}]
          /\ ip_network' = [e \in Conns |->
                              IF e \in participants[q] THEN NoAddr ELSE ip_network[e]]
          /\ conn' = [e \in Conns |->
                              IF e \in participants[q] THEN "closed" ELSE conn[e]]
      BY <2>3 DEF close_room, Forget
    <3> HIDE DEF q
    <3>2. d \notin participants[q] /\ d \in participants[r]
      BY <1>0, <1>1, <3>1 DEF TypeOK
    <3> QED
      BY <1>1, <1>2, <3>1, <3>2
  <2> QED
    BY <1>6, <2>1, <2>2, <2>3 DEF CloseEffect
<1>7. CASE on_new_connection(c) \/ do_write(c) \/ \E t \in SentTypes : handle_packet(c, t)
  BY <1>3, <1>7 DEF on_new_connection, do_write, handle_packet
<1> QED
  BY <1>4, <1>5, <1>6, <1>7
  DEF ServerStep, connection_lost, read_invalid, handle_unexpected_lobby

\* Until it overflows, the counter gives ids above 0.
LEMMA StepPositive ==
    ASSUME RosterInv, NEW c \in Conns, ServerStep(c) \/ do_write(c)
    PROVE  /\ PositiveInv'
           /\ ~wrapped' => ~wrapped
<1>0. TypeOK /\ IdsBelowNext /\ PositiveInv
  BY DEF RosterInv, MembershipInv
<1>1. CASE rooms' \subseteq rooms /\ wrapped' = wrapped
  BY <1>0, <1>1 DEF PositiveInv
<1>2. CASE \E ip \in peer_ip_network(c) : create_room(c, ip)
  <2>1. rooms' = rooms \cup {next_room_id}
    BY <1>2 DEF create_room
  <2>2. ~wrapped' => ~wrapped
    BY <1>2, Zenon DEF create_room
  <2> QED
    BY <1>0, <2>1, <2>2 DEF PositiveInv, IdsBelowNext
<1>3. CASE handle_create_meeting(c)
  BY <1>1, <1>2, <1>3 DEF handle_create_meeting
<1>4. CASE \E r \in RoomIds : handle_join_meeting(c, r)
  BY <1>1, <1>4 DEF handle_join_meeting, join_accepted
<1>5. CASE CloseEffect(c)
  BY <1>1, <1>5 DEF CloseEffect, close_outsider, remove_participant, close_room
<1>6. CASE on_new_connection(c) \/ do_write(c) \/ \E t \in SentTypes : handle_packet(c, t)
  BY <1>1, <1>6 DEF on_new_connection, do_write, handle_packet
<1> QED
  BY <1>3, <1>4, <1>5, <1>6
  DEF ServerStep, connection_lost, read_invalid, handle_unexpected_lobby

LEMMA StepRoster == RosterInv /\ [RosterNext]_rosterVars => RosterInv'
<1> SUFFICES ASSUME RosterInv, [RosterNext]_rosterVars PROVE RosterInv'
  OBVIOUS
<1>1. MembershipInv' /\ ClientInv'
  BY RosterStepIsStep, StepMembership, StepClient DEF RosterInv
<1>2. TypeOK' /\ MembershipInv /\ ClientInv
  BY <1>1 DEF MembershipInv, RosterInv
<1>3. CASE UNCHANGED rosterVars
  <2>1. /\ UNCHANGED <<conn, connection_room, rooms, participants, owner, ip_network,
                       wrapped, outbox>>
        /\ UNCHANGED clientVars
    BY <1>3 DEF rosterVars, serverVars
  <2>2. AddressInv' /\ PositiveInv'
    BY <2>1 DEF RosterInv, AddressInv, PositiveInv
  <2>3. ASSUME NEW c \in Conns, Rightly(c)
        PROVE  Rightly(c)'
    BY <2>1, <2>3, UnconcernedByServer
  <2> QED
    BY <1>1, <2>1, <2>2, <2>3 DEF RosterInv
<1>4. ASSUME NEW c \in Conns, \/ handle(c) \/ handle_late_answer(c)
                              \/ end_meeting_session(c) \/ disconnect(c)
      PROVE  RosterInv'
  <2>1. UNCHANGED <<rooms, participants, ip_network, wrapped>>
    BY <1>4 DEF handle, handle_late_answer, end_meeting_session, disconnect, serverVars
  <2>2. AddressInv' /\ PositiveInv'
    BY <2>1 DEF RosterInv, AddressInv, PositiveInv
  <2>3. ASSUME ~wrapped', NEW d \in Conns
        PROVE  Rightly(d)'
    BY <1>4, <2>1, <2>3, HandleRightly, EndRightly
  <2> QED
    BY <1>1, <2>2, <2>3 DEF RosterInv
<1>5. ASSUME NEW c \in Conns, accept(c) \/ deliver(c)
      PROVE  RosterInv'
  <2>1. (ServerStep(c) \/ do_write(c)) /\ wrapped' = wrapped
    BY <1>5 DEF accept, on_new_connection, deliver, do_write, ServerStep
  <2>2. AddressInv' /\ PositiveInv'
    BY <1>1, <2>1, StepAddress, StepPositive
  <2>3. ASSUME ~wrapped', NEW d \in Conns
        PROVE  Rightly(d)'
    BY <1>5, <2>1, <2>3, AcceptRightly, DeliverRightly
  <2> QED
    BY <1>1, <2>2, <2>3 DEF RosterInv
<1>6. ASSUME NEW c \in Conns, server_step(c)
      PROVE  RosterInv'
  <2>1. ServerStep(c) /\ UNCHANGED clientVars /\ ~on_new_connection(c)
    BY <1>6 DEF server_step, on_new_connection
  <2>2. AddressInv' /\ PositiveInv' /\ (~wrapped' => ~wrapped)
    BY <1>1, <2>1, StepAddress, StepPositive
  <2>3. ASSUME ~wrapped', NEW d \in Conns, conn'[d] = "open"
        PROVE  Rightly(d)'
    <3>1. ~wrapped
      BY <2>2, <2>3
    <3>2. CASE handle_create_meeting(c)
      BY <2>1, <2>3, <3>2, CreateRightly
    <3>3. CASE \E r \in RoomIds : handle_join_meeting(c, r)
      BY <2>1, <2>3, <3>3, JoinRightly
    <3>4. CASE \E t \in SentTypes : handle_packet(c, t)
      BY <2>1, <3>1, <3>4, PacketRightly
    <3>5. CASE CloseEffect(c)
      BY <2>1, <2>3, <3>1, <3>5, OutsiderRightly, LeaveRightly, CloseRoomRightly
      DEF CloseEffect
    <3> QED
      BY <2>1, <3>2, <3>3, <3>4, <3>5
      DEF ServerStep, connection_lost, read_invalid, handle_unexpected_lobby
  <2>4. ASSUME ~wrapped', NEW d \in Conns, conn'[d] # "open"
        PROVE  Rightly(d)'
    <3>1. conn'[d] = "closed"
      BY <1>2, <2>4 DEF TypeOK
    <3>2. Rightly(d)
      BY <2>2, <2>4 DEF RosterInv
    <3> QED
      BY <1>1, <1>2, <2>1, <3>1, <3>2, ClosedRightly
  <2> QED
    BY <1>1, <2>2, <2>3, <2>4 DEF RosterInv
<1> QED
  BY <1>3, <1>4, <1>5, <1>6 DEF RosterNext
-----------------------------------------------------------------------------
LEMMA Inductive == RosterSpec => []RosterInv
BY InitRoster, StepRoster, PTL DEF RosterSpec

\* Until the room counter overflows, every client in a room will list, once it
\* has handled what is under way to it, those who are in the room and nobody
\* else but whom it has brought from the session before; in no room, only these.
THEOREM ListsAgree == RosterSpec => []RosterAgrees
<1>1. RosterInv => RosterAgrees
  BY RosterInvImplies
<1> QED
  BY <1>1, Inductive, PTL

\* In a session an image is handled only when its sender is listed: none brings
\* back a member who has left.
THEOREM ImagesAreOfMembers == RosterSpec => []ImagesFromMembers
<1>1. RosterInv => ImagesFromMembers
  BY RosterInvImplies
<1> QED
  BY <1>1, Inductive, PTL
=============================================================================
