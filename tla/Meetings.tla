------------------------------- MODULE Meetings -------------------------------
(***************************************************************************)
(* What the message server promises, without ids, maps or queues: users    *)
(* come online, host a meeting or join one that is running, and a meeting  *)
(* ends, for everybody in it, when its host goes offline.  room.h states   *)
(* the rule: the owner's disconnect closes the room, a member's leaves it. *)
(***************************************************************************)
EXTENDS Naturals, FiniteSets

CONSTANTS
    Users,
    None,             \* not a user: in no meeting
    MeetingLimit,     \* meetings that may run at once
    AttendanceLimit   \* users in one meeting

VARIABLES
    online,           \* the connected users
    meeting           \* the host of the meeting each user attends, or None

meetingVars == <<online, meeting>>

Attending(h) == {u \in Users : meeting[u] = h}
Hosts == {u \in Users : meeting[u] = u}

Init ==
    /\ online = {}
    /\ meeting = [u \in Users |-> None]

Connect(u) ==
    /\ u \notin online
    /\ online' = online \cup {u}
    /\ UNCHANGED meeting

Host(u) ==
    /\ u \in online /\ meeting[u] = None
    /\ Cardinality(Hosts) < MeetingLimit
    /\ meeting' = [meeting EXCEPT ![u] = u]
    /\ UNCHANGED online

Attend(u, h) ==
    /\ u \in online /\ meeting[u] = None
    /\ h \in Hosts /\ Cardinality(Attending(h)) < AttendanceLimit
    /\ meeting' = [meeting EXCEPT ![u] = h]
    /\ UNCHANGED online

\* A member's disconnect takes one user offline, a host's the whole meeting.
Disconnect(u) ==
    LET gone == IF u \in Hosts THEN Attending(u) ELSE {u}
    IN  /\ u \in online
        /\ online' = online \ gone
        /\ meeting' = [v \in Users |-> IF v \in gone THEN None ELSE meeting[v]]

Next == \E u \in Users :
    Connect(u) \/ Host(u) \/ (\E h \in Users : Attend(u, h)) \/ Disconnect(u)

Spec == Init /\ [][Next]_meetingVars
===============================================================================
