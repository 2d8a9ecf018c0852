--------------------------- MODULE MCMeetingRoster ---------------------------
(* Small instances of MeetingRoster for TLC.                                *)
EXTENDS MeetingRoster, SequencesExt

\* One address per client, the same on both ends of the connection.
OwnIp == [c \in Conns |-> c]

\* Replay is what handling one packet after the other comes to.
SomePackets ==
    {Response("JoinMeetingResponse", 1), Response("JoinMeetingResponse", CodeFull)}
        \cup {Notice(t, ip) : t \in {"PartnerJoin", "PartnerExit", "ImgRecv"}, ip \in Conns}
        \cup {PartnerList(Conns)}

ASSUME ReplayHandlesInOrder ==
    \A n \in 0 .. 3 : \A s \in [1 .. n -> SomePackets] :
        LET c == CHOOSE d \in Conns : TRUE
        IN  \A p \in {{}, {c}} :
                Replay(c, p, s) = FoldLeft(LAMBDA q, m : handle_message(c, q, m), p, s)

ConnSymmetry == Permutations(Conns)
==============================================================================
