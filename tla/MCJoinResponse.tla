--------------------------- MODULE MCJoinResponse ---------------------------
(* Join responses with room numbers on either side of 128.                 *)
EXTENDS DownStream
MCJoinPackets ==
    {Packet("JoinMeetingResponse", Zero32, <<0, 0, h, l>>)
        : h \in {0, 1}, l \in {0, 1, 127, 128}}
=============================================================================
