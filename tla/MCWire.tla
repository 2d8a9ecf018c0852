------------------------------- MODULE MCWire -------------------------------
(* A small instance of Wire for TLC.                                       *)
EXTENDS Wire

A == <<10, 0, 0, 36>>
B == <<10, 0, 35, 200>>

\* One packet of each shape, with the delimiters inside a body.
MCPackets ==
    {Packet("CreateMeetingResponse", Zero32, <<0, 0, 0, 1>>),
     Packet("JoinMeetingResponse", Zero32, <<0, 0, 0, 1>>),
     Packet("PartnerJoin2", Zero32, A \o B),
     Packet("PartnerExit", B, << >>),
     Packet("TextRecv", A, <<36, 0, 35>>)}

\* A request without a body, a join, and a text with both delimiters in it.
MCMessages ==
    {Message("CreateMeeting", Zero32, << >>, << >>),
     Message("JoinMeeting", Zero32, <<<<0, 0, 36, 35>>>>, << >>),
     Message("TextSend", Zero32, << >>, <<36, 0, 35, 0, 0, 0>>)}

MCLocalIp == <<192, 168, 35, 36>>
=============================================================================
