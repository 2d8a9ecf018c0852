--------------------------- MODULE MCMeetingServer ---------------------------
(* Small instances of MeetingServer for TLC.                                *)
EXTENDS MeetingServer, TLC

\* Each connection has an address of its own, which it is named for.
OwnIp == [c \in Conns |-> c]

ConnSymmetry == Permutations(Conns)
==============================================================================
