---------------------------- MODULE PacketChannel ----------------------------
(***************************************************************************)
(* What either direction of a connection promises: the packets come out as *)
(* they went in, none lost, doubled, changed or overtaken.                 *)
(***************************************************************************)
EXTENDS Integers, Sequences

CONSTANT Packets
VARIABLES sent, delivered

Init == sent = << >> /\ delivered = << >>

Send == \E p \in Packets : sent' = Append(sent, p) /\ UNCHANGED delivered

\* One read of the socket may complete several packets.
Deliver ==
    /\ Len(delivered) < Len(sent)
    /\ \E n \in Len(delivered) + 1 .. Len(sent) :
           delivered' = SubSeq(sent, 1, n)
    /\ UNCHANGED sent

Next == Send \/ Deliver
Spec == Init /\ [][Next]_<<sent, delivered>>
=============================================================================
