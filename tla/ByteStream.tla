----------------------------- MODULE ByteStream -----------------------------
(***************************************************************************)
(* What the two directions of a connection have in common: bytes under     *)
(* way, and what has been put in at one end and has come out of the other. *)
(***************************************************************************)
EXTENDS WireCodec, SequencesExt

VARIABLES
    network,   \* written by one end, not read by the other
    sent,      \* the packets or messages sent
    delivered  \* those handed on by the receiver

StreamInit == network = << >> /\ sent = << >> /\ delivered = << >>

\* The frames of a sequence of packets, and where the frame after the first j
\* of them begins.
Offset(frames, j) == Len(FlattenSeq(SubSeq(frames, 1, j)))
=============================================================================
