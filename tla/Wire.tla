-------------------------------- MODULE Wire --------------------------------
(***************************************************************************)
(* Both directions of a connection.  They share nothing but the wire       *)
(* format, so that a behaviour is one of either: the server's packets to   *)
(* the client (DownStream) or the client's to the server (UpStream).       *)
(***************************************************************************)
EXTENDS DownStream, UpStream

VARIABLE direction

wireVars == <<direction, network, sent, delivered, downVars, upVars>>

Init == direction \in {"down", "up"} /\ StreamInit /\ DownInit /\ UpInit

Downwards(action) == direction = "down" /\ action /\ UNCHANGED <<direction, upVars>>
Upwards(action) == direction = "up" /\ action /\ UNCHANGED <<direction, downVars>>

SendDown == Downwards(send)
WriteDown == Downwards(write_handler)
ReadDown == Downwards(onReadyRead)
SendUp == Upwards(sendWireData)
ReadUp == Upwards(do_read)

Next == SendDown \/ WriteDown \/ ReadDown \/ SendUp \/ ReadUp
Spec == Init /\ [][Next]_wireVars

\* The sockets make progress; nobody need send.
FairSpec ==
    Spec /\ WF_wireVars(WriteDown) /\ WF_wireVars(ReadDown) /\ WF_wireVars(ReadUp)
-----------------------------------------------------------------------------
\* The types of either direction, with the order of the positions of the
\* server's buffer (the assertions of move_read_pos and move_write_pos) and the
\* length of the write under way.
TypeOK == IF direction = "down" THEN DownTypeOK ELSE UpTypeOK

\* What can be read from the server's buffer is what has arrived since the last
\* complete frame, through every compaction and growth.
ReadableIsUnread == direction = "up" => UnreadOnly

\* The buffers of both ends suffice and are bounded: the limit of the client's
\* parser throws nothing away, and the server's buffer does not grow with the
\* length of the session.
BuffersSuffice == IF direction = "down" THEN NoReset ELSE BufferBounded

\* Either direction implements PacketChannel: the packets come out as they were
\* meant and in order, whatever pieces they are written and read in.
Channel == INSTANCE PacketChannel WITH
    Packets <- {Blurred(Meaning(p)) : p \in Packets}
                 \cup {AsPacket(m) : m \in Messages},
    sent <- IF direction = "down"
            THEN [i \in DOMAIN sent |-> Blurred(Meaning(sent[i]))]
            ELSE [i \in DOMAIN sent |-> AsPacket(sent[i])],
    delivered <- IF direction = "down"
                 THEN [i \in DOMAIN delivered |-> Blurred(delivered[i])]
                 ELSE delivered
ImplementsChannel == Channel!Spec

\* Everything that is sent arrives: the packets of a session being as many as
\* the bounds allow, there comes a time when none is under way, held in a
\* buffer or waiting for the end of a write.
AllArrive == []<>(Len(delivered) = Len(sent))
=============================================================================
