------------------------------ MODULE WireCodec ------------------------------
(***************************************************************************)
(* The frame format of both programs, byte by byte:                        *)
(*     $ | type 2 | ip 4 | size 4 | body | #                               *)
(* the server's protocol::Codec and the client's MessageCodec.  A number   *)
(* of four bytes is the tuple of its bytes, the most significant first, so *)
(* that every value of 32 bits can be written down.  Bodies of pictures,   *)
(* texts and sound are opaque bytes: compression and JPEG are external.    *)
(***************************************************************************)
EXTENDS Integers, Sequences

Byte == 0 .. 255
Word == [1 .. 4 -> Byte]
Magic == 36
TailByte == 35
HeaderSize == 11
Zero32 == <<0, 0, 0, 0>>

MsgType ==
    [ImgSend |-> 0, ImgRecv |-> 1, AudioSend |-> 2, AudioRecv |-> 3,
     TextSend |-> 4, TextRecv |-> 5, CreateMeeting |-> 6, ExitMeeting |-> 7,
     JoinMeeting |-> 8, CloseCamera |-> 9, CreateMeetingResponse |-> 20,
     PartnerExit |-> 21, PartnerJoin |-> 22, JoinMeetingResponse |-> 23,
     PartnerJoin2 |-> 24]
TypeOfCode(code) == CHOOSE t \in DOMAIN MsgType : MsgType[t] = code

\* The packets of the server: the body is in network order already.
Packet(type, ip, payload) == [type |-> type, ip |-> ip, payload |-> payload]

U16(n) == <<n \div 256, n % 256>>
U32(n) == <<n \div 16777216, (n \div 65536) % 256, (n \div 256) % 256, n % 256>>

\* A size of 2^30 or more is longer than anything modelled.
Unmodelled == 1073741824
SizeAt(bytes, i) ==
    IF bytes[i] >= 64 THEN Unmodelled
    ELSE 16777216 * bytes[i] + 65536 * bytes[i + 1] + 256 * bytes[i + 2]
            + bytes[i + 3]
U32At(bytes, i) == SubSeq(bytes, i, i + 3)

Frame(type, ip, body) ==
    <<Magic>> \o U16(MsgType[type]) \o ip \o U32(Len(body)) \o body
        \o <<TailByte>>
-----------------------------------------------------------------------------
\* Codec::header_includes_ip and Codec::encode.
header_includes_ip(type) ==
    type \notin {"CreateMeetingResponse", "JoinMeetingResponse", "PartnerJoin2"}

encode(p) ==
    Frame(p.type, IF header_includes_ip(p.type) THEN p.ip ELSE Zero32,
          p.payload)

(***************************************************************************)
(* Codec::try_decode on the readable bytes: a status, and with Ok the      *)
(* packet and how much of the buffer it took.                              *)
(***************************************************************************)
try_decode(bytes) ==
    IF Len(bytes) < HeaderSize THEN [status |-> "NeedMore"]
    ELSE IF bytes[1] # Magic THEN [status |-> "Invalid"]
    ELSE LET frame_size == HeaderSize + SizeAt(bytes, 8) + 1
         IN  IF Len(bytes) < frame_size THEN [status |-> "NeedMore"]
             ELSE IF bytes[frame_size] # TailByte THEN [status |-> "Invalid"]
             ELSE [status |-> "Ok", frame_size |-> frame_size,
                   packet |-> Packet(TypeOfCode(256 * bytes[2] + bytes[3]),
                                     U32At(bytes, 4),
                                     SubSeq(bytes, 12, frame_size - 1))]
-----------------------------------------------------------------------------
(***************************************************************************)
(* The client's messages: the numbers in them as the program reads them,   *)
(* the most significant byte first.                                        *)
(***************************************************************************)
Message(type, ip, numbers, body) ==
    [type |-> type, ip |-> ip, numbers |-> numbers, body |-> body]

Reverse4(b) == <<b[4], b[3], b[2], b[1]>>

\* The frames that carry their length: all that are sent.  EXIT_MEETING, which no
\* code sends, has none.
wire_frame_needs_length_field(type) ==
    type \in {"CreateMeeting", "AudioSend", "CloseCamera", "ImgSend", "TextSend",
              "JoinMeeting"}

\* Mutant: the room number is written in host order.
encode_wire_frame_HostOrder(m, local_ip) ==
    Frame(m.type, local_ip,
          IF m.type = "JoinMeeting" THEN Reverse4(m.numbers[1]) ELSE m.body)

\* MessageCodec::encode_wire_frame: only a join has a body of its own making, and
\* not every frame has a length.
encode_wire_frame(m, local_ip) ==
    LET body == IF m.type = "JoinMeeting" THEN m.numbers[1] ELSE m.body
    IN  IF wire_frame_needs_length_field(m.type) THEN Frame(m.type, local_ip, body)
        ELSE <<Magic>> \o U16(MsgType[m.type]) \o local_ip \o body \o <<TailByte>>

Media == {"ImgRecv", "TextRecv", "AudioRecv"}
IpEvents == {"PartnerJoin", "PartnerExit", "CloseCamera"}

(***************************************************************************)
(* MessageCodec::decode_wire_packet.  The create response is read in       *)
(* network order; decode_join_meeting_response copies the bytes as they    *)
(* are, which on a little-endian host reads them the other way round.      *)
(***************************************************************************)
decode_wire_packet(type, ip, body) ==
    CASE type = "CreateMeetingResponse" ->
           Message(type, Zero32,
                   <<IF Len(body) >= 4 THEN U32At(body, 1) ELSE Zero32>>, << >>)
      [] type = "JoinMeetingResponse" ->
           Message(type, Zero32,
                   <<IF Len(body) >= 4 THEN Reverse4(body) ELSE Zero32>>, << >>)
      [] type = "PartnerJoin2" ->
           Message(type, Zero32,
                   [i \in 1 .. Len(body) \div 4 |-> U32At(body, 4 * i - 3)],
                   << >>)
      [] type \in Media -> Message(type, ip, << >>, body)
      [] type \in IpEvents -> Message(type, ip, << >>, << >>)

\* The two length checks of WireStreamParser::extract_all.
TakesFrame(bytes) ==
    /\ Len(bytes) >= HeaderSize
    /\ Len(bytes) >= HeaderSize + SizeAt(bytes, 8) + 1

WellFormed(bytes, size) == bytes[1] = Magic /\ bytes[size] = TailByte

(***************************************************************************)
(* WireStreamParser::extract_all: what is left of the buffer and the       *)
(* messages taken, the loop being a function of what it has removed.  A    *)
(* frame with a wrong delimiter is skipped by the length it claims.        *)
(***************************************************************************)
extract_all(bytes) ==
    LET after[i \in 0 .. Len(bytes)] ==
            LET buffer == SubSeq(bytes, i + 1, Len(bytes))
                size == HeaderSize + SizeAt(buffer, 8) + 1
                packet == decode_wire_packet(
                              TypeOfCode(256 * buffer[2] + buffer[3]),
                              U32At(buffer, 4), SubSeq(buffer, 12, size - 1))
            IN  IF ~TakesFrame(buffer) THEN [rest |-> buffer, packets |-> << >>]
                ELSE IF WellFormed(buffer, size)
                     THEN [after[i + size] EXCEPT !.packets = <<packet>> \o @]
                     ELSE after[i + size]
    IN  after[0]
-----------------------------------------------------------------------------
(***************************************************************************)
(* What the sender of a packet means by it: every number in network order  *)
(* ("所有多字节字段均为网络字节序").                                       *)
(***************************************************************************)
Meaning(p) ==
    Message(p.type,
            IF header_includes_ip(p.type) THEN p.ip ELSE Zero32,
            IF p.type \in Media \cup IpEvents THEN << >>
            ELSE [i \in 1 .. Len(p.payload) \div 4 |->
                    U32At(p.payload, 4 * i - 3)],
            IF p.type \in Media THEN p.payload ELSE << >>)

\* MeetingWidget::handle_join_meeting_response: the branch taken for a code,
\* an int32_t of the bytes of n.
JoinBranch(n) ==
    IF n = Zero32 THEN "no_such_room"
    ELSE IF n = <<255, 255, 255, 255>> THEN "full"
    ELSE IF n[1] < 128 THEN "joined"
    ELSE "ignored"
=============================================================================
