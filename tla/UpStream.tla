------------------------------ MODULE UpStream ------------------------------
(***************************************************************************)
(* One connection from a client to the server: Connection::sendWireData on *)
(* one side, the bytes under way, and on the other Connection::do_read     *)
(* with its Buffer and the decoding loop of on_connection_read.            *)
(*                                                                         *)
(* The buffer is modelled with its memory and its two positions, for its   *)
(* compaction and growth are what can go wrong.                            *)
(***************************************************************************)
EXTENDS ByteStream

CONSTANTS
    Messages,       \* the messages the client sends
    LocalIp,        \* its address as localIp() gives it
    InitBufferSize, \* the first size of the buffer, and of one read
    MaxUp           \* bound: how many messages are sent

\* Whatever the client sends has a length field: decode_all finds no frame without.
ASSUME UpAssumption ==
    /\ {MaxUp, InitBufferSize} \subseteq Nat \ {0}
    /\ LocalIp \in Word
    /\ Messages # {}
    /\ \A m \in Messages :
         /\ wire_frame_needs_length_field(m.type)
         /\ m.type = "JoinMeeting" => m.numbers[1] \in Word
         /\ m.body \in Seq(Byte) /\ Len(m.body) < Unmodelled

VARIABLES
    memory,    \* Buffer::_buffer
    read_pos,  \* Buffer::_read_pos
    write_pos, \* Buffer::_write_pos
    open       \* Connection::is_open

buffer == <<memory, read_pos, write_pos>>
upVars == <<buffer, open>>

Zeros(n) == [i \in 1 .. n |-> 0]

UpInit ==
    /\ memory = Zeros(InitBufferSize)
    /\ read_pos = 0
    /\ write_pos = 0
    /\ open = TRUE

\* sendWireData: QTcpSocket takes the whole frame.
sendWireData ==
    /\ Len(sent) < MaxUp
    /\ \E m \in Messages :
         /\ sent' = Append(sent, m)
         /\ network' = network \o encode_wire_frame(m, LocalIp)
    /\ UNCHANGED <<memory, read_pos, write_pos, open, delivered>>
-----------------------------------------------------------------------------
\* The buffer as a value: memory, read and write position.
Buf(m, r, w) == [memory |-> m, r |-> r, w |-> w]
readable(b) == SubSeq(b.memory, b.r + 1, b.w)
writable_size(b) == Len(b.memory) - b.w

\* Mutant: the positions move, the bytes do not.
normalize_NoMove(b) == IF b.r > 0 THEN Buf(b.memory, 0, b.w - b.r) ELSE b

\* Mutant: nothing is ever compacted.
normalize_Never(b) == b

normalize(b) ==
    IF b.r > 0
    THEN Buf(readable(b) \o SubSeq(b.memory, b.w - b.r + 1, Len(b.memory)),
             0, b.w - b.r)
    ELSE b

\* vector::resize to twice the size, or to what is needed.
resize(b, size) ==
    LET new == IF 2 * Len(b.memory) >= b.w + size THEN 2 * Len(b.memory)
               ELSE b.w + size
    IN  Buf(b.memory \o Zeros(new - Len(b.memory)), b.r, b.w)

expand_if_need(b, size) ==
    IF writable_size(b) >= size THEN b
    ELSE LET n == normalize(b)
         IN  IF writable_size(n) >= size THEN n ELSE resize(n, size)

\* Buffer::write: memcpy at the write position.
write(b, data) ==
    LET e == expand_if_need(b, Len(data))
    IN  Buf(SubSeq(e.memory, 1, e.w) \o data
                \o SubSeq(e.memory, e.w + Len(data) + 1, Len(e.memory)),
            e.r, e.w + Len(data))

(***************************************************************************)
(* on_connection_read: packets are decoded until one is incomplete or      *)
(* invalid, the loop being a function of the read position.  What is done  *)
(* with them is MeetingServer.                                             *)
(***************************************************************************)
\* Mutant: one packet is decoded for each read.
decode_all_Once(b) ==
    LET d == try_decode(readable(b))
    IN  IF d.status # "Ok"
        THEN [buffer |-> b, packets |-> << >>, status |-> d.status]
        ELSE [buffer |-> [b EXCEPT !.r = @ + d.frame_size],
              packets |-> <<d.packet>>, status |-> "NeedMore"]

decode_all(b) ==
    LET from[r \in b.r .. b.w] ==
            LET d == try_decode(SubSeq(b.memory, r + 1, b.w))
            IN  IF d.status # "Ok"
                THEN [buffer |-> [b EXCEPT !.r = r], packets |-> << >>,
                      status |-> d.status]
                ELSE [from[r + d.frame_size] EXCEPT !.packets = <<d.packet>> \o @]
    IN  from[b.r]

\* The handler of async_read_some.
do_read ==
    /\ open
    /\ network # << >>
    /\ \E n \in 1 .. Len(network) :
         /\ n <= InitBufferSize
         /\ \E b \in {write(Buf(memory, read_pos, write_pos),
                           SubSeq(network, 1, n))} :
            \E d \in {decode_all(b)} :
              /\ memory' = d.buffer.memory
              /\ read_pos' = d.buffer.r
              /\ write_pos' = d.buffer.w
              /\ open' = (d.status # "Invalid")
              /\ delivered' = delivered \o d.packets
         /\ network' = SubSeq(network, n + 1, Len(network))
    /\ UNCHANGED sent
-----------------------------------------------------------------------------
(***************************************************************************)
(* The assertions of move_read_pos and move_write_pos (buffer.cpp) hold:   *)
(* the positions keep their order and stay inside the memory.              *)
(***************************************************************************)
UpTypeOK ==
    /\ network \in Seq(Byte)
    /\ memory \in Seq(Byte)
    /\ 0 <= read_pos /\ read_pos <= write_pos /\ write_pos <= Len(memory)
    /\ open \in BOOLEAN
    /\ sent \in Seq(Messages)
    /\ Len(delivered) <= Len(sent)

(***************************************************************************)
(* Compaction and growth lose and invent nothing: what can be read is what *)
(* has arrived since the last complete frame.                              *)
(***************************************************************************)
FrameOf(m) == encode_wire_frame(m, LocalIp)
UpFrames == [i \in DOMAIN sent |-> FrameOf(sent[i])]
UnreadOnly ==
    readable(Buf(memory, read_pos, write_pos))
        = SubSeq(FlattenSeq(UpFrames), Offset(UpFrames, Len(delivered)) + 1,
                 Len(FlattenSeq(UpFrames)) - Len(network))

(***************************************************************************)
(* The buffer does not grow with the length of a session: its size has a   *)
(* bound that depends on the longest frame alone.                          *)
(***************************************************************************)
LongestMessage == Max({Len(FrameOf(m)) : m \in Messages})
BufferBounded == Len(memory) <= 2 * (LongestMessage - 1 + InitBufferSize)

\* The packet the server should get for a message.
AsPacket(m) ==
    Packet(m.type, LocalIp,
           IF m.type = "JoinMeeting" THEN m.numbers[1] ELSE m.body)
=============================================================================
