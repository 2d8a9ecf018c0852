----------------------------- MODULE DownStream -----------------------------
(***************************************************************************)
(* One connection from the server to a client: Connection::send and the    *)
(* chain of partial writes of do_write on one side, the bytes under way in *)
(* the middle, Connection::onReadyRead and WireStreamParser on the other.  *)
(***************************************************************************)
EXTENDS ByteStream

CONSTANTS
    Packets,    \* the packets the server sends
    MaxDown,    \* bound: how many of them
    MaxChunk,   \* the most readAll() returns
    MaxBuffer   \* k_max_buffer

\* What the server sends: the packets decode_wire_packet knows, a response
\* with its number.
ServerTypes ==
    Media \cup IpEvents
        \cup {"CreateMeetingResponse", "JoinMeetingResponse", "PartnerJoin2"}

ASSUME DownAssumption ==
    /\ {MaxDown, MaxChunk, MaxBuffer} \subseteq Nat \ {0}
    /\ Packets # {}
    /\ \A p \in Packets :
         /\ p \in [type : ServerTypes, ip : Word, payload : Seq(Byte)]
         /\ Len(p.payload) < Unmodelled
         /\ p.type \in {"CreateMeetingResponse", "JoinMeetingResponse"} =>
                Len(p.payload) = 4

VARIABLES
    write_queue,   \* _write_queue: the unwritten bytes of each buffer
    write_length,  \* bytes of the front being written: _write_in_progress if > 0
    parser,        \* WireStreamParser::buffer_
    resets         \* history: has the parser emptied its buffer?

downVars == <<write_queue, write_length, parser, resets>>

DownInit ==
    /\ write_queue = << >>
    /\ write_length = 0
    /\ parser = << >>
    /\ resets = FALSE

\* Mutant: the last buffer is started, not the first.
StartWrite_Last(queue, length) ==
    IF queue # << >> THEN Len(queue[Len(queue)]) ELSE length

\* do_write: a write of the front is started unless one is under way.
StartWrite(queue, length) ==
    IF length = 0 /\ queue # << >> THEN Len(Head(queue)) ELSE length

\* Mutant: a write is started although one is under way.
send_Overlapping ==
    /\ Len(sent) < MaxDown
    /\ \E p \in Packets :
         /\ sent' = Append(sent, p)
         /\ write_queue' = <<encode(p)>> \o write_queue
         /\ write_length' = Len(encode(p))
    /\ UNCHANGED <<network, parser, resets, delivered>>

send ==
    /\ Len(sent) < MaxDown
    /\ \E p \in Packets :
         /\ sent' = Append(sent, p)
         /\ write_queue' = Append(write_queue, encode(p))
         /\ write_length' = StartWrite(write_queue', write_length)
    /\ UNCHANGED <<network, parser, resets, delivered>>

\* Mutant: the completed write is not followed by the next.
write_handler_NoChain ==
    /\ write_length > 0
    /\ \E n \in 1 .. write_length :
         LET front == Head(write_queue)
             rest == SubSeq(front, n + 1, Len(front))
         IN  /\ network' = network \o SubSeq(front, 1, n)
             /\ write_queue' = IF rest = << >> THEN Tail(write_queue)
                               ELSE <<rest>> \o Tail(write_queue)
    /\ write_length' = 0
    /\ UNCHANGED <<parser, resets, sent, delivered>>

\* The handler of async_write_some: some of the front has been written.
write_handler ==
    /\ write_length > 0
    /\ \E n \in 1 .. write_length :
         LET front == Head(write_queue)
             rest == SubSeq(front, n + 1, Len(front))
         IN  /\ network' = network \o SubSeq(front, 1, n)
             /\ write_queue' = IF rest = << >> THEN Tail(write_queue)
                               ELSE <<rest>> \o Tail(write_queue)
    /\ write_length' = StartWrite(write_queue', 0)
    /\ UNCHANGED <<parser, resets, sent, delivered>>

\* Mutant: the limit is tested with one byte less than there is.
feed_LimitOff(chunk) ==
    LET overflow == Len(parser) + Len(chunk) + 1 > MaxBuffer
        all == extract_all((IF overflow THEN << >> ELSE parser) \o chunk)
    IN  /\ parser' = all.rest
        /\ delivered' = delivered \o all.packets
        /\ resets' = (resets \/ overflow)

\* WireStreamParser::feed, and route_incoming of what it returns.
feed(chunk) ==
    LET overflow == Len(parser) + Len(chunk) > MaxBuffer
        all == extract_all((IF overflow THEN << >> ELSE parser) \o chunk)
    IN  /\ parser' = all.rest
        /\ delivered' = delivered \o all.packets
        /\ resets' = (resets \/ overflow)

onReadyRead ==
    /\ network # << >>
    /\ \E n \in 1 .. Len(network) :
         /\ n <= MaxChunk
         /\ feed(SubSeq(network, 1, n))
         /\ network' = SubSeq(network, n + 1, Len(network))
    /\ UNCHANGED <<write_queue, write_length, sent>>

DownNext == send \/ write_handler \/ onReadyRead
DownSpec ==
    StreamInit /\ DownInit
        /\ [][DownNext]_<<network, sent, delivered, downVars>>
-----------------------------------------------------------------------------
DownTypeOK ==
    /\ write_queue \in Seq(Seq(Byte))
    /\ write_length \in Nat
    /\ write_length > 0 =>
         write_queue # << >> /\ write_length <= Len(Head(write_queue))
    /\ network \in Seq(Byte)
    /\ parser \in Seq(Byte)
    /\ resets \in BOOLEAN
    /\ sent \in Seq(Packets)
    /\ Len(delivered) <= Len(sent)

\* A join response counts as delivered whatever number is read out of it: see
\* JoinUnderstood.
Blurred(m) ==
    IF m.type = "JoinMeetingResponse" THEN [m EXCEPT !.numbers = << >>] ELSE m

(***************************************************************************)
(* The limit of the parser is no limit for frames that fit: between two    *)
(* reads it holds less than a frame, so that nothing is thrown away as     *)
(* long as the longest frame and a chunk fit together.                     *)
(***************************************************************************)
LongestPacket == Max({Len(encode(p)) : p \in Packets})
FitsParser == LongestPacket - 1 + MaxChunk <= MaxBuffer
NoReset == FitsParser => ~resets

(***************************************************************************)
(* The code of a join response is read as it was meant: the client enters  *)
(* the room when the server has let it in ("所有多字节字段均为网络字节序").*)
(***************************************************************************)
JoinUnderstood ==
    \A i \in DOMAIN delivered :
        delivered[i].type = "JoinMeetingResponse" =>
            JoinBranch(delivered[i].numbers[1])
                = JoinBranch(Meaning(sent[i]).numbers[1])
=============================================================================
