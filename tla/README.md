# TLA+ models of CCMeeting

CCMeeting is a video meeting system: a Qt client (`client/`), a message server
that keeps meeting rooms and forwards media between their members (`server/`),
and an HTTP server for accounts (`server2/`).  This directory holds TLA+ models
of them, TLC configurations that check them on small instances, and TLAPS
proofs about the message server, its clients, the wire between them and the login.
Paths below are relative to the repository.

- [Inventory](#inventory): what the system is made of and what can go wrong
- [Plan](#plan): modules in order, done and to come
- [Modules](#modules): how state and actions correspond to the code
- [Runs](#runs): what TLC checks, with bounds and fairness
- [Proofs](#proofs): what TLAPS proves and how
- [Findings](#findings): where the code does not do what it or its comments say
- [Not modelled](#not-modelled)

To check a run: `tlc -config MCMeetingServer.cfg MCMeetingServer.tla`.  To check
the proofs: `tlapm M.tla` for each `M` of `MeetingServerProofs`,
`ClientSessionProofs`, `SendQueueProofs`, `WireProofs`, `AudioPlaybackProofs`,
`LoginProofs`, `ChatProofs` and `MeetingWindowProofs`.

## Inventory

### Message server (`server/`)

| Part | State | Operations |
|---|---|---|
| `MeetingService` | `_connection_room`: connection id to room id | new connection, decoded packet (lobby or room), close |
| `RoomManager` | `_rooms`, `_next_room_id` (uint32), limits of `ServerConfig` | create, join, find, remove |
| `Room` | participants with address and owner flag | add, remove (owner: close all), broadcast |
| `network::Connection` | open flag, read `Buffer`, `_write_queue`, `_write_in_progress` | chained reads, chained partial writes, close with callback |
| `protocol::Codec` | none | `encode`, `try_decode` |

Everything runs on one `io_context` thread, so handlers do not interleave inside
each other.  What is hard is *re-entrancy* (a close calls the service, which
closes a room, which closes its members, which call the service again), the
order in which notices about joins and exits are queued for others, limits that
are tested in another function than the one that inserts, and 32-bit room ids
that wrap and double as refusals.

Correct means: `_connection_room` and the rooms agree at every step; a closed
connection is left nowhere; a room has its owner or is gone; limits hold; every
member ends up with the right list of the others; packets reach exactly the
other members of the room.

### Client (`client/`)

| Part | Thread | State | Operations |
|---|---|---|---|
| `MeetingWidget` | UI | `_sessionActive`, `_sessionEnding`, `_connecting`, a deferred request, the map of partners, 800 ms timers | buttons, close event, slots for results, messages and disconnections |
| `MeetingController` | controller | none (slots in order of posting) | connect, create, join, disconnect |
| `NetworkManager`, `Connection` | IO (called blocking from the controller) | `QTcpSocket`, stream parser | connect, disconnect, read, write, errors |
| `MessageHub` | all | send epoch, running flag, `send_thread_`, chain of joiners | start and stop of the send thread, routing of received messages |
| `PriorityMessageQueue` | all | four bounded buckets, mutex, condition variable | `push`, `pop`, `clear`, `clear_video`, `wake_all` |
| `MessageCodec`, `WireStreamParser` | IO, send | receive buffer | encode, decode, reassemble |
| `AudioOutput`, `AudioInput`, `CameraVideo`, `ImgDisplay` | their own | device, audio FIFO | start, stop, play, capture |
| `Chat`, `Login`, `main_window` | UI | texts, account, pages | buttons |

Five threads and three Qt event queues are joined by posted calls, blocking calls,
atomics and one mutex.  What is hard: flags read when a result *arrives*, not when
the request was made; notices of a session that ended handled in the next; a send
thread stopped by one thread while another starts its successor; try-locks with
different patience; wake-ups that can be lost; a timer that substitutes for an
answer which may still come.

Correct means: one session at a time, requests go to the connection they were
made for, every attempt and every ending comes to an end, two send threads never
run at once, nothing accepted is lost or sent twice, newest media win, and the
interface shows what the session is.

### Wire between them

`$ | type 2 | ip 4 | size 4 | body | #`, cut anywhere by TCP.  Correct means:
packets come out on the other end as they went in and as they were meant.

### Authentication server (`server2/`)

`HttpSession` reads one request per connection, `AuthService::login` checks the
account and the password, `UserRepository` asks MySQL and writes the login log.
There is nothing but login: accounts are not made here.  What is hard: the three
queries of a login use connections of their own, so that each can fail by itself, the
account can change and the process die between them; `success` is set before the last
two; an answer can be lost, and its request be sent again.

Correct means: who is logged in is who was typed in, with a password that was right; the
login log says so; every login ends, for the client as well.

`PROJECT.json` lists under `hazards` each place where a step of this can go wrong
in a way a test would hardly reach, with the property that would show it.

## Plan

The order is by importance: what decides who is in which meeting first, then
the session of the client, then the pipes between them, then the devices.

| # | Modules | Composes / implements | State |
|---|---|---|---|
| 1 | `MeetingServer` | implements `Meetings` | modelled, checked, proved |
| 2 | `MeetingRoster` | `MeetingServer` with the session, the queue and the member list of every client | modelled, checked, proved |
| 3 | `ClientSession` | UI, controller, IO and send threads | modelled, checked, proved |
| 4 | `SendQueue` | the queue with its four kinds of users | modelled, checked, proved |
| 5 | `WireCodec`, `ByteStream`, `DownStream`, `UpStream`, `Wire` | `Wire` composes both directions and implements `PacketChannel` | modelled, checked, proved |
| 6 | `AudioPlayback` | the UI thread, the IO thread, `MessageQueue`, the device and `AudioOutput::run` | modelled, checked, proved |
| 7 | `Login` | the dialog, the HTTP exchange, the authentication server and its tables | modelled, checked, proved |
| 8 | `CameraVideo`, `MeetingWindow` | the window with tiles, main screen, microphone and camera, through several meetings | modelled, checked, proved |
| 9 | `Chat` | rows, send button, queue, send worker and reports | modelled, checked, proved |
| 10 | Capture | the sound that the microphone has read and not sent (`onreadyRead`) | to come |

Abstract specifications: `Meetings` (who attends which meeting) and
`PacketChannel` (a FIFO).

## Modules

Definitions keep the names of the functions they model where TLA+ admits them;
`map` in `PROJECT.json` gives the lines of each.  Definitions commented `Mutant`
(with a suffix on the name, such as `create_room_NoIncrement`) are used by no
specification: each is a plausible mistake in the code that breaks the property
`mutants` names.

**`MeetingServer`** — one action per handler of the server.  `conn`,
`connection_room`, `rooms`, `participants`, `owner`, `ip_network`,
`next_room_id` and `outbox` are the members of the classes above; `wrapped` is a
history variable.  A handler runs to completion, so the cascade of closes that
starts with an owner is one step (`close_room`).  A connection slot is reused after
a close, standing for a fresh connection id; `ClosedIsForgotten` makes this sound.
`MaxQueue` bounds what is queued: the server reads while every queue is shorter.
`AddrMayFail` says whether `remote_endpoint` may fail.

**`Meetings`** — users, hosts and attendance, with neither ids nor maps: the rule
that a meeting ends with its host, and the two limits.  The refinement mapping
takes a connection to the owner of the room in which it participates.

**`MeetingRoster`** — `MeetingServer` with the map `partner` of every client.  A packet
takes three steps: it leaves the write queue of the server (`deliver`), waits at the client
in its socket or in the event queue of the UI thread (`incoming`), and is handled there
(`handle`).  `session` is the client's: it begins with `accept`, ends with
`end_meeting_session`, which empties the map, and leaves its socket open until the IO thread
gets to it (`disconnect`).  Packets arrive and are handled in the meantime, and afterwards,
for no handler looks at `_sessionActive`: they fill the map that was just emptied, and the
next session begins with what they have left (`leftover`, history).  An answer among them
adds the client with its address or, once `disconnectFromHost` has forgotten that, with
`UINT32_MAX` (`handle_late_answer`).  Since the notice of the disconnection is posted
after all packets of its socket, nothing of one session is handled in the next.
`Understood` is what the client takes for a room when it reads the number of a join
response in host byte order (`ByteSize` is 256 in the code); a client that does not
understand that it was let in does not list itself, and lists the others all the same.
`Replay` is what the client will list once it has handled a queue: whoever is
listed, or added by a packet, and not removed by a later one.
That this is what handling one packet after the other comes to is checked by TLC for
all queues of up to three packets (`ReplayHandlesInOrder`, an assumption of the MC
module) and proved for one packet at either end of any queue (`ReplayTail`,
`ReplayAppend`).  The map is keyed by address, so the module assumes that clients can
be told apart by it (`AddressAssumption`); this includes that a client does not connect
again before the server has noticed the end of its connection before, for a slot is a
client.  `MaxPending` and `MaxSessions` are bounds.  A connection over which nothing is sent
(tests with `ConnectAction::None`, attempts whose result is discarded) changes no list and
is left out.

**`ClientSession`** — `ui` (flags of `MeetingWidget` and its posted calls), `uiq`
(events of the UI thread), `ctl` (where the controller is), `ioq` and `sock` (IO
thread and socket), `hub` and `workers` (epochs and send threads), `sendq` (the
control bucket).  A slot is one action, split where its thread waits for another.
Network errors and the notice of disconnection take two hops through the
queue of the UI thread, as in the code.  Abstracted: message boxes do not reorder
events, the clear of the send queue gets its lock (`SendQueue` and `Chat` have what happens
otherwise).  Of what the server sends only the errors matter to the session: lists
and answers are in `MeetingRoster`.  `ui.overtaking` is history: has the 800 ms timer
run while a disconnection was on its way?

**`SendQueue`** — the buckets with the threads `ui`, `mic`, `worker` and `io`.  What
runs under the mutex is one step; the code between two of them (test, lock,
notify after unlock, the second look at the epoch) is several.  A `try_lock` fails
only while another thread is at a step that takes the mutex; how often it is
retried is the code's: for up to two seconds in `push`, eight times in `clear`, once
in `clear_video`.  Restarting the send thread waits for its predecessor, which is
what `OneSender` of `ClientSession` shows.

**`WireCodec`** — encoders and decoders of both programs on bytes.  Numbers of 32
bits are tuples of four bytes, so that values above TLC's integers can be written;
the client runs on a little-endian host.  Bodies are opaque.  The client writes the size of the
body only for the types of `wire_frame_needs_length_field`; the server could not read the
frame of any other, and the client sends none (`UpAssumption`).  The loops of the two decoders
(`extract_all`, and `decode_all` of `UpStream`) are functions of how far they have come.

**`DownStream`**, **`UpStream`** — one direction of a connection each, with the write
queue and its partial writes and the parser of the client, or the `Buffer` of the server.
**`ByteStream`** is what they have in common: the bytes under way, what was sent and what
came out.  **`Wire`** is the connection: it extends both and implements
**`PacketChannel`** in either direction.  In the program the directions share no state, so
that a behaviour of one with any behaviour of the other is a behaviour of both; `direction`
chooses one and saves the product.

**`AudioPlayback`** — `partner` (only the size of the map) and `events` are the UI
thread's, `ui` says that it waits for `device_lock` inside `stopPlay`.  `sink` and
`outputdevice` are the device: the first can be stopped with the second still set,
which is what a write by the playback thread (`play`, between two steps that take a
lock) then runs into; `play.disturbed` is such a write, and it may fail.  A packet is
one write's worth of sound, named by its number, and goes `io`, `queue`, `play.msg`,
`unplayed`, `played`.  The `stopPlay` of `run` itself is for closing the application
and left out.

**`Login`** — `dialog` and `session` are the client's, `http` the exchange its
`QNetworkAccessManager` has under way, `server` the handler the authentication server is
in (one at a time: it runs on one thread, and queries block it), `accounts` and `logs`
the tables.  Each query is a step, that succeeds or throws; `crash` is a restart of the
process at any step, `change_account` the administrator between two.  A user stands for
id, name and profile.  What Qt does with a lost connection is external: it sends the
request again or gives up.  `valid` and `lostLogs` are history.

**`CameraVideo`** — the object of that name as operators on its state: what each tile and
the main screen show, the table of last pictures, and whether the camera runs.

**`MeetingWindow`** — `ui` is `MeetingWidget` (its members, the list for `@`, the borders
of tiles, the two buttons and a `CameraVideo`), `uiq` what the IO thread has posted to it,
`mic` the microphone, `frame` a posted picture of the camera; `server`, `room` and `cam`
are what the others do.  A handler is an operator from `ui` to `ui`, applied by
`handle_message`; what it tells the microphone is `StopsMic`.  The loop of
`handle_partner_join2` over its list is written for the whole set (`join_partners`); that this
is what joining one after the other comes to, in any order, is checked by TLC for every
window with up to two others (`JoinsOneByOne`, an assumption of the MC module).  The session is reduced to
three states, as `ClientSession` has the rest.  `late` is history: has anything of a
session been handled after its end, or a frame after the camera was stopped?

**`Chat`** — `rows` is the list, `sendmsg` the button, `worker` the send thread with its
two looks at the epoch, `uiq` reports, texts and answers on their way to the UI thread.
`crashed` is a row that is asked for in an empty list.  `stray` is history: has
something come between a text and its report, or after the end of its session, or been left
in the queue for the next one?  The last is also `kept`: `clear` gives up when it has found the
mutex taken eight times, at the disconnection and again at the next connection, and the next
worker then sends what is left.  The 800 ms timer is in `ClientSession`; here the next session waits for the notice that the
last one ended.

## Runs

Bounds are constants of the modules, named and commented there.  Counts are
distinct states.

| Run (`cfg`) | Question | Bounds, and why they are enough |
|---|---|---|
| `server` (`MCMeetingServer`) | Do rooms, participants and `_connection_room` agree, within the limits, as `Meetings` says? | Four connections, two rooms of three: both limits are met and exceeded by one, an owner's close takes two members with it, and four ids make the counter wrap while rooms are open. The address of any peer may be gone (`AddrMayFail`). The server reads when all it has to write is written (`MaxQueue` is 1): what waits in a write queue decides nothing here. 152 137 |
| `roster` (`MCMeetingRoster`) | Does each client come to list exactly the members of its room, whatever is queued and whenever sessions end? | Three clients and sessions; the server goes on while one packet is still to be handled, so that the notices of an exit or a join get behind the list and the answer of a newcomer, behind each other and behind an image, on both sides of the wire (`MaxQueue` is never reached). A room can take all three. A byte has two bits, so that the ids 1 and 4 are understood, 2 and 3 are not; three sessions let a client come back to what its first session has left and meet another that makes a second room, and the counter does not wrap. Joins are refused because there is no such room, creates because there are two already; that a room is full does not happen among three and is left to the proof. 2 031 063 |
| `session` (`MCClientSession`) | Does a request go only to its own connection, is there one send thread at a time, is a connection left behind, does every attempt end? | Two requests (the ending of one session and the start of the next), the window closed at any moment, disconnections of any length. 189 615 |
| `queue` (`MCSendQueue`) | Which messages does a full bucket give up, is a text lost or doubled between send threads, is a wake-up lost, can a picture follow `CLOSE_CAMERA`? | Three messages of all kinds, buckets of one and two: the limits are reached and exceeded, and a picture can be in the bucket, in the hand and on the wire. One clear, which gives up after two tries: the third to eighth repeat the second. Any number of stops. 1 680 457 |
| `queue_live` (`MCQueueLive`) | Does every accepted request go out? | The same without pictures. 79 438 |
| `wire` (`MCWire`) | Do client and server decode what the other has sent, whatever the pieces, and do their buffers suffice and stay bounded? | To the client, two packets of all five shapes, with delimiters inside a body; chunks up to a header and one byte, so that frames straddle reads; a buffer with room for one frame less a byte and a chunk, the tightest that `NoReset` covers. To the server, three messages and a buffer of 13 bytes, one more than the shortest frame, so that it has to compact and to grow. 21 631 |
| `audio` (`MCAudioPlayback`) | Is sound heard in order and once, is the device closed for one who is alone, does nobody wait for ever? | Five notices (two members come, one leaves, the session ends, with one to spare), three members, four packets through a FIFO of two: it fills with one packet in the hand of each thread. 165 468 |
| `login` (`MCLogin`) | Does nobody log in as somebody else, does the log tell the truth, does every login end? | Two clients and two accounts, one of them disabled; two requests, so that one can be in the other's way or be sent again; one change of an account, between any two queries. 179 176 |
| `window` (`MCMeetingWindow`) | Do list, tiles, main screen and table of pictures agree with each other and with the room; do microphone and camera run only where they may, and can they be seen to? | Two meetings, so that messages of the first meet the second; two others; three packets of theirs and two clicks: join, picture and exit of one whose tile was clicked, with the camera on. 1 411 444 |
| `chat` (`MCChat`) | Is the row marked that was sent, are texts reported once and in order, does the button come back? | Two sessions, three texts, two texts or joins of others: one text in the hand of a worker that is stopped, one behind it, one of the next session; a clear may give up at any time. 407 060 |

The other runs end in a counterexample; see [Findings](#findings).

Properties worth a word:

- `ClosedIsForgotten`, `MembershipConsistent`, `MappedIsParticipant`,
  `OwnerPresent`, `WithinCapacity`: the parts of agreement, the last two across
  the re-entrant cascade.  `MappedIsParticipant` ends where the room counter
  overflows: from then on a creator may be mapped to an older room with its id.
- `RosterAgrees` and `ImagesFromMembers` look ahead over what is under way, so they
  hold in every state and not only when queues are empty.  Ids 0 and 2^32-1 are also the
  refusals, which is why they end where the room counter overflows.  They speak of clients in
  a session.  Whom a client lists between sessions is whom late packets have left there, and it
  takes them into the next session: they are in its list beside the members (`leftover`), until a
  notice of their exit comes.  So the list never lacks a member, and never has
  anybody else that this session has brought.  A client that was let into a room whose number it
  cannot read is the one member that may be missing, in its own list only.
- `RequestsStayInSession` relates every frame written to the connection for which
  its request was made, over four threads.  It holds as long as no timer overtakes
  a disconnection (`ui.overtaking`): when one takes longer than 800 ms, the deferred
  request connects while the old disconnection or request is still queued for the
  controller or the IO thread, and is then mixed up with it.  It also ends where a late
  result is discarded (`ui.discarded`), which takes three requests to show: closing the
  window during the first attempt leads to two disconnections; the notice of the second
  resets the flags while the second attempt is under way and so lets the third one
  begin; the result of the second is then taken for the third's, and its request written
  to that connection.  The proof brought this up, and TLC confirms it with three requests.
- `NoLeakedConnection`: a socket that is open with nothing under way belongs to a
  session of the interface.  It holds under the same two conditions: see the
  observations.
- `EachInOnePlace`: a text is in a bucket, in the hand of the send thread, on
  the wire or discarded, and in no two of these.
- `NoLostWakeup`: the send thread sleeps on a filled queue only while somebody is
  about to notify.
- `CameraOffIsLast`: unless `clear_video` found the mutex taken, no picture older
  than a `CLOSE_CAMERA` is sent after it.  (If it did, a picture can stay in its
  bucket, be overtaken by the more urgent `CLOSE_CAMERA` and show up again at the
  other members.  `clear` likewise gives up after eight tries, and packets of the
  last session then stay queued.)
- `HeardInOrder` spans five places and three threads: whatever is stopped, started,
  dropped or cleared meanwhile, what is left is in the order of its arrival.
  `NobodyWaitsForEver` is the purpose of two remarks in the code: the sink is stopped
  before the lock is taken, and a full FIFO is given up after two seconds.
- `RosterAgrees` is for clients with different addresses.  The map of members is
  keyed by address on both ends: of two members behind one address the exit of
  either removes both.
- `BuffersSuffice`: the client's parser never empties its buffer as long as the longest
  frame and a chunk fit together, and the memory of the server's buffer has a bound that
  depends on the longest frame alone.
- `LoggedInAsSelf` relates what was typed, the answer, the account at some moment since
  the request, and the session.  It is what makes the answer with code 500 *and* data,
  which the server gives when the profile cannot be loaded, harmless: the client looks at
  the code.
- `AuditTrail`: a login of which the client knows is in the log (or its insertion
  failed), and a row of success was deserved; the converse does not hold, as answers are
  lost.
- `PicturesAgree` holds at every step, `MembersShown` and the microphone's part of
  `DevicesInMeeting` when all messages are handled.  They end where a message of a session
  is handled after its end (`late`), which the code lets happen.
- `LiveMicIsShown`: the text of the button is its state, and six functions write it or
  the microphone.  Its first half holds without any exception.
- `ReportedInOrder` follows a text through queue, hand and report, over a change of
  sessions.  It ends where a clear has left a text for the next session (`kept`): texts
  that the old worker gave back then come behind later ones; `ButtonReturns` is its liveness, as only the report enables the button.
- The type invariants of `Login`, `MeetingWindow` and `Chat` are the first conjuncts of
  `AuditTrail`, `PicturesAgree` and `RowsOfSession`.

**Symmetry** is used over connections in `server` and `roster`, where slots
are interchangeable (each has its own address, permuted with it), and over the other members
in `window`; the properties of all three are safety properties.

**Deadlock** is checked in `server`, `login` and all runs of `SendQueue`.  The
other instances really stop: the user of `ClientSession`, `MeetingWindow` and `Chat` asks
for a bounded number of sessions, so do the clients of `MeetingRoster`, and a bounded number of packets is sent over the streams
or played.

**Fairness.**  `ClientSession`: event loops of the UI, controller and IO threads,
the send thread and timers go on (weak fairness of each thread, no more), and
`waitForConnected` returns because it has a timeout.  The user, the server and
errors are not fair.  `SendQueue`: a thread inside `push`, `clear` or `clear_video`
goes on, and the send thread does; that a send thread is started again is not
assumed by the property (`<>[]~stopped` is its hypothesis) but the start, once the
controller has begun it, completes.  Streams: sockets make progress; the sender need not
send.  `AudioPlayback`: the UI thread goes on, `push` returns (it has a timeout), and a
write whose device was stopped returns; the playback thread is otherwise not fair, for it
may be stuck in a device that takes no sound.  `Chat`: the event loop and the worker go on.
`Login`: a login that has begun goes on, as queries return or throw; a broken connection
is noticed and the dialog's event loop runs.  That the server takes up each request is the
one place with strong fairness: between two requests of others its loop is idle again and
again, and the loop is first come, first served.  A crash disables all this as often as it
likes; it breaks connections and so cannot keep a client waiting.

## Proofs

`MeetingServerProofs` proves for every set of connections, every assignment of addresses, every limit and every size of the room id space, from
`ConstantsAssumption` alone (finite `Conns`, positive limits, at least three ids, packet
types that the server forwards):

| Theorem | Property |
|---|---|
| `TypeCorrect` | `TypeOK` |
| `ClosedForgotten` | `ClosedIsForgotten` |
| `MembershipAgrees` | `MembershipConsistent` |
| `MappedParticipates` | `MappedIsParticipant` |
| `OwnerStays` | `OwnerPresent` |
| `CapacityHolds` | `WithinCapacity` |
| `Refinement` | `ImplementsMeetings`: every step of the server is one step of `Meetings` or a stutter |

The argument.  None of the properties is inductive alone.  `MembershipInv` joins the
first five with `IdsBelowNext`:

- a new room has no members yet only because its id is fresh, which needs
  `IdsBelowNext` before the overflow; after it, `create_room` finds the old room
  and `MappedIsParticipant` is given up;
- `close_room` unmaps whoever points at the room: that nobody else is lost needs
  `MembershipConsistent`, and that those it closes are left in no other room needs
  that a participant is mapped to the room it is in;
- a reused slot is clean only by `ClosedIsForgotten`.

There is one lemma per action and conjunct it can disturb; actions that share an
effect (`connection_lost`, `read_invalid`, `handle_unexpected_lobby`) share the lemma of
`CloseEffect`.  `CapacityInv` adds finiteness and cardinalities, from
`FiniteSetTheorems`.  The refinement rests on both: the map from hosts to rooms is a
bijection because every room has its owner inside and a connection is in one room,
so that counting rooms is counting hosts.

`LoginProofs` proves for any clients, users and passwords, any accounts and any bounds,
from `LoginAssumption` alone (an account for every user, no user is `NoUser`):

| Theorem | Property |
|---|---|
| `LoginIsOwn` | `LoggedInAsSelf` |
| `LogTellsTruth` | `AuditTrail`, with the types |

The heart of the argument is that an answer which succeeds is about what was typed into
its dialog last.  A request sent again, or typed anew, may leave the handler at work for
an older one that nobody waits for; so the invariant relates the handler to the dialog
only if its request is not older than `first`, the first one sent for what was typed:

- `IdsInv`: a request has a number of its own, and no row before it is logged;
- `DialogInv`: while an exchange lasts the dialog is shown and what was typed stays; if it
  is right now, it has been valid;
- `ServerInv`: what the handler has, at each of its places; a success is about the user that was
  typed, and its row was written, or its insertion failed, before it is answered;
- `AnswerInv`: the same of the answer that has arrived.

The case that a reader would doubt is the second query that throws: the result keeps
`success`, the code 500 is not 0, and so the client does not take its data (`Success`).

The second part of `MeetingServerProofs` proves about `MeetingRoster`, for any number of
clients, any limits and any addresses that `AddressAssumption` admits, on top of `MembershipInv`:

| Theorem | Property |
|---|---|
| `ListsAgree` | `RosterAgrees` |
| `ImagesAreOfMembers` | `ImagesFromMembers` |

Both look ahead over queues of any length, which would be an induction, had `Replay` to
be unfolded.  The proof uses three facts about it instead: what an empty queue does, that
a packet appended is handled last, and that handling the first packet changes nothing of
what will be listed.  Each step of the server appends a few packets, so that the invariant
follows a client's future list from one step to the next.  The queue is in two parts, what has
arrived and what is still to be written; a packet that is delivered moves from one to the other and
leaves their concatenation as it is (`QueueMoves`).  When the server closes a connection, the
second part is lost, and the client may still be in its session: it is in no room any more, so
nothing is said of its list, and of its images only for what is left, a beginning of the
queue (`ImagesPrefix`).  `RosterInv` adds to the two properties (they need each other: an image changes no
list only because its sender is in it) that the address stored for a participant is that of its
connection, and that no room has the id 0 before the overflow, which a client would read as
a refusal.  What a client brings from an earlier session stands in the way only by being there:
hence the inclusions, one without and one with `leftover`, instead of an equation.

`ClientSessionProofs` proves for any number of requests:

| Theorem | Property |
|---|---|
| `TypeCorrect` | `TypeOK` |
| `OneSenderAtATime` | `OneSender` |
| `RequestsAreForTheirSession` | `RequestsStayInSession` |
| `NothingLeaks` | `NoLeakedConnection` |

`OneSender` needs `SenderInv`: a send loop that runs is among the threads that somebody will
join, the hub or the slot that has taken them from it, and from the end of the first
wait in `connect_to_server` to the launch there is none.  This part has no exception.  The
other two need to know what is under way over four threads and three queues, which
holds as long as the session is `Calm` (no timer has overtaken, nothing was discarded):

- `IoInv`: the controller is in the first call of its queue and waits for the last call
  of the IO thread;
- `CallsInv`: at most one attempt or one request is under way, behind it at most one
  disconnection, and that in one place (queue of the controller, of the IO thread, notice to the UI);
- `FlagsInv`: what `_connecting`, `_sessionActive` and `_sessionEnding` say of this;
- `SessInv`, `OpenInv`, `WireInv`: whatever is under way is for the connection that is up,
  and a connection that is up is in a session, about to be, or about to be closed.

Queues are only spoken of by three operators (`Has`, `Once`, `Before`: which kinds of calls
are in, are in once, come first), with lemmas for a call added and a call taken.

`SendQueueProofs` proves for any limits of the buckets and any bounds (`BoundsAssumption`):

| Theorem | Property |
|---|---|
| `TypeCorrect` | `TypeOK`, with the limits |
| `NewestAreKept` | `NewestKept` |
| `InOnePlace` | `EachInOnePlace` |
| `WakeupsAreNotLost` | `NoLostWakeup` |
| `CameraOffIsTheLast` | `CameraOffIsLast` |

The actions touch messages in only six ways: `NextEffect` shows that each step is
`Quiet`, pushes a message (new or given back), drops one, empties buckets, takes one or
sends one, and the invariants of messages are proved for those.  `PlaceInv` is
`EachInOnePlace` by places instead of numbers; `NewestInv` adds that a media bucket is a
suffix of what was accepted for it; `CloseInv` extends `CameraOffIsLast` to pictures in the
bucket and in the hand, and to the time between `clear_video` and the push of
`CLOSE_CAMERA`.

`AudioPlaybackProofs` proves for any size of the FIFO and of the meeting and any number of
packets (`AudioAssumption`):

| Theorem | Property |
|---|---|
| `TypeCorrect` | `TypeOK` |
| `SoundInOrder` | `HeardInOrder` |
| `AloneIsSilent` | `SilentWhenAlone` |

`OrderInv` speaks of five stations, as sets of packets: each is increasing and below all
that follow it, and the number of the last packet received is above all.  So a packet
that moves on, or any that are lost, leave it true.  `DeviceInv` is why a client that is alone
becomes silent: a device that is open with nobody else there has a `stopPlay` to come.

`ChatProofs` proves for any number of sessions, texts and messages of others
(`ChatAssumption`):

| Theorem | Property |
|---|---|
| `TypeCorrect` | `TypeOK` (in the run the first conjunct of `RowsOfSession`) |
| `MarksAreOwn` | `OwnTextIsMarked` |
| `ListIsOfSession` | `RowsOfSession` |
| `ReportsInOrder` | `ReportedInOrder` |

`PathInv` orders a text's places: reported, posted, in the hand of the worker, queued (as long
as the worker is not told to stop: a text it gives back comes behind the others, and is dropped
by the next connect).  `KeptInv` says that it lasts until a clear gives up, and that `~stray` ends
there too, so that what rests on it may use `PathInv`.  `SessionInv` is the reason why the last row is the right one: in a
session only the text written last can lack its report, it is the last row then, and
the button is off.  `EndingInv` is needed for the end: the notice of a disconnection
comes once, and only to a session that is ending, whose list is empty.

`MeetingWindowProofs` proves for any finite set of other members and any number of meetings,
messages and clicks (`WindowAssumption`):

| Theorem | Property |
|---|---|
| `TypeCorrect` | `TypeOK` (in the run the first conjunct of `PicturesAgree`) |
| `PicturesInStep` | `PicturesAgree` |
| `MembersAreShown` | `MembersShown` |
| `LiveMicShown` | `LiveMicIsShown` |
| `DevicesOfMeeting` | `DevicesInMeeting` |

What the window shows depends on messages that were sent long before they are handled, so
the invariant has to say that the right ones are on their way.  `View` is what the window
knows of the room (in it or not, members, pictures), `ServerView` what the server has; a
`History` of the queue leads from the first to the second, message by message, each of
them `Legal` for what is known before it (nobody joins twice, nobody leaves who is not
there).  A message that comes extends the history at its end (`HistoryGrows`), one that
is handled takes its beginning (`HistoryOfTail`), and what the handler makes of the window
is what the history says (`HandledMeeting`); clicks and frames leave the view alone.  When the
queue is empty the two views are the same, which is `MembersShown`.  `EndsOK` has the notices
of a session's end at the end of the queue and nowhere else, so that a queue that is empty
belongs to a session both sides agree on.  Up to the end of the session the invariant
`InOrder` is about the window as well (`MembersListed`, `MainShown`, `ButtonsJustified`);
tiles and table agree in every state (`UiOK`), late or not.

`WireProofs` proves for any packets of the types the server sends and any messages of the
client, any sizes of reads and of the buffers, and every way of cutting the stream
(`DownAssumption`, `UpAssumption`: bodies are shorter than 2^30 bytes, the two responses
carry four, and the client's messages are of the types whose frames have a length field,
which leaves out `ExitMeeting`, a type it never sends):

| Theorem | Property |
|---|---|
| `WireReadableIsUnread` | `ReadableIsUnread` |
| `WireBuffersSuffice` | `BuffersSuffice` |
| `WireTypeOK` | `TypeOK`, for parsers that satisfy `FitsParser` |
| `WireImplementsChannel` | `ImplementsChannel`, for parsers that satisfy `FitsParser` |

`FitsParser` says that the longest frame less a byte and one chunk of `readAll()` fit into
`k_max_buffer` (4 MiB).  It is needed: a parser that empties its buffer in the middle of a
frame takes what follows for the beginning of another, and may find packets nobody
sent.  The code does not enforce it, as neither the server's frames nor a chunk have a limit.

The argument goes over positions in the stream, the concatenation of the frames of all that
was sent: so many packets have been delivered, up to there it has been read, up to there it has been
written.  `Tracks` says that a buffer holds just what lies between two of these
positions, `Queued` that the write queue is the rest.  A decoder finds at the position after the last packet
delivered the frame of the next one, whole or not (`FrameIsFrame`, `HeaderOf`, `BodyOf`:
a delimiter inside a body is never looked at); that its loop stops, and so is a function
at all, is proved by induction on how much there is left, as is what it returns.  `normalize`,
`resize`, `expand_if_need` and `write` each have a lemma that what is readable is
what it was, and how large the memory may be.  `WireInv` puts the two directions together.
What a join response is taken for is left out of the channel (`Blurred`), for there the
client errs: see `join_response` below.

Checked by TLC only: liveness (`ConnectingEnds`, `RequestsGoOut`, `AllArrive`,
`NobodyWaitsForEver`, `LoginEnds`, `ButtonReturns`), which is out of the prover's reach.

## Findings

Each is a run that ends in a counterexample of one property, which states what a comment
of the repository says.

| Run | What the code does |
|---|---|
| `session_ending` | Closing the window after the server ended the session sets `_sessionEnding`, and no disconnection or timer will reset it: later requests are deferred for good. |
| `join_response` | The join response is read in host byte order; from room 128 on the client ignores the answer that let it in. |

Observations made while modelling, with no run of their own:

- Closing the window during a connection attempt posts two disconnections
  (`meeting_widget.cpp:279` and `:429`); each ends in a notice, and the second one resets the
  session that came after, whose connection stays open or gets the request of another.  A remark at
  `networkmanager.cpp:16` has the notice come only after a real disconnection, to avoid just this
  ("避免提前复位导致旧发送线程与新会话重叠").  Without `~ui.discarded`,
  `NoLeakedConnection` is violated, and with three requests `RequestsStayInSession` too.
- A test connection (`ConnectAction::None`) is only ever made while the meeting window is
  hidden, and `on_connect_finished_slot` throws away every result while it is hidden
  (`meeting_widget.cpp:419`), so it never succeeds.
- Answers and notices that are queued when a session ends are handled after it, without a
  look at `_sessionActive` (`meeting_widget.cpp:671`), and fill the window that was just
  reset: members nobody removes, a picture on the main screen, an enabled camera button.
  Without `late` the properties of `window` are violated.
- `remove_partner` posts `stopPlay` and `add_partner` calls `startPlay`
  (`meeting_widget.cpp:765` and `:737`).  A join whose notice is queued right behind that of the
  exit which left the client alone opens a device that the posted call then closes, and the
  newcomer is not heard until somebody else comes.  The end of a session and a join handled
  after it do the same.  The comment at `:733` has the sound opened when somebody joins
  ("当有人员加入时，... 开启输入").
- A frame posted before the camera was stopped is shown after it
  (`cameravideo.cpp:171` does not ask whether it runs), and the client's picture stays on its
  tile.
- `clear_partner` leaves the label of a stopped microphone at "close"
  (`meeting_widget.cpp:803`), though `meeting_widget.h:88` has the interface reset to its
  initial state ("重置会议相关 UI 到初始态"); the first click of the next meeting stops what is
  stopped.  An error of the device leaves the label as well.
- `on_text_send_slot` marks the last row (`meeting_widget.cpp:991`): a text of somebody else
  that came in between, or no row at all when the report comes after the reset, which
  dereferences a null pointer.  "Sent" is reported when the frame is posted to the IO
  thread, not when it is written.  A text written after the session ended is dropped by the
  next connect, and no report comes for it.
- A failure while the profile is loaded gives HTTP 200 with code 500 and data, where
  `auth_service.cpp:19` promises 500.

## Not modelled

- Conversion of channels, volume, image scaling, painting, the completion popup of the
  editor: numeric, device or layout code.  The sound a microphone has read and not sent is
  planned (10).
- Closing the application: `shutdown_all_workers` and `stopImmediately`.
- Of the authentication server: the answers to OPTIONS, health checks, bad JSON and unknown
  paths, which change no state and which the dialog does not ask for.  The tables of roles
  and permissions, which no code reads.
- A connection that breaks inside a frame: what is decoded before is a prefix,
  which the streams cover; the break itself is `connection_lost` of `MeetingServer`.
- The memory of the server's write queues, which have no limit (`connection.cpp:87`).
- The room number typed in a dialog (eleven digits admitted, cast to 32 bits at
  `message.h:114`).
- Compression, JPEG and base64 of bodies: opaque.  Logging, styles, forms, build
  files and the vendored logging library change no modelled state.
