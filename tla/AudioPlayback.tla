----------------------------- MODULE AudioPlayback -----------------------------
(***************************************************************************)
(* Received sound: the FIFO (MessageQueue) that the IO thread fills and    *)
(* the playback thread (AudioOutput::run) empties, and the device that the *)
(* UI thread opens for the first other member of the meeting and closes    *)
(* with the last.  Opening is a direct call, closing is posted to the      *)
(* queue of the UI thread, behind what is there already.                   *)
(*                                                                         *)
(* Sound is packets of one device write each (125 ms).  A step is what     *)
(* runs under a lock, or up to the next one.  Closing the application, for *)
(* which stopImmediately is made, is not modelled.                         *)
(***************************************************************************)
EXTENDS Integers, Sequences

CONSTANTS
    QUEUE_MAXSIZE, \* the limit of the FIFO
    MaxPartners,   \* bound: members in the map, the client itself included
    MaxNotices,    \* bound: joins, exits and ends of the session
    MaxPackets     \* bound: sound packets received

ASSUME AudioAssumption ==
    {QUEUE_MAXSIZE, MaxPartners, MaxNotices, MaxPackets} \subseteq Nat \ {0}

VARIABLES
    partner,      \* the size of MeetingWidget::partner
    events,       \* posted to the UI thread: notices, and calls of stopPlay
    notices,      \* how many notices there have been
    ui,           \* the UI thread: "idle", or in stopPlay before device_lock
    sink,         \* QAudioSink::state(); "active" once sound is written to it
    outputdevice, \* is outputdevice set?
    play,         \* the playback thread, and the packet it has popped
    unplayed,     \* m_pcmDataBuffer
    queue,        \* MessageQueue::queue_
    io,           \* the IO thread and the packet it waits to push
    received,     \* packets received; a packet is its number
    played        \* packets written to the device

uiVars == <<partner, events, ui>>
deviceVars == <<sink, outputdevice>>
soundVars == <<unplayed, queue, io, received, played>>
vars == <<uiVars, notices, deviceVars, play, soundVars>>

NoPacket == 0

Init ==
    /\ partner = 0
    /\ events = << >>
    /\ notices = 0
    /\ ui = "idle"
    /\ sink = "stopped"
    /\ outputdevice = FALSE
    /\ play = [pc |-> "pop", msg |-> NoPacket, disturbed |-> FALSE]
    /\ unplayed = << >>
    /\ queue = << >>
    /\ io = [pc |-> "idle", msg |-> NoPacket]
    /\ received = 0
    /\ played = << >>
-----------------------------------------------------------------------------
(***************************************************************************)
(* The UI thread.                                                          *)
(***************************************************************************)
NextEvent(name) == ui = "idle" /\ events # << >> /\ Head(events) = name

\* The device changes under a write that is under way.
Disturb == [play EXCEPT !.disturbed = @ \/ play.pc = "write"]

\* An active sink is left alone, an idle one is started anew.
startPlay ==
    IF sink = "active"
    THEN UNCHANGED <<deviceVars, play>>
    ELSE sink' = "idle" /\ outputdevice' = TRUE /\ play' = Disturb

\* A notice about a member comes from the network.
receive_notice ==
    /\ notices < MaxNotices
    /\ notices' = notices + 1
    /\ \E e \in {"join", "exit"} : events' = Append(events, e)
    /\ UNCHANGED <<partner, ui, deviceVars, play, soundVars>>

add_partner ==
    /\ NextEvent("join") /\ partner < MaxPartners
    /\ partner' = partner + 1
    /\ events' = Tail(events)
    /\ IF partner' > 1 THEN startPlay ELSE UNCHANGED <<deviceVars, play>>
    /\ UNCHANGED <<ui, notices, soundVars>>

\* Nobody is added twice, and nobody removed who is not there.
ignore_notice ==
    /\ \/ NextEvent("join") /\ partner > 0
       \/ NextEvent("exit") /\ partner < MaxPartners
    /\ events' = Tail(events)
    /\ UNCHANGED <<partner, ui, notices, deviceVars, play, soundVars>>

\* Mutant: the device is left open for one who is alone.
remove_partner_KeepsPlaying ==
    /\ NextEvent("exit") /\ partner > 0
    /\ partner' = partner - 1
    /\ events' = Tail(events)
    /\ UNCHANGED <<ui, notices, deviceVars, play, soundVars>>

remove_partner ==
    /\ NextEvent("exit") /\ partner > 0
    /\ partner' = partner - 1
    /\ events' = Tail(events) \o (IF partner' <= 1 THEN <<"stopPlay">> ELSE << >>)
    /\ UNCHANGED <<ui, notices, deviceVars, play, soundVars>>

\* The session ends, by the user or an error, and everybody is removed.
clear_partner ==
    /\ ui = "idle" /\ partner > 0 /\ notices < MaxNotices
    /\ notices' = notices + 1
    /\ partner' = 0
    /\ events' = Append(events, "stopPlay")
    /\ UNCHANGED <<ui, deviceVars, play, soundVars>>

\* Mutant: the sink is only suspended; a write that is stuck stays stuck.
stopPlay_Suspend ==
    /\ NextEvent("stopPlay")
    /\ ui' = "device_lock"
    /\ sink' = "stopped"
    /\ UNCHANGED <<partner, events, notices, outputdevice, play, soundVars>>

\* stopPlay stops the sink first, which ends a write that is stuck in it ...
stopPlay ==
    /\ NextEvent("stopPlay")
    /\ ui' = "device_lock"
    /\ sink' = "stopped"
    /\ play' = Disturb
    /\ UNCHANGED <<partner, events, notices, outputdevice, soundVars>>

\* ... and takes the lock to forget the device.
stopPlay_forget ==
    /\ ui = "device_lock" /\ play.pc # "write"
    /\ ui' = "idle"
    /\ outputdevice' = FALSE
    /\ events' = Tail(events)
    /\ UNCHANGED <<partner, notices, sink, play, soundVars>>

\* The device fails: handleStateChanged stops the sink, the pointer remains.
handleStateChanged ==
    /\ ui = "idle" /\ sink # "stopped"
    /\ sink' = "stopped"
    /\ play' = Disturb
    /\ UNCHANGED <<uiVars, notices, outputdevice, soundVars>>

\* The sink runs out of sound.
underrun ==
    /\ sink = "active"
    /\ sink' = "idle"
    /\ UNCHANGED <<uiVars, notices, outputdevice, play, soundVars>>

UiCall ==
    \/ add_partner \/ ignore_notice \/ remove_partner
    \/ stopPlay \/ stopPlay_forget
-----------------------------------------------------------------------------
(***************************************************************************)
(* The IO thread: MessageQueue::push and clear.                            *)
(***************************************************************************)
receive_audio ==
    /\ io.pc = "idle" /\ received < MaxPackets
    /\ received' = received + 1
    /\ io' = [pc |-> "push", msg |-> received + 1]
    /\ UNCHANGED <<uiVars, notices, deviceVars, play, unplayed, queue, played>>

\* Mutant: one packet too many is let in.
push_OneMore ==
    /\ io.pc = "push" /\ Len(queue) <= QUEUE_MAXSIZE
    /\ queue' = Append(queue, io.msg)
    /\ io' = [pc |-> "idle", msg |-> NoPacket]
    /\ UNCHANGED <<uiVars, notices, deviceVars, play, unplayed, received, played>>

push ==
    /\ io.pc = "push" /\ Len(queue) < QUEUE_MAXSIZE
    /\ queue' = Append(queue, io.msg)
    /\ io' = [pc |-> "idle", msg |-> NoPacket]
    /\ UNCHANGED <<uiVars, notices, deviceVars, play, unplayed, received, played>>

\* A full FIFO for WAITSECONDS: the packet is dropped.
push_timeout ==
    /\ io.pc = "push" /\ Len(queue) >= QUEUE_MAXSIZE
    /\ io' = [pc |-> "idle", msg |-> NoPacket]
    /\ UNCHANGED <<uiVars, notices, deviceVars, play, unplayed, queue, received,
                   played>>

\* MessageHub::clear_all, when a connection comes or goes.
clear ==
    /\ io.pc = "idle" /\ queue # << >>
    /\ queue' = << >>
    /\ UNCHANGED <<uiVars, notices, deviceVars, play, unplayed, io, received,
                   played>>
-----------------------------------------------------------------------------
(***************************************************************************)
(* The playback thread.  In "write" it holds device_lock.                  *)
(***************************************************************************)
GoOn == [pc |-> "pop", msg |-> NoPacket, disturbed |-> FALSE]

pop ==
    /\ play.pc = "pop" /\ queue # << >>
    /\ play' = [pc |-> "device", msg |-> Head(queue), disturbed |-> FALSE]
    /\ queue' = Tail(queue)
    /\ UNCHANGED <<uiVars, notices, deviceVars, unplayed, io, received, played>>

\* Without a device what has gathered is thrown away, and the packet with it.
run_no_device ==
    /\ play.pc = "device" /\ ~outputdevice
    /\ unplayed' = << >>
    /\ play' = GoOn
    /\ UNCHANGED <<uiVars, notices, deviceVars, queue, io, received, played>>

\* The packet joins the rest that the last write has left; a write begins.
run_append ==
    /\ play.pc = "device" /\ outputdevice
    /\ unplayed' = Append(unplayed, play.msg)
    /\ play' = [pc |-> "write", msg |-> NoPacket, disturbed |-> sink = "stopped"]
    /\ UNCHANGED <<uiVars, notices, deviceVars, queue, io, received, played>>

\* A packet whose channels cannot be converted is dropped.
run_not_converted ==
    /\ play.pc = "device" /\ outputdevice
    /\ play' = GoOn
    /\ UNCHANGED <<uiVars, notices, deviceVars, soundVars>>

\* Mutant: what a write has taken is not removed.
write_returns_Kept ==
    /\ play.pc = "write"
    /\ played' = Append(played, Head(unplayed))
    /\ sink' = IF sink = "idle" THEN "active" ELSE sink
    /\ play' = GoOn
    /\ UNCHANGED <<uiVars, notices, outputdevice, unplayed, queue, io, received>>

\* The device takes the first packet.
write_returns ==
    /\ play.pc = "write"
    /\ played' = Append(played, Head(unplayed))
    /\ unplayed' = Tail(unplayed)
    /\ sink' = IF sink = "idle" THEN "active" ELSE sink
    /\ play' = GoOn
    /\ UNCHANGED <<uiVars, notices, outputdevice, queue, io, received>>

\* The device takes nothing: its buffer is full, or it has just changed.
write_nothing ==
    /\ play.pc = "write"
    /\ play' = GoOn
    /\ UNCHANGED <<uiVars, notices, deviceVars, soundVars>>

\* A device that was closed or replaced refuses: run returns, for good.
write_fails ==
    /\ play.pc = "write" /\ play.disturbed
    /\ play' = [pc |-> "ended", msg |-> NoPacket, disturbed |-> FALSE]
    /\ UNCHANGED <<uiVars, notices, deviceVars, soundVars>>

Write == write_returns \/ write_nothing \/ write_fails
Play == pop \/ run_no_device \/ run_append \/ run_not_converted \/ Write

Next ==
    \/ UiCall \/ clear_partner \/ receive_notice \/ handleStateChanged \/ underrun
    \/ receive_audio \/ push \/ push_timeout \/ clear
    \/ Play

Spec == Init /\ [][Next]_vars

\* The threads go on.  A write that is not disturbed may be stuck for ever in
\* a device that takes no sound.
Fairness ==
    /\ WF_vars(UiCall)
    /\ WF_vars(push \/ push_timeout)
    /\ WF_vars(play.disturbed /\ Write)

FairSpec == Spec /\ Fairness
-----------------------------------------------------------------------------
TypeOK ==
    /\ partner \in 0 .. MaxPartners
    /\ events \in Seq({"join", "exit", "stopPlay"})
    /\ notices \in 0 .. MaxNotices
    /\ ui \in {"idle", "device_lock"}
    /\ sink \in {"stopped", "idle", "active"}
    /\ outputdevice \in BOOLEAN
    /\ play \in [pc : {"pop", "device", "write", "ended"},
                 msg : 0 .. MaxPackets, disturbed : BOOLEAN]
    /\ unplayed \in Seq(1 .. MaxPackets)
    /\ queue \in Seq(1 .. MaxPackets) /\ Len(queue) <= QUEUE_MAXSIZE
    /\ io \in [pc : {"idle", "push"}, msg : 0 .. MaxPackets]
    /\ received \in 0 .. MaxPackets
    /\ played \in Seq(1 .. MaxPackets)

(***************************************************************************)
(* Sound is heard in the order in which it was received, and none twice,   *)
(* from the push by the IO thread through the FIFO and the rest of the     *)
(* last write, whatever is stopped, started, cleared or dropped meanwhile. *)
(***************************************************************************)
InHand(m) == IF m = NoPacket THEN << >> ELSE <<m>>
Pipeline == played \o unplayed \o InHand(play.msg) \o queue \o InHand(io.msg)
HeardInOrder ==
    \A i, j \in DOMAIN Pipeline : i < j => Pipeline[i] < Pipeline[j]

(***************************************************************************)
(* Once the UI thread has done what was posted to it, a client that is     *)
(* alone has no device open ("只有自已一个人时，关闭传输音频").            *)
(***************************************************************************)
UiQuiet == ui = "idle" /\ events = << >>
SilentWhenAlone == UiQuiet /\ partner <= 1 => sink = "stopped" /\ ~outputdevice

(***************************************************************************)
(* The UI thread never waits for ever for device_lock, although the        *)
(* playback thread may be stuck in a write with the lock taken, and the IO *)
(* thread never waits for ever for room in the FIFO, although the playback *)
(* thread may have ended.                                                  *)
(***************************************************************************)
NobodyWaitsForEver ==
    /\ ui = "device_lock" ~> ui = "idle"
    /\ io.pc = "push" ~> io.pc = "idle"
=============================================================================
