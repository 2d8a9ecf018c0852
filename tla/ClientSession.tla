---------------------------- MODULE ClientSession ----------------------------
(***************************************************************************)
(* The session life cycle of the client: the flags of MeetingWidget on the *)
(* UI thread, the MeetingController thread, the IO thread of Connection,   *)
(* the send worker of MessageHub and the 800 ms timer of                   *)
(* end_meeting_session, joined by three Qt event queues.                   *)
(*                                                                         *)
(* A slot runs to completion on its thread: one action per slot, split     *)
(* where it blocks on another thread.  Signals that cross threads are      *)
(* queued; the UI receives a message of the hub, and the disconnection of  *)
(* the socket, in two hops (the object that owns the signal lives on the   *)
(* UI thread and MeetingWidget is connected to it with a queued            *)
(* connection).  Of the messages only the network errors matter here: what *)
(* the others change is in MeetingRoster.  Message boxes are taken not to  *)
(* reorder events.                                                         *)
(***************************************************************************)
EXTENDS Integers, Sequences, FiniteSets

CONSTANTS
    UserActions,      \* the ConnectActions the user asks for
    MaxRequests       \* bound: how many times the user asks for a connection

ASSUME SessionAssumption ==
    /\ UserActions \subseteq {"None", "CreateMeeting", "JoinMeeting"}
    /\ MaxRequests \in Nat

VARIABLES
    ui,       \* MeetingWidget: flags, window, timers, the queue of slots it
              \* has posted to the controller thread, and, as history, whether
              \* a timer was overtaking and whether a connection was discarded
    uiq,      \* events posted to the UI thread
    ctl,      \* MeetingController: the slot it is in
    ioq,      \* calls posted to the IO thread
    sock,     \* Connection::m_socket, and the IO thread inside a connect
    hub,      \* MessageHub: epoch, running flag, send_thread_, joiner chain
    workers,  \* the send_loop threads that have not returned
    sendq,    \* the control bucket of PriorityMessageQueue
    requests, \* how many connections the user has asked for
    wire      \* history: <<connection, request>> of every frame written

sessionVars == <<ui, uiq, ctl, ioq, sock, hub, workers, sendq, requests, wire>>

NoConnect == [act |-> "None", sess |-> 0]
NoMsg == 0                     \* a frame is named by the request it is for
NoThread == 0                  \* a send_loop is named by its epoch
NoSocket == [state |-> "none", sess |-> 0]
DisconnectSlot == [op |-> "disconnect", act |-> "None", sess |-> 0]

Init ==
    /\ ui = [visible |-> FALSE, ending |-> FALSE, active |-> FALSE,
             connecting |-> FALSE, pending |-> NoConnect, timers |-> 0,
             overtaking |-> FALSE, discarded |-> FALSE, toCtl |-> << >>]
    /\ uiq = << >>
    /\ ctl = [pc |-> "idle", awaiting |-> {}, ok |-> FALSE, epoch |-> 0]
    /\ ioq = << >>
    /\ sock = NoSocket
    /\ hub = [epoch |-> 0, running |-> FALSE, thread |-> NoThread, joiner |-> {}]
    /\ workers = {}
    /\ sendq = << >>
    /\ requests = 0
    /\ wire = {}
-----------------------------------------------------------------------------
(***************************************************************************)
(* The slots and helpers of MeetingWidget, as functions of its state u.    *)
(***************************************************************************)
Post(u, call) == [u EXCEPT !.toCtl = Append(@, call)]

request_connect_to_server_slot(u, act, sess) ==
    IF u.connecting
    THEN u
    ELSE IF u.ending
    THEN [u EXCEPT !.pending = [act |-> act, sess |-> sess]]
    ELSE Post([u EXCEPT !.connecting = TRUE],
              [op |-> "connect", act |-> act, sess |-> sess])

flush_pending_connect(u) ==
    IF u.pending = NoConnect
    THEN u
    ELSE request_connect_to_server_slot([u EXCEPT !.pending = NoConnect],
                                        u.pending.act, u.pending.sess)

\* The branches after the UI has been reset: an active or starting session is
\* disconnected through the controller and guarded by a timer.
end_meeting_session(u) ==
    IF u.active \/ u.connecting
    THEN Post([u EXCEPT !.ending = TRUE, !.active = FALSE, !.connecting = FALSE,
                        !.timers = @ + 1], DisconnectSlot)
    ELSE u

closeEvent(u) ==
    LET hidden == [u EXCEPT !.visible = FALSE, !.pending = NoConnect]
    IN  IF u.ending THEN hidden
        ELSE end_meeting_session([hidden EXCEPT !.ending = TRUE])

ResetFlags(u) ==
    [u EXCEPT !.active = FALSE, !.ending = FALSE, !.connecting = FALSE]

on_network_disconnected_slot(u) == flush_pending_connect(ResetFlags(u))

\* The lambda of QTimer::singleShot(800).
on_session_timer(u) ==
    IF u.ending THEN flush_pending_connect(ResetFlags(u)) ELSE u

\* Mutant: the flags change, the connection stays.
on_disconnect_server_slot_NoPost(u) ==
    IF u.active THEN [u EXCEPT !.ending = TRUE, !.active = FALSE] ELSE u

on_disconnect_server_slot(u) ==
    IF u.active
    THEN Post([u EXCEPT !.ending = TRUE, !.active = FALSE], DisconnectSlot)
    ELSE u

\* Mutant: a late result is discarded before _connecting is reset.
on_connect_finished_slot_StillConnecting(u, ok, act, sess) ==
    IF u.ending \/ ~u.visible THEN u
    ELSE [u EXCEPT !.connecting = FALSE, !.active = ok]

\* on_connect_finished_slot.  Its last signal, which main_window takes to tell
\* the user, changes nothing here.
on_connect_finished_slot(u, ok, act, sess) ==
    LET n == [u EXCEPT !.connecting = FALSE]
    IN  IF u.ending \/ ~u.visible
        THEN IF ok THEN Post([n EXCEPT !.ending = TRUE, !.active = FALSE,
                                       !.discarded = TRUE], DisconnectSlot)
                   ELSE n
        ELSE IF ~ok
        THEN [n EXCEPT !.visible = act = "None"]
        ELSE IF act = "None"
        THEN on_disconnect_server_slot([n EXCEPT !.active = TRUE])
        ELSE Post([n EXCEPT !.active = TRUE],
                  [op |-> "request", act |-> act, sess |-> sess])

\* on_request_message_slot: an error of the network ends the session.
handle_net_error(u) == IF u.ending THEN u ELSE end_meeting_session(u)
-----------------------------------------------------------------------------
(***************************************************************************)
(* MessageHub.                                                             *)
(***************************************************************************)
signal_send_stop(h) == [h EXCEPT !.running = FALSE, !.epoch = @ + 1]

\* The thread and the joiner chain are handed to whoever waits for them.
TakeThreads(h) == [h EXCEPT !.thread = NoThread, !.joiner = {}]
ToJoin(h) == (h.joiner \cup {h.thread}) \ {NoThread}

stop_send_worker_async(h) ==
    LET s == signal_send_stop(h)
    IN  [s EXCEPT !.joiner = ToJoin(s), !.thread = NoThread]

Exited(threads) == \A w \in workers : w.epoch \notin threads

\* send_loop: the loop condition.
worker_check(w) ==
    /\ w.pc = "check"
    /\ workers' = (workers \ {w}) \cup
         (IF hub.running /\ hub.epoch = w.epoch
          THEN {[w EXCEPT !.pc = "wait"]} ELSE {})
    /\ UNCHANGED <<ui, uiq, ctl, ioq, sock, hub, sendq, requests, wire>>

\* pop(100): a frame, or nothing when the wait runs out or is woken.
worker_pop(w) ==
    /\ w.pc = "wait"
    /\ LET got == IF sendq = << >> THEN NoMsg ELSE Head(sendq)
       IN  workers' = (workers \ {w}) \cup {[w EXCEPT !.pc = "got", !.msg = got]}
    /\ sendq' = IF sendq = << >> THEN sendq ELSE Tail(sendq)
    /\ UNCHANGED <<ui, uiq, ctl, ioq, sock, hub, requests, wire>>

\* The second look at the epoch: a superseded worker returns the request to
\* the queue and leaves, the current one posts the frame to the IO thread.
worker_send(w) ==
    /\ w.pc = "got"
    /\ IF hub.epoch # w.epoch
       THEN /\ workers' = workers \ {w}
            /\ sendq' = IF w.msg = NoMsg THEN sendq ELSE Append(sendq, w.msg)
            /\ UNCHANGED ioq
       ELSE /\ workers' = (workers \ {w}) \cup
                          {[w EXCEPT !.pc = "check", !.msg = NoMsg]}
            /\ ioq' = IF w.msg = NoMsg THEN ioq
                      ELSE Append(ioq, [op |-> "send", sess |-> w.msg])
            /\ UNCHANGED sendq
    /\ UNCHANGED <<ui, uiq, ctl, sock, hub, requests, wire>>
-----------------------------------------------------------------------------
(***************************************************************************)
(* The controller thread: the slots of MeetingController, in the order the *)
(* UI posted them, with NetworkManager::connect_to_server and              *)
(* disconnect_from_host.                                                   *)
(***************************************************************************)
NextCall(op) == ui.toCtl # << >> /\ Head(ui.toCtl).op = op
CallDone == ui' = [ui EXCEPT !.toCtl = Tail(@)]

\* connect_to_server: stop_send_worker signals the old worker ...
connect_stop_worker ==
    /\ ctl.pc = "idle" /\ NextCall("connect")
    /\ hub' = TakeThreads(signal_send_stop(hub))
    /\ ctl' = [ctl EXCEPT !.pc = "joining", !.awaiting = ToJoin(hub)]
    /\ UNCHANGED <<ui, uiq, ioq, sock, workers, sendq, requests, wire>>

\* Mutant: the old worker is not waited for.
connect_call_io_NoJoin ==
    /\ ctl.pc = "joining"
    /\ ctl' = [ctl EXCEPT !.pc = "blocked", !.awaiting = {}]
    /\ ioq' = Append(ioq, [op |-> "connect", sess |-> Head(ui.toCtl).sess])
    /\ UNCHANGED <<ui, uiq, sock, hub, workers, sendq, requests, wire>>

\* ... waits for it, and blocks on the IO thread.
connect_call_io ==
    /\ ctl.pc = "joining" /\ Exited(ctl.awaiting)
    /\ ctl' = [ctl EXCEPT !.pc = "blocked", !.awaiting = {}]
    /\ ioq' = Append(ioq, [op |-> "connect", sess |-> Head(ui.toCtl).sess])
    /\ UNCHANGED <<ui, uiq, sock, hub, workers, sendq, requests, wire>>

\* start_send_worker once the connection is up: stop and wait again, ...
start_send_worker_stop ==
    /\ ctl.pc = "returned" /\ ctl.ok
    /\ hub' = TakeThreads(signal_send_stop(hub))
    /\ ctl' = [ctl EXCEPT !.pc = "rejoining", !.awaiting = ToJoin(hub)]
    /\ UNCHANGED <<ui, uiq, ioq, sock, workers, sendq, requests, wire>>

\* ... take the next epoch, ...
start_send_worker_epoch ==
    /\ ctl.pc = "rejoining" /\ Exited(ctl.awaiting)
    /\ hub' = [hub EXCEPT !.epoch = @ + 1]
    /\ ctl' = [ctl EXCEPT !.pc = "launching", !.awaiting = {},
                          !.epoch = hub.epoch + 1]
    /\ UNCHANGED <<ui, uiq, ioq, sock, workers, sendq, requests, wire>>

\* connect_to_server returns: connect_finished_signal.
Finish ==
    LET call == Head(ui.toCtl)
    IN  /\ uiq' = Append(uiq, [ev |-> "connectFinished", ok |-> ctl.ok,
                               act |-> call.act, sess |-> call.sess])
        /\ ctl' = [ctl EXCEPT !.pc = "idle"]
        /\ CallDone

\* ... and create the thread.
start_send_worker_launch ==
    /\ ctl.pc = "launching"
    /\ hub' = [hub EXCEPT !.running = TRUE, !.thread = ctl.epoch]
    /\ workers' = workers \cup
                   {[epoch |-> ctl.epoch, pc |-> "check", msg |-> NoMsg]}
    /\ Finish
    /\ UNCHANGED <<ioq, sock, sendq, requests, wire>>

connect_failed ==
    /\ ctl.pc = "returned" /\ ~ctl.ok
    /\ Finish
    /\ UNCHANGED <<ioq, sock, hub, workers, sendq, requests, wire>>

\* create_meeting_slot and join_meeting_slot.
request_slot ==
    /\ ctl.pc = "idle" /\ NextCall("request")
    /\ sendq' = Append(sendq, Head(ui.toCtl).sess)
    /\ CallDone
    /\ UNCHANGED <<uiq, ctl, ioq, sock, hub, workers, requests, wire>>

disconnect_from_host_slot ==
    /\ ctl.pc = "idle" /\ NextCall("disconnect")
    /\ hub' = stop_send_worker_async(hub)
    /\ ioq' = Append(ioq, [op |-> "disconnect", sess |-> 0])
    /\ CallDone
    /\ UNCHANGED <<uiq, ctl, sock, workers, sendq, requests, wire>>
-----------------------------------------------------------------------------
(***************************************************************************)
(* The IO thread of Connection.                                            *)
(***************************************************************************)
NextIo(op) == ioq # << >> /\ Head(ioq).op = op
Event(name) == [ev |-> name, ok |-> FALSE, act |-> "None", sess |-> 0]

\* Mutant: the queues are not cleared.
io_connect_begin_KeepQueue ==
    /\ sock.state # "connecting" /\ NextIo("connect")
    /\ sock' = [state |-> "connecting", sess |-> Head(ioq).sess]
    /\ UNCHANGED <<ui, uiq, ctl, ioq, hub, workers, sendq, requests, wire>>

\* connectOnIoThread up to waitForConnected: drop the old socket and clear
\* the queues.
io_connect_begin ==
    /\ sock.state # "connecting" /\ NextIo("connect")
    /\ sock' = [state |-> "connecting", sess |-> Head(ioq).sess]
    /\ sendq' = << >>
    /\ UNCHANGED <<ui, uiq, ctl, ioq, hub, workers, requests, wire>>

\* waitForConnected returns.  A refused connection also raises errorOccurred,
\* one that runs into the timeout does not.
io_connect_end(ok) ==
    /\ sock.state = "connecting"
    /\ sock' = IF ok THEN [sock EXCEPT !.state = "open"] ELSE NoSocket
    /\ uiq' \in IF ok THEN {uiq} ELSE {uiq, Append(uiq, Event("hub:netError"))}
    /\ ctl' = [ctl EXCEPT !.pc = "returned", !.ok = ok]
    /\ ioq' = Tail(ioq)
    /\ UNCHANGED <<ui, hub, workers, sendq, requests, wire>>

io_disconnect ==
    /\ sock.state # "connecting" /\ NextIo("disconnect")
    /\ sock' = NoSocket
    /\ sendq' = << >>
    /\ uiq' = Append(uiq, Event("connectionDisconnected"))
    /\ ioq' = Tail(ioq)
    /\ UNCHANGED <<ui, ctl, hub, workers, requests, wire>>

\* sendWireData: dropped without a connected socket.
io_send ==
    /\ sock.state # "connecting" /\ NextIo("send")
    /\ wire' = IF sock.state = "open"
               THEN wire \cup {<<sock.sess, Head(ioq).sess>>} ELSE wire
    /\ ioq' = Tail(ioq)
    /\ UNCHANGED <<ui, uiq, ctl, sock, hub, workers, sendq, requests>>

\* onSocketError of an established connection: the peer or the network is gone.
io_socket_error ==
    /\ sock.state = "open"
    /\ sock' = [sock EXCEPT !.state = "dead"]
    /\ uiq' = Append(uiq, Event("hub:netError"))
    /\ UNCHANGED <<ui, ctl, ioq, hub, workers, sendq, requests, wire>>
-----------------------------------------------------------------------------
(***************************************************************************)
(* The UI thread: posted events in order, timers and the user in between.  *)
(***************************************************************************)
\* MessageHub::emit_incoming: the first hop of a message.
ui_hub_message ==
    /\ uiq # << >> /\ Head(uiq).ev = "hub:netError"
    /\ uiq' = Append(Tail(uiq), Event("netError"))
    /\ UNCHANGED <<ui, ctl, ioq, sock, hub, workers, sendq, requests, wire>>

\* The lambda NetworkManager connects to Connection::disconnected.
ui_connection_disconnected ==
    /\ uiq # << >> /\ Head(uiq).ev = "connectionDisconnected"
    /\ hub' = stop_send_worker_async(hub)
    /\ uiq' = Append(Tail(uiq), Event("networkDisconnected"))
    /\ UNCHANGED <<ui, ctl, ioq, sock, workers, sendq, requests, wire>>

\* The slots of MeetingWidget.
ui_slot ==
    LET e == Head(uiq)
    IN  /\ uiq # << >>
        /\ \/ e.ev = "networkDisconnected" /\ ui' = on_network_disconnected_slot(ui)
           \/ /\ e.ev = "connectFinished"
              /\ ui' = on_connect_finished_slot(ui, e.ok, e.act, e.sess)
           \/ e.ev = "netError" /\ ui' = handle_net_error(ui)
        /\ uiq' = Tail(uiq)
        /\ UNCHANGED <<ctl, ioq, sock, hub, workers, sendq, requests, wire>>

\* A disconnection is on its way through one of the queues.
Disconnecting ==
    \/ \E i \in DOMAIN ui.toCtl : ui.toCtl[i].op = "disconnect"
    \/ \E i \in DOMAIN ioq : ioq[i].op = "disconnect"
    \/ \E i \in DOMAIN uiq : uiq[i].ev \in {"connectionDisconnected",
                                            "networkDisconnected"}

\* Mutant: a timer that runs out again and again.
ui_timer_Repeats ==
    /\ ui' = on_session_timer([ui EXCEPT !.timers = @ - 1])
    /\ UNCHANGED <<uiq, ctl, ioq, sock, hub, workers, sendq, requests, wire>>

\* The timer is never cancelled.  It is overtaking when a disconnection takes
\* longer than its 800 ms.
ui_timer ==
    /\ ui.timers > 0
    /\ ui' = on_session_timer([ui EXCEPT !.timers = @ - 1,
                                          !.overtaking = @ \/ Disconnecting])
    /\ UNCHANGED <<uiq, ctl, ioq, sock, hub, workers, sendq, requests, wire>>

\* The create, join and connect buttons of main_window: refused while the
\* meeting window is open; create and join show it.
user_request(act) ==
    /\ requests < MaxRequests /\ ~ui.visible
    /\ requests' = requests + 1
    /\ ui' = request_connect_to_server_slot(
                [ui EXCEPT !.visible = act # "None"], act, requests + 1)
    /\ UNCHANGED <<uiq, ctl, ioq, sock, hub, workers, sendq, wire>>

user_close_window ==
    /\ ui.visible
    /\ ui' = closeEvent(ui)
    /\ UNCHANGED <<uiq, ctl, ioq, sock, hub, workers, sendq, requests, wire>>
-----------------------------------------------------------------------------
Worker == \E w \in workers : worker_check(w) \/ worker_pop(w) \/ worker_send(w)
Controller ==
    \/ connect_stop_worker \/ connect_call_io \/ start_send_worker_stop
    \/ start_send_worker_epoch \/ start_send_worker_launch \/ connect_failed
    \/ request_slot \/ disconnect_from_host_slot
IoCall == io_connect_begin \/ io_disconnect \/ io_send
IoConnectEnd == \E ok \in BOOLEAN : io_connect_end(ok)
UiEvent == ui_hub_message \/ ui_connection_disconnected \/ ui_slot
User == (\E act \in UserActions : user_request(act)) \/ user_close_window

Next ==
    \/ Worker \/ Controller \/ IoCall \/ IoConnectEnd
    \/ io_socket_error
    \/ UiEvent \/ ui_timer \/ User

Spec == Init /\ [][Next]_sessionVars

\* Threads and timers keep running; the user, the server and the network
\* promise nothing, except that waitForConnected returns.
Fairness ==
    /\ WF_sessionVars(Controller)
    /\ WF_sessionVars(IoCall)
    /\ WF_sessionVars(IoConnectEnd)
    /\ WF_sessionVars(UiEvent)
    /\ WF_sessionVars(ui_timer)
    /\ WF_sessionVars(Worker)    \* at most one exists: OneSender

FairSpec == Spec /\ Fairness
-----------------------------------------------------------------------------
Requests == 0 .. MaxRequests
Actions == {"None", "CreateMeeting", "JoinMeeting"}

Calls == [op : {"connect", "request", "disconnect"}, act : Actions, sess : Requests]
UiStates ==
    [visible : BOOLEAN, ending : BOOLEAN, active : BOOLEAN, connecting : BOOLEAN,
     pending : [act : Actions, sess : Requests], timers : Nat,
     overtaking : BOOLEAN, discarded : BOOLEAN, toCtl : Seq(Calls)]
UiEvents ==
    [ev : {"hub:netError", "netError", "connectFinished",
           "connectionDisconnected", "networkDisconnected"},
     ok : BOOLEAN, act : Actions, sess : Requests]
IoCalls == [op : {"connect", "disconnect", "send"}, sess : Requests]

\* Every variable has the type of the members it models.
TypeOK ==
    /\ ui \in UiStates
    /\ uiq \in Seq(UiEvents)
    /\ ctl \in [pc : {"idle", "joining", "blocked", "returned", "rejoining",
                      "launching"},
                awaiting : SUBSET Nat, ok : BOOLEAN, epoch : Nat]
    /\ ioq \in Seq(IoCalls)
    /\ sock \in [state : {"none", "connecting", "open", "dead"},
                 sess : Requests]
    /\ hub \in [epoch : Nat, running : BOOLEAN, thread : Nat,
                joiner : SUBSET Nat]
    /\ workers \subseteq [epoch : Nat, pc : {"check", "wait", "got"},
                          msg : Requests]
    /\ sendq \in Seq(Requests)
    /\ requests \in Requests
    /\ wire \subseteq Requests \X Requests

\* No thread has anything left to do but wait for the user or the server.
Quiet ==
    /\ uiq = << >> /\ ui.toCtl = << >> /\ ioq = << >>
    /\ ctl.pc = "idle" /\ ui.timers = 0
    /\ \A w \in workers : w.epoch = hub.epoch /\ w.msg = NoMsg
    /\ workers # {} => sendq = << >>

\* Two send_loops never run at once, whichever threads stop and start them:
\* start_send_worker waits for every earlier one through the joiner chain, so
\* no old worker can take the new session's request from the queue.
OneSender == Cardinality(workers) <= 1

\* When the threads are done and the window is in no session, the client holds
\* no connection, as long as every disconnection is done before its timer runs
\* out and no connection came up too late and was discarded.  (The end of the
\* attempt and the discarding each post a disconnection; the notice of the
\* second resets the session that came after, whose connection stays open.)
NoLeakedConnection ==
    Quiet /\ ~ui.active /\ ~ui.overtaking /\ ~ui.discarded =>
        sock.state \in {"none", "dead"}

\* A create or join request is written to the connection it was made for and
\* to no other: nothing of an earlier session reaches the next, under the same
\* conditions.  (The notice of the second disconnection can also release the
\* user's next attempt while the result of the one before is still to come;
\* that result is then taken for the new session's.)
RequestsStayInSession ==
    ~ui.overtaking /\ ~ui.discarded => \A w \in wire : w[1] = w[2]

\* A connection attempt always comes to an end.
ConnectingEnds == ui.connecting ~> ~ui.connecting

\* A session that is ending has ended at some point, so that the deferred
\* request of the user is carried out.
EndingEnds == ui.ending ~> ~ui.ending
==============================================================================
