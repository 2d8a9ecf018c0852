------------------------- MODULE ClientSessionProofs -------------------------
(***************************************************************************)
(* Theorems about ClientSession, for every number of requests.             *)
(***************************************************************************)
EXTENDS ClientSession, FiniteSetTheorems, TLAPS

(***************************************************************************)
(* The inductive invariant, in parts.                                      *)
(***************************************************************************)
\* At most one send_loop runs, and whoever must wait for it knows it: the
\* hub, or the slot that has taken the threads from the hub.  From the end of
\* the first wait of connect_to_server to the launch there is none.
SenderInv ==
    /\ \A v, w \in workers : v = w
    /\ ctl.pc = "idle" => \A w \in workers : w.epoch \in ToJoin(hub)
    /\ ctl.pc = "joining" => \A w \in workers : w.epoch \in ctl.awaiting
    /\ ctl.pc \in {"blocked", "returned", "rejoining", "launching"} => workers = {}
    /\ ctl.pc = "launching" => ctl.epoch > 0

\* The controller is in connect_to_server, of the first call in its queue,
\* and blocked until the connect it has posted, the last call of the IO
\* thread, has returned.
IoInv ==
    /\ ctl.pc # "idle" => NextCall("connect")
    /\ \A i \in DOMAIN ioq : ioq[i].op = "connect" => i = Len(ioq) /\ ctl.pc = "blocked"
    /\ ctl.pc = "blocked" => /\ ioq # << >> /\ ioq[Len(ioq)].op = "connect"
                             /\ ioq[Len(ioq)].sess = Head(ui.toCtl).sess
    /\ sock.state = "connecting" => /\ ioq # << >> /\ Head(ioq).op = "connect"
                                    /\ sock.sess = Head(ui.toCtl).sess
                                    /\ sendq = << >>

\* The rest holds as long as no timer has overtaken a disconnection and no
\* connection has been discarded.
Calm == ~ui.overtaking /\ ~ui.discarded

\* Sequences, by the sets their members belong to.
Has(q, T) == \E i \in DOMAIN q : q[i] \in T
Once(q, T) == \A i, j \in DOMAIN q : q[i] \in T /\ q[j] \in T => i = j
Before(q, T, U) == \A i, j \in DOMAIN q : q[i] \in T /\ q[j] \in U => i < j

CallsOf(ops) == {c \in Calls : c.op \in ops}
IoCallsOf(ops) == {c \in IoCalls : c.op \in ops}
EventsOf(evs) == {e \in UiEvents : e.ev \in evs}
Opening == CallsOf({"connect", "request"})
Closing == CallsOf({"disconnect"})
IoClosing == IoCallsOf({"disconnect"})
Results == EventsOf({"connectFinished"})
Notices == EventsOf({"connectionDisconnected", "networkDisconnected"})

Connecting == Has(ui.toCtl, CallsOf({"connect"}))
Asks == Has(ui.toCtl, CallsOf({"request"}))
Closes == Has(ui.toCtl, Closing)
IoCloses == Has(ioq, IoClosing)
Finished == Has(uiq, Results)
Noticed == Has(uiq, Notices)
Attempt == Connecting \/ Finished
Leaving == Closes \/ IoCloses \/ Noticed

\* One attempt, or one request, is under way, and behind it at most one
\* disconnection.
CtlOrder ==
    /\ Once(ui.toCtl, Opening) /\ Once(ui.toCtl, Closing)
    /\ Before(ui.toCtl, Opening, Closing)
IoOrder == Once(ioq, IoClosing)
UiOrder ==
    /\ Once(uiq, Notices) /\ Once(uiq, Results)
    /\ Before(uiq, Results, Notices)
CallsInv ==
    /\ CtlOrder /\ IoOrder /\ UiOrder
    /\ Connecting \/ Asks => ~IoCloses /\ ~Noticed /\ ~Finished
    /\ Closes => ~IoCloses /\ ~Noticed
    /\ IoCloses => ~Noticed

\* What the flags of the window say of what is under way.
FlagsInv ==
    /\ Leaving => ui.ending
    /\ Attempt => ui.connecting \/ Leaving
    /\ ui.connecting => ~ui.ending /\ ~ui.active
    /\ ui.active => ui.visible /\ ~ui.ending /\ ~Attempt
    /\ Asks => ui.active \/ Closes

\* If a connection is up, it is the one of session s.
UpFor(s) == sock.state = "open" => sock.sess = s

\* What is under way is for the connection that is up.
SessInv ==
    /\ \A i \in DOMAIN ui.toCtl : ui.toCtl[i].op = "request" => UpFor(ui.toCtl[i].sess)
    /\ \A i \in DOMAIN uiq : uiq[i].ev = "connectFinished" => UpFor(uiq[i].sess)
    /\ ctl.pc \in {"returned", "rejoining", "launching"} => UpFor(Head(ui.toCtl).sess)
    /\ \A i \in DOMAIN sendq : UpFor(sendq[i])
    /\ \A w \in workers : w.msg # NoMsg => UpFor(w.msg)
    /\ \A i \in DOMAIN ioq : ioq[i].op = "send" => UpFor(ioq[i].sess)

\* A connection that is up is in a session, about to be in one, or about to
\* be closed.
OpenInv ==
    sock.state = "open" =>
        \/ ui.active
        \/ ctl.pc \in {"returned", "rejoining", "launching"} /\ ctl.ok
        \/ \E i \in DOMAIN uiq : uiq[i].ev = "connectFinished" /\ uiq[i].ok
        \/ Closes \/ IoCloses

WireInv == \A w \in wire : w[1] = w[2]
-----------------------------------------------------------------------------
(***************************************************************************)
(* Queues.                                                                 *)
(***************************************************************************)
LEMMA Appended ==
    ASSUME NEW S, NEW s \in Seq(S), NEW e \in S
    PROVE  /\ Append(s, e) \in Seq(S)
           /\ Len(s) \in Nat /\ Len(Append(s, e)) = Len(s) + 1
           /\ DOMAIN s = 1 .. Len(s)
           /\ DOMAIN Append(s, e) = 1 .. Len(s) + 1
           /\ Append(s, e)[Len(s) + 1] = e
           /\ \A i \in 1 .. Len(s) : Append(s, e)[i] = s[i]
OBVIOUS

LEMMA Shifted ==
    ASSUME NEW S, NEW s \in Seq(S), s # << >>
    PROVE  /\ Len(s) \in Nat \ {0} /\ DOMAIN s = 1 .. Len(s)
           /\ Head(s) = s[1] /\ Head(s) \in S
           /\ Tail(s) \in Seq(S) /\ Len(Tail(s)) = Len(s) - 1
           /\ DOMAIN Tail(s) = 1 .. Len(s) - 1
           /\ \A i \in 1 .. Len(s) - 1 : Tail(s)[i] = s[i + 1]
OBVIOUS
-----------------------------------------------------------------------------
(***************************************************************************)
(* What the slots of the window make of its state.                         *)
(***************************************************************************)
LEMMA ConstantTypes ==
    /\ NoConnect \in [act : Actions, sess : Requests]
    /\ DisconnectSlot \in Calls /\ DisconnectSlot.op = "disconnect"
    /\ 0 \in Requests
BY SessionAssumption DEF NoConnect, DisconnectSlot, Calls, Actions, Requests

LEMMA PostEffect ==
    ASSUME NEW u \in UiStates, NEW call \in Calls
    PROVE  LET v == Post(u, call)
           IN  /\ v \in UiStates
               /\ v.toCtl = Append(u.toCtl, call)
               /\ v.visible = u.visible /\ v.ending = u.ending
               /\ v.active = u.active /\ v.connecting = u.connecting
               /\ v.timers = u.timers /\ v.overtaking = u.overtaking
               /\ v.discarded = u.discarded
<1>1. u.toCtl \in Seq(Calls)
  BY DEF UiStates
<1>2. Append(u.toCtl, call) \in Seq(Calls)
  BY <1>1
<1> QED
  BY <1>1, <1>2 DEF UiStates, Post

\* v may have begun a connection that u allowed.
Connects(u, v) ==
    /\ v \in UiStates
    /\ v.visible = u.visible /\ v.ending = u.ending /\ v.active = u.active
    /\ v.timers = u.timers /\ v.overtaking = u.overtaking
    /\ v.discarded = u.discarded
    /\ \/ v.connecting = u.connecting /\ v.toCtl = u.toCtl
       \/ /\ ~u.connecting /\ ~u.ending
          /\ v.connecting
          /\ \E call \in Calls : call.op = "connect" /\ v.toCtl = Append(u.toCtl, call)

LEMMA RequestEffect ==
    ASSUME NEW u \in UiStates, NEW act \in Actions, NEW sess \in Requests
    PROVE  Connects(u, request_connect_to_server_slot(u, act, sess))
<1> DEFINE n == [u EXCEPT !.connecting = TRUE]
           d == [u EXCEPT !.pending = [act |-> act, sess |-> sess]]
           call == [op |-> "connect", act |-> act, sess |-> sess]
<1>1. CASE u.connecting
  BY <1>1 DEF request_connect_to_server_slot, Connects
<1>2. CASE ~u.connecting /\ u.ending
  <2>1. /\ d \in UiStates
        /\ d.visible = u.visible /\ d.ending = u.ending /\ d.active = u.active
        /\ d.timers = u.timers /\ d.overtaking = u.overtaking
        /\ d.discarded = u.discarded
        /\ d.connecting = u.connecting /\ d.toCtl = u.toCtl
    BY DEF UiStates
  <2>2. request_connect_to_server_slot(u, act, sess) = d
    BY <1>2 DEF request_connect_to_server_slot
  <2> QED
    BY <2>1, <2>2 DEF Connects
<1>3. CASE ~u.connecting /\ ~u.ending
  <2>1. /\ n \in UiStates
        /\ n.visible = u.visible /\ n.ending = u.ending /\ n.active = u.active
        /\ n.timers = u.timers /\ n.overtaking = u.overtaking
        /\ n.discarded = u.discarded
        /\ n.connecting = TRUE /\ n.toCtl = u.toCtl
    BY DEF UiStates
  <2>2. call \in Calls /\ call.op = "connect"
    BY DEF Calls
  <2>3. request_connect_to_server_slot(u, act, sess) = Post(n, call)
    BY <1>3 DEF request_connect_to_server_slot
  <2> HIDE DEF n, call
  <2>4. /\ Post(n, call) \in UiStates
        /\ Post(n, call).toCtl = Append(n.toCtl, call)
        /\ Post(n, call).visible = n.visible /\ Post(n, call).ending = n.ending
        /\ Post(n, call).active = n.active /\ Post(n, call).connecting = n.connecting
        /\ Post(n, call).timers = n.timers /\ Post(n, call).overtaking = n.overtaking
        /\ Post(n, call).discarded = n.discarded
    BY <2>1, <2>2, PostEffect
  <2> QED
    BY <1>3, <2>1, <2>2, <2>3, <2>4 DEF Connects
<1> QED
  BY <1>1, <1>2, <1>3 DEF UiStates

LEMMA FlushEffect ==
    ASSUME NEW u \in UiStates
    PROVE  Connects(u, flush_pending_connect(u))
<1> DEFINE n == [u EXCEPT !.pending = NoConnect]
<1>1. CASE u.pending = NoConnect
  BY <1>1 DEF flush_pending_connect, Connects
<1>2. CASE u.pending # NoConnect
  <2>1. /\ n \in UiStates
        /\ n.visible = u.visible /\ n.ending = u.ending /\ n.active = u.active
        /\ n.timers = u.timers /\ n.overtaking = u.overtaking
        /\ n.discarded = u.discarded
        /\ n.connecting = u.connecting /\ n.toCtl = u.toCtl
    BY ConstantTypes DEF UiStates
  <2>2. u.pending.act \in Actions /\ u.pending.sess \in Requests
    BY DEF UiStates
  <2>3. flush_pending_connect(u)
          = request_connect_to_server_slot(n, u.pending.act, u.pending.sess)
    BY <1>2 DEF flush_pending_connect
  <2> HIDE DEF n
  <2>4. Connects(n, flush_pending_connect(u))
    BY <2>1, <2>2, <2>3, RequestEffect
  <2> QED
    BY <2>1, <2>4 DEF Connects
<1> QED
  BY <1>1, <1>2

\* v has ended the session of u, with a disconnection if there was one.
Ends(u, v) ==
    /\ v \in UiStates
    /\ v.overtaking = u.overtaking /\ v.discarded = u.discarded
    /\ ~v.active /\ ~v.connecting /\ v.ending
    /\ \/ v.toCtl = Append(u.toCtl, DisconnectSlot)
       \/ v.toCtl = u.toCtl /\ ~u.active /\ ~u.connecting

LEMMA EndEffect ==
    ASSUME NEW u \in UiStates
    PROVE  LET v == end_meeting_session(u)
           IN  /\ u.active \/ u.connecting => Ends(u, v) /\ v.visible = u.visible
               /\ ~u.active /\ ~u.connecting => v = u
<1> DEFINE n == [u EXCEPT !.ending = TRUE, !.active = FALSE, !.connecting = FALSE,
                          !.timers = u.timers + 1]
<1>1. /\ n \in UiStates /\ n.ending = TRUE /\ n.active = FALSE /\ n.connecting = FALSE
      /\ n.visible = u.visible /\ n.overtaking = u.overtaking
      /\ n.discarded = u.discarded /\ n.toCtl = u.toCtl
  <2>1. u.timers + 1 \in Nat
    BY DEF UiStates
  <2> QED
    BY <2>1 DEF UiStates
<1>2. CASE u.active \/ u.connecting
  <2>1. end_meeting_session(u) = Post(n, DisconnectSlot)
    BY <1>2 DEF end_meeting_session
  <2> HIDE DEF n
  <2>2. /\ Post(n, DisconnectSlot) \in UiStates
        /\ Post(n, DisconnectSlot).toCtl = Append(n.toCtl, DisconnectSlot)
        /\ Post(n, DisconnectSlot).visible = n.visible
        /\ Post(n, DisconnectSlot).ending = n.ending
        /\ Post(n, DisconnectSlot).active = n.active
        /\ Post(n, DisconnectSlot).connecting = n.connecting
        /\ Post(n, DisconnectSlot).overtaking = n.overtaking
        /\ Post(n, DisconnectSlot).discarded = n.discarded
    BY <1>1, ConstantTypes, PostEffect
  <2> QED
    BY <1>1, <1>2, <2>1, <2>2 DEF Ends
<1>3. CASE ~u.active /\ ~u.connecting
  BY <1>3 DEF end_meeting_session
<1> QED
  BY <1>2, <1>3

LEMMA CloseEffect ==
    ASSUME NEW u \in UiStates
    PROVE  LET v == closeEvent(u)
           IN  /\ v \in UiStates /\ ~v.visible
               /\ u.ending => /\ v.ending = u.ending /\ v.active = u.active
                              /\ v.connecting = u.connecting /\ v.toCtl = u.toCtl
                              /\ v.overtaking = u.overtaking
                              /\ v.discarded = u.discarded
               /\ ~u.ending => Ends(u, v)
<1> DEFINE hidden == [u EXCEPT !.visible = FALSE, !.pending = NoConnect]
           n == [hidden EXCEPT !.ending = TRUE]
<1>1. /\ hidden \in UiStates /\ hidden.visible = FALSE /\ hidden.ending = u.ending
      /\ hidden.active = u.active /\ hidden.connecting = u.connecting
      /\ hidden.overtaking = u.overtaking /\ hidden.discarded = u.discarded
      /\ hidden.toCtl = u.toCtl
  BY ConstantTypes DEF UiStates
<1>2. closeEvent(u) = IF u.ending THEN hidden ELSE end_meeting_session(n)
  BY DEF closeEvent
<1> HIDE DEF hidden
<1>3. /\ n \in UiStates /\ n.visible = FALSE /\ n.ending = TRUE
      /\ n.active = u.active /\ n.connecting = u.connecting
      /\ n.overtaking = u.overtaking /\ n.discarded = u.discarded
      /\ n.toCtl = u.toCtl
  BY <1>1 DEF UiStates
<1> HIDE DEF n
<1>4. /\ n.active \/ n.connecting => /\ Ends(n, end_meeting_session(n))
                                     /\ end_meeting_session(n).visible = n.visible
      /\ ~n.active /\ ~n.connecting => end_meeting_session(n) = n
  BY <1>3, EndEffect
<1>5. Ends(n, end_meeting_session(n)) => Ends(u, end_meeting_session(n))
  BY <1>3 DEF Ends
<1>6. ~u.active /\ ~u.connecting => Ends(u, n)
  BY <1>3 DEF Ends
<1> QED
  BY <1>1, <1>2, <1>3, <1>4, <1>5, <1>6 DEF Ends

\* The session is over: a deferred request is carried out.
Resets(u, v) ==
    /\ v \in UiStates
    /\ v.visible = u.visible /\ ~v.ending /\ ~v.active
    /\ v.discarded = u.discarded
    /\ \/ ~v.connecting /\ v.toCtl = u.toCtl
       \/ /\ v.connecting
          /\ \E call \in Calls : call.op = "connect" /\ v.toCtl = Append(u.toCtl, call)

LEMMA ResetEffect ==
    ASSUME NEW u \in UiStates
    PROVE  /\ Resets(u, flush_pending_connect(ResetFlags(u)))
           /\ flush_pending_connect(ResetFlags(u)).overtaking = u.overtaking
<1> DEFINE n == ResetFlags(u)
<1>1. /\ n \in UiStates /\ n.visible = u.visible /\ n.ending = FALSE
      /\ n.active = FALSE /\ n.connecting = FALSE
      /\ n.overtaking = u.overtaking /\ n.discarded = u.discarded
      /\ n.toCtl = u.toCtl
  BY DEF UiStates, ResetFlags
<1> HIDE DEF n
<1>2. Connects(n, flush_pending_connect(n))
  BY <1>1, FlushEffect
<1>3. Resets(u, flush_pending_connect(n))
      /\ flush_pending_connect(n).overtaking = u.overtaking
  BY <1>1, <1>2 DEF Connects, Resets
<1> QED
  BY <1>3 DEF n

LEMMA TimerEffect ==
    ASSUME NEW u \in UiStates, u.timers > 0
    PROVE  LET n == [u EXCEPT !.timers = @ - 1, !.overtaking = @ \/ Disconnecting]
               v == on_session_timer(n)
           IN  /\ v \in UiStates
               /\ ~v.overtaking => ~u.overtaking /\ ~Disconnecting
               /\ u.ending => Resets(u, v)
               /\ ~u.ending => /\ v.visible = u.visible /\ v.ending = u.ending
                               /\ v.active = u.active /\ v.connecting = u.connecting
                               /\ v.toCtl = u.toCtl /\ v.discarded = u.discarded
<1> DEFINE n == [u EXCEPT !.timers = u.timers - 1, !.overtaking = u.overtaking \/ Disconnecting]
<1>1. u.timers - 1 \in Nat
  BY DEF UiStates
<1>2. PICK o \in BOOLEAN : o = (u.overtaking \/ Disconnecting)
  OBVIOUS
<1>3. n = [u EXCEPT !.timers = u.timers - 1, !.overtaking = o]
  BY <1>2
<1>4. /\ n \in UiStates /\ n.visible = u.visible /\ n.ending = u.ending
      /\ n.active = u.active /\ n.connecting = u.connecting
      /\ n.overtaking = o /\ n.discarded = u.discarded /\ n.toCtl = u.toCtl
  BY <1>1, <1>3 DEF UiStates
<1>5. n = [u EXCEPT !.timers = @ - 1, !.overtaking = @ \/ Disconnecting]
  OBVIOUS
<1> HIDE DEF n
<1>6. CASE u.ending
  <2>1. on_session_timer(n) = flush_pending_connect(ResetFlags(n))
    BY <1>4, <1>6 DEF on_session_timer
  <2>2. Resets(n, on_session_timer(n)) /\ on_session_timer(n).overtaking = n.overtaking
    BY <1>4, <2>1, ResetEffect
  <2>3. Resets(u, on_session_timer(n))
    BY <1>4, <2>2 DEF Resets
  <2>4. on_session_timer(n) \in UiStates
    BY <2>3 DEF Resets
  <2> QED
    BY <1>2, <1>4, <1>5, <1>6, <2>2, <2>3, <2>4
<1>7. CASE ~u.ending
  <2>1. on_session_timer(n) = n
    BY <1>4, <1>7 DEF on_session_timer
  <2> QED
    BY <1>2, <1>4, <1>5, <1>7, <2>1
<1> QED
  BY <1>6, <1>7

\* A connection is up too late; it has failed; it is up and has no use; it
\* is up and the request follows.
Discards(u, v) == v.discarded /\ v.toCtl = Append(u.toCtl, DisconnectSlot)
Fails(u, v) ==
    /\ v.ending = u.ending /\ v.active = u.active /\ ~v.connecting
    /\ v.discarded = u.discarded /\ v.toCtl = u.toCtl
NotNeeded(u, v) ==
    /\ v.ending /\ ~v.active /\ ~v.connecting /\ v.discarded = u.discarded
    /\ v.toCtl = Append(u.toCtl, DisconnectSlot)
AsksFor(u, v, sess) ==
    /\ u.visible /\ v.visible /\ ~u.ending /\ ~v.ending
    /\ v.active /\ ~v.connecting /\ v.discarded = u.discarded
    /\ \E call \in Calls : /\ call.op = "request" /\ call.sess = sess
                           /\ v.toCtl = Append(u.toCtl, call)

LEMMA FinishEffect ==
    ASSUME NEW u \in UiStates, NEW ok \in BOOLEAN, NEW act \in Actions,
           NEW sess \in Requests
    PROVE  LET v == on_connect_finished_slot(u, ok, act, sess)
           IN  /\ v \in UiStates /\ v.overtaking = u.overtaking
               /\ \/ Discards(u, v)
                  \/ ~ok /\ Fails(u, v)
                  \/ ok /\ ~u.ending /\ NotNeeded(u, v)
                  \/ ok /\ AsksFor(u, v, sess)
<1> DEFINE n == [u EXCEPT !.connecting = FALSE]
<1>1. /\ n \in UiStates /\ n.visible = u.visible /\ n.ending = u.ending
      /\ n.active = u.active /\ n.connecting = FALSE
      /\ n.overtaking = u.overtaking /\ n.discarded = u.discarded
      /\ n.toCtl = u.toCtl
  BY DEF UiStates
<1>2. on_connect_finished_slot(u, ok, act, sess) =
        IF u.ending \/ ~u.visible
        THEN IF ok THEN Post([n EXCEPT !.ending = TRUE, !.active = FALSE,
                                       !.discarded = TRUE], DisconnectSlot)
                   ELSE n
        ELSE IF ~ok
        THEN [n EXCEPT !.visible = act = "None"]
        ELSE IF act = "None"
        THEN on_disconnect_server_slot([n EXCEPT !.active = TRUE])
        ELSE Post([n EXCEPT !.active = TRUE],
                  [op |-> "request", act |-> act, sess |-> sess])
  BY DEF on_connect_finished_slot
<1> HIDE DEF n
<1>3. CASE (u.ending \/ ~u.visible) /\ ok
  <2> DEFINE d == [n EXCEPT !.ending = TRUE, !.active = FALSE, !.discarded = TRUE]
  <2>1. /\ d \in UiStates /\ d.discarded = TRUE /\ d.overtaking = u.overtaking
        /\ d.toCtl = u.toCtl
    BY <1>1 DEF UiStates
  <2>2. on_connect_finished_slot(u, ok, act, sess) = Post(d, DisconnectSlot)
    BY <1>2, <1>3
  <2> HIDE DEF d
  <2>3. /\ Post(d, DisconnectSlot) \in UiStates
        /\ Post(d, DisconnectSlot).overtaking = d.overtaking
        /\ Post(d, DisconnectSlot).discarded = d.discarded
        /\ Post(d, DisconnectSlot).toCtl = Append(d.toCtl, DisconnectSlot)
    BY <2>1, ConstantTypes, PostEffect
  <2> QED
    BY <2>1, <2>2, <2>3 DEF Discards
<1>4. CASE (u.ending \/ ~u.visible) /\ ~ok
  BY <1>1, <1>2, <1>4 DEF Fails
<1>5. CASE ~u.ending /\ u.visible /\ ~ok
  <2>1. PICK b \in BOOLEAN : b = (act = "None")
    OBVIOUS
  <2> DEFINE d == [n EXCEPT !.visible = b]
  <2>2. /\ d \in UiStates /\ d.ending = u.ending /\ d.active = u.active
        /\ d.connecting = FALSE /\ d.overtaking = u.overtaking
        /\ d.discarded = u.discarded /\ d.toCtl = u.toCtl
    BY <1>1 DEF UiStates
  <2>3. on_connect_finished_slot(u, ok, act, sess) = d
    BY <1>2, <1>5, <2>1
  <2> HIDE DEF d
  <2> QED
    BY <1>5, <2>2, <2>3 DEF Fails
<1>6. CASE ~u.ending /\ u.visible /\ ok
  <2> DEFINE a == [n EXCEPT !.active = TRUE]
  <2>1. /\ a \in UiStates /\ a.visible = u.visible /\ a.ending = u.ending
        /\ a.active = TRUE /\ a.connecting = FALSE
        /\ a.overtaking = u.overtaking /\ a.discarded = u.discarded
        /\ a.toCtl = u.toCtl
    BY <1>1 DEF UiStates
  <2>2. CASE act = "None"
    <3> DEFINE d == [a EXCEPT !.ending = TRUE, !.active = FALSE]
    <3>1. /\ d \in UiStates /\ d.ending = TRUE /\ d.active = FALSE
          /\ d.connecting = FALSE /\ d.overtaking = u.overtaking
          /\ d.discarded = u.discarded /\ d.toCtl = u.toCtl
      BY <2>1 DEF UiStates
    <3>2. on_connect_finished_slot(u, ok, act, sess) = Post(d, DisconnectSlot)
      BY <1>2, <1>6, <2>1, <2>2 DEF on_disconnect_server_slot
    <3> HIDE DEF d
    <3>3. /\ Post(d, DisconnectSlot) \in UiStates
          /\ Post(d, DisconnectSlot).toCtl = Append(d.toCtl, DisconnectSlot)
          /\ Post(d, DisconnectSlot).ending = d.ending
          /\ Post(d, DisconnectSlot).active = d.active
          /\ Post(d, DisconnectSlot).connecting = d.connecting
          /\ Post(d, DisconnectSlot).overtaking = d.overtaking
          /\ Post(d, DisconnectSlot).discarded = d.discarded
      BY <3>1, ConstantTypes, PostEffect
    <3> QED
      BY <1>6, <3>1, <3>2, <3>3 DEF NotNeeded
  <2>3. CASE act # "None"
    <3> DEFINE call == [op |-> "request", act |-> act, sess |-> sess]
    <3>1. call \in Calls /\ call.op = "request" /\ call.sess = sess
      BY DEF Calls
    <3>2. on_connect_finished_slot(u, ok, act, sess) = Post(a, call)
      BY <1>2, <1>6, <2>3
    <3> HIDE DEF a, call
    <3>3. /\ Post(a, call) \in UiStates
          /\ Post(a, call).toCtl = Append(a.toCtl, call)
          /\ Post(a, call).visible = a.visible
          /\ Post(a, call).ending = a.ending
          /\ Post(a, call).active = a.active
          /\ Post(a, call).connecting = a.connecting
          /\ Post(a, call).overtaking = a.overtaking
          /\ Post(a, call).discarded = a.discarded
      BY <2>1, <3>1, PostEffect
    <3> QED
      BY <1>6, <2>1, <3>1, <3>2, <3>3 DEF AsksFor
  <2> QED
    BY <2>2, <2>3
<1> QED
  BY <1>3, <1>4, <1>5, <1>6 DEF UiStates
-----------------------------------------------------------------------------
(***************************************************************************)
(* What a step of the UI thread does, and its types.                       *)
(***************************************************************************)
Slot(ev) == uiq # << >> /\ Head(uiq).ev = ev /\ uiq' = Tail(uiq)

\* The steps that change the state of the window.  (A hub message and the
\* first hop of a disconnection do not.)
UiStep ==
    \/ /\ Slot("networkDisconnected")
       /\ Resets(ui, ui') /\ ui'.overtaking = ui.overtaking
    \/ /\ Slot("connectFinished")
       /\ ui'.overtaking = ui.overtaking
       /\ \/ Discards(ui, ui')
          \/ ~Head(uiq).ok /\ Fails(ui, ui')
          \/ Head(uiq).ok /\ ~ui.ending /\ NotNeeded(ui, ui')
          \/ Head(uiq).ok /\ AsksFor(ui, ui', Head(uiq).sess)
    \/ /\ Slot("netError")
       /\ \/ ui' = ui
          \/ ~ui.ending /\ Ends(ui, ui')
    \/ /\ uiq' = uiq     \* the timer, while a session is ending
       /\ ~ui'.overtaking => ~ui.overtaking /\ ~Disconnecting
       /\ ui.ending /\ Resets(ui, ui')
    \/ /\ uiq' = uiq     \* ... and while none is
       /\ ~ui'.overtaking => ~ui.overtaking
       /\ ui'.visible = ui.visible /\ ui'.ending = ui.ending
       /\ ui'.active = ui.active /\ ui'.connecting = ui.connecting
       /\ ui'.toCtl = ui.toCtl /\ ui'.discarded = ui.discarded
    \/ /\ uiq' = uiq     \* the user asks
       /\ ~ui.visible
       /\ \E u \in UiStates : /\ u.ending = ui.ending /\ u.active = ui.active
                              /\ u.connecting = ui.connecting
                              /\ u.overtaking = ui.overtaking
                              /\ u.discarded = ui.discarded /\ u.toCtl = ui.toCtl
                              /\ Connects(u, ui')
    \/ /\ uiq' = uiq     \* the user closes the window
       /\ ui'.overtaking = ui.overtaking /\ ui'.discarded = ui.discarded
       /\ ~ui'.visible
       /\ \/ /\ ui.ending
             /\ ui'.ending = ui.ending /\ ui'.active = ui.active
             /\ ui'.connecting = ui.connecting /\ ui'.toCtl = ui.toCtl
          \/ ~ui.ending /\ Ends(ui, ui')

LEMMA UiStepEffect ==
    ASSUME TypeOK,
           ui_slot \/ ui_timer \/ (\E act \in UserActions : user_request(act))
           \/ user_close_window
    PROVE  /\ ui' \in UiStates /\ uiq' \in Seq(UiEvents)
           /\ requests' \in Requests
           /\ UNCHANGED <<ctl, ioq, sock, hub, workers, sendq, wire>>
           /\ UiStep
<1>0. ui \in UiStates /\ uiq \in Seq(UiEvents) /\ requests \in Requests
  BY DEF TypeOK
<1>1. CASE ui_slot
  <2>1. /\ uiq # << >> /\ uiq' = Tail(uiq) /\ uiq' \in Seq(UiEvents)
        /\ Head(uiq) \in UiEvents
        /\ Head(uiq).ok \in BOOLEAN /\ Head(uiq).act \in Actions
        /\ Head(uiq).sess \in Requests
    <3>1. uiq # << >> /\ uiq' = Tail(uiq)
      BY <1>1 DEF ui_slot
    <3>2. Tail(uiq) \in Seq(UiEvents) /\ Head(uiq) \in UiEvents
      BY <1>0, <3>1, Shifted
    <3> QED
      BY <3>1, <3>2 DEF UiEvents
  <2>2. CASE Head(uiq).ev = "networkDisconnected" /\ ui' = on_network_disconnected_slot(ui)
    <3>1. Resets(ui, ui') /\ ui'.overtaking = ui.overtaking
      BY <1>0, <2>2, ResetEffect DEF on_network_disconnected_slot
    <3>2. UiStep
      BY <2>1, <2>2, <3>1 DEF UiStep, Slot
    <3> QED
      BY <1>0, <1>1, <2>1, <3>1, <3>2 DEF ui_slot, Resets
  <2>3. CASE /\ Head(uiq).ev = "connectFinished"
             /\ ui' = on_connect_finished_slot(ui, Head(uiq).ok, Head(uiq).act,
                                               Head(uiq).sess)
    <3>1. /\ ui' \in UiStates /\ ui'.overtaking = ui.overtaking
          /\ \/ Discards(ui, ui')
             \/ ~Head(uiq).ok /\ Fails(ui, ui')
             \/ Head(uiq).ok /\ ~ui.ending /\ NotNeeded(ui, ui')
             \/ Head(uiq).ok /\ AsksFor(ui, ui', Head(uiq).sess)
      BY <1>0, <2>1, <2>3, FinishEffect
    <3>2. UiStep
      BY <2>1, <2>3, <3>1 DEF UiStep, Slot
    <3> QED
      BY <1>0, <1>1, <2>1, <3>1, <3>2 DEF ui_slot
  <2>4. CASE Head(uiq).ev = "netError" /\ ui' = handle_net_error(ui)
    <3>1. ui' = ui \/ (~ui.ending /\ Ends(ui, ui'))
      BY <1>0, <2>4, EndEffect DEF handle_net_error, UiStates
    <3>2. UiStep
      BY <2>1, <2>4, <3>1 DEF UiStep, Slot
    <3>3. ui' \in UiStates
      BY <1>0, <3>1 DEF Ends
    <3> QED
      BY <1>0, <1>1, <2>1, <3>2, <3>3 DEF ui_slot
  <2> QED
    BY <1>1, <2>2, <2>3, <2>4 DEF ui_slot
<1>2. CASE ui_timer
  <2>1. /\ ui.timers > 0
        /\ ui' = on_session_timer([ui EXCEPT !.timers = @ - 1,
                                             !.overtaking = @ \/ Disconnecting])
        /\ uiq' = uiq /\ requests' = requests
        /\ UNCHANGED <<ctl, ioq, sock, hub, workers, sendq, wire>>
    BY <1>2 DEF ui_timer
  <2>2. /\ ui' \in UiStates
        /\ ~ui'.overtaking => ~ui.overtaking /\ ~Disconnecting
        /\ ui.ending => Resets(ui, ui')
        /\ ~ui.ending => /\ ui'.visible = ui.visible /\ ui'.ending = ui.ending
                         /\ ui'.active = ui.active /\ ui'.connecting = ui.connecting
                         /\ ui'.toCtl = ui.toCtl /\ ui'.discarded = ui.discarded
    BY <1>0, <2>1, TimerEffect
  <2>3. UiStep
    BY <2>1, <2>2 DEF UiStep
  <2> QED
    BY <1>0, <2>1, <2>2, <2>3
<1>3. CASE \E act \in UserActions : user_request(act)
  <2>1. PICK act \in UserActions : user_request(act)
    BY <1>3
  <2>2. PICK b \in BOOLEAN : b = (act # "None")
    OBVIOUS
  <2> DEFINE u == [ui EXCEPT !.visible = b]
  <2>3. /\ u \in UiStates /\ u.ending = ui.ending /\ u.active = ui.active
        /\ u.connecting = ui.connecting /\ u.overtaking = ui.overtaking
        /\ u.discarded = ui.discarded /\ u.toCtl = ui.toCtl
    BY <1>0 DEF UiStates
  <2>4. act \in Actions /\ requests + 1 \in Requests
    BY <1>0, <2>1, SessionAssumption DEF user_request, Actions, Requests
  <2>5. /\ ui' = request_connect_to_server_slot(u, act, requests + 1)
        /\ requests' = requests + 1 /\ ~ui.visible /\ uiq' = uiq
        /\ UNCHANGED <<ctl, ioq, sock, hub, workers, sendq, wire>>
    BY <2>1, <2>2 DEF user_request
  <2> HIDE DEF u
  <2>6. Connects(u, ui')
    BY <2>3, <2>4, <2>5, RequestEffect
  <2>7. UiStep
    BY <2>3, <2>5, <2>6 DEF UiStep
  <2>8. ui' \in UiStates
    BY <2>6 DEF Connects
  <2> QED
    BY <1>0, <2>4, <2>5, <2>7, <2>8
<1>4. CASE user_close_window
  <2>1. /\ ui' = closeEvent(ui) /\ uiq' = uiq /\ requests' = requests
        /\ UNCHANGED <<ctl, ioq, sock, hub, workers, sendq, wire>>
    BY <1>4 DEF user_close_window
  <2>2. /\ ui' \in UiStates /\ ~ui'.visible
        /\ ui.ending => /\ ui'.ending = ui.ending /\ ui'.active = ui.active
                        /\ ui'.connecting = ui.connecting /\ ui'.toCtl = ui.toCtl
                        /\ ui'.overtaking = ui.overtaking
                        /\ ui'.discarded = ui.discarded
        /\ ~ui.ending => Ends(ui, ui')
    BY <1>0, <2>1, CloseEffect
  <2>3. UiStep
    BY <2>1, <2>2 DEF UiStep, Ends
  <2> QED
    BY <1>0, <2>1, <2>2, <2>3
<1> QED
  BY <1>1, <1>2, <1>3, <1>4


\* Every action, the slots of the UI thread apart.
Step ==
    \/ \E w \in workers : worker_check(w) \/ worker_pop(w) \/ worker_send(w)
    \/ connect_stop_worker \/ connect_call_io \/ start_send_worker_stop
    \/ start_send_worker_epoch \/ start_send_worker_launch \/ connect_failed
    \/ request_slot \/ disconnect_from_host_slot
    \/ io_connect_begin \/ (\E ok \in BOOLEAN : io_connect_end(ok))
    \/ io_disconnect \/ io_send \/ io_socket_error
    \/ ui_hub_message \/ ui_connection_disconnected
    \/ ui_slot \/ ui_timer \/ (\E act \in UserActions : user_request(act))
       \/ user_close_window
    \/ UNCHANGED sessionVars

LEMMA NextIsStep == ASSUME [Next]_sessionVars PROVE Step
BY DEF Next, Worker, Controller, IoCall, IoConnectEnd, UiEvent, User, Step

\* A slot of the controller thread ends, and leaves its queue.
LEMMA CallDoneEffect ==
    ASSUME TypeOK, ui.toCtl # << >>, CallDone
    PROVE  /\ ui' \in UiStates /\ ui'.toCtl = Tail(ui.toCtl)
           /\ ui'.visible = ui.visible /\ ui'.ending = ui.ending
           /\ ui'.active = ui.active /\ ui'.connecting = ui.connecting
           /\ ui'.overtaking = ui.overtaking /\ ui'.discarded = ui.discarded
           /\ Head(ui.toCtl).sess \in Requests /\ Head(ui.toCtl).act \in Actions
<1>1. ui \in UiStates /\ ui.toCtl \in Seq(Calls)
  BY DEF TypeOK, UiStates
<1>2. Tail(ui.toCtl) \in Seq(Calls) /\ Head(ui.toCtl) \in Calls
  BY <1>1, Shifted
<1>3. ui' = [ui EXCEPT !.toCtl = Tail(ui.toCtl)]
  BY DEF CallDone
<1> QED
  BY <1>1, <1>2, <1>3 DEF UiStates, Calls
-----------------------------------------------------------------------------
(***************************************************************************)
(* Types.                                                                  *)
(***************************************************************************)
CtlStates == [pc : {"idle", "joining", "blocked", "returned", "rejoining", "launching"},
              awaiting : SUBSET Nat, ok : BOOLEAN, epoch : Nat]
Hubs == [epoch : Nat, running : BOOLEAN, thread : Nat, joiner : SUBSET Nat]
Workers == [epoch : Nat, pc : {"check", "wait", "got"}, msg : Requests]
Socks == [state : {"none", "connecting", "open", "dead"}, sess : Requests]

LEMMA HubTypes ==
    ASSUME NEW h \in Hubs
    PROVE  /\ signal_send_stop(h) \in Hubs
           /\ TakeThreads(h) \in Hubs
           /\ TakeThreads(h).epoch = h.epoch
           /\ TakeThreads(h).thread = 0 /\ TakeThreads(h).joiner = {}
           /\ stop_send_worker_async(h) \in Hubs
           /\ ToJoin(stop_send_worker_async(h)) = ToJoin(h)
           /\ ToJoin(h) \in SUBSET Nat
           /\ ToJoin(signal_send_stop(h)) = ToJoin(h)
           /\ \A e \in Nat \ {0} : [h EXCEPT !.running = TRUE, !.thread = e] \in Hubs
<1>1. h.epoch + 1 \in Nat /\ h.epoch \in Nat /\ ToJoin(h) \in SUBSET Nat
  BY DEF Hubs, ToJoin
<1>2. /\ signal_send_stop(h) \in Hubs
      /\ signal_send_stop(h).thread = h.thread /\ signal_send_stop(h).joiner = h.joiner
  BY <1>1 DEF Hubs, signal_send_stop
<1>3. /\ TakeThreads(h) \in Hubs /\ TakeThreads(h).epoch = h.epoch
      /\ TakeThreads(h).thread = 0 /\ TakeThreads(h).joiner = {}
  BY DEF Hubs, TakeThreads, NoThread
<1>4. ToJoin(signal_send_stop(h)) = ToJoin(h)
  BY <1>2 DEF ToJoin
<1>5. /\ stop_send_worker_async(h) \in Hubs
      /\ stop_send_worker_async(h).joiner = ToJoin(h)
      /\ stop_send_worker_async(h).thread = 0
  <2> DEFINE s == signal_send_stop(h)
  <2>1. s \in Hubs /\ ToJoin(s) = ToJoin(h)
    BY <1>2, <1>4
  <2>2. stop_send_worker_async(h) = [s EXCEPT !.joiner = ToJoin(s), !.thread = NoThread]
    BY DEF stop_send_worker_async
  <2> HIDE DEF s
  <2>3. PICK J \in SUBSET Nat : J = ToJoin(h)
    BY <1>1
  <2>4. /\ [s EXCEPT !.joiner = J, !.thread = 0] \in Hubs
        /\ [s EXCEPT !.joiner = J, !.thread = 0].joiner = J
        /\ [s EXCEPT !.joiner = J, !.thread = 0].thread = 0
    BY <2>1 DEF Hubs
  <2> QED
    BY <2>1, <2>2, <2>3, <2>4 DEF NoThread
<1>6. ToJoin(stop_send_worker_async(h)) = ToJoin(h)
  BY <1>5 DEF ToJoin, NoThread
<1>7. \A e \in Nat \ {0} : [h EXCEPT !.running = TRUE, !.thread = e] \in Hubs
  BY DEF Hubs
<1> QED
  BY <1>1, <1>2, <1>3, <1>4, <1>5, <1>6, <1>7

\* The threads: the controller, the hub and the workers.
LEMMA ThreadTypes ==
    ASSUME TypeOK, [Next]_sessionVars
    PROVE  /\ ctl' \in CtlStates
           /\ hub' \in Hubs
           /\ workers' \subseteq Workers
<1>0. /\ ctl \in CtlStates /\ hub \in Hubs /\ workers \subseteq Workers
      /\ sendq \in Seq(Requests) /\ 0 \in Requests
  BY SessionAssumption DEF TypeOK, CtlStates, Hubs, Workers, Requests
<1>1. CASE \E w \in workers : worker_check(w) \/ worker_pop(w) \/ worker_send(w)
  <2>1. PICK w \in workers : worker_check(w) \/ worker_pop(w) \/ worker_send(w)
    BY <1>1
  <2>2. w \in Workers
    BY <1>0, <2>1
  <2>3. ctl' = ctl /\ hub' = hub
    BY <2>1 DEF worker_check, worker_pop, worker_send
  <2>4. CASE worker_check(w)
    <3>1. [w EXCEPT !.pc = "wait"] \in Workers
      BY <2>2 DEF Workers
    <3> QED
      BY <1>0, <2>3, <2>4, <3>1 DEF worker_check
  <2>5. CASE worker_pop(w)
    <3>1. PICK got \in Requests : got = IF sendq = << >> THEN NoMsg ELSE Head(sendq)
      BY <1>0, Shifted DEF NoMsg
    <3>2. [w EXCEPT !.pc = "got", !.msg = got] \in Workers
      BY <2>2 DEF Workers
    <3>3. workers' = (workers \ {w}) \cup {[w EXCEPT !.pc = "got", !.msg = got]}
      BY <2>5, <3>1 DEF worker_pop
    <3> QED
      BY <1>0, <2>3, <3>2, <3>3
  <2>6. CASE worker_send(w)
    <3>1. [w EXCEPT !.pc = "check", !.msg = NoMsg] \in Workers
      BY <1>0, <2>2 DEF Workers, NoMsg
    <3> QED
      BY <1>0, <2>3, <2>6, <3>1 DEF worker_send
  <2> QED
    BY <2>1, <2>4, <2>5, <2>6
<1>2. CASE connect_stop_worker \/ start_send_worker_stop
  <2>1. signal_send_stop(hub) \in Hubs /\ ToJoin(hub) \in SUBSET Nat
    BY <1>0, HubTypes
  <2>2. TakeThreads(signal_send_stop(hub)) \in Hubs
    BY <2>1, HubTypes
  <2> QED
    BY <1>0, <1>2, <2>1, <2>2
    DEF connect_stop_worker, start_send_worker_stop, CtlStates
<1>3. CASE connect_call_io
  BY <1>0, <1>3 DEF connect_call_io, CtlStates
<1>4. CASE start_send_worker_epoch
  <2>1. hub.epoch + 1 \in Nat
    BY <1>0 DEF Hubs
  <2>2. hub' \in Hubs
    BY <1>0, <1>4, <2>1 DEF start_send_worker_epoch, Hubs
  <2>3. ctl' \in CtlStates
    BY <1>0, <1>4, <2>1 DEF start_send_worker_epoch, CtlStates
  <2> QED
    BY <1>0, <1>4, <2>2, <2>3 DEF start_send_worker_epoch
<1>5. CASE start_send_worker_launch
  <2>1. ctl.epoch \in Nat
    BY <1>0 DEF CtlStates
  <2>2. hub' \in Hubs
    BY <1>0, <1>5, <2>1 DEF start_send_worker_launch, Hubs
  <2>3. [epoch |-> ctl.epoch, pc |-> "check", msg |-> NoMsg] \in Workers
    BY <1>0, <2>1 DEF Workers, NoMsg
  <2>4. ctl' \in CtlStates
    BY <1>0, <1>5 DEF start_send_worker_launch, Finish, CtlStates
  <2> QED
    BY <1>0, <1>5, <2>2, <2>3, <2>4 DEF start_send_worker_launch
<1>6. CASE connect_failed
  BY <1>0, <1>6 DEF connect_failed, Finish, CtlStates
<1>7. CASE request_slot \/ disconnect_from_host_slot \/ ui_connection_disconnected
  BY <1>0, <1>7, HubTypes
  DEF request_slot, disconnect_from_host_slot, ui_connection_disconnected
<1>8. CASE \E ok \in BOOLEAN : io_connect_end(ok)
  BY <1>0, <1>8 DEF io_connect_end, CtlStates
<1>9. CASE io_connect_begin \/ io_disconnect \/ io_send \/ io_socket_error \/ ui_hub_message
  BY <1>0, <1>9
  DEF io_connect_begin, io_disconnect, io_send, io_socket_error, ui_hub_message
<1>10. CASE ui_slot \/ ui_timer \/ (\E act \in UserActions : user_request(act))
            \/ user_close_window
  BY <1>0, <1>10, UiStepEffect
<1>11. CASE UNCHANGED sessionVars
  BY <1>0, <1>11 DEF sessionVars
<1> QED
  BY <1>1, <1>2, <1>3, <1>4, <1>5, <1>6, <1>7, <1>8, <1>9, <1>10, <1>11, NextIsStep
  DEF Step


\* The queues and the socket.
LEMMA QueueTypes ==
    ASSUME TypeOK, IoInv, [Next]_sessionVars
    PROVE  /\ uiq' \in Seq(UiEvents) /\ ioq' \in Seq(IoCalls)
           /\ sendq' \in Seq(Requests) /\ sock' \in Socks
<1> DEFINE Goal == /\ uiq' \in Seq(UiEvents) /\ ioq' \in Seq(IoCalls)
                   /\ sendq' \in Seq(Requests) /\ sock' \in Socks
<1>0. /\ uiq \in Seq(UiEvents) /\ ioq \in Seq(IoCalls) /\ sendq \in Seq(Requests)
      /\ sock \in Socks /\ workers \subseteq Workers /\ 0 \in Requests
      /\ ui.toCtl \in Seq(Calls) /\ << >> \in Seq(Requests)
      /\ ctl.ok \in BOOLEAN
      /\ NoSocket \in Socks
  BY SessionAssumption DEF TypeOK, Socks, Workers, Requests, UiStates, NoSocket
<1>a. /\ ioq # << >> => Tail(ioq) \in Seq(IoCalls) /\ Head(ioq) \in IoCalls
      /\ uiq # << >> => Tail(uiq) \in Seq(UiEvents)
      /\ sendq # << >> => Tail(sendq) \in Seq(Requests)
      /\ ui.toCtl # << >> => Head(ui.toCtl) \in Calls
  BY <1>0, Shifted
<1>b. \A op \in {"connect", "disconnect", "send"}, sess \in Requests :
         [op |-> op, sess |-> sess] \in IoCalls
  BY DEF IoCalls
<1>c. \A ev \in {"hub:netError", "netError", "connectionDisconnected",
                 "networkDisconnected"} : Event(ev) \in UiEvents
  BY <1>0 DEF Event, UiEvents, Actions
<1>d. /\ \A e \in IoCalls : Append(ioq, e) \in Seq(IoCalls)
      /\ \A e \in Requests : Append(sendq, e) \in Seq(Requests)
      /\ \A q \in Seq(UiEvents), e \in UiEvents : Append(q, e) \in Seq(UiEvents)
  BY <1>0, Appended
<1>1. CASE \E w \in workers : worker_check(w) \/ worker_pop(w) \/ worker_send(w)
  <2>1. PICK w \in workers : worker_check(w) \/ worker_pop(w) \/ worker_send(w)
    BY <1>1
  <2>2. w.msg \in Requests
    BY <1>0, <2>1 DEF Workers
  <2>3. CASE worker_check(w)
    BY <1>0, <2>3 DEF worker_check
  <2>4. CASE worker_pop(w)
    BY <1>0, <1>a, <2>4 DEF worker_pop
  <2>5. CASE worker_send(w)
    <3>1. ioq' = ioq \/ ioq' = Append(ioq, [op |-> "send", sess |-> w.msg])
      BY <2>5 DEF worker_send
    <3>2. sendq' = sendq \/ sendq' = Append(sendq, w.msg)
      BY <2>5 DEF worker_send
    <3> QED
      BY <1>0, <1>b, <1>d, <2>2, <2>5, <3>1, <3>2 DEF worker_send
  <2> QED
    BY <2>1, <2>3, <2>4, <2>5
<1>2. CASE connect_stop_worker \/ start_send_worker_stop \/ start_send_worker_epoch
  BY <1>0, <1>2 DEF connect_stop_worker, start_send_worker_stop, start_send_worker_epoch
<1>3. ASSUME connect_call_io, NextCall("connect") PROVE Goal
  <2>1. Head(ui.toCtl).sess \in Requests
    BY <1>3, <1>a DEF NextCall, Calls
  <2> QED
    BY <1>0, <1>3, <1>b, <1>d, <2>1 DEF connect_call_io
<1>4. ASSUME start_send_worker_launch \/ connect_failed, NextCall("connect") PROVE Goal
  <2>1. [ev |-> "connectFinished", ok |-> ctl.ok, act |-> Head(ui.toCtl).act,
         sess |-> Head(ui.toCtl).sess] \in UiEvents
    BY <1>0, <1>4, <1>a DEF NextCall, Calls, UiEvents
  <2> QED
    BY <1>0, <1>4, <1>d, <2>1 DEF start_send_worker_launch, connect_failed, Finish
<1>5. CASE request_slot
  <2>1. Head(ui.toCtl).sess \in Requests
    BY <1>5, <1>a DEF request_slot, NextCall, Calls
  <2> QED
    BY <1>0, <1>5, <1>d, <2>1 DEF request_slot
<1>6. CASE disconnect_from_host_slot
  BY <1>0, <1>6, <1>b, <1>d DEF disconnect_from_host_slot
<1>7. CASE io_connect_begin
  <2>1. Head(ioq).sess \in Requests
    BY <1>7, <1>a DEF io_connect_begin, NextIo, IoCalls
  <2>2. sock' \in Socks
    BY <1>7, <2>1 DEF io_connect_begin, Socks
  <2> QED
    BY <1>0, <1>7, <2>2 DEF io_connect_begin
<1>8. ASSUME NEW ok \in BOOLEAN, io_connect_end(ok), ioq # << >> PROVE Goal
  <2>1. sock' \in Socks
    BY <1>0, <1>8 DEF io_connect_end, Socks
  <2>2. uiq' = uiq \/ uiq' = Append(uiq, Event("hub:netError"))
    BY <1>8 DEF io_connect_end
  <2> QED
    BY <1>0, <1>8, <1>a, <1>c, <1>d, <2>1, <2>2 DEF io_connect_end
<1>9. CASE io_disconnect
  BY <1>0, <1>9, <1>a, <1>c, <1>d DEF io_disconnect, NextIo
<1>10. CASE io_send
  BY <1>0, <1>10, <1>a DEF io_send, NextIo
<1>11. CASE io_socket_error
  <2>1. sock' \in Socks
    BY <1>0, <1>11 DEF io_socket_error, Socks
  <2> QED
    BY <1>0, <1>11, <1>c, <1>d, <2>1 DEF io_socket_error
<1>12. CASE ui_hub_message \/ ui_connection_disconnected
  BY <1>0, <1>12, <1>a, <1>c, <1>d DEF ui_hub_message, ui_connection_disconnected
<1>13. CASE ui_slot \/ ui_timer \/ (\E act \in UserActions : user_request(act))
            \/ user_close_window
  BY <1>0, <1>13, UiStepEffect
<1>14. CASE UNCHANGED sessionVars
  BY <1>0, <1>14 DEF sessionVars
<1>15. start_send_worker_launch \/ connect_failed \/ connect_call_io
         => NextCall("connect")
  BY DEF IoInv, start_send_worker_launch, connect_failed, connect_call_io
<1>16. \A ok \in BOOLEAN : io_connect_end(ok) => ioq # << >>
  BY DEF IoInv, io_connect_end
<1> QED
  BY <1>1, <1>2, <1>3, <1>4, <1>5, <1>6, <1>7, <1>8, <1>9, <1>10, <1>11, <1>12,
     <1>13, <1>14, <1>15, <1>16, NextIsStep
  DEF Step


LEMMA TypeStep ==
    ASSUME TypeOK, IoInv, [Next]_sessionVars
    PROVE  TypeOK'
<1>1. ctl' \in CtlStates /\ hub' \in Hubs /\ workers' \subseteq Workers
  BY ThreadTypes
<1>2. /\ uiq' \in Seq(UiEvents) /\ ioq' \in Seq(IoCalls)
      /\ sendq' \in Seq(Requests) /\ sock' \in Socks
  BY QueueTypes
<1>3. ui' \in UiStates /\ requests' \in Requests
  <2>1. CASE ui_slot \/ ui_timer \/ (\E act \in UserActions : user_request(act))
             \/ user_close_window
    BY <2>1, UiStepEffect
  <2>2. CASE start_send_worker_launch \/ connect_failed \/ request_slot
             \/ disconnect_from_host_slot
    <3>1. ui.toCtl # << >> /\ CallDone /\ requests' = requests
      BY <2>2 DEF start_send_worker_launch, connect_failed, Finish, request_slot,
                  disconnect_from_host_slot, NextCall, IoInv
    <3> QED
      BY <3>1, CallDoneEffect DEF TypeOK
  <2>3. CASE ui' = ui /\ requests' = requests
    BY <2>3 DEF TypeOK
  <2> QED
    BY <2>1, <2>2, <2>3, NextIsStep
    DEF Step, worker_check, worker_pop, worker_send, connect_stop_worker,
        connect_call_io, start_send_worker_stop, start_send_worker_epoch,
        io_connect_begin, io_connect_end, io_disconnect, io_send, io_socket_error,
        ui_hub_message, ui_connection_disconnected, sessionVars
<1>4. wire' \subseteq Requests \X Requests
  <2>1. CASE io_send
    <3>1. Head(ioq) \in IoCalls
      BY <2>1, Shifted DEF io_send, NextIo, TypeOK
    <3>2. <<sock.sess, Head(ioq).sess>> \in Requests \X Requests
      BY <3>1 DEF IoCalls, TypeOK
    <3> QED
      BY <2>1, <3>2 DEF io_send, TypeOK
  <2>2. CASE wire' = wire
    BY <2>2 DEF TypeOK
  <2> QED
    BY <2>1, <2>2, NextIsStep, UiStepEffect
    DEF Step, worker_check, worker_pop, worker_send, connect_stop_worker,
        connect_call_io, start_send_worker_stop, start_send_worker_epoch,
        start_send_worker_launch, connect_failed, request_slot,
        disconnect_from_host_slot, io_connect_begin, io_connect_end, io_disconnect,
        io_socket_error, ui_hub_message, ui_connection_disconnected, sessionVars
<1> QED
  BY <1>1, <1>2, <1>3, <1>4 DEF TypeOK, CtlStates, Hubs, Workers, Socks
-----------------------------------------------------------------------------
(***************************************************************************)
(* The IO thread and the controller.                                       *)
(***************************************************************************)
\* What the slots of the window leave of its queue to the controller.
LEMMA UiKeepsHead ==
    ASSUME TypeOK, UiStep
    PROVE  /\ \/ ui'.toCtl = ui.toCtl
              \/ \E call \in Calls : ui'.toCtl = Append(ui.toCtl, call)
           /\ ui.toCtl # << >> => ui'.toCtl # << >> /\ Head(ui'.toCtl) = Head(ui.toCtl)
<1>1. \/ ui'.toCtl = ui.toCtl
      \/ \E call \in Calls : ui'.toCtl = Append(ui.toCtl, call)
  <2>1. Resets(ui, ui') => \/ ui'.toCtl = ui.toCtl
                           \/ \E call \in Calls : ui'.toCtl = Append(ui.toCtl, call)
    BY DEF Resets
  <2>2. Fails(ui, ui') => ui'.toCtl = ui.toCtl
    BY DEF Fails
  <2>3. NotNeeded(ui, ui') \/ Discards(ui, ui') =>
               \E call \in Calls : ui'.toCtl = Append(ui.toCtl, call)
    BY ConstantTypes DEF NotNeeded, Discards
  <2>4. \A s : AsksFor(ui, ui', s) =>
               \E call \in Calls : ui'.toCtl = Append(ui.toCtl, call)
    BY DEF AsksFor
  <2>5. Ends(ui, ui') => \/ ui'.toCtl = ui.toCtl
                         \/ \E call \in Calls : ui'.toCtl = Append(ui.toCtl, call)
    BY ConstantTypes DEF Ends
  <2>6. \A u : Connects(u, ui') => \/ ui'.toCtl = u.toCtl
                                  \/ \E call \in Calls : ui'.toCtl = Append(u.toCtl, call)
    BY DEF Connects
  <2>7. ASSUME NEW u \in UiStates, u.toCtl = ui.toCtl, Connects(u, ui')
        PROVE  \/ ui'.toCtl = ui.toCtl
               \/ \E call \in Calls : ui'.toCtl = Append(ui.toCtl, call)
    BY <2>6, <2>7
  <2>8. \/ Resets(ui, ui') \/ Fails(ui, ui') \/ NotNeeded(ui, ui')
        \/ AsksFor(ui, ui', Head(uiq).sess) \/ Ends(ui, ui')
        \/ ui'.toCtl = ui.toCtl
        \/ (\E u \in UiStates : u.toCtl = ui.toCtl /\ Connects(u, ui'))
        \/ Discards(ui, ui')
    BY DEF UiStep
  <2> QED
    BY <2>1, <2>2, <2>3, <2>4, <2>5, <2>7, <2>8
<1>2. ASSUME ui.toCtl # << >>, NEW call \in Calls, ui'.toCtl = Append(ui.toCtl, call)
      PROVE  ui'.toCtl # << >> /\ Head(ui'.toCtl) = Head(ui.toCtl)
  BY <1>2 DEF TypeOK, UiStates
<1> QED
  BY <1>1, <1>2


\* A call leaves the IO thread: the others move up.
LEMMA IoShift ==
    ASSUME TypeOK, ioq # << >>, ioq' = Tail(ioq)
    PROVE  /\ ioq' \in Seq(IoCalls) /\ DOMAIN ioq = 1 .. Len(ioq)
           /\ Len(ioq) \in Nat \ {0} /\ Len(ioq') = Len(ioq) - 1
           /\ Head(ioq) = ioq[1] /\ 1 \in DOMAIN ioq
           /\ Len(ioq) > 1 => ioq' # << >> /\ ioq'[Len(ioq')] = ioq[Len(ioq)]
           /\ \A i \in DOMAIN ioq' : i + 1 \in DOMAIN ioq /\ ioq'[i] = ioq[i + 1]
           /\ \A i \in DOMAIN ioq' : i \in Nat
<1>1. ioq \in Seq(IoCalls)
  BY DEF TypeOK
<1>2. /\ Len(ioq) \in Nat \ {0} /\ DOMAIN ioq = 1 .. Len(ioq)
      /\ Head(ioq) = ioq[1]
      /\ ioq' \in Seq(IoCalls) /\ Len(ioq') = Len(ioq) - 1
      /\ DOMAIN ioq' = 1 .. Len(ioq) - 1
      /\ \A i \in 1 .. Len(ioq) - 1 : ioq'[i] = ioq[i + 1]
  BY <1>1, Shifted
<1>3. Len(ioq) > 1 => ioq' # << >> /\ ioq'[Len(ioq')] = ioq[Len(ioq)]
  <2>1. Len(ioq) > 1 => Len(ioq) - 1 \in 1 .. Len(ioq) - 1 /\ Len(ioq) - 1 + 1 = Len(ioq)
    BY <1>2
  <2>2. ioq' = << >> => Len(ioq') = 0
    OBVIOUS
  <2> QED
    BY <1>2, <2>1, <2>2
<1> QED
  BY <1>2, <1>3

LEMMA IoStep ==
    ASSUME TypeOK, IoInv, SenderInv, [Next]_sessionVars
    PROVE  IoInv'
<1>0. /\ ui \in UiStates /\ ui.toCtl \in Seq(Calls) /\ ctl \in CtlStates
      /\ ioq \in Seq(IoCalls) /\ Len(ioq) \in Nat
      /\ sock \in Socks /\ sendq \in Seq(Requests)
  BY DEF TypeOK, UiStates, CtlStates, Socks
<1>a. /\ ctl.pc # "blocked" => /\ \A i \in DOMAIN ioq : ioq[i].op # "connect"
                               /\ sock.state # "connecting"
      /\ sock.state = "connecting" => ctl.pc = "blocked" /\ Len(ioq) = 1
  <2>1. ioq # << >> => Head(ioq) = ioq[1] /\ 1 \in DOMAIN ioq
    BY <1>0
  <2> QED
    BY <2>1 DEF IoInv
<1>1. CASE \E w \in workers : worker_check(w) \/ worker_pop(w) \/ worker_send(w)
  <2>1. PICK w \in workers : worker_check(w) \/ worker_pop(w) \/ worker_send(w)
    BY <1>1
  <2>2. ctl.pc # "blocked" /\ UNCHANGED <<ui, ctl, sock>>
    BY <2>1 DEF SenderInv, worker_check, worker_pop, worker_send
  <2>3. ioq' = ioq \/ \E s \in Requests : ioq' = Append(ioq, [op |-> "send", sess |-> s])
    <3>1. w.msg \in Requests
      BY <2>1 DEF TypeOK
    <3> QED
      BY <2>1, <3>1 DEF worker_check, worker_pop, worker_send
  <2>4. \A i \in DOMAIN ioq' : ioq'[i].op # "connect"
    <3>1. CASE ioq' = ioq
      BY <1>a, <2>2, <3>1
    <3>2. ASSUME NEW s \in Requests, ioq' = Append(ioq, [op |-> "send", sess |-> s])
          PROVE  \A i \in DOMAIN ioq' : ioq'[i].op # "connect"
      <4>1. [op |-> "send", sess |-> s] \in IoCalls
        BY DEF IoCalls
      <4>2. \A i \in DOMAIN ioq' : \/ i \in DOMAIN ioq /\ ioq'[i] = ioq[i]
                                   \/ ioq'[i] = [op |-> "send", sess |-> s]
        BY <1>0, <3>2, <4>1
      <4> QED
        BY <1>a, <2>2, <4>2
    <3> QED
      BY <2>3, <3>1, <3>2
  <2> QED
    BY <1>a, <2>2, <2>4 DEF IoInv, NextCall
<1>2. CASE connect_stop_worker
  BY <1>0, <1>2, <1>a DEF connect_stop_worker, IoInv, NextCall, CtlStates
<1>3. CASE connect_call_io
  <2>1. Head(ui.toCtl).sess \in Requests /\ NextCall("connect")
    <3>1. NextCall("connect")
      BY <1>3 DEF connect_call_io, IoInv
    <3>2. Head(ui.toCtl) \in Calls
      BY <1>0, <3>1, Shifted DEF NextCall
    <3> QED
      BY <3>1, <3>2 DEF Calls
  <2> DEFINE call == [op |-> "connect", sess |-> Head(ui.toCtl).sess]
  <2>2. call \in IoCalls /\ call.op = "connect" /\ call.sess = Head(ui.toCtl).sess
    BY <2>1 DEF IoCalls
  <2>3. ioq' = Append(ioq, call) /\ ui' = ui /\ sock' = sock
        /\ ctl'.pc = "blocked" /\ ctl.pc = "joining"
    BY <1>0, <1>3 DEF connect_call_io, CtlStates
  <2> HIDE DEF call
  <2>4. /\ ioq' # << >> /\ Len(ioq') = Len(ioq) + 1 /\ ioq'[Len(ioq')] = call
        /\ \A i \in DOMAIN ioq' : i = Len(ioq') \/ (i \in DOMAIN ioq /\ ioq'[i] = ioq[i])
    BY <1>0, <2>2, <2>3, SMTT(20)
  <2> QED
    BY <1>a, <2>1, <2>2, <2>3, <2>4 DEF IoInv, NextCall
<1>4. CASE start_send_worker_stop \/ start_send_worker_epoch
  BY <1>0, <1>4, <1>a
  DEF start_send_worker_stop, start_send_worker_epoch, IoInv, NextCall, CtlStates
<1>5. CASE start_send_worker_launch \/ connect_failed
  <2>1. ctl'.pc = "idle" /\ ctl.pc # "blocked" /\ UNCHANGED <<ioq, sock, sendq>>
    BY <1>0, <1>5
    DEF start_send_worker_launch, connect_failed, Finish, CtlStates
  <2> QED
    BY <1>a, <2>1 DEF IoInv
<1>6. CASE request_slot
  BY <1>0, <1>6, <1>a DEF request_slot, IoInv
<1>7. CASE disconnect_from_host_slot
  <2> DEFINE call == [op |-> "disconnect", sess |-> 0]
  <2>1. call \in IoCalls /\ call.op = "disconnect"
    BY SessionAssumption DEF IoCalls, Requests
  <2>2. ioq' = Append(ioq, call) /\ sock' = sock /\ ctl' = ctl /\ ctl.pc = "idle"
    BY <1>7 DEF disconnect_from_host_slot
  <2> HIDE DEF call
  <2>3. \A i \in DOMAIN ioq' : ioq'[i] = call \/ (i \in DOMAIN ioq /\ ioq'[i] = ioq[i])
    BY <1>0, <2>1, <2>2
  <2> QED
    BY <1>a, <2>1, <2>2, <2>3 DEF IoInv
<1>8. CASE io_connect_begin
  <2>1. /\ ioq # << >> /\ Head(ioq).op = "connect" /\ Head(ioq) = ioq[1]
        /\ 1 \in DOMAIN ioq
    BY <1>0, <1>8 DEF io_connect_begin, NextIo
  <2>2. ctl.pc = "blocked" /\ ioq[Len(ioq)].sess = Head(ui.toCtl).sess /\ Len(ioq) = 1
    BY <2>1 DEF IoInv
  <2> QED
    BY <1>8, <2>1, <2>2 DEF io_connect_begin, IoInv, NextCall
<1>9. CASE \E ok \in BOOLEAN : io_connect_end(ok)
  <2>1. PICK ok \in BOOLEAN : io_connect_end(ok)
    BY <1>9
  <2>2. Len(ioq) = 1 /\ ctl.pc = "blocked" /\ ioq' = Tail(ioq)
    BY <1>a, <2>1 DEF io_connect_end
  <2>3. ioq' = << >>
    BY <1>0, <2>2
  <2>4. sock'.state # "connecting" /\ ctl'.pc = "returned" /\ ui' = ui
    BY <1>0, <2>1 DEF io_connect_end, Socks, CtlStates, NoSocket
  <2> QED
    BY <2>2, <2>3, <2>4 DEF IoInv, NextCall
<1>10. CASE io_disconnect \/ io_send
  <2>1. /\ ioq # << >> /\ Head(ioq).op # "connect" /\ ioq' = Tail(ioq)
        /\ UNCHANGED <<ui, ctl>> /\ sock.state # "connecting"
        /\ sock'.state # "connecting"
    BY <1>10 DEF io_disconnect, io_send, NextIo, NoSocket
  <2>2. /\ ctl.pc = "blocked" => Len(ioq) > 1
        /\ \A i \in DOMAIN ioq' : ioq'[i].op = "connect" => i = Len(ioq')
                                                            /\ ctl.pc = "blocked"
    BY <2>1, IoShift DEF IoInv
  <2> QED
    BY <2>1, <2>2, IoShift DEF IoInv, NextCall
<1>11. CASE io_socket_error \/ ui_hub_message \/ ui_connection_disconnected
  <2>1. sock'.state = "connecting" => sock' = sock
    BY <1>0, <1>11
    DEF io_socket_error, ui_hub_message, ui_connection_disconnected, Socks
  <2> QED
    BY <1>11, <2>1
    DEF io_socket_error, ui_hub_message, ui_connection_disconnected, IoInv, NextCall
<1>12. CASE ui_slot \/ ui_timer \/ (\E act \in UserActions : user_request(act))
            \/ user_close_window
  <2>1. UNCHANGED <<ctl, ioq, sock, sendq>>
    BY <1>12, UiStepEffect
  <2>2. ui.toCtl # << >> => ui'.toCtl # << >> /\ Head(ui'.toCtl) = Head(ui.toCtl)
    BY <1>12, UiStepEffect, UiKeepsHead
  <2>3. sock.state = "connecting" => ui.toCtl # << >>
    BY <1>a DEF IoInv, NextCall
  <2> QED
    BY <2>1, <2>2, <2>3 DEF IoInv, NextCall
<1>13. CASE UNCHANGED sessionVars
  BY <1>13 DEF sessionVars, IoInv, NextCall
<1> QED
  BY <1>1, <1>2, <1>3, <1>4, <1>5, <1>6, <1>7, <1>8, <1>9, <1>10, <1>11, <1>12,
     <1>13, NextIsStep
  DEF Step

-----------------------------------------------------------------------------
(***************************************************************************)
(* One sender.                                                             *)
(***************************************************************************)
LEMMA SenderStep ==
    ASSUME TypeOK, IoInv, SenderInv, [Next]_sessionVars
    PROVE  SenderInv'
<1>0. /\ ctl \in CtlStates /\ hub \in Hubs /\ workers \subseteq Workers
      /\ hub.epoch \in Nat
  BY DEF TypeOK, CtlStates, Hubs, Workers
<1>1. CASE \E w \in workers : worker_check(w) \/ worker_pop(w) \/ worker_send(w)
  <2>1. PICK w \in workers : worker_check(w) \/ worker_pop(w) \/ worker_send(w)
    BY <1>1
  <2>2. workers = {w} /\ w \in Workers /\ UNCHANGED <<ctl, hub>>
    BY <1>0, <2>1 DEF SenderInv, worker_check, worker_pop, worker_send
  <2>3. \A v \in workers' : v.epoch = w.epoch /\ workers' = {v}
    BY <2>1, <2>2 DEF worker_check, worker_pop, worker_send, Workers
  <2> QED
    BY <2>2, <2>3 DEF SenderInv, ToJoin
<1>2. CASE connect_stop_worker
  <2>1. /\ workers' = workers /\ ctl.pc = "idle" /\ ctl'.pc = "joining"
        /\ ctl'.awaiting = ToJoin(hub)
    BY <1>0, <1>2 DEF connect_stop_worker, CtlStates
  <2> QED
    BY <2>1 DEF SenderInv
<1>3. CASE connect_call_io
  <2>1. workers = {} /\ workers' = workers /\ ctl'.pc = "blocked"
    BY <1>0, <1>3 DEF connect_call_io, SenderInv, Exited, CtlStates
  <2> QED
    BY <2>1 DEF SenderInv
<1>4. CASE start_send_worker_stop \/ start_send_worker_epoch
  <2>1. /\ workers = {} /\ workers' = workers
        /\ ctl'.pc \in {"rejoining", "launching"}
        /\ ctl'.pc = "launching" => ctl'.epoch > 0
    <3>1. CASE start_send_worker_stop
      BY <1>0, <3>1 DEF start_send_worker_stop, SenderInv, CtlStates
    <3>2. CASE start_send_worker_epoch
      <4>1. hub.epoch + 1 > 0 /\ hub.epoch + 1 \in Nat
        BY <1>0
      <4>2. ctl' = [ctl EXCEPT !.pc = "launching", !.awaiting = {}, !.epoch = hub.epoch + 1]
        BY <3>2 DEF start_send_worker_epoch
      <4>3. ctl'.pc = "launching" /\ ctl'.epoch = hub.epoch + 1
        BY <1>0, <4>1, <4>2 DEF CtlStates
      <4> QED
        BY <3>2, <4>1, <4>3 DEF start_send_worker_epoch, SenderInv
    <3> QED
      BY <1>4, <3>1, <3>2
  <2> QED
    BY <2>1 DEF SenderInv
<1>5. CASE start_send_worker_launch
  <2>1. /\ workers = {} /\ ctl.epoch > 0 /\ ctl.epoch \in Nat
        /\ ctl'.pc = "idle"
        /\ workers' = {[epoch |-> ctl.epoch, pc |-> "check", msg |-> NoMsg]}
    BY <1>0, <1>5 DEF start_send_worker_launch, Finish, SenderInv, CtlStates
  <2>2. hub'.thread = ctl.epoch
    BY <1>0, <1>5, <2>1 DEF start_send_worker_launch, Hubs
  <2>3. ctl.epoch \in ToJoin(hub')
    BY <2>1, <2>2 DEF ToJoin, NoThread
  <2>4. \A w \in workers' : w.epoch \in ToJoin(hub')
    BY <2>1, <2>3
  <2> QED
    BY <2>1, <2>4 DEF SenderInv, ToJoin
<1>6. CASE connect_failed
  <2>1. workers = {} /\ workers' = workers /\ ctl'.pc = "idle"
    BY <1>0, <1>6 DEF connect_failed, Finish, SenderInv, CtlStates
  <2> QED
    BY <2>1 DEF SenderInv
<1>7. CASE disconnect_from_host_slot \/ ui_connection_disconnected
  <2>1. /\ UNCHANGED <<ctl, workers>> /\ hub' = stop_send_worker_async(hub)
        /\ ToJoin(stop_send_worker_async(hub)) = ToJoin(hub)
    BY <1>0, <1>7, HubTypes DEF disconnect_from_host_slot, ui_connection_disconnected
  <2>2. ToJoin(hub)' = ToJoin(hub)
    BY <2>1 DEF ToJoin
  <2> QED
    BY <2>1, <2>2 DEF SenderInv
<1>8. CASE \E ok \in BOOLEAN : io_connect_end(ok)
  <2>1. ctl.pc = "blocked"
    BY <1>8 DEF io_connect_end, IoInv, TypeOK
  <2>2. workers = {} /\ workers' = workers /\ ctl'.pc = "returned"
    BY <1>0, <1>8, <2>1 DEF io_connect_end, SenderInv, CtlStates
  <2> QED
    BY <2>2 DEF SenderInv
<1>9. CASE UNCHANGED <<ctl, hub, workers>>
  BY <1>9 DEF SenderInv, ToJoin
<1>10. CASE ui_slot \/ ui_timer \/ (\E act \in UserActions : user_request(act))
            \/ user_close_window
  BY <1>9, <1>10, UiStepEffect
<1> QED
  BY <1>1, <1>2, <1>3, <1>4, <1>5, <1>6, <1>7, <1>8, <1>9, <1>10, NextIsStep
  DEF Step, request_slot, io_connect_begin, io_disconnect, io_send, io_socket_error,
      ui_hub_message, sessionVars

-----------------------------------------------------------------------------
(***************************************************************************)
(* Calls and events.                                                       *)
(***************************************************************************)
LEMMA AppendSets ==
    ASSUME NEW S, NEW q \in Seq(S), NEW e \in S, NEW T, NEW U
    PROVE  LET r == Append(q, e)
           IN  /\ Has(r, T) <=> Has(q, T) \/ e \in T
               /\ Once(q, T) /\ (e \in T => ~Has(q, T)) => Once(r, T)
               /\ Before(q, T, U) /\ (e \in T => ~Has(q, U) /\ e \notin U)
                    => Before(r, T, U)
<1> DEFINE r == Append(q, e)
           n == Len(q) + 1
<1>1. /\ n \in Nat \ {0} /\ DOMAIN q = 1 .. n - 1 /\ DOMAIN r = 1 .. n
      /\ r[n] = e /\ \A i \in 1 .. n - 1 : r[i] = q[i]
  BY Appended
<1> HIDE DEF r, n
<1>2. \A i \in DOMAIN r : \/ i = n /\ r[i] = e
                          \/ i \in DOMAIN q /\ r[i] = q[i] /\ i < n
  BY <1>1
<1>3. /\ n \in DOMAIN r
      /\ \A i \in DOMAIN q : i \in DOMAIN r /\ r[i] = q[i]
  BY <1>1
<1>4. Has(r, T) <=> Has(q, T) \/ e \in T
  BY <1>1, <1>2, <1>3 DEF Has
<1>5. Once(q, T) /\ (e \in T => ~Has(q, T)) => Once(r, T)
  BY <1>2 DEF Once, Has
<1>6. Before(q, T, U) /\ (e \in T => ~Has(q, U) /\ e \notin U) => Before(r, T, U)
  BY <1>1, <1>2 DEF Before, Has
<1> QED
  BY <1>4, <1>5, <1>6 DEF r

LEMMA TailSets ==
    ASSUME NEW S, NEW q \in Seq(S), q # << >>, NEW T, NEW U
    PROVE  LET r == Tail(q)
           IN  /\ Has(q, T) <=> Head(q) \in T \/ Has(r, T)
               /\ Once(q, T) => /\ Once(r, T)
                                /\ Head(q) \in T => ~Has(r, T)
               /\ Before(q, T, U) => /\ Before(r, T, U)
                                     /\ Head(q) \in U => ~Has(q, T)
<1> DEFINE r == Tail(q)
           n == Len(q)
<1>1. /\ n \in Nat \ {0} /\ DOMAIN q = 1 .. n /\ Head(q) = q[1]
      /\ DOMAIN r = 1 .. n - 1 /\ \A i \in 1 .. n - 1 : r[i] = q[i + 1]
  BY Shifted
<1> HIDE DEF r, n
<1>2. \A i \in DOMAIN r : i \in Nat /\ i + 1 \in DOMAIN q /\ r[i] = q[i + 1]
  BY <1>1
<1>3. ASSUME NEW k \in DOMAIN q, k # 1
      PROVE  k - 1 \in DOMAIN r /\ r[k - 1] = q[k]
  <2>1. k - 1 \in 1 .. n - 1 /\ k - 1 + 1 = k
    BY <1>1, <1>3
  <2> QED
    BY <1>1, <2>1
<1>4. 1 \in DOMAIN q /\ \A k \in DOMAIN q : k \in Nat \ {0}
  BY <1>1
<1>5. Has(q, T) <=> Head(q) \in T \/ Has(r, T)
  <2>1. ASSUME Has(q, T), Head(q) \notin T PROVE Has(r, T)
    <3>1. PICK k \in DOMAIN q : q[k] \in T
      BY <2>1 DEF Has
    <3>2. k - 1 \in DOMAIN r /\ r[k - 1] = q[k]
      BY <1>1, <1>3, <2>1, <3>1
    <3> QED
      BY <3>1, <3>2 DEF Has
  <2>2. ASSUME Has(r, T) PROVE Has(q, T)
    <3>1. PICK i \in DOMAIN r : r[i] \in T
      BY <2>2 DEF Has
    <3>2. i + 1 \in DOMAIN q /\ q[i + 1] \in T
      BY <1>2, <3>1
    <3> QED
      BY <3>2 DEF Has
  <2>3. Head(q) \in T => Has(q, T)
    BY <1>1, <1>4 DEF Has
  <2> QED
    BY <2>1, <2>2, <2>3
<1>6. ASSUME Once(q, T) PROVE Once(r, T) /\ (Head(q) \in T => ~Has(r, T))
  <2>1. ASSUME NEW i \in DOMAIN r, NEW j \in DOMAIN r, r[i] \in T, r[j] \in T
        PROVE  i = j
    <3>1. /\ i + 1 \in DOMAIN q /\ q[i + 1] \in T /\ j + 1 \in DOMAIN q
          /\ q[j + 1] \in T /\ i \in Nat /\ j \in Nat
      BY <1>2, <2>1
    <3>2. i + 1 = j + 1
      BY <1>6, <3>1 DEF Once
    <3> QED
      BY <3>1, <3>2
  <2>2. ASSUME NEW i \in DOMAIN r, r[i] \in T PROVE q[1] \notin T
    <3>1. i + 1 \in DOMAIN q /\ q[i + 1] \in T /\ i + 1 # 1
      <4>1. i \in Nat /\ i # 0
        BY <1>1
      <4> QED
        BY <1>2, <2>2, <4>1
    <3> QED
      BY <1>4, <1>6, <3>1 DEF Once
  <2> QED
    BY <1>1, <2>1, <2>2 DEF Once, Has
<1>7. ASSUME Before(q, T, U)
      PROVE  Before(r, T, U) /\ (Head(q) \in U => ~Has(q, T))
  <2>1. ASSUME NEW i \in DOMAIN r, NEW j \in DOMAIN r, r[i] \in T, r[j] \in U
        PROVE  i < j
    <3>1. /\ i + 1 \in DOMAIN q /\ q[i + 1] \in T /\ j + 1 \in DOMAIN q
          /\ q[j + 1] \in U /\ i \in Nat /\ j \in Nat
      BY <1>2, <2>1
    <3>2. i + 1 < j + 1
      BY <1>7, <3>1 DEF Before
    <3> QED
      BY <3>1, <3>2
  <2>2. ASSUME NEW k \in DOMAIN q, q[k] \in T, q[1] \in U PROVE FALSE
    <3>1. k < 1
      BY <1>4, <1>7, <2>2 DEF Before
    <3> QED
      BY <1>4, <3>1
  <2> QED
    BY <1>1, <2>1, <2>2 DEF Before, Has
<1> QED
  BY <1>5, <1>6, <1>7 DEF r

LEMMA Queues ==
    ASSUME TypeOK
    PROVE  /\ ui.toCtl \in Seq(Calls) /\ ioq \in Seq(IoCalls) /\ uiq \in Seq(UiEvents)
           /\ Disconnecting <=> Leaving
<1>1. /\ ui.toCtl \in Seq(Calls) /\ ioq \in Seq(IoCalls) /\ uiq \in Seq(UiEvents)
  BY DEF TypeOK, UiStates
<1>2. /\ \A i \in DOMAIN ui.toCtl : ui.toCtl[i] \in Calls
      /\ \A i \in DOMAIN ioq : ioq[i] \in IoCalls
      /\ \A i \in DOMAIN uiq : uiq[i] \in UiEvents
  BY <1>1
<1>3. Closes <=> \E i \in DOMAIN ui.toCtl : ui.toCtl[i].op = "disconnect"
  BY <1>2 DEF Closes, Closing, CallsOf, Has
<1>4. IoCloses <=> \E i \in DOMAIN ioq : ioq[i].op = "disconnect"
  BY <1>2 DEF IoCloses, IoClosing, IoCallsOf, Has
<1>5. Noticed <=> \E i \in DOMAIN uiq : uiq[i].ev \in {"connectionDisconnected",
                                                       "networkDisconnected"}
  BY <1>2 DEF Noticed, Notices, EventsOf, Has
<1> QED
  BY <1>1, <1>3, <1>4, <1>5 DEF Disconnecting, Leaving

\* The queue of the controller: a call is posted, a call is done.
LEMMA CtlAppend ==
    ASSUME TypeOK, NEW call \in Calls, ui'.toCtl = Append(ui.toCtl, call)
    PROVE  /\ Connecting' <=> Connecting \/ call.op = "connect"
           /\ Asks' <=> Asks \/ call.op = "request"
           /\ Closes' <=> Closes \/ call.op = "disconnect"
           /\ CtlOrder /\ ~Closes /\ (call.op # "disconnect" => ~Connecting /\ ~Asks)
                => CtlOrder'
<1>1. ui.toCtl \in Seq(Calls)
  BY Queues
<1>2. /\ call \in CallsOf({"connect"}) <=> call.op = "connect"
      /\ call \in CallsOf({"request"}) <=> call.op = "request"
      /\ call \in Closing <=> call.op = "disconnect"
      /\ call \in Opening <=> call.op # "disconnect"
  BY DEF CallsOf, Closing, Opening, Calls
<1>3. Has(ui.toCtl, Opening) => Connecting \/ Asks
  BY DEF Has, Opening, CallsOf, Connecting, Asks
<1>4. /\ Connecting' <=> Connecting \/ call.op = "connect"
      /\ Asks' <=> Asks \/ call.op = "request"
      /\ Closes' <=> Closes \/ call.op = "disconnect"
  <2>1. /\ Has(ui'.toCtl, CallsOf({"connect"}))
             <=> Has(ui.toCtl, CallsOf({"connect"})) \/ call \in CallsOf({"connect"})
        /\ Has(ui'.toCtl, CallsOf({"request"}))
             <=> Has(ui.toCtl, CallsOf({"request"})) \/ call \in CallsOf({"request"})
        /\ Has(ui'.toCtl, Closing) <=> Has(ui.toCtl, Closing) \/ call \in Closing
    <3> DEFINE r == Append(ui.toCtl, call)
    <3>1. /\ Has(r, CallsOf({"connect"}))
               <=> Has(ui.toCtl, CallsOf({"connect"})) \/ call \in CallsOf({"connect"})
          /\ Has(r, CallsOf({"request"}))
               <=> Has(ui.toCtl, CallsOf({"request"})) \/ call \in CallsOf({"request"})
          /\ Has(r, Closing) <=> Has(ui.toCtl, Closing) \/ call \in Closing
      BY <1>1, AppendSets
    <3> QED
      BY <3>1
  <2> QED
    BY <1>2, <2>1 DEF Connecting, Asks, Closes
<1>5. ASSUME CtlOrder, ~Closes, call.op # "disconnect" => ~Connecting /\ ~Asks
      PROVE  CtlOrder'
  <2>1. /\ Once(ui'.toCtl, Opening) /\ Once(ui'.toCtl, Closing)
        /\ Before(ui'.toCtl, Opening, Closing)
    <3> DEFINE q == ui.toCtl
               r == Append(q, call)
    <3>1. /\ call \in Opening => ~Has(q, Opening) /\ ~Has(q, Closing) /\ call \notin Closing
          /\ ~Has(q, Closing)
      BY <1>2, <1>3, <1>5 DEF Closes
    <3>2. /\ Once(q, Opening) /\ (call \in Opening => ~Has(q, Opening)) => Once(r, Opening)
          /\ Once(q, Closing) /\ (call \in Closing => ~Has(q, Closing)) => Once(r, Closing)
          /\ Before(q, Opening, Closing)
               /\ (call \in Opening => ~Has(q, Closing) /\ call \notin Closing)
               => Before(r, Opening, Closing)
      BY <1>1, AppendSets
    <3>3. Once(q, Opening) /\ Once(q, Closing) /\ Before(q, Opening, Closing)
      BY <1>5 DEF CtlOrder
    <3> QED
      BY <3>1, <3>2, <3>3
  <2> QED
    BY <2>1 DEF CtlOrder
<1> QED
  BY <1>4, <1>5

LEMMA CtlTail ==
    ASSUME TypeOK, CtlOrder, ui.toCtl # << >>, ui'.toCtl = Tail(ui.toCtl)
    PROVE  /\ CtlOrder' /\ ~Connecting' /\ ~Asks'
           /\ Head(ui.toCtl).op = "connect" => Connecting /\ (Closes' <=> Closes)
           /\ Head(ui.toCtl).op = "request" => Asks /\ (Closes' <=> Closes)
           /\ Head(ui.toCtl).op = "disconnect" => /\ Closes /\ ~Closes'
                                                  /\ ~Connecting /\ ~Asks
<1> DEFINE q == ui.toCtl
           call == Head(ui.toCtl)
<1>1. q \in Seq(Calls) /\ call \in Calls
  BY Queues, Shifted
<1>2. /\ call \in CallsOf({"connect"}) <=> call.op = "connect"
      /\ call \in CallsOf({"request"}) <=> call.op = "request"
      /\ call \in Closing <=> call.op = "disconnect"
      /\ call \in Opening \/ call \in Closing
      /\ call.op \in {"connect", "request"} => call \in Opening
  BY <1>1 DEF CallsOf, Closing, Opening, Calls
<1>3. /\ Connecting \/ Asks => Has(q, Opening)
      /\ Connecting' \/ Asks' => Has(ui'.toCtl, Opening)
  BY DEF Has, Opening, CallsOf, Connecting, Asks
<1>4. /\ Once(ui'.toCtl, Opening) /\ Once(ui'.toCtl, Closing)
      /\ Before(ui'.toCtl, Opening, Closing)
      /\ call \in Opening => ~Has(ui'.toCtl, Opening)
      /\ call \in Closing => ~Has(ui'.toCtl, Closing) /\ ~Has(q, Opening)
      /\ Has(q, Opening) <=> call \in Opening \/ Has(ui'.toCtl, Opening)
      /\ Has(q, Closing) <=> call \in Closing \/ Has(ui'.toCtl, Closing)
  BY <1>1, TailSets DEF CtlOrder
<1>5. /\ Has(q, CallsOf({"connect"}))
           <=> call \in CallsOf({"connect"}) \/ Has(ui'.toCtl, CallsOf({"connect"}))
      /\ Has(q, CallsOf({"request"}))
           <=> call \in CallsOf({"request"}) \/ Has(ui'.toCtl, CallsOf({"request"}))
  BY <1>1, TailSets, ZenonT(30)
<1>6. CtlOrder'
  BY <1>4 DEF CtlOrder
<1>7. (Closes <=> Has(q, Closing)) /\ (Closes' <=> Has(ui'.toCtl, Closing))
      /\ (Connecting <=> Has(q, CallsOf({"connect"})))
      /\ (Asks <=> Has(q, CallsOf({"request"})))
  BY DEF Closes, Connecting, Asks
<1>8. call.op = "disconnect" => call.op # "connect" /\ call.op # "request"
  OBVIOUS
<1> HIDE DEF q, call
<1>9. ~Connecting' /\ ~Asks'
  BY <1>2, <1>3, <1>4
<1>10. call.op = "connect" => Connecting /\ (Closes' <=> Closes)
  BY <1>2, <1>4, <1>5, <1>7
<1>11. call.op = "request" => Asks /\ (Closes' <=> Closes)
  BY <1>2, <1>4, <1>5, <1>7
<1>12. call.op = "disconnect" => Closes /\ ~Closes' /\ ~Connecting /\ ~Asks
  BY <1>2, <1>3, <1>4, <1>7
<1> QED
  BY <1>6, <1>9, <1>10, <1>11, <1>12 DEF call

LEMMA IoAppend ==
    ASSUME TypeOK, NEW call \in IoCalls, ioq' = Append(ioq, call)
    PROVE  /\ IoCloses' <=> IoCloses \/ call.op = "disconnect"
           /\ IoOrder /\ (call.op = "disconnect" => ~IoCloses) => IoOrder'
<1>1. ioq \in Seq(IoCalls) /\ (call \in IoClosing <=> call.op = "disconnect")
  BY Queues DEF IoClosing, IoCallsOf
<1>2. /\ Has(ioq', IoClosing) <=> Has(ioq, IoClosing) \/ call \in IoClosing
      /\ Once(ioq, IoClosing) /\ (call \in IoClosing => ~Has(ioq, IoClosing))
           => Once(ioq', IoClosing)
  BY <1>1, AppendSets
<1> QED
  BY <1>1, <1>2 DEF IoCloses, IoOrder

LEMMA IoTail ==
    ASSUME TypeOK, IoOrder, ioq # << >>, ioq' = Tail(ioq)
    PROVE  /\ IoOrder'
           /\ Head(ioq).op # "disconnect" => (IoCloses' <=> IoCloses)
           /\ Head(ioq).op = "disconnect" => IoCloses /\ ~IoCloses'
<1>1. ioq \in Seq(IoCalls) /\ Head(ioq) \in IoCalls
  BY Queues, Shifted
<1>2. Head(ioq) \in IoClosing <=> Head(ioq).op = "disconnect"
  BY <1>1 DEF IoClosing, IoCallsOf
<1>3. /\ Has(ioq, IoClosing) <=> Head(ioq) \in IoClosing \/ Has(ioq', IoClosing)
      /\ Once(ioq', IoClosing)
      /\ Head(ioq) \in IoClosing => ~Has(ioq', IoClosing)
  BY <1>1, TailSets DEF IoOrder
<1> QED
  BY <1>2, <1>3 DEF IoCloses, IoOrder

LEMMA UiAppend ==
    ASSUME NEW q \in Seq(UiEvents), NEW e \in UiEvents
    PROVE  LET r == Append(q, e)
           IN  /\ Has(r, Results) <=> Has(q, Results) \/ e.ev = "connectFinished"
               /\ Has(r, Notices) <=> \/ Has(q, Notices)
                                      \/ e.ev = "connectionDisconnected"
                                      \/ e.ev = "networkDisconnected"
               /\ /\ Once(q, Notices) /\ Once(q, Results) /\ Before(q, Results, Notices)
                  /\ e.ev = "connectFinished" => ~Has(q, Results) /\ ~Has(q, Notices)
                  /\ e.ev \in {"connectionDisconnected", "networkDisconnected"}
                       => ~Has(q, Notices)
                  => Once(r, Notices) /\ Once(r, Results) /\ Before(r, Results, Notices)
<1>1. /\ e \in Results <=> e.ev = "connectFinished"
      /\ e \in Notices <=> e.ev = "connectionDisconnected" \/ e.ev = "networkDisconnected"
  BY DEF Results, Notices, EventsOf
<1>2. e \in Results => e \notin Notices
  BY <1>1
<1>3. /\ Has(Append(q, e), Results) <=> Has(q, Results) \/ e \in Results
      /\ Has(Append(q, e), Notices) <=> Has(q, Notices) \/ e \in Notices
      /\ Once(q, Results) /\ (e \in Results => ~Has(q, Results))
           => Once(Append(q, e), Results)
      /\ Once(q, Notices) /\ (e \in Notices => ~Has(q, Notices))
           => Once(Append(q, e), Notices)
      /\ Before(q, Results, Notices)
           /\ (e \in Results => ~Has(q, Notices) /\ e \notin Notices)
           => Before(Append(q, e), Results, Notices)
  BY AppendSets
<1> QED
  BY <1>1, <1>2, <1>3

LEMMA UiTail ==
    ASSUME TypeOK, UiOrder, uiq # << >>
    PROVE  LET r == Tail(uiq)
           IN  /\ r \in Seq(UiEvents) /\ Head(uiq) \in UiEvents
               /\ Once(r, Notices) /\ Once(r, Results) /\ Before(r, Results, Notices)
               /\ Head(uiq).ev \in {"hub:netError", "netError"} =>
                    (Has(r, Notices) <=> Noticed) /\ (Has(r, Results) <=> Finished)
               /\ Head(uiq).ev = "connectFinished" =>
                    Finished /\ ~Has(r, Results) /\ (Has(r, Notices) <=> Noticed)
               /\ Head(uiq).ev \in {"connectionDisconnected", "networkDisconnected"} =>
                    /\ Noticed /\ ~Has(r, Notices)
                    /\ ~Finished /\ ~Has(r, Results)
<1>1. uiq \in Seq(UiEvents) /\ Head(uiq) \in UiEvents /\ Tail(uiq) \in Seq(UiEvents)
  BY Queues, Shifted
<1>2. /\ Head(uiq) \in Results <=> Head(uiq).ev = "connectFinished"
      /\ Head(uiq) \in Notices <=> Head(uiq).ev \in {"connectionDisconnected",
                                                     "networkDisconnected"}
  BY <1>1 DEF Results, Notices, EventsOf
<1>3. /\ Has(uiq, Results) <=> Head(uiq) \in Results \/ Has(Tail(uiq), Results)
      /\ Has(uiq, Notices) <=> Head(uiq) \in Notices \/ Has(Tail(uiq), Notices)
      /\ Once(Tail(uiq), Results) /\ (Head(uiq) \in Results => ~Has(Tail(uiq), Results))
      /\ Once(Tail(uiq), Notices) /\ (Head(uiq) \in Notices => ~Has(Tail(uiq), Notices))
      /\ Before(Tail(uiq), Results, Notices)
      /\ Head(uiq) \in Notices => ~Has(uiq, Results)
  BY <1>1, TailSets DEF UiOrder
<1> QED
  BY <1>1, <1>2, <1>3 DEF Noticed, Finished

\* The UI thread's queue, in primed form.
LEMMA UiNext ==
    /\ Finished' <=> Has(uiq', Results)
    /\ Noticed' <=> Has(uiq', Notices)
    /\ UiOrder' <=> Once(uiq', Notices) /\ Once(uiq', Results)
                    /\ Before(uiq', Results, Notices)
BY DEF Finished, Noticed, UiOrder

\* Queues that do not change.
LEMMA SameQueues ==
    /\ ui'.toCtl = ui.toCtl => /\ (Connecting' <=> Connecting) /\ (Asks' <=> Asks)
                               /\ (Closes' <=> Closes) /\ (CtlOrder' <=> CtlOrder)
    /\ ioq' = ioq => (IoCloses' <=> IoCloses) /\ (IoOrder' <=> IoOrder)
    /\ uiq' = uiq => /\ (Finished' <=> Finished) /\ (Noticed' <=> Noticed)
                     /\ (UiOrder' <=> UiOrder)
<1>1. ui'.toCtl = ui.toCtl => /\ (Connecting' <=> Connecting) /\ (Asks' <=> Asks)
                              /\ (Closes' <=> Closes) /\ (CtlOrder' <=> CtlOrder)
  BY DEF Connecting, Asks, Closes, CtlOrder
<1>2. ioq' = ioq => (IoCloses' <=> IoCloses) /\ (IoOrder' <=> IoOrder)
  BY DEF IoCloses, IoOrder
<1>3. uiq' = uiq => /\ (Finished' <=> Finished) /\ (Noticed' <=> Noticed)
                    /\ (UiOrder' <=> UiOrder)
  BY DEF Finished, Noticed, UiOrder
<1> QED
  BY <1>1, <1>2, <1>3

\* Once a timer has overtaken or a connection been discarded, it stays so.
LEMMA CalmBefore ==
    ASSUME TypeOK, [Next]_sessionVars, Calm'
    PROVE  Calm
<1>1. CASE ui_slot \/ ui_timer \/ (\E act \in UserActions : user_request(act))
           \/ user_close_window
  <2>1. UiStep
    BY <1>1, UiStepEffect
  <2>2. ~ui'.overtaking /\ ~ui'.discarded
    BY DEF Calm
  <2> QED
    BY <2>1, <2>2
    DEF UiStep, Resets, Discards, Fails, NotNeeded, AsksFor, Ends, Connects, Calm
<1>2. CASE start_send_worker_launch \/ connect_failed \/ request_slot
           \/ disconnect_from_host_slot
  <2>1. CallDone
    BY <1>2
    DEF start_send_worker_launch, connect_failed, Finish, request_slot,
        disconnect_from_host_slot
  <2>2. ui'.overtaking = ui.overtaking /\ ui'.discarded = ui.discarded
    BY <2>1 DEF CallDone, TypeOK, UiStates
  <2> QED
    BY <2>2 DEF Calm
<1>3. CASE UNCHANGED ui
  BY <1>3 DEF Calm
<1> QED
  BY <1>1, <1>2, <1>3, NextIsStep
  DEF Step, worker_check, worker_pop, worker_send, connect_stop_worker, connect_call_io,
      start_send_worker_stop, start_send_worker_epoch, io_connect_begin, io_connect_end,
      io_disconnect, io_send, io_socket_error, ui_hub_message,
      ui_connection_disconnected, sessionVars

\* What is in the queues and what the flags say, after a slot of the window.
LEMMA UiCallsStep ==
    ASSUME TypeOK, CallsInv, FlagsInv, Calm, Calm', UiStep, ioq' = ioq
    PROVE  CallsInv' /\ FlagsInv'
<1>0. /\ ui \in UiStates /\ IoCloses' = IoCloses /\ IoOrder'
      /\ (Disconnecting <=> Leaving) /\ ~ui'.discarded /\ ~ui'.overtaking
      /\ UiOrder /\ CtlOrder
  BY SameQueues, Queues DEF TypeOK, CallsInv, Calm, IoCloses
<1> DEFINE r == Tail(uiq)
<1>t. ASSUME uiq # << >>, uiq' = Tail(uiq)
      PROVE  /\ UiOrder'
             /\ Head(uiq).ev \in {"hub:netError", "netError"} =>
                  (Noticed' <=> Noticed) /\ (Finished' <=> Finished)
             /\ Head(uiq).ev = "connectFinished" =>
                  Finished /\ ~Finished' /\ (Noticed' <=> Noticed)
             /\ Head(uiq).ev \in {"connectionDisconnected", "networkDisconnected"} =>
                  Noticed /\ ~Noticed' /\ ~Finished /\ ~Finished'
  BY <1>0, <1>t, UiTail, UiNext
<1>p. ASSUME NEW call \in Calls, ui'.toCtl = Append(ui.toCtl, call)
      PROVE  /\ Connecting' <=> Connecting \/ call.op = "connect"
             /\ Asks' <=> Asks \/ call.op = "request"
             /\ Closes' <=> Closes \/ call.op = "disconnect"
             /\ ~Closes /\ (call.op # "disconnect" => ~Connecting /\ ~Asks)
                  => CtlOrder'
  BY <1>0, <1>p, CtlAppend
<1>d. ASSUME ui'.toCtl = Append(ui.toCtl, DisconnectSlot)
      PROVE  /\ Connecting' <=> Connecting
             /\ Asks' <=> Asks
             /\ Closes'
             /\ ~Closes => CtlOrder'
  BY <1>d, <1>p, ConstantTypes
<1>1. CASE /\ Slot("networkDisconnected")
           /\ Resets(ui, ui') /\ ui'.overtaking = ui.overtaking
  <2>1. Noticed /\ ~Noticed' /\ ~Finished' /\ UiOrder'
    BY <1>1, <1>t DEF Slot
  <2>2. ~Connecting /\ ~Asks /\ ~Closes /\ ~IoCloses
    BY <2>1 DEF CallsInv
  <2>3. CASE ~ui'.connecting /\ ui'.toCtl = ui.toCtl
    BY <1>0, <1>1, <2>1, <2>2, <2>3, SameQueues
    DEF Resets, CallsInv, FlagsInv, Attempt, Leaving
  <2>4. CASE /\ ui'.connecting
             /\ \E call \in Calls : call.op = "connect"
                                    /\ ui'.toCtl = Append(ui.toCtl, call)
    BY <1>0, <1>1, <1>p, <2>1, <2>2, <2>4
    DEF Resets, CallsInv, FlagsInv, Attempt, Leaving
  <2> QED
    BY <1>1, <2>3, <2>4 DEF Resets
<1>2. CASE /\ Slot("connectFinished")
           /\ \/ ~Head(uiq).ok /\ Fails(ui, ui')
              \/ Head(uiq).ok /\ ~ui.ending /\ NotNeeded(ui, ui')
              \/ Head(uiq).ok /\ AsksFor(ui, ui', Head(uiq).sess)
  <2>1. Finished /\ ~Finished' /\ (Noticed' <=> Noticed) /\ UiOrder'
    BY <1>2, <1>t DEF Slot
  <2>2. ~Connecting /\ ~Asks /\ Attempt /\ ~ui.active
    BY <2>1 DEF CallsInv, FlagsInv, Attempt
  <2>3. CASE Fails(ui, ui')
    BY <1>0, <2>1, <2>2, <2>3, SameQueues
    DEF Fails, CallsInv, FlagsInv, Attempt, Leaving
  <2>4. CASE ~ui.ending /\ NotNeeded(ui, ui')
    <3>1. ~Closes /\ ~IoCloses /\ ~Noticed
      BY <2>4 DEF FlagsInv, Leaving
    <3> QED
      BY <1>0, <1>d, <2>1, <2>2, <2>4, <3>1
      DEF NotNeeded, CallsInv, FlagsInv, Attempt, Leaving
  <2>5. CASE AsksFor(ui, ui', Head(uiq).sess)
    <3>1. ~Closes /\ ~IoCloses /\ ~Noticed
      BY <2>5 DEF FlagsInv, Leaving, AsksFor
    <3> QED
      BY <1>0, <1>p, <2>1, <2>2, <2>5, <3>1
      DEF AsksFor, CallsInv, FlagsInv, Attempt, Leaving
  <2> QED
    BY <1>2, <2>3, <2>4, <2>5
\* The session is ended, by an error of the network or the user.
<1>e. ASSUME ~ui.ending, Ends(ui, ui'), Noticed' <=> Noticed, Finished' <=> Finished, UiOrder'
      PROVE  CallsInv' /\ FlagsInv'
  <2>1. ~Closes /\ ~IoCloses /\ ~Noticed
    BY <1>e DEF FlagsInv, Leaving
  <2>2. CASE ui'.toCtl = Append(ui.toCtl, DisconnectSlot)
    BY <1>0, <1>d, <1>e, <2>1, <2>2 DEF Ends, CallsInv, FlagsInv, Attempt, Leaving
  <2>3. CASE ui'.toCtl = ui.toCtl /\ ~ui.active /\ ~ui.connecting
    BY <1>0, <1>e, <2>1, <2>3, SameQueues DEF Ends, CallsInv, FlagsInv, Attempt, Leaving
  <2> QED
    BY <1>e, <2>2, <2>3 DEF Ends
<1>3. CASE Slot("netError") /\ (ui' = ui \/ (~ui.ending /\ Ends(ui, ui')))
  <2>1. (Finished' <=> Finished) /\ (Noticed' <=> Noticed) /\ UiOrder'
    BY <1>3, <1>t DEF Slot
  <2>2. CASE ui' = ui
    BY <1>0, <2>1, <2>2, SameQueues DEF CallsInv, FlagsInv, Attempt, Leaving
  <2> QED
    BY <1>3, <1>e, <2>1, <2>2
<1>4. CASE uiq' = uiq /\ ~Disconnecting /\ ui.ending /\ Resets(ui, ui')
  <2>1. (Finished' <=> Finished) /\ (Noticed' <=> Noticed) /\ UiOrder'
    BY <1>0, <1>4, SameQueues
  <2>2. ~Closes /\ ~IoCloses /\ ~Noticed /\ ~Connecting /\ ~Finished /\ ~Asks
    BY <1>0, <1>4 DEF Leaving, FlagsInv, Attempt
  <2>3. CASE ~ui'.connecting /\ ui'.toCtl = ui.toCtl
    BY <1>0, <1>4, <2>1, <2>2, <2>3, SameQueues
    DEF Resets, CallsInv, FlagsInv, Attempt, Leaving
  <2>4. CASE /\ ui'.connecting
             /\ \E call \in Calls : call.op = "connect"
                                    /\ ui'.toCtl = Append(ui.toCtl, call)
    BY <1>0, <1>4, <1>p, <2>1, <2>2, <2>4
    DEF Resets, CallsInv, FlagsInv, Attempt, Leaving
  <2> QED
    BY <1>4, <2>3, <2>4 DEF Resets
<1>5. CASE /\ uiq' = uiq
           /\ ui'.visible = ui.visible \/ ui.ending
           /\ ui'.ending = ui.ending
           /\ ui'.active = ui.active /\ ui'.connecting = ui.connecting
           /\ ui'.toCtl = ui.toCtl
  BY <1>0, <1>5, SameQueues DEF CallsInv, FlagsInv, Attempt, Leaving
<1>6. CASE /\ uiq' = uiq /\ ~ui.visible
           /\ \E u \in UiStates : /\ u.ending = ui.ending /\ u.active = ui.active
                                  /\ u.connecting = ui.connecting
                                  /\ u.overtaking = ui.overtaking
                                  /\ u.discarded = ui.discarded /\ u.toCtl = ui.toCtl
                                  /\ Connects(u, ui')
  <2>1. (Finished' <=> Finished) /\ (Noticed' <=> Noticed) /\ UiOrder' /\ ~ui.active
    BY <1>0, <1>6, SameQueues DEF FlagsInv
  <2>2. ui'.ending = ui.ending /\ ui'.active = ui.active
    BY <1>6 DEF Connects
  <2>3. CASE ui'.connecting = ui.connecting /\ ui'.toCtl = ui.toCtl
    BY <1>0, <2>1, <2>2, <2>3, SameQueues
    DEF CallsInv, FlagsInv, Attempt, Leaving
  <2>4. CASE /\ ~ui.connecting /\ ~ui.ending /\ ui'.connecting
             /\ \E call \in Calls : call.op = "connect"
                                    /\ ui'.toCtl = Append(ui.toCtl, call)
    <3>1. ~Closes /\ ~IoCloses /\ ~Noticed /\ ~Connecting /\ ~Finished /\ ~Asks
      BY <2>1, <2>4 DEF Leaving, FlagsInv, Attempt
    <3> QED
      BY <1>0, <1>p, <2>1, <2>2, <2>4, <3>1 DEF CallsInv, FlagsInv, Attempt, Leaving
  <2> QED
    BY <1>6, <2>3, <2>4 DEF Connects
<1>7. CASE uiq' = uiq /\ ~ui.ending /\ Ends(ui, ui')
  BY <1>0, <1>7, <1>e, SameQueues
<1>8. ~Discards(ui, ui')
  BY <1>0 DEF Discards
<1> QED
  BY <1>0, <1>1, <1>2, <1>3, <1>4, <1>5, <1>6, <1>7, <1>8 DEF UiStep

\* ... and after every other step.
LEMMA CallsStep ==
    ASSUME TypeOK, IoInv, CallsInv, FlagsInv, [Next]_sessionVars, Calm, Calm'
    PROVE  CallsInv' /\ FlagsInv'
<1>0. /\ ui \in UiStates /\ ctl \in CtlStates /\ UiOrder /\ CtlOrder /\ IoOrder
      /\ uiq \in Seq(UiEvents)
  BY Queues DEF TypeOK, CtlStates, CallsInv
<1>t. ASSUME ioq # << >>, ioq' = Tail(ioq)
      PROVE  /\ IoOrder'
             /\ Head(ioq).op # "disconnect" => (IoCloses' <=> IoCloses)
             /\ Head(ioq).op = "disconnect" => IoCloses /\ ~IoCloses'
  BY <1>0, <1>t, IoTail
\* An event is posted to the UI thread.
<1>u. ASSUME NEW e \in UiEvents, uiq' = Append(uiq, e)
      PROVE  /\ Finished' <=> Finished \/ e.ev = "connectFinished"
             /\ Noticed' <=> \/ Noticed
                             \/ e.ev = "connectionDisconnected"
                             \/ e.ev = "networkDisconnected"
             /\ /\ e.ev = "connectFinished" => ~Finished /\ ~Noticed
                /\ e.ev \in {"connectionDisconnected", "networkDisconnected"} => ~Noticed
                => UiOrder'
  BY <1>0, <1>u, UiAppend, UiNext DEF Finished, Noticed, UiOrder
<1>e. \A name \in {"hub:netError", "netError", "connectionDisconnected",
                   "networkDisconnected"} :
        Event(name) \in UiEvents /\ Event(name).ev = name
  BY ConstantTypes DEF Event, UiEvents, Actions
\* The calls that post to the IO thread.
<1>i. ASSUME NEW call \in IoCalls, ioq' = Append(ioq, call)
      PROVE  /\ IoCloses' <=> IoCloses \/ call.op = "disconnect"
             /\ (call.op = "disconnect" => ~IoCloses) => IoOrder'
  BY <1>0, <1>i, IoAppend
<1>s. ASSUME ui' = ui, uiq' = uiq, (IoCloses' <=> IoCloses) /\ IoOrder'
      PROVE  CallsInv' /\ FlagsInv'
  BY <1>s, SameQueues DEF CallsInv, FlagsInv, Attempt, Leaving
<1>1. CASE \E w \in workers : worker_check(w) \/ worker_pop(w) \/ worker_send(w)
  <2>1. PICK w \in workers : worker_check(w) \/ worker_pop(w) \/ worker_send(w)
    BY <1>1
  <2>2. w.msg \in Requests /\ [op |-> "send", sess |-> w.msg] \in IoCalls
    BY <2>1 DEF TypeOK, IoCalls
  <2>3. /\ ui' = ui /\ uiq' = uiq
        /\ ioq' = ioq \/ ioq' = Append(ioq, [op |-> "send", sess |-> w.msg])
    BY <2>1 DEF worker_check, worker_pop, worker_send
  <2>4. (IoCloses' <=> IoCloses) /\ IoOrder'
    <3>1. CASE ioq' = ioq
      BY <1>0, <3>1, SameQueues
    <3>2. CASE ioq' = Append(ioq, [op |-> "send", sess |-> w.msg])
      BY <1>i, <2>2, <3>2
    <3> QED
      BY <2>3, <3>1, <3>2
  <2> QED
    BY <1>s, <2>3, <2>4
<1>2. CASE UNCHANGED <<ui, uiq, ioq>>
  BY <1>0, <1>2, <1>s, SameQueues
<1>3. CASE connect_call_io
  <2>1. NextCall("connect")
    BY <1>3 DEF connect_call_io, IoInv
  <2>2. Head(ui.toCtl).sess \in Requests
    <3>1. Head(ui.toCtl) \in Calls
      BY <2>1, Queues, Shifted DEF NextCall
    <3> QED
      BY <3>1 DEF Calls
  <2>3. [op |-> "connect", sess |-> Head(ui.toCtl).sess] \in IoCalls
    BY <2>2 DEF IoCalls
  <2>4. /\ ui' = ui /\ uiq' = uiq
        /\ ioq' = Append(ioq, [op |-> "connect", sess |-> Head(ui.toCtl).sess])
    BY <1>3 DEF connect_call_io
  <2>5. (IoCloses' <=> IoCloses) /\ IoOrder'
    BY <1>i, <2>3, <2>4
  <2> QED
    BY <1>s, <2>4, <2>5
<1>4. CASE start_send_worker_launch \/ connect_failed
  <2>1. /\ NextCall("connect") /\ ioq' = ioq /\ CallDone
        /\ uiq' = Append(uiq, [ev |-> "connectFinished", ok |-> ctl.ok,
                               act |-> Head(ui.toCtl).act, sess |-> Head(ui.toCtl).sess])
    BY <1>4 DEF start_send_worker_launch, connect_failed, Finish, IoInv
  <2>2. /\ ui'.toCtl = Tail(ui.toCtl)
        /\ ui'.visible = ui.visible /\ ui'.ending = ui.ending
        /\ ui'.active = ui.active /\ ui'.connecting = ui.connecting
        /\ Head(ui.toCtl).sess \in Requests /\ Head(ui.toCtl).act \in Actions
    BY <2>1, CallDoneEffect DEF NextCall
  <2>3. /\ CtlOrder' /\ ~Connecting' /\ ~Asks' /\ Connecting /\ (Closes' <=> Closes)
    BY <1>0, <2>1, <2>2, CtlTail DEF NextCall
  <2>4. ~IoCloses /\ ~Noticed /\ ~Finished
    BY <2>3 DEF CallsInv
  <2>5. Finished' /\ ~Noticed' /\ UiOrder'
    <3> DEFINE e == [ev |-> "connectFinished", ok |-> ctl.ok,
                     act |-> Head(ui.toCtl).act, sess |-> Head(ui.toCtl).sess]
    <3>1. e \in UiEvents /\ e.ev = "connectFinished"
      BY <1>0, <2>2 DEF UiEvents, CtlStates
    <3>2. uiq' = Append(uiq, e)
      BY <2>1
    <3> HIDE DEF e
    <3> QED
      BY <1>u, <2>4, <3>1, <3>2
  <2> QED
    BY <1>0, <2>1, <2>2, <2>3, <2>4, <2>5, SameQueues
    DEF CallsInv, FlagsInv, Attempt, Leaving
<1>5. CASE request_slot
  <2>1. NextCall("request") /\ CallDone /\ ioq' = ioq /\ uiq' = uiq
    BY <1>5 DEF request_slot
  <2>2. /\ ui'.toCtl = Tail(ui.toCtl)
        /\ ui'.visible = ui.visible /\ ui'.ending = ui.ending
        /\ ui'.active = ui.active /\ ui'.connecting = ui.connecting
    BY <2>1, CallDoneEffect DEF NextCall
  <2>3. /\ CtlOrder' /\ ~Connecting' /\ ~Asks' /\ Asks /\ (Closes' <=> Closes)
    BY <1>0, <2>1, <2>2, CtlTail DEF NextCall
  <2> QED
    BY <1>0, <2>1, <2>2, <2>3, SameQueues
    DEF CallsInv, FlagsInv, Attempt, Leaving
<1>6. CASE disconnect_from_host_slot
  <2>1. /\ NextCall("disconnect") /\ CallDone /\ uiq' = uiq
        /\ ioq' = Append(ioq, [op |-> "disconnect", sess |-> 0])
    BY <1>6 DEF disconnect_from_host_slot
  <2>2. /\ ui'.toCtl = Tail(ui.toCtl)
        /\ ui'.visible = ui.visible /\ ui'.ending = ui.ending
        /\ ui'.active = ui.active /\ ui'.connecting = ui.connecting
    BY <2>1, CallDoneEffect DEF NextCall
  <2>3. /\ CtlOrder' /\ ~Connecting' /\ ~Asks' /\ ~Connecting /\ ~Asks
        /\ Closes /\ ~Closes'
    BY <1>0, <2>1, <2>2, CtlTail DEF NextCall
  <2>4. ~IoCloses /\ ~Noticed
    BY <2>3 DEF CallsInv
  <2>5. IoCloses' /\ IoOrder'
    <3>1. [op |-> "disconnect", sess |-> 0] \in IoCalls
      BY ConstantTypes DEF IoCalls
    <3> QED
      BY <1>i, <2>1, <2>4, <3>1
  <2> QED
    BY <1>0, <2>1, <2>2, <2>3, <2>4, <2>5, SameQueues
    DEF CallsInv, FlagsInv, Attempt, Leaving
\* Events that only report an error.
<1>n. ASSUME ui' = ui, UiOrder', Finished' <=> Finished, Noticed' <=> Noticed,
             (IoCloses' <=> IoCloses) /\ IoOrder'
      PROVE  CallsInv' /\ FlagsInv'
  BY <1>n, SameQueues DEF CallsInv, FlagsInv, Attempt, Leaving
<1>7. CASE \E ok \in BOOLEAN : io_connect_end(ok)
  <2>1. /\ sock.state = "connecting" /\ ui' = ui /\ ioq' = Tail(ioq)
        /\ uiq' = uiq \/ uiq' = Append(uiq, Event("hub:netError"))
    BY <1>7 DEF io_connect_end
  <2>2. ioq # << >> /\ Head(ioq).op = "connect"
    BY <2>1 DEF IoInv
  <2>3. (IoCloses' <=> IoCloses) /\ IoOrder'
    BY <1>t, <2>1, <2>2
  <2>4. UiOrder' /\ (Finished' <=> Finished) /\ (Noticed' <=> Noticed)
    <3>1. CASE uiq' = uiq
      BY <1>0, <3>1, SameQueues
    <3>2. CASE uiq' = Append(uiq, Event("hub:netError"))
      BY <1>e, <1>u, <3>2
    <3> QED
      BY <2>1, <3>1, <3>2
  <2> QED
    BY <1>n, <2>1, <2>3, <2>4
<1>8. CASE io_send
  <2>1. /\ ui' = ui /\ uiq' = uiq /\ ioq # << >> /\ Head(ioq).op = "send"
        /\ ioq' = Tail(ioq)
    BY <1>8 DEF io_send, NextIo
  <2>2. (IoCloses' <=> IoCloses) /\ IoOrder'
    BY <1>t, <2>1
  <2> QED
    BY <1>s, <2>1, <2>2
<1>9. CASE io_disconnect
  <2>1. /\ ui' = ui /\ ioq # << >> /\ Head(ioq).op = "disconnect"
        /\ ioq' = Tail(ioq) /\ uiq' = Append(uiq, Event("connectionDisconnected"))
    BY <1>9 DEF io_disconnect, NextIo
  <2>2. IoCloses /\ ~IoCloses' /\ IoOrder'
    BY <1>t, <2>1
  <2>3. ~Closes /\ ~Noticed /\ ~Connecting /\ ~Asks
    BY <2>2 DEF CallsInv
  <2>4. UiOrder' /\ (Finished' <=> Finished) /\ Noticed'
    BY <1>e, <1>u, <2>1, <2>3
  <2> QED
    BY <1>0, <2>1, <2>2, <2>3, <2>4, SameQueues
    DEF CallsInv, FlagsInv, Attempt, Leaving
<1>10. CASE io_socket_error
  <2>1. ui' = ui /\ ioq' = ioq /\ uiq' = Append(uiq, Event("hub:netError"))
    BY <1>10 DEF io_socket_error
  <2>2. UiOrder' /\ (Finished' <=> Finished) /\ (Noticed' <=> Noticed)
    BY <1>e, <1>u, <2>1
  <2> QED
    BY <1>0, <1>n, <2>1, <2>2, SameQueues
<1>11. CASE ui_hub_message
  <2>1. /\ ui' = ui /\ ioq' = ioq /\ uiq # << >> /\ Head(uiq).ev = "hub:netError"
        /\ uiq' = Append(Tail(uiq), Event("netError"))
    BY <1>11 DEF ui_hub_message
  <2>2. /\ Tail(uiq) \in Seq(UiEvents)
        /\ Once(Tail(uiq), Notices) /\ Once(Tail(uiq), Results)
        /\ Before(Tail(uiq), Results, Notices)
        /\ (Has(Tail(uiq), Notices) <=> Noticed)
        /\ (Has(Tail(uiq), Results) <=> Finished)
    BY <1>0, <2>1, UiTail
  <2>3. UiOrder' /\ (Finished' <=> Finished) /\ (Noticed' <=> Noticed)
    BY <1>e, <2>1, <2>2, UiAppend, UiNext
  <2> QED
    BY <1>0, <1>n, <2>1, <2>3, SameQueues
<1>12. CASE ui_connection_disconnected
  <2>1. /\ ui' = ui /\ ioq' = ioq /\ uiq # << >>
        /\ Head(uiq).ev = "connectionDisconnected"
        /\ uiq' = Append(Tail(uiq), Event("networkDisconnected"))
    BY <1>12 DEF ui_connection_disconnected
  <2>2. /\ Tail(uiq) \in Seq(UiEvents)
        /\ Once(Tail(uiq), Notices) /\ Once(Tail(uiq), Results)
        /\ Before(Tail(uiq), Results, Notices)
        /\ Noticed /\ ~Has(Tail(uiq), Notices)
        /\ ~Finished /\ ~Has(Tail(uiq), Results)
    BY <1>0, <2>1, UiTail
  <2>3. UiOrder' /\ (Finished' <=> Finished) /\ (Noticed' <=> Noticed)
    BY <1>e, <2>1, <2>2, UiAppend, UiNext
  <2> QED
    BY <1>0, <1>n, <2>1, <2>3, SameQueues
<1>13. CASE ui_slot \/ ui_timer \/ (\E act \in UserActions : user_request(act))
            \/ user_close_window
  BY <1>13, UiStepEffect, UiCallsStep
<1> QED
  BY <1>1, <1>2, <1>3, <1>4, <1>5, <1>6, <1>7, <1>8, <1>9, <1>10, <1>11, <1>12,
     <1>13, NextIsStep
  DEF Step, connect_stop_worker, start_send_worker_stop, start_send_worker_epoch,
      io_connect_begin, sessionVars

-----------------------------------------------------------------------------
(***************************************************************************)
(* Sessions.                                                               *)
(***************************************************************************)
LEMMA AppendMembers ==
    ASSUME NEW S, NEW q \in Seq(S), NEW e \in S
    PROVE  /\ \A i \in DOMAIN Append(q, e) : \/ Append(q, e)[i] = e
                                             \/ \E k \in DOMAIN q : Append(q, e)[i] = q[k]
           /\ \E i \in DOMAIN Append(q, e) : Append(q, e)[i] = e
           /\ \A k \in DOMAIN q : \E i \in DOMAIN Append(q, e) : Append(q, e)[i] = q[k]
<1> DEFINE r == Append(q, e)
<1>1. /\ Len(q) \in Nat /\ DOMAIN q = 1 .. Len(q) /\ DOMAIN r = 1 .. Len(q) + 1
      /\ r[Len(q) + 1] = e /\ \A i \in 1 .. Len(q) : r[i] = q[i]
  BY Appended
<1> HIDE DEF r
<1>2. /\ \A i \in DOMAIN r : i = Len(q) + 1 \/ i \in DOMAIN q
      /\ \A k \in DOMAIN q : k \in DOMAIN r
      /\ Len(q) + 1 \in DOMAIN r
  BY <1>1
<1>3. /\ \A i \in DOMAIN r : r[i] = e \/ \E k \in DOMAIN q : r[i] = q[k]
      /\ \E i \in DOMAIN r : r[i] = e
      /\ \A k \in DOMAIN q : \E i \in DOMAIN r : r[i] = q[k]
  BY <1>1, <1>2
<1> QED
  BY <1>3 DEF r

LEMMA TailMembers ==
    ASSUME NEW S, NEW q \in Seq(S), q # << >>
    PROVE  /\ 1 \in DOMAIN q /\ Head(q) = q[1] /\ Head(q) \in S /\ Tail(q) \in Seq(S)
           /\ \A i \in DOMAIN Tail(q) : \E k \in DOMAIN q : Tail(q)[i] = q[k]
           /\ \A k \in DOMAIN q : \/ q[k] = Head(q)
                                  \/ \E i \in DOMAIN Tail(q) : Tail(q)[i] = q[k]
<1>1. /\ Len(q) \in Nat \ {0} /\ DOMAIN q = 1 .. Len(q) /\ Head(q) = q[1]
      /\ Head(q) \in S /\ Tail(q) \in Seq(S)
      /\ DOMAIN Tail(q) = 1 .. Len(q) - 1
      /\ \A i \in 1 .. Len(q) - 1 : Tail(q)[i] = q[i + 1]
  BY Shifted
<1>2. ASSUME NEW i \in DOMAIN Tail(q)
      PROVE  \E k \in DOMAIN q : Tail(q)[i] = q[k]
  <2>1. i + 1 \in DOMAIN q /\ Tail(q)[i] = q[i + 1]
    BY <1>1
  <2> QED
    BY <2>1
<1>3. ASSUME NEW k \in DOMAIN q, q[k] # Head(q)
      PROVE  \E i \in DOMAIN Tail(q) : Tail(q)[i] = q[k]
  <2>1. k - 1 \in 1 .. Len(q) - 1 /\ k - 1 + 1 = k
    BY <1>1, <1>3
  <2>2. k - 1 \in DOMAIN Tail(q) /\ Tail(q)[k - 1] = q[k]
    BY <1>1, <2>1
  <2> QED
    BY <2>2
<1> QED
  BY <1>1, <1>2, <1>3

\* A slot of the window posts no request but the one of the connection that
\* has come up.
LEMMA UiPosts ==
    ASSUME TypeOK, UiStep, Calm'
    PROVE  /\ \/ ui'.toCtl = ui.toCtl
              \/ \E call \in Calls :
                   /\ ui'.toCtl = Append(ui.toCtl, call)
                   /\ call.op = "request" => /\ uiq # << >>
                                             /\ Head(uiq).ev = "connectFinished"
                                             /\ call.sess = Head(uiq).sess
           /\ uiq' = uiq \/ (uiq # << >> /\ uiq' = Tail(uiq))
<1>1. ASSUME ui'.toCtl = Append(ui.toCtl, DisconnectSlot)
      PROVE  \E call \in Calls : /\ ui'.toCtl = Append(ui.toCtl, call)
                                 /\ call.op # "request"
  <2>1. DisconnectSlot \in Calls /\ DisconnectSlot.op # "request"
    BY ConstantTypes
  <2> QED
    BY <1>1, <2>1
<1>2. ASSUME \E call \in Calls : call.op = "connect" /\ ui'.toCtl = Append(ui.toCtl, call)
      PROVE  \E call \in Calls : /\ ui'.toCtl = Append(ui.toCtl, call)
                                 /\ call.op # "request"
  BY <1>2
<1>3. ~ui'.discarded
  BY DEF Calm
<1>4. uiq' = uiq \/ (uiq # << >> /\ uiq' = Tail(uiq))
  BY DEF UiStep, Slot
<1>5. CASE /\ Slot("connectFinished") /\ AsksFor(ui, ui', Head(uiq).sess)
  BY <1>4, <1>5 DEF Slot, AsksFor
<1>6. CASE \/ Resets(ui, ui') \/ Fails(ui, ui') \/ NotNeeded(ui, ui')
           \/ Ends(ui, ui') \/ ui'.toCtl = ui.toCtl
  BY <1>1, <1>2, <1>4, <1>6 DEF Resets, Fails, NotNeeded, Ends
<1>7. CASE \E u \in UiStates : u.toCtl = ui.toCtl /\ Connects(u, ui')
  BY <1>2, <1>4, <1>7 DEF Connects
<1> QED
  BY <1>3, <1>5, <1>6, <1>7 DEF UiStep, Discards

LEMMA SessStep ==
    ASSUME TypeOK, SenderInv, IoInv, CallsInv, SessInv, [Next]_sessionVars, Calm, Calm'
    PROVE  SessInv'
<1>0. /\ ui.toCtl \in Seq(Calls) /\ ioq \in Seq(IoCalls) /\ uiq \in Seq(UiEvents)
      /\ ctl \in CtlStates /\ sock \in Socks /\ sendq \in Seq(Requests)
      /\ workers \subseteq Workers /\ ui \in UiStates
  BY Queues DEF TypeOK, CtlStates, Workers, Socks
\* What keeps the connection has only to look at what is new.
<1>k. ASSUME sock' = sock,
             \A i \in DOMAIN ui'.toCtl : ui'.toCtl[i].op = "request" => UpFor(ui'.toCtl[i].sess),
             \A i \in DOMAIN uiq' : uiq'[i].ev = "connectFinished" => UpFor(uiq'[i].sess),
             ctl'.pc \in {"returned", "rejoining", "launching"} => UpFor(Head(ui'.toCtl).sess),
             \A i \in DOMAIN sendq' : UpFor(sendq'[i]),
             \A w \in workers' : w.msg # NoMsg => UpFor(w.msg),
             \A i \in DOMAIN ioq' : ioq'[i].op = "send" => UpFor(ioq'[i].sess)
      PROVE  SessInv'
  BY <1>k DEF SessInv, UpFor
<1>1. CASE \E w \in workers : worker_check(w) \/ worker_pop(w) \/ worker_send(w)
  <2>1. PICK w \in workers : worker_check(w) \/ worker_pop(w) \/ worker_send(w)
    BY <1>1
  <2>2. UNCHANGED <<ui, uiq, ctl, sock>> /\ w \in Workers
    BY <1>0, <2>1 DEF worker_check, worker_pop, worker_send
  <2>3. w.msg \in Requests /\ (w.msg # NoMsg => UpFor(w.msg))
    BY <2>1, <2>2 DEF SessInv, Workers
  <2>4. CASE worker_check(w)
    <3>1. \A v \in workers' : v.msg = w.msg \/ v \in workers
      BY <2>2, <2>4 DEF worker_check, Workers
    <3>2. UNCHANGED <<sendq, ioq>>
      BY <2>4 DEF worker_check
    <3> QED
      BY <1>k, <2>2, <2>3, <3>1, <3>2 DEF SessInv
  <2>5. CASE worker_pop(w)
    <3> DEFINE got == IF sendq = << >> THEN NoMsg ELSE Head(sendq)
    <3>1. ioq' = ioq /\ workers' = (workers \ {w}) \cup {[w EXCEPT !.pc = "got", !.msg = got]}
          /\ sendq' = IF sendq = << >> THEN sendq ELSE Tail(sendq)
      BY <2>5 DEF worker_pop
    <3>2. got # NoMsg => UpFor(got)
      BY <1>0, TailMembers DEF SessInv
    <3>3. \A v \in workers' : v \in workers \/ v.msg = got
      BY <2>2, <3>1 DEF Workers
    <3>4. \A i \in DOMAIN sendq' : \E k \in DOMAIN sendq : sendq'[i] = sendq[k]
      BY <1>0, <3>1, TailMembers
    <3> HIDE DEF got
    <3> QED
      BY <1>k, <2>2, <3>1, <3>2, <3>3, <3>4 DEF SessInv
  <2>6. CASE worker_send(w)
    <3>1. \A v \in workers' : v \in workers \/ v.msg = NoMsg
      BY <2>2, <2>6 DEF worker_send, Workers
    <3>2. \/ sendq' = sendq
          \/ w.msg # NoMsg /\ sendq' = Append(sendq, w.msg)
      BY <2>6 DEF worker_send
    <3>3. \A i \in DOMAIN sendq' : UpFor(sendq'[i])
      <4>1. CASE sendq' = sendq
        BY <4>1 DEF SessInv
      <4>2. CASE w.msg # NoMsg /\ sendq' = Append(sendq, w.msg)
        <5>1. \A i \in DOMAIN sendq' : sendq'[i] = w.msg
                                       \/ \E k \in DOMAIN sendq : sendq'[i] = sendq[k]
          BY <1>0, <2>3, <4>2, AppendMembers
        <5> QED
          BY <2>3, <4>2, <5>1 DEF SessInv
      <4> QED
        BY <3>2, <4>1, <4>2
    <3> DEFINE call == [op |-> "send", sess |-> w.msg]
    <3>4. ioq' = ioq \/ (w.msg # NoMsg /\ ioq' = Append(ioq, call))
      BY <2>6 DEF worker_send
    <3>5. call \in IoCalls /\ call.sess = w.msg
      BY <2>3 DEF IoCalls
    <3> HIDE DEF call
    <3>6. \A i \in DOMAIN ioq' : ioq'[i].op = "send" => UpFor(ioq'[i].sess)
      <4>1. CASE ioq' = ioq
        BY <4>1 DEF SessInv
      <4>2. CASE w.msg # NoMsg /\ ioq' = Append(ioq, call)
        <5>1. \A i \in DOMAIN ioq' : ioq'[i] = call
                                     \/ \E k \in DOMAIN ioq : ioq'[i] = ioq[k]
          BY <1>0, <3>5, <4>2, AppendMembers
        <5> QED
          BY <2>3, <3>5, <4>2, <5>1 DEF SessInv
      <4> QED
        BY <3>4, <4>1, <4>2
    <3> QED
      BY <1>k, <2>2, <3>1, <3>3, <3>6 DEF SessInv
  <2> QED
    BY <2>1, <2>4, <2>5, <2>6
<1>2. CASE connect_stop_worker \/ start_send_worker_stop \/ start_send_worker_epoch
  <2>1. /\ UNCHANGED <<ui, uiq, ioq, sock, sendq, workers>>
        /\ \/ ctl'.pc = "joining"
           \/ ctl.pc \in {"returned", "rejoining"}
    BY <1>0, <1>2
    DEF connect_stop_worker, start_send_worker_stop, start_send_worker_epoch, CtlStates
  <2> QED
    BY <1>k, <2>1 DEF SessInv
<1>3. CASE connect_call_io \/ disconnect_from_host_slot
  <2>1. PICK call \in IoCalls : ioq' = Append(ioq, call) /\ call.op # "send"
    <3>1. CASE connect_call_io
      <4>1. Head(ui.toCtl).sess \in Requests
        <5>1. ui.toCtl # << >>
          BY <3>1 DEF connect_call_io, IoInv, NextCall
        <5>2. Head(ui.toCtl) \in Calls
          BY <1>0, <5>1, Shifted
        <5> QED
          BY <5>2 DEF Calls
      <4>2. [op |-> "connect", sess |-> Head(ui.toCtl).sess] \in IoCalls
        BY <4>1 DEF IoCalls
      <4> QED
        BY <3>1, <4>2 DEF connect_call_io
    <3>2. CASE disconnect_from_host_slot
      <4>1. [op |-> "disconnect", sess |-> 0] \in IoCalls
        BY ConstantTypes DEF IoCalls
      <4> QED
        BY <3>2, <4>1 DEF disconnect_from_host_slot
    <3> QED
      BY <1>3, <3>1, <3>2
  <2>2. \A i \in DOMAIN ioq' : ioq'[i].op = "send" => UpFor(ioq'[i].sess)
    <3>1. \A i \in DOMAIN ioq' : ioq'[i] = call \/ \E k \in DOMAIN ioq : ioq'[i] = ioq[k]
      BY <1>0, <2>1, AppendMembers
    <3> QED
      BY <2>1, <3>1 DEF SessInv
  <2>3. /\ UNCHANGED <<uiq, sock, sendq, workers>>
        /\ ctl'.pc \in {"blocked", "idle"}
        /\ \A i \in DOMAIN ui'.toCtl : \E k \in DOMAIN ui.toCtl : ui'.toCtl[i] = ui.toCtl[k]
    <3>1. CASE connect_call_io
      BY <1>0, <3>1 DEF connect_call_io, CtlStates
    <3>2. CASE disconnect_from_host_slot
      <4>1. ui.toCtl # << >> /\ CallDone
        BY <3>2 DEF disconnect_from_host_slot, NextCall
      <4>2. ui'.toCtl = Tail(ui.toCtl)
        BY <4>1, CallDoneEffect
      <4> QED
        BY <1>0, <3>2, <4>1, <4>2, TailMembers DEF disconnect_from_host_slot
    <3> QED
      BY <1>3, <3>1, <3>2
  <2> QED
    BY <1>k, <2>2, <2>3 DEF SessInv
<1>4. CASE start_send_worker_launch \/ connect_failed
  <2>1. /\ ui.toCtl # << >> /\ CallDone /\ UNCHANGED <<ioq, sock, sendq>>
        /\ uiq' = Append(uiq, [ev |-> "connectFinished", ok |-> ctl.ok,
                               act |-> Head(ui.toCtl).act, sess |-> Head(ui.toCtl).sess])
        /\ ctl'.pc = "idle"
    BY <1>0, <1>4
    DEF start_send_worker_launch, connect_failed, Finish, IoInv, NextCall, CtlStates
  <2>2. /\ ui'.toCtl = Tail(ui.toCtl)
        /\ Head(ui.toCtl).sess \in Requests /\ Head(ui.toCtl).act \in Actions
    BY <2>1, CallDoneEffect
  <2> DEFINE e == [ev |-> "connectFinished", ok |-> ctl.ok,
                   act |-> Head(ui.toCtl).act, sess |-> Head(ui.toCtl).sess]
  <2>3. e \in UiEvents /\ e.sess = Head(ui.toCtl).sess
    BY <1>0, <2>2 DEF UiEvents, CtlStates
  <2>4. uiq' = Append(uiq, e)
    BY <2>1
  <2> HIDE DEF e
  <2>5. \A i \in DOMAIN uiq' : uiq'[i] = e \/ \E k \in DOMAIN uiq : uiq'[i] = uiq[k]
    BY <1>0, <2>3, <2>4, AppendMembers, SMTT(20)
  <2>6. UpFor(Head(ui.toCtl).sess)
    BY <1>4 DEF start_send_worker_launch, connect_failed, SessInv
  <2>7. \A i \in DOMAIN ui'.toCtl : \E k \in DOMAIN ui.toCtl : ui'.toCtl[i] = ui.toCtl[k]
    BY <1>0, <2>1, <2>2, TailMembers
  <2>8. \A w \in workers' : w \in workers \/ w.msg = NoMsg
    BY <1>4 DEF start_send_worker_launch, connect_failed
  <2> QED
    BY <1>k, <2>1, <2>3, <2>5, <2>6, <2>7, <2>8 DEF SessInv
<1>5. CASE request_slot
  <2>1. /\ ui.toCtl # << >> /\ CallDone /\ UNCHANGED <<uiq, ctl, ioq, sock, workers>>
        /\ ctl.pc = "idle" /\ Head(ui.toCtl).op = "request"
        /\ sendq' = Append(sendq, Head(ui.toCtl).sess)
    BY <1>5 DEF request_slot, NextCall
  <2>2. /\ ui'.toCtl = Tail(ui.toCtl) /\ Head(ui.toCtl).sess \in Requests
    BY <2>1, CallDoneEffect
  <2>3. UpFor(Head(ui.toCtl).sess)
        /\ \A i \in DOMAIN ui'.toCtl : \E k \in DOMAIN ui.toCtl : ui'.toCtl[i] = ui.toCtl[k]
    BY <1>0, <2>1, <2>2, TailMembers DEF SessInv
  <2>4. \A i \in DOMAIN sendq' : \/ sendq'[i] = Head(ui.toCtl).sess
                                 \/ \E k \in DOMAIN sendq : sendq'[i] = sendq[k]
    <3>1. PICK n \in Requests : n = Head(ui.toCtl).sess
      BY <2>2
    <3>2. sendq' = Append(sendq, n)
      BY <2>1, <3>1
    <3>3. \A i \in DOMAIN sendq' : sendq'[i] = n \/ \E k \in DOMAIN sendq : sendq'[i] = sendq[k]
      BY <1>0, <3>2, AppendMembers, SMTT(20)
    <3> QED
      BY <3>1, <3>3
  <2> QED
    BY <1>k, <2>1, <2>3, <2>4 DEF SessInv
<1>6. CASE io_connect_begin \/ io_disconnect \/ io_socket_error
           \/ (\E ok \in BOOLEAN : ~ok /\ io_connect_end(ok))
  <2>1. sock'.state # "open"
    <3>1. CASE io_connect_begin
      BY <3>1 DEF io_connect_begin
    <3>2. CASE io_disconnect \/ \E ok \in BOOLEAN : ~ok /\ io_connect_end(ok)
      <4>1. sock' = NoSocket
        BY <3>2 DEF io_disconnect, io_connect_end
      <4> QED
        BY <4>1 DEF NoSocket
    <3>3. CASE io_socket_error
      BY <1>0, <3>3 DEF io_socket_error, Socks
    <3> QED
      BY <1>6, <3>1, <3>2, <3>3
  <2> QED
    BY <2>1 DEF SessInv, UpFor
\* A connection comes up, and nothing of another session is under way.
<1>7. CASE io_connect_end(TRUE)
  <2>1. /\ sock.state = "connecting" /\ UNCHANGED <<ui, uiq, sendq, workers>>
        /\ ioq' = Tail(ioq) /\ sock'.sess = sock.sess
    BY <1>0, <1>7 DEF io_connect_end, Socks
  <2>2. /\ ioq # << >> /\ Head(ioq).op = "connect" /\ sendq = << >>
        /\ sock.sess = Head(ui.toCtl).sess
    BY <2>1 DEF IoInv
  <2>3. 1 \in DOMAIN ioq /\ Head(ioq) = ioq[1]
    BY <1>0, <2>2, TailMembers
  <2>4. 1 = Len(ioq) /\ ctl.pc = "blocked"
    BY <2>2, <2>3 DEF IoInv
  <2>5. ioq' = << >> /\ workers = {}
    <3>1. Len(ioq') = 0 /\ ioq' \in Seq(IoCalls)
      BY <1>0, <2>1, <2>2, <2>4, Shifted
    <3> QED
      BY <2>4, <3>1 DEF SenderInv
  <2>6. /\ ui.toCtl # << >> /\ Head(ui.toCtl).op = "connect"
        /\ Head(ui.toCtl) = ui.toCtl[1] /\ 1 \in DOMAIN ui.toCtl
        /\ Head(ui.toCtl) \in Calls
    <3>1. NextCall("connect")
      BY <2>4 DEF IoInv
    <3>2. ui.toCtl # << >> /\ Head(ui.toCtl).op = "connect"
      BY <3>1 DEF NextCall
    <3> QED
      BY <1>0, <3>2, TailMembers
  <2>7. Connecting
    BY <2>6 DEF Connecting, Has, CallsOf
  <2>8. \A i \in DOMAIN uiq : uiq[i].ev # "connectFinished"
    <3>1. ~Finished
      BY <2>7 DEF CallsInv
    <3>2. \A i \in DOMAIN uiq : uiq[i] \in UiEvents
      BY <1>0
    <3> QED
      BY <3>1, <3>2 DEF Finished, Has, Results, EventsOf
  <2>9. \A i \in DOMAIN ui.toCtl : ui.toCtl[i].op # "request"
    <3>1. \A i \in DOMAIN ui.toCtl : ui.toCtl[i] \in Calls
      BY <1>0
    <3>2. Once(ui.toCtl, Opening)
      BY DEF CallsInv, CtlOrder
    <3>3. Head(ui.toCtl) \in Opening
      BY <2>6 DEF Opening, CallsOf
    <3>4. \A i \in DOMAIN ui.toCtl : ui.toCtl[i] \in Opening => i = 1
      BY <2>6, <3>2, <3>3 DEF Once
    <3>5. \A i \in DOMAIN ui.toCtl : ui.toCtl[i].op = "request" => ui.toCtl[i] \in Opening
      BY <3>1 DEF Opening, CallsOf
    <3>6. ui.toCtl[1].op # "request"
      BY <2>6
    <3> QED
      BY <3>4, <3>5, <3>6
  <2>10. DOMAIN ioq' = {} /\ DOMAIN sendq' = {}
    BY <2>1, <2>2, <2>5
  <2> QED
    BY <2>1, <2>2, <2>5, <2>8, <2>9, <2>10 DEF SessInv, UpFor
<1>8. CASE io_send
  <2>1. ioq # << >> /\ ioq' = Tail(ioq)
        /\ UNCHANGED <<ui, uiq, ctl, sock, workers, sendq>>
    BY <1>8 DEF io_send, NextIo
  <2>2. \A i \in DOMAIN ioq' : \E k \in DOMAIN ioq : ioq'[i] = ioq[k]
    BY <1>0, <2>1, TailMembers
  <2> QED
    BY <1>k, <2>1, <2>2 DEF SessInv
<1>9. CASE ui_hub_message \/ ui_connection_disconnected
  <2>1. PICK e \in UiEvents : /\ uiq # << >> /\ uiq' = Append(Tail(uiq), e)
                              /\ e.ev # "connectFinished"
    <3>1. /\ Event("netError") \in UiEvents /\ Event("netError").ev # "connectFinished"
          /\ Event("networkDisconnected") \in UiEvents
          /\ Event("networkDisconnected").ev # "connectFinished"
      BY ConstantTypes DEF Event, UiEvents, Actions
    <3> QED
      BY <1>9, <3>1 DEF ui_hub_message, ui_connection_disconnected
  <2>2. /\ Tail(uiq) \in Seq(UiEvents)
        /\ \A i \in DOMAIN Tail(uiq) : \E k \in DOMAIN uiq : Tail(uiq)[i] = uiq[k]
    BY <1>0, <2>1, TailMembers
  <2>3. \A i \in DOMAIN uiq' : uiq'[i] = e \/ \E k \in DOMAIN Tail(uiq) : uiq'[i] = Tail(uiq)[k]
    BY <2>1, <2>2, AppendMembers
  <2>4. \A i \in DOMAIN uiq' : uiq'[i].ev = "connectFinished" => UpFor(uiq'[i].sess)
    BY <2>1, <2>2, <2>3 DEF SessInv
  <2>5. UNCHANGED <<ui, ctl, ioq, sock, workers, sendq>>
    BY <1>9 DEF ui_hub_message, ui_connection_disconnected
  <2> QED
    BY <1>k, <2>4, <2>5 DEF SessInv
<1>10. CASE ui_slot \/ ui_timer \/ (\E act \in UserActions : user_request(act))
            \/ user_close_window
  <2>1. UNCHANGED <<ctl, ioq, sock, workers, sendq>> /\ UiStep
    BY <1>10, UiStepEffect
  <2>2. \A i \in DOMAIN uiq' : \E k \in DOMAIN uiq : uiq'[i] = uiq[k]
    <3>1. CASE uiq # << >> /\ uiq' = Tail(uiq)
      BY <1>0, <3>1, TailMembers
    <3>2. CASE uiq' = uiq
      BY <3>2
    <3> QED
      BY <2>1, <3>1, <3>2, UiPosts
  <2>3. \A i \in DOMAIN ui'.toCtl : ui'.toCtl[i].op = "request" => UpFor(ui'.toCtl[i].sess)
    <3>1. CASE ui'.toCtl = ui.toCtl
      BY <3>1 DEF SessInv
    <3>2. ASSUME NEW call \in Calls, ui'.toCtl = Append(ui.toCtl, call),
                 call.op = "request" => /\ uiq # << >>
                                        /\ Head(uiq).ev = "connectFinished"
                                        /\ call.sess = Head(uiq).sess
          PROVE  \A i \in DOMAIN ui'.toCtl :
                   ui'.toCtl[i].op = "request" => UpFor(ui'.toCtl[i].sess)
      <4>1. \A i \in DOMAIN ui'.toCtl : \/ ui'.toCtl[i] = call
                                        \/ \E k \in DOMAIN ui.toCtl : ui'.toCtl[i] = ui.toCtl[k]
        BY <1>0, <3>2, AppendMembers, SMTT(20)
      <4>2. call.op = "request" => UpFor(call.sess)
        BY <1>0, <3>2, TailMembers DEF SessInv
      <4> QED
        BY <4>1, <4>2 DEF SessInv
    <3> QED
      BY <2>1, <3>1, <3>2, UiPosts
  <2>4. ctl'.pc \in {"returned", "rejoining", "launching"} => UpFor(Head(ui'.toCtl).sess)
    <3>1. ctl.pc # "idle" => ui.toCtl # << >>
      BY DEF IoInv, NextCall
    <3>2. ui.toCtl # << >> => Head(ui'.toCtl) = Head(ui.toCtl)
      BY <2>1, UiKeepsHead
    <3> QED
      BY <2>1, <3>1, <3>2 DEF SessInv
  <2> QED
    BY <1>k, <2>1, <2>2, <2>3, <2>4 DEF SessInv
<1>11. CASE UNCHANGED sessionVars
  BY <1>11 DEF sessionVars, SessInv, UpFor
<1> QED
  BY <1>1, <1>2, <1>3, <1>4, <1>5, <1>6, <1>7, <1>8, <1>9, <1>10, <1>11, NextIsStep
  DEF Step

-----------------------------------------------------------------------------
(***************************************************************************)
(* Connections that are up, and what is written to them.                   *)
(***************************************************************************)
\* A connection attempt that has succeeded is still to be reported.
Succeeds == \E i \in DOMAIN uiq : uiq[i].ev = "connectFinished" /\ uiq[i].ok
Starting == ctl.pc \in {"returned", "rejoining", "launching"} /\ ctl.ok

LEMMA OpenStep ==
    ASSUME TypeOK, IoInv, CallsInv, FlagsInv, OpenInv, [Next]_sessionVars, Calm, Calm'
    PROVE  OpenInv'
<1>0. /\ ui.toCtl \in Seq(Calls) /\ ioq \in Seq(IoCalls) /\ uiq \in Seq(UiEvents)
      /\ ctl \in CtlStates /\ sock \in Socks /\ ui \in UiStates
      /\ CtlOrder /\ IoOrder /\ UiOrder
  BY Queues DEF TypeOK, CtlStates, Socks, CallsInv
<1>a. sock.state = "open" => ui.active \/ Starting \/ Succeeds \/ Closes \/ IoCloses
  BY DEF OpenInv, Starting, Succeeds
<1>b. SUFFICES sock'.state = "open" =>
                 ui'.active \/ Starting' \/ Succeeds' \/ Closes' \/ IoCloses'
  BY DEF OpenInv, Starting, Succeeds
<1>k. uiq' = uiq => Succeeds' = Succeeds
  BY DEF Succeeds
<1>u. ASSUME NEW e \in UiEvents, uiq' = Append(uiq, e)
      PROVE  (Succeeds => Succeeds') /\ (e.ev = "connectFinished" /\ e.ok => Succeeds')
  <2>1. /\ \E i \in DOMAIN uiq' : uiq'[i] = e
        /\ \A k \in DOMAIN uiq : \E i \in DOMAIN uiq' : uiq'[i] = uiq[k]
    <3> DEFINE r == Append(uiq, e)
    <3>1. /\ \E i \in DOMAIN r : r[i] = e
          /\ \A k \in DOMAIN uiq : \E i \in DOMAIN r : r[i] = uiq[k]
      <4>1. uiq \in Seq(UiEvents) /\ e \in UiEvents
        BY <1>0, <1>u
      <4>2. /\ Len(uiq) \in Nat /\ DOMAIN uiq = 1 .. Len(uiq)
            /\ DOMAIN r = 1 .. Len(uiq) + 1 /\ r[Len(uiq) + 1] = e
            /\ \A i \in 1 .. Len(uiq) : r[i] = uiq[i]
        BY <4>1, Appended
      <4> HIDE DEF r
      <4>3. \A k \in DOMAIN uiq : k \in DOMAIN r /\ r[k] = uiq[k]
        BY <4>2
      <4>4. Len(uiq) + 1 \in DOMAIN r
        BY <4>2
      <4> QED
        BY <4>2, <4>3, <4>4
    <3>2. uiq' = r
      BY <1>u
    <3> QED
      BY <3>1, <3>2
  <2> QED
    BY <2>1 DEF Succeeds
<1>t. ASSUME uiq # << >>, uiq' = Tail(uiq), Succeeds
      PROVE  Succeeds' \/ (Head(uiq).ev = "connectFinished" /\ Head(uiq).ok)
  <2>1. PICK k \in DOMAIN uiq : uiq[k].ev = "connectFinished" /\ uiq[k].ok
    BY <1>t DEF Succeeds
  <2>2. uiq[k] = Head(uiq) \/ \E i \in DOMAIN Tail(uiq) : Tail(uiq)[i] = uiq[k]
    BY <1>0, <1>t, TailMembers
  <2> QED
    BY <1>t, <2>1, <2>2 DEF Succeeds
<1>e. \A name \in {"hub:netError", "netError", "networkDisconnected"} :
        Event(name) \in UiEvents
  BY ConstantTypes DEF Event, UiEvents, Actions
<1>1. CASE \E w \in workers : worker_check(w) \/ worker_pop(w) \/ worker_send(w)
  <2>1. PICK w \in workers : worker_check(w) \/ worker_pop(w) \/ worker_send(w)
    BY <1>1
  <2>2. w.msg \in Requests /\ [op |-> "send", sess |-> w.msg] \in IoCalls
    BY <2>1 DEF TypeOK, IoCalls
  <2>3. /\ ui' = ui /\ uiq' = uiq /\ sock' = sock /\ ctl' = ctl
        /\ ioq' = ioq \/ ioq' = Append(ioq, [op |-> "send", sess |-> w.msg])
    BY <2>1 DEF worker_check, worker_pop, worker_send
  <2>4. IoCloses => IoCloses'
    <3>1. CASE ioq' = ioq
      BY <3>1, SameQueues
    <3>2. CASE ioq' = Append(ioq, [op |-> "send", sess |-> w.msg])
      BY <2>2, <3>2, IoAppend
    <3> QED
      BY <2>3, <3>1, <3>2
  <2> QED
    BY <1>a, <1>k, <2>3, <2>4, SameQueues DEF Starting
<1>2. CASE connect_stop_worker \/ start_send_worker_stop \/ start_send_worker_epoch
  <2>1. UNCHANGED <<ui, uiq, ioq, sock>> /\ (Starting => Starting')
    <3>1. CASE connect_stop_worker
      BY <3>1 DEF connect_stop_worker, Starting
    <3>2. CASE start_send_worker_stop
      BY <1>0, <3>2 DEF start_send_worker_stop, Starting, CtlStates
    <3>3. CASE start_send_worker_epoch
      BY <1>0, <3>3 DEF start_send_worker_epoch, Starting, CtlStates
    <3> QED
      BY <1>2, <3>1, <3>2, <3>3
    DEF connect_stop_worker, start_send_worker_stop, start_send_worker_epoch
  <2> QED
    BY <1>a, <1>k, <2>1, SameQueues
<1>3. CASE connect_call_io
  <2>1. /\ UNCHANGED <<ui, uiq, sock>> /\ ~Starting
        /\ ioq' = Append(ioq, [op |-> "connect", sess |-> Head(ui.toCtl).sess])
        /\ ui.toCtl # << >>
    BY <1>3 DEF connect_call_io, Starting, IoInv, NextCall
  <2>2. [op |-> "connect", sess |-> Head(ui.toCtl).sess] \in IoCalls
    <3>1. Head(ui.toCtl) \in Calls
      BY <1>0, <2>1, Shifted
    <3>2. Head(ui.toCtl).sess \in Requests
      BY <3>1 DEF Calls
    <3> QED
      BY <3>2 DEF IoCalls
  <2>3. IoCloses => IoCloses'
    BY <2>1, <2>2, IoAppend
  <2> QED
    BY <1>a, <1>k, <2>1, <2>3, SameQueues
<1>4. CASE start_send_worker_launch \/ connect_failed
  <2>1. /\ NextCall("connect") /\ CallDone /\ UNCHANGED <<ioq, sock>>
        /\ uiq' = Append(uiq, [ev |-> "connectFinished", ok |-> ctl.ok,
                               act |-> Head(ui.toCtl).act, sess |-> Head(ui.toCtl).sess])
        /\ ctl.pc # "idle"
    BY <1>4 DEF start_send_worker_launch, connect_failed, Finish, IoInv
  <2>2. /\ ui'.toCtl = Tail(ui.toCtl) /\ ui'.active = ui.active
        /\ Head(ui.toCtl).sess \in Requests /\ Head(ui.toCtl).act \in Actions
    BY <2>1, CallDoneEffect DEF NextCall
  <2>3. (Succeeds => Succeeds') /\ (ctl.ok => Succeeds')
    <3> DEFINE e == [ev |-> "connectFinished", ok |-> ctl.ok,
                     act |-> Head(ui.toCtl).act, sess |-> Head(ui.toCtl).sess]
    <3>1. e \in UiEvents /\ e.ev = "connectFinished" /\ e.ok = ctl.ok
      BY <1>0, <2>2 DEF UiEvents, CtlStates
    <3>2. uiq' = Append(uiq, e)
      BY <2>1
    <3> HIDE DEF e
    <3> QED
      BY <1>u, <3>1, <3>2
  <2>4. Closes' <=> Closes
    BY <1>0, <2>1, <2>2, CtlTail DEF NextCall
  <2> QED
    BY <1>a, <2>1, <2>2, <2>3, <2>4, SameQueues DEF Starting
<1>5. CASE request_slot
  <2>1. NextCall("request") /\ CallDone /\ UNCHANGED <<ioq, uiq, sock, ctl>>
    BY <1>5 DEF request_slot
  <2>2. ui'.toCtl = Tail(ui.toCtl) /\ ui'.active = ui.active
    BY <2>1, CallDoneEffect DEF NextCall
  <2>3. Closes' <=> Closes
    BY <1>0, <2>1, <2>2, CtlTail DEF NextCall
  <2> QED
    BY <1>a, <1>k, <2>1, <2>2, <2>3, SameQueues DEF Starting
<1>6. CASE disconnect_from_host_slot
  <2>1. ioq' = Append(ioq, [op |-> "disconnect", sess |-> 0])
    BY <1>6 DEF disconnect_from_host_slot
  <2>2. [op |-> "disconnect", sess |-> 0] \in IoCalls
    BY ConstantTypes DEF IoCalls
  <2>3. IoCloses'
    BY <2>1, <2>2, IoAppend
  <2> QED
    BY <2>3
<1>7. CASE io_connect_begin \/ io_disconnect \/ io_socket_error
           \/ (\E ok \in BOOLEAN : ~ok /\ io_connect_end(ok))
  <2>1. CASE io_connect_begin
    BY <2>1 DEF io_connect_begin
  <2>2. CASE io_disconnect \/ \E ok \in BOOLEAN : ~ok /\ io_connect_end(ok)
    <3>1. sock' = NoSocket
      BY <2>2 DEF io_disconnect, io_connect_end
    <3> QED
      BY <3>1 DEF NoSocket
  <2>3. CASE io_socket_error
    BY <1>0, <2>3 DEF io_socket_error, Socks
  <2> QED
    BY <1>7, <2>1, <2>2, <2>3
<1>8. CASE io_connect_end(TRUE)
  BY <1>0, <1>8 DEF io_connect_end, Starting, CtlStates
<1>9. CASE io_send
  <2>1. /\ ioq # << >> /\ Head(ioq).op = "send" /\ ioq' = Tail(ioq)
        /\ UNCHANGED <<ui, uiq, sock, ctl>>
    BY <1>9 DEF io_send, NextIo
  <2>2. IoCloses' <=> IoCloses
    BY <1>0, <2>1, IoTail
  <2> QED
    BY <1>a, <1>k, <2>1, <2>2, SameQueues DEF Starting
<1>10. CASE ui_hub_message \/ ui_connection_disconnected
  <2>1. PICK e \in UiEvents : uiq' = Append(Tail(uiq), e)
    BY <1>10, <1>e DEF ui_hub_message, ui_connection_disconnected
  <2>2. /\ uiq # << >> /\ Head(uiq).ev # "connectFinished"
        /\ UNCHANGED <<ui, ioq, sock, ctl>>
    BY <1>10 DEF ui_hub_message, ui_connection_disconnected
  <2>3. Succeeds => Succeeds'
    <3>1. ASSUME Succeeds PROVE Succeeds'
      <4>1. PICK k \in DOMAIN uiq : uiq[k].ev = "connectFinished" /\ uiq[k].ok
        BY <3>1 DEF Succeeds
      <4>2. Tail(uiq) \in Seq(UiEvents) /\ \E i \in DOMAIN Tail(uiq) : Tail(uiq)[i] = uiq[k]
        BY <1>0, <2>2, <4>1, TailMembers
      <4>3. \E i \in DOMAIN uiq' : uiq'[i] = uiq[k]
        BY <2>1, <4>2, AppendMembers, SMTT(20)
      <4> QED
        BY <4>1, <4>3 DEF Succeeds
    <3> QED
      BY <3>1
  <2> QED
    BY <1>a, <2>2, <2>3, SameQueues DEF Starting
<1>11. CASE ui_slot \/ ui_timer \/ (\E act \in UserActions : user_request(act))
            \/ user_close_window
  <2>1. UNCHANGED <<ctl, ioq, sock>> /\ UiStep
    BY <1>11, UiStepEffect
  <2>2. (Starting' <=> Starting) /\ (IoCloses' <=> IoCloses)
    BY <2>1, SameQueues DEF Starting
  <2>3. /\ \A call \in Calls : ui'.toCtl = Append(ui.toCtl, call) =>
             (Closes => Closes') /\ (call.op = "disconnect" => Closes')
        /\ ui'.toCtl = ui.toCtl => (Closes' <=> Closes)
    BY CtlAppend, SameQueues
  <2>4. Closes => Closes'
    BY <2>1, <2>3, UiPosts
  <2>5. ui'.toCtl = Append(ui.toCtl, DisconnectSlot) => Closes'
    BY <2>3, ConstantTypes
  <2>6. ui.active => ui'.active \/ Closes'
    <3>1. ui.active => ~ui.ending /\ ~Attempt /\ ~Noticed
      BY DEF FlagsInv, Leaving
    <3>2. Slot("networkDisconnected") => Noticed
      BY <1>0, UiTail DEF Slot
    <3>3. ~Discards(ui, ui')
      BY DEF Discards, Calm
    <3> QED
      BY <2>1, <2>5, <3>1, <3>2, <3>3
      DEF UiStep, Ends, Fails, NotNeeded, AsksFor, Connects
  <2>7. Succeeds => Succeeds' \/ ui'.active \/ Closes'
    <3>1. CASE uiq' = uiq
      BY <1>k, <3>1
    <3>2. CASE uiq # << >> /\ uiq' = Tail(uiq) /\ Head(uiq).ev # "connectFinished"
      BY <1>t, <3>2
    <3>3. CASE Slot("connectFinished")
      <4>1. Head(uiq).ok => NotNeeded(ui, ui') \/ AsksFor(ui, ui', Head(uiq).sess)
                            \/ uiq' = uiq
        BY <2>1, <3>3 DEF UiStep, Slot, Discards, Calm
      <4> QED
        BY <1>k, <1>t, <2>5, <3>3, <4>1 DEF Slot, NotNeeded, AsksFor
    <3> QED
      BY <2>1, <3>1, <3>2, <3>3 DEF UiStep, Slot
  <2> QED
    BY <1>a, <2>1, <2>2, <2>4, <2>6, <2>7
<1>12. CASE UNCHANGED sessionVars
  BY <1>12, <1>a, <1>k, SameQueues DEF sessionVars, Starting
<1> QED
  BY <1>1, <1>2, <1>3, <1>4, <1>5, <1>6, <1>7, <1>8, <1>9, <1>10, <1>11, <1>12,
     NextIsStep
  DEF Step

LEMMA WireStep ==
    ASSUME TypeOK, SessInv, WireInv, [Next]_sessionVars
    PROVE  WireInv'
<1>1. CASE io_send
  <2>1. /\ ioq # << >> /\ Head(ioq).op = "send"
        /\ wire' = IF sock.state = "open"
                   THEN wire \cup {<<sock.sess, Head(ioq).sess>>} ELSE wire
    BY <1>1 DEF io_send, NextIo
  <2>2. Head(ioq) = ioq[1] /\ 1 \in DOMAIN ioq
    BY <2>1, Queues, TailMembers
  <2>3. sock.state = "open" => sock.sess = Head(ioq).sess
    BY <2>1, <2>2 DEF SessInv, UpFor
  <2> QED
    BY <2>1, <2>3 DEF WireInv
<1>2. CASE wire' = wire
  BY <1>2 DEF WireInv
<1>3. CASE ui_slot \/ ui_timer \/ (\E act \in UserActions : user_request(act))
           \/ user_close_window
  BY <1>2, <1>3, UiStepEffect
<1> QED
  BY <1>1, <1>2, <1>3, NextIsStep
  DEF Step, worker_check, worker_pop, worker_send, connect_stop_worker, connect_call_io,
      start_send_worker_stop, start_send_worker_epoch, start_send_worker_launch,
      connect_failed, request_slot, disconnect_from_host_slot, io_connect_begin,
      io_connect_end, io_disconnect, io_socket_error, ui_hub_message,
      ui_connection_disconnected, sessionVars
-----------------------------------------------------------------------------
(***************************************************************************)
(* Theorems.                                                               *)
(***************************************************************************)
IInv ==
    /\ TypeOK /\ SenderInv /\ IoInv
    /\ Calm => CallsInv /\ FlagsInv /\ SessInv /\ OpenInv /\ WireInv

LEMMA InitInv == ASSUME Init PROVE IInv
<1>1. TypeOK
  BY SessionAssumption
  DEF Init, TypeOK, UiStates, Actions, Requests, NoConnect, NoSocket, NoThread
<1>2. SenderInv /\ IoInv
  BY DEF Init, SenderInv, IoInv, NoSocket
<1>3. CallsInv /\ FlagsInv
  <2>1. ui.toCtl = << >> /\ ioq = << >> /\ uiq = << >>
    BY DEF Init
  <2>2. \A T, U : ~Has(<< >>, T) /\ Once(<< >>, T) /\ Before(<< >>, T, U)
    BY DEF Has, Once, Before
  <2> QED
    BY <2>1, <2>2
    DEF Init, CallsInv, FlagsInv, CtlOrder, IoOrder, UiOrder, Connecting, Asks, Closes,
        IoCloses, Noticed, Finished, Attempt, Leaving
<1>4. SessInv /\ OpenInv /\ WireInv
  BY DEF Init, SessInv, OpenInv, WireInv, NoSocket, UpFor
<1> QED
  BY <1>1, <1>2, <1>3, <1>4 DEF IInv

\* The invariant holds in every run: each action keeps each of its parts.
LEMMA Inductive == Spec => []IInv
<1>1. Init => IInv
  BY InitInv
<1>2. IInv /\ [Next]_sessionVars => IInv'
  <2> SUFFICES ASSUME IInv, [Next]_sessionVars PROVE IInv'
    OBVIOUS
  <2>1. TypeOK' /\ IoInv' /\ SenderInv'
    BY TypeStep, IoStep, SenderStep DEF IInv
  <2>2. ASSUME Calm' PROVE (CallsInv /\ FlagsInv /\ SessInv /\ OpenInv /\ WireInv)'
    <3>1. Calm
      BY <2>2, CalmBefore DEF IInv
    <3> QED
      BY <2>2, <3>1, CallsStep, SessStep, OpenStep, WireStep DEF IInv
  <2> QED
    BY <2>1, <2>2 DEF IInv
<1> QED
  BY <1>1, <1>2, PTL DEF Spec

\* Every variable of the session keeps its type, whatever the threads do.
THEOREM TypeCorrect == Spec => []TypeOK
<1>1. IInv => TypeOK
  BY DEF IInv
<1> QED
  BY <1>1, Inductive, PTL

\* stop_send_worker, stop_send_worker_async and start_send_worker never let
\* two send_loops run, on whichever threads they are called.
THEOREM OneSenderAtATime == Spec => []OneSender
<1>1. IInv => OneSender
  <2> SUFFICES ASSUME IInv PROVE Cardinality(workers) <= 1
    BY DEF OneSender
  <2>1. CASE workers = {}
    BY <2>1, FS_EmptySet
  <2>2. CASE workers # {}
    <3>1. PICK w \in workers : TRUE
      BY <2>2
    <3>2. workers = {w}
      BY <3>1 DEF IInv, SenderInv
    <3>3. Cardinality({w}) = 1
      BY FS_Singleton
    <3> QED
      BY <3>2, <3>3
  <2> QED
    BY <2>1, <2>2
<1> QED
  BY <1>1, Inductive, PTL

\* While no timer has overtaken a disconnection and no connection has been
\* discarded, send_loop and sendWireData write a request to the connection it
\* was made for and to no other.
THEOREM RequestsAreForTheirSession == Spec => []RequestsStayInSession
<1>1. IInv => RequestsStayInSession
  BY DEF IInv, Calm, WireInv, RequestsStayInSession
<1> QED
  BY <1>1, Inductive, PTL

\* Under the same conditions, a client whose threads are done and whose window
\* is in no session holds no connection.
THEOREM NothingLeaks == Spec => []NoLeakedConnection
<1>1. IInv => NoLeakedConnection
  <2> SUFFICES ASSUME IInv, Quiet, ~ui.active, ~ui.overtaking, ~ui.discarded
               PROVE  sock.state \in {"none", "dead"}
    BY DEF NoLeakedConnection
  <2>1. OpenInv /\ IoInv /\ sock \in Socks
    BY DEF IInv, Calm, TypeOK, Socks
  <2>2. uiq = << >> /\ ui.toCtl = << >> /\ ioq = << >> /\ ctl.pc = "idle"
    BY DEF Quiet
  <2>3. ~Closes /\ ~IoCloses
    BY <2>2 DEF Closes, IoCloses, Has
  <2>4. sock.state # "open"
    BY <2>1, <2>2, <2>3 DEF OpenInv
  <2>5. sock.state # "connecting"
    BY <2>1, <2>2 DEF IoInv
  <2> QED
    BY <2>1, <2>4, <2>5 DEF Socks
<1> QED
  BY <1>1, Inductive, PTL
=============================================================================
