----------------------------- MODULE ChatProofs -----------------------------
(***************************************************************************)
(* Theorems about Chat, for any number of sessions, of texts and of        *)
(* messages from others: the mark "sent" is on the right row, the list     *)
(* shows no other session, and reports come in the order of the texts.     *)
(***************************************************************************)
EXTENDS Chat, SequenceTheorems, TLAPS

RowSet == [kind : {"time", "mine", "theirs"}, n : 0 .. MaxTexts,
           session : 0 .. MaxSessions, sent : BOOLEAN]
EventSet == [type : {"sent", "text", "member", "disconnected"}, n : 0 .. MaxTexts]
SessionSet(t) == [n : 0 .. MaxSessions, state : {"none", "active", "ending"}, before : 0 .. t]
WorkerSet(t) == [pc : {"ended", "loop", "popped", "send"}, text : 0 .. t, stop : BOOLEAN]

TimeRow == Row("time", NoText)
Sent(e) == e.type = "sent"
Mine(row) == row.kind = "mine"
-----------------------------------------------------------------------------
(***************************************************************************)
(* The inductive invariant.                                                *)
(***************************************************************************)
\* The worker has a text in its hand between its two looks at the epoch and
\* until it is sent; what is reported was written.
HandInv == worker.text # NoText <=> worker.pc \in {"popped", "send"}

EventInv == \A i \in DOMAIN uiq : Sent(uiq[i]) => uiq[i].n \in 1 .. texts

\* Reported, posted, in the hand, in the queue: in the order of writing, and
\* what a worker has or will get is of its own session.
PostedInv ==
    \A i \in DOMAIN uiq : Sent(uiq[i]) =>
        /\ \A j \in DOMAIN uiq : i < j /\ Sent(uiq[j]) => uiq[i].n < uiq[j].n
        /\ \A n \in reported : n < uiq[i].n
        /\ worker.text # NoText => uiq[i].n < worker.text
        /\ ~worker.stop => \A k \in DOMAIN sendq : uiq[i].n < sendq[k]

InHandInv ==
    worker.text # NoText =>
        /\ \A n \in reported : n < worker.text
        /\ worker.text > session.before
        /\ ~worker.stop => \A k \in DOMAIN sendq : worker.text < sendq[k]

QueuedInv ==
    ~worker.stop => \A k \in DOMAIN sendq :
        /\ \A l \in DOMAIN sendq : k < l => sendq[k] < sendq[l]
        /\ \A n \in reported : n < sendq[k]
        /\ sendq[k] > session.before

\* One notice of the disconnection at most, and the session waits for it.
EndingInv ==
    \A i \in DOMAIN uiq : uiq[i].type = "disconnected" =>
        /\ session.state = "ending" /\ worker.stop
        /\ \A j \in DOMAIN uiq : uiq[j].type = "disconnected" => i = j

PathInv == HandInv /\ EventInv /\ PostedInv /\ InHandInv /\ QueuedInv

\* What a clear has left in the queue is a case of its own.
KeptInv == (kept => stray) /\ (~kept => PathInv)

\* The texts in the list are in the order of writing, after a time.
RowsInv ==
    /\ \A i \in DOMAIN rows : Mine(rows[i]) =>
          /\ rows[i].n \in 1 .. texts
          /\ \A j \in DOMAIN rows : i < j /\ Mine(rows[j]) => rows[i].n < rows[j].n
    /\ rows # << >> => rows[1].kind = "time"

\* In a session only the text written last can lack its report, and then it is
\* the last row and the button is off; outside there is nothing in the list.
Unreported == texts > session.before /\ texts \notin reported

SessionInv ==
    ~stray =>
        /\ Active =>
              /\ \A n \in session.before + 1 .. texts - 1 : n \in reported
              /\ \A i \in DOMAIN rows : rows[i].session = session.n
              /\ Unreported => /\ rows # << >> /\ ~sendmsg
                               /\ Mine(rows[Len(rows)]) /\ rows[Len(rows)].n = texts
        /\ ~Active => rows = << >> /\ ~sendmsg

IInv == TypeOK /\ HandInv /\ EventInv /\ KeptInv /\ EndingInv /\ RowsInv /\ SessionInv /\ OwnTextIsMarked
-----------------------------------------------------------------------------
(***************************************************************************)
(* The list.                                                               *)
(***************************************************************************)
LEMMA RowType ==
    ASSUME TypeOK, NEW kind \in {"time", "mine", "theirs"}, NEW n \in 0 .. MaxTexts
    PROVE  Row(kind, n) \in RowSet
BY DEF TypeOK, Row, RowSet

\* What is shown comes last, perhaps after a time, and after what was there;
\* in an empty list the time comes first.
LEMMA ShownFacts ==
    ASSUME TypeOK, NEW row \in RowSet, NEW q \in Shown(rows, row)
    PROVE  /\ q \in Seq(RowSet) /\ Len(q) > Len(rows) /\ q[Len(q)] = row
           /\ \A i \in 1 .. Len(rows) : q[i] = rows[i]
           /\ \A i \in Len(rows) + 1 .. Len(q) - 1 : q[i] = TimeRow
           /\ rows = << >> => q[1] = TimeRow
<1>0. rows \in Seq(RowSet) /\ TimeRow \in RowSet
  BY RowType, ChatAssumption DEF TypeOK, RowSet, TimeRow, NoText
<1>1. CASE q = Append(Append(rows, TimeRow), row)
  BY <1>0, <1>1
<1>2. CASE q = Append(rows, row) /\ rows # << >>
  BY <1>0, <1>2
<1> QED
  BY <1>1, <1>2 DEF Shown, Timed, TimeRow
-----------------------------------------------------------------------------
(***************************************************************************)
(* Types.                                                                  *)
(***************************************************************************)
LEMMA TypeNow ==
    TypeOK <=>
        /\ rows \in Seq(RowSet)
        /\ {sendmsg, inRoom, crashed, stray, kept} \subseteq BOOLEAN
        /\ session \in SessionSet(texts)
        /\ uiq \in Seq(EventSet)
        /\ sendq \in Seq(1 .. texts)
        /\ worker \in WorkerSet(texts)
        /\ texts \in 0 .. MaxTexts /\ others \in 0 .. MaxOthers
        /\ reported \subseteq 1 .. texts
BY DEF TypeOK, RowSet, SessionSet, EventSet, WorkerSet

LEMMA InitIInv == Init => IInv
<1> SUFFICES ASSUME Init PROVE IInv
  OBVIOUS
<1>1. TypeOK
  <2>1. session \in SessionSet(texts) /\ worker \in WorkerSet(texts)
    BY ChatAssumption DEF Init, SessionSet, WorkerSet, NoText
  <2>2. rows \in Seq(RowSet) /\ uiq \in Seq(EventSet) /\ sendq \in Seq(1 .. texts)
    BY DEF Init
  <2> QED
    <3>1. texts \in 0 .. MaxTexts /\ others \in 0 .. MaxOthers /\ reported \subseteq 1 .. texts
      BY ChatAssumption DEF Init
    <3>2. {sendmsg, inRoom, crashed, stray, kept} \subseteq BOOLEAN
      BY DEF Init
    <3> QED
      BY <2>1, <2>2, <3>1, <3>2 DEF TypeOK, RowSet, SessionSet, EventSet, WorkerSet
<1>2. PathInv
  BY DEF Init, PathInv, HandInv, EventInv, PostedInv, InHandInv, QueuedInv, NoText
<1>5. HandInv /\ EventInv /\ KeptInv
  BY <1>2 DEF Init, PathInv, KeptInv
<1>3. RowsInv /\ SessionInv /\ OwnTextIsMarked
  BY DEF Init, RowsInv, SessionInv, OwnTextIsMarked, Active
<1>4. EndingInv
  BY DEF Init, EndingInv
<1> QED
  BY <1>1, <1>3, <1>4, <1>5 DEF IInv

LEMMA PostType ==
    ASSUME TypeOK, NEW t \in {"sent", "text", "member", "disconnected"},
           NEW n \in 0 .. MaxTexts, uiq' = Append(uiq, Event(t, n))
    PROVE  uiq' \in Seq(EventSet)
<1>1. Event(t, n) \in EventSet
  BY DEF Event, EventSet
<1> QED
  BY <1>1, TypeNow

LEMMA TakeType ==
    ASSUME TypeOK, NEW t, Take(t)
    PROVE  /\ uiq' \in Seq(EventSet) /\ Head(uiq) \in EventSet /\ Head(uiq).type = t
           /\ uiq # << >> /\ uiq' = Tail(uiq) /\ Head(uiq) = uiq[1] /\ ~crashed
BY TypeNow DEF Take, Alive

\* Where the worker goes, and with what in its hand.
LEMMA WorkerMoves ==
    ASSUME TypeOK
    PROVE  /\ \A pc \in {"ended", "loop", "popped", "send"} :
                 /\ [worker EXCEPT !.pc = pc] \in WorkerSet(texts)
                 /\ \A t \in 0 .. texts :
                       [worker EXCEPT !.pc = pc, !.text = t] \in WorkerSet(texts)
           /\ [worker EXCEPT !.stop = TRUE] \in WorkerSet(texts)
           /\ 0 \in 0 .. texts /\ 1 .. texts \subseteq 0 .. texts
<1>1. worker \in WorkerSet(texts) /\ texts \in Nat
  BY TypeNow, ChatAssumption
<1>2. ASSUME NEW pc \in {"ended", "loop", "popped", "send"}
      PROVE  [worker EXCEPT !.pc = pc] \in WorkerSet(texts)
  BY <1>1 DEF WorkerSet
<1>3. ASSUME NEW pc \in {"ended", "loop", "popped", "send"}, NEW t \in 0 .. texts
      PROVE  [worker EXCEPT !.pc = pc, !.text = t] \in WorkerSet(texts)
  BY <1>1 DEF WorkerSet
<1>4. [worker EXCEPT !.stop = TRUE] \in WorkerSet(texts)
  BY <1>1 DEF WorkerSet
<1>5. 0 \in 0 .. texts /\ 1 .. texts \subseteq 0 .. texts
  BY <1>1
<1> QED
  BY <1>2, <1>3, <1>4, <1>5

LEMMA StepType ==
    ASSUME TypeOK, HandInv, EventInv, [Next]_vars
    PROVE  TypeOK'
<1>0. /\ rows \in Seq(RowSet)
      /\ {sendmsg, inRoom, crashed, stray, kept} \subseteq BOOLEAN
      /\ session \in SessionSet(texts)
      /\ uiq \in Seq(EventSet)
      /\ sendq \in Seq(1 .. texts)
      /\ worker \in WorkerSet(texts)
      /\ texts \in 0 .. MaxTexts /\ others \in 0 .. MaxOthers
      /\ reported \subseteq 1 .. texts
  BY TypeNow
<1>1. CASE UNCHANGED vars
  BY <1>1 DEF vars, uiVars, history, TypeOK
<1>2. CASE on_send_msg_clicked_slot
  <2>1. texts' = texts + 1 /\ texts' \in 0 .. MaxTexts
    BY <1>0, <1>2, ChatAssumption DEF on_send_msg_clicked_slot
  <2>2. rows' \in Seq(RowSet)
    BY <1>2, <2>1, RowType, ShownFacts DEF on_send_msg_clicked_slot
  <2>3. sendq' \in Seq(1 .. texts')
    <3>1. sendq \in Seq(1 .. texts')
      BY <1>0, <2>1
    <3>2. texts' \in 1 .. texts'
      BY <1>0, <2>1
    <3> QED
      BY <1>2, <3>1, <3>2 DEF on_send_msg_clicked_slot
  <2>4. session' \in SessionSet(texts') /\ worker' \in WorkerSet(texts')
    BY <1>0, <1>2, <2>1 DEF on_send_msg_clicked_slot, SessionSet, WorkerSet
  <2>5. reported' \subseteq 1 .. texts'
    BY <1>0, <1>2, <2>1 DEF on_send_msg_clicked_slot
  <2> QED
    BY <1>0, <1>2, <2>1, <2>2, <2>3, <2>4, <2>5
    DEF on_send_msg_clicked_slot, TypeOK, RowSet, SessionSet, EventSet, WorkerSet
<1>3. CASE on_text_send_slot
  <2>1. Head(uiq).n \in 1 .. texts /\ uiq' \in Seq(EventSet)
    <3>1. /\ Head(uiq).type = "sent" /\ Head(uiq) = uiq[1] /\ uiq # << >>
          /\ uiq' \in Seq(EventSet)
      BY <1>3, TakeType DEF on_text_send_slot
    <3>2. 1 \in DOMAIN uiq
      BY <1>0, <3>1
    <3> QED
      BY <3>1, <3>2 DEF EventInv, Sent
  <2>2. rows' \in Seq(RowSet)
    <3>1. CASE rows = << >>
      BY <1>0, <1>3, <3>1 DEF on_text_send_slot
    <3>2. CASE rows # << >>
      <4>1. rows' = [rows EXCEPT ![Len(rows)] = setTextSuccess(@)]
        BY <1>3, <3>2 DEF on_text_send_slot
      <4>2. Len(rows) \in DOMAIN rows /\ rows[Len(rows)] \in RowSet
        BY <1>0, <3>2
      <4>3. setTextSuccess(rows[Len(rows)]) \in RowSet
        BY <4>2 DEF setTextSuccess, RowSet
      <4> QED
        BY <1>0, <4>1, <4>2, <4>3
    <3> QED
      BY <3>1, <3>2
  <2>3. {sendmsg', crashed', stray'} \subseteq BOOLEAN
    BY <1>0, <1>3 DEF on_text_send_slot, Active
  <2> QED
    BY <1>0, <1>3, <2>1, <2>2, <2>3
    DEF on_text_send_slot, TypeOK, RowSet, SessionSet, EventSet, WorkerSet
<1>4. CASE handle_text_recv
  <2>1. rows' \in Seq(RowSet) /\ uiq' \in Seq(EventSet) /\ stray' \in BOOLEAN
    <3>1. 0 \in 0 .. MaxTexts
      BY ChatAssumption
    <3> QED
      BY <1>0, <1>4, <3>1, RowType, ShownFacts, TakeType
      DEF handle_text_recv, NoText, Active, Outstanding
  <2> QED
    BY <1>0, <1>4, <2>1
    DEF handle_text_recv, TypeOK, RowSet, SessionSet, EventSet, WorkerSet
<1>5. CASE handle_member
  <2>1. uiq' \in Seq(EventSet) /\ stray' \in BOOLEAN
    BY <1>0, <1>5, TakeType DEF handle_member, Active, Outstanding
  <2> QED
    BY <1>0, <1>5, <2>1
    DEF handle_member, TypeOK, RowSet, SessionSet, EventSet, WorkerSet
<1>6. CASE on_network_disconnected_slot
  <2>1. uiq' \in Seq(EventSet) /\ session' \in SessionSet(texts)
    BY <1>0, <1>6, TakeType DEF on_network_disconnected_slot, SessionSet
  <2> QED
    BY <1>0, <1>6, <2>1
    DEF on_network_disconnected_slot, history, TypeOK, RowSet, SessionSet, EventSet, WorkerSet
<1>7. CASE end_meeting_session
  <2>1. session' \in SessionSet(texts)
    BY <1>0, <1>7 DEF end_meeting_session, SessionSet
  <2>2. rows' \in Seq(RowSet)
    <3>1. rows' = << >>
      BY <1>7 DEF end_meeting_session
    <3> QED
      BY <3>1
  <2> QED
    BY <1>0, <1>7, <2>1, <2>2
    DEF end_meeting_session, history, TypeOK, RowSet, SessionSet, EventSet, WorkerSet
<1>8. CASE connect
  <2>1. session' \in SessionSet(texts) /\ worker' \in WorkerSet(texts)
    BY <1>0, <1>8, ChatAssumption DEF connect, SessionSet, WorkerSet, NoText
  <2>2. sendq' \in Seq(1 .. texts)
    <3>1. CASE sendq' = << >>
      BY <3>1
    <3>2. CASE sendq' = sendq
      BY <1>0, <3>2
    <3> QED
      BY <1>8, <3>1, <3>2 DEF connect
  <2>3. {stray', kept'} \subseteq BOOLEAN
    BY <1>0, <1>8 DEF connect
  <2> QED
    BY <1>0, <1>8, <2>1, <2>2, <2>3
    DEF connect, history, TypeOK, RowSet, SessionSet, EventSet, WorkerSet
<1>9. CASE worker_pop
  <2>1. CASE worker.stop
    <3>1. worker' \in WorkerSet(texts) /\ sendq' = sendq
      BY <1>9, <2>1, WorkerMoves DEF worker_pop
    <3> QED
      BY <1>0, <1>9, <3>1
      DEF worker_pop, uiVars, history, TypeOK, RowSet, SessionSet, EventSet, WorkerSet
  <2>2. CASE ~worker.stop
    <3>1. Head(sendq) \in 1 .. texts /\ sendq' \in Seq(1 .. texts)
      <4>1. sendq # << >> /\ sendq' = Tail(sendq)
        BY <1>9, <2>2 DEF worker_pop
      <4> QED
        BY <1>0, <4>1, HeadTailProperties
    <3>2. worker' = [worker EXCEPT !.pc = "popped", !.text = Head(sendq)]
      BY <1>9, <2>2 DEF worker_pop
    <3>3. worker' \in WorkerSet(texts)
      BY <1>0, <3>1, <3>2, WorkerMoves
    <3> QED
      BY <1>0, <1>9, <3>1, <3>3
      DEF worker_pop, uiVars, history, TypeOK, RowSet, SessionSet, EventSet, WorkerSet
  <2> QED
    BY <2>1, <2>2
<1>10. CASE worker_check
  <2>1. worker.text \in 1 .. texts
    BY <1>0, <1>10 DEF worker_check, HandInv, WorkerSet, NoText
  <2>2. worker' \in WorkerSet(texts)
    BY <1>0, <1>10, WorkerMoves DEF worker_check, NoText
  <2>3. sendq' \in Seq(1 .. texts)
    <3>1. sendq' = Append(sendq, worker.text) \/ sendq' = sendq
      BY <1>10 DEF worker_check
    <3>2. Append(sendq, worker.text) \in Seq(1 .. texts)
      BY <1>0, <2>1, AppendProperties
    <3> QED
      BY <1>0, <3>1, <3>2
  <2> QED
    BY <1>0, <1>10, <2>2, <2>3
    DEF worker_check, uiVars, history, TypeOK, RowSet, SessionSet, EventSet, WorkerSet
<1>11. CASE worker_send
  <2>1. worker' \in WorkerSet(texts)
    BY <1>0, <1>11, WorkerMoves DEF worker_send, NoText
  <2>2. worker.text \in 0 .. MaxTexts
    <3>1. worker.text \in 0 .. texts
      BY <1>0 DEF WorkerSet
    <3> QED
      BY <1>0, <3>1, ChatAssumption
  <2>3. uiq' \in Seq(EventSet)
    BY <1>11, <2>2, PostType DEF worker_send
  <2> QED
    BY <1>0, <1>11, <2>1, <2>3
    DEF worker_send, uiVars, history, TypeOK, RowSet, SessionSet, EventSet, WorkerSet
<1>12. CASE admit \/ receive \/ io_disconnect
  <2>1. NoText \in 0 .. MaxTexts
    BY ChatAssumption DEF NoText
  <2>2. uiq' \in Seq(EventSet)
    BY <1>12, <2>1, PostType DEF admit, receive, io_disconnect
  <2>3. others' \in 0 .. MaxOthers
    BY <1>0, <1>12, ChatAssumption DEF admit, receive, io_disconnect, history
  <2>4. worker' \in WorkerSet(texts) /\ sendq' \in Seq(1 .. texts)
    <3>1. \/ worker' = worker /\ sendq' = sendq
          \/ worker' = [worker EXCEPT !.stop = TRUE] /\ sendq' \in {<< >>, sendq}
      BY <1>12 DEF admit, receive, io_disconnect
    <3>2. << >> \in Seq(1 .. texts)
      OBVIOUS
    <3> QED
      BY <1>0, <3>1, <3>2, WorkerMoves
  <2> QED
    BY <1>0, <1>12, <2>2, <2>3, <2>4
    DEF admit, receive, io_disconnect, uiVars, history, TypeOK, RowSet, SessionSet,
        EventSet, WorkerSet
<1> QED
  BY <1>1, <1>2, <1>3, <1>4, <1>5, <1>6, <1>7, <1>8, <1>9, <1>10, <1>11, <1>12
  DEF Next, Slots, Worker

-----------------------------------------------------------------------------
(***************************************************************************)
(* The way of a text: one lemma for each kind of step.                     *)
(***************************************************************************)
LEMMA PathTypes ==
    ASSUME TypeOK
    PROVE  /\ uiq \in Seq(EventSet) /\ DOMAIN uiq = 1 .. Len(uiq) /\ Len(uiq) \in Nat
           /\ sendq \in Seq(1 .. texts) /\ DOMAIN sendq = 1 .. Len(sendq) /\ Len(sendq) \in Nat
           /\ \A k \in DOMAIN sendq : sendq[k] \in 1 .. texts
           /\ worker \in WorkerSet(texts) /\ worker.text \in 0 .. texts
           /\ texts \in Nat /\ reported \subseteq 1 .. texts
           /\ session.before \in 0 .. texts
<1>1. /\ uiq \in Seq(EventSet) /\ sendq \in Seq(1 .. texts)
      /\ worker \in WorkerSet(texts) /\ texts \in 0 .. MaxTexts /\ MaxTexts \in Nat
      /\ reported \subseteq 1 .. texts /\ session \in SessionSet(texts)
  BY TypeNow, ChatAssumption
<1>2. worker.text \in 0 .. texts /\ session.before \in 0 .. texts
  BY <1>1 DEF WorkerSet, SessionSet
<1> QED
  BY <1>1, <1>2

\* The user writes: the new text is behind all others.
LEMMA WritePath ==
    ASSUME TypeOK, PathInv, texts' = texts + 1, sendq' = Append(sendq, texts'),
           UNCHANGED <<uiq, worker, reported>>, session'.before = session.before
    PROVE  PathInv'
<1>0. /\ DOMAIN sendq = 1 .. Len(sendq) /\ Len(sendq) \in Nat
      /\ \A k \in DOMAIN sendq : sendq[k] \in 1 .. texts
      /\ worker.text \in 0 .. texts /\ texts \in Nat /\ reported \subseteq 1 .. texts
      /\ session.before \in 0 .. texts
  BY PathTypes
<1>1. /\ DOMAIN sendq' = 1 .. Len(sendq) + 1
      /\ \A k \in 1 .. Len(sendq) : sendq'[k] = sendq[k]
      /\ sendq'[Len(sendq) + 1] = texts + 1
  <2>1. sendq \in Seq(1 .. texts)
    BY PathTypes
  <2> QED
    BY <2>1
<1>2. \A k \in DOMAIN sendq' : \/ k \in DOMAIN sendq /\ sendq'[k] = sendq[k]
                               \/ k = Len(sendq) + 1 /\ sendq'[k] = texts + 1
  BY <1>0, <1>1
<1>3. HandInv' /\ EventInv'
  BY <1>0 DEF PathInv, HandInv, EventInv
<1>4. PostedInv'
  BY <1>0, <1>2 DEF PathInv, PostedInv, EventInv
<1>5. InHandInv'
  BY <1>0, <1>2 DEF PathInv, InHandInv
<1>6. QueuedInv'
  BY <1>0, <1>2 DEF PathInv, QueuedInv
<1> QED
  BY <1>3, <1>4, <1>5, <1>6 DEF PathInv

\* An event is taken, and reported if it is a report.
LEMMA TakePath ==
    ASSUME TypeOK, PathInv, uiq # << >>, uiq' = Tail(uiq),
           UNCHANGED <<worker, sendq, texts>>, session'.before = session.before,
           reported' = IF Sent(Head(uiq)) THEN reported \cup {Head(uiq).n} ELSE reported
    PROVE  PathInv'
<1>0. /\ uiq \in Seq(EventSet) /\ DOMAIN uiq = 1 .. Len(uiq) /\ Len(uiq) \in Nat
  BY PathTypes
<1>1. /\ DOMAIN uiq' = 1 .. Len(uiq) - 1 /\ Len(uiq) >= 1 /\ Head(uiq) = uiq[1]
      /\ \A i \in 1 .. Len(uiq) - 1 : uiq'[i] = uiq[i + 1]
  BY <1>0
<1>2. \A i \in DOMAIN uiq' : i + 1 \in DOMAIN uiq /\ 1 < i + 1 /\ uiq'[i] = uiq[i + 1]
  BY <1>0, <1>1
<1>3. 1 \in DOMAIN uiq
  BY <1>0, <1>1
<1>4. HandInv' /\ EventInv'
  BY <1>2 DEF PathInv, HandInv, EventInv
<1>5. ASSUME NEW i \in DOMAIN uiq', Sent(uiq'[i])
      PROVE  /\ \A j \in DOMAIN uiq' : i < j /\ Sent(uiq'[j]) => uiq'[i].n < uiq'[j].n
             /\ \A n \in reported' : n < uiq'[i].n
             /\ worker.text # NoText => uiq'[i].n < worker.text
             /\ ~worker.stop => \A k \in DOMAIN sendq : uiq'[i].n < sendq[k]
  <2>1. i + 1 \in DOMAIN uiq /\ 1 < i + 1 /\ uiq'[i] = uiq[i + 1] /\ Sent(uiq[i + 1])
    BY <1>2, <1>5
  <2>2. \A n \in reported' : n < uiq'[i].n
    <3>1. \A n \in reported : n < uiq[i + 1].n
      BY <2>1 DEF PathInv, PostedInv
    <3>2. Sent(Head(uiq)) => Head(uiq).n < uiq[i + 1].n
      BY <1>1, <1>3, <2>1 DEF PathInv, PostedInv
    <3> QED
      BY <2>1, <3>1, <3>2
  <2>3. ASSUME NEW j \in DOMAIN uiq', i < j, Sent(uiq'[j])
        PROVE  uiq'[i].n < uiq'[j].n
    <3>1. j + 1 \in DOMAIN uiq /\ i + 1 < j + 1 /\ uiq'[j] = uiq[j + 1]
      BY <1>1, <1>2, <2>3
    <3> QED
      BY <2>1, <2>3, <3>1 DEF PathInv, PostedInv
  <2>4. /\ worker.text # NoText => uiq'[i].n < worker.text
        /\ ~worker.stop => \A k \in DOMAIN sendq : uiq'[i].n < sendq[k]
    BY <2>1 DEF PathInv, PostedInv
  <2> QED
    BY <2>2, <2>3, <2>4
<1>6. PostedInv'
  BY <1>5 DEF PostedInv
<1>7. InHandInv' /\ QueuedInv'
  BY <1>1, <1>3 DEF PathInv, PostedInv, InHandInv, QueuedInv
<1> QED
  BY <1>4, <1>6, <1>7 DEF PathInv

\* Something is posted: a report is of the text in hand, which is then empty.
LEMMA PostPath ==
    ASSUME TypeOK, PathInv, NEW e, uiq' = Append(uiq, e),
           UNCHANGED <<reported, texts>>, session'.before = session.before,
           \/ ~Sent(e) /\ UNCHANGED <<worker, sendq>>
           \/ ~Sent(e) /\ worker' = [worker EXCEPT !.stop = TRUE]
           \/ /\ worker.pc = "send" /\ e = Event("sent", worker.text)
              /\ worker' = [worker EXCEPT !.pc = "loop", !.text = NoText] /\ UNCHANGED sendq
    PROVE  PathInv'
<1>0. /\ uiq \in Seq(EventSet) /\ DOMAIN uiq = 1 .. Len(uiq) /\ Len(uiq) \in Nat
      /\ worker \in WorkerSet(texts) /\ worker.text \in 0 .. texts
  BY PathTypes
<1>1. /\ DOMAIN uiq' = 1 .. Len(uiq) + 1 /\ uiq'[Len(uiq) + 1] = e
      /\ \A i \in 1 .. Len(uiq) : uiq'[i] = uiq[i]
  BY <1>0
<1>2. \A i \in DOMAIN uiq' : \/ i \in DOMAIN uiq /\ i < Len(uiq) + 1 /\ uiq'[i] = uiq[i]
                             \/ i = Len(uiq) + 1 /\ uiq'[i] = e
  BY <1>0, <1>1
<1>3. CASE ~Sent(e) /\ UNCHANGED <<worker, sendq>>
  <2>1. HandInv' /\ EventInv' /\ InHandInv' /\ QueuedInv'
    BY <1>2, <1>3 DEF PathInv, HandInv, EventInv, InHandInv, QueuedInv
  <2>2. PostedInv'
    BY <1>2, <1>3 DEF PathInv, PostedInv
  <2> QED
    BY <2>1, <2>2 DEF PathInv
<1>4. CASE ~Sent(e) /\ worker' = [worker EXCEPT !.stop = TRUE]
  <2>0. worker'.text = worker.text /\ worker'.pc = worker.pc /\ worker'.stop
    BY <1>0, <1>4 DEF WorkerSet
  <2>1. HandInv' /\ EventInv' /\ InHandInv' /\ QueuedInv'
    BY <1>2, <1>4, <2>0 DEF PathInv, HandInv, EventInv, InHandInv, QueuedInv
  <2>2. PostedInv'
    BY <1>2, <1>4, <2>0 DEF PathInv, PostedInv
  <2> QED
    BY <2>1, <2>2 DEF PathInv
<1>5. CASE /\ worker.pc = "send" /\ e = Event("sent", worker.text)
           /\ worker' = [worker EXCEPT !.pc = "loop", !.text = NoText] /\ UNCHANGED sendq
  <2>0. worker'.text = NoText /\ worker'.pc = "loop" /\ worker'.stop = worker.stop
    BY <1>0, <1>5 DEF WorkerSet
  <2>1. e.n = worker.text /\ Sent(e) /\ worker.text # NoText
    BY <1>5 DEF Event, Sent, PathInv, HandInv
  <2>2. HandInv' /\ InHandInv'
    BY <2>0 DEF HandInv, InHandInv
  <2>3. EventInv'
    BY <1>0, <1>2, <2>1 DEF PathInv, EventInv, NoText
  <2>4. QueuedInv'
    BY <1>5, <2>0 DEF PathInv, QueuedInv
  <2>5. PostedInv'
    <3> SUFFICES ASSUME NEW i \in DOMAIN uiq', Sent(uiq'[i])
                 PROVE  /\ \A j \in DOMAIN uiq' : i < j /\ Sent(uiq'[j]) => uiq'[i].n < uiq'[j].n
                        /\ \A n \in reported : n < uiq'[i].n
                        /\ ~worker.stop => \A k \in DOMAIN sendq : uiq'[i].n < sendq[k]
      BY <1>5, <2>0 DEF PostedInv
    <3>1. CASE i \in DOMAIN uiq /\ uiq'[i] = uiq[i]
      BY <1>2, <2>1, <3>1 DEF PathInv, PostedInv
    <3>2. CASE i = Len(uiq) + 1 /\ uiq'[i] = e
      <4>1. \A j \in DOMAIN uiq' : ~(i < j)
        BY <1>0, <1>1, <3>2
      <4> QED
        BY <2>1, <3>2, <4>1 DEF PathInv, InHandInv
    <3> QED
      BY <1>2, <3>1, <3>2
  <2> QED
    BY <2>2, <2>3, <2>4, <2>5 DEF PathInv
<1> QED
  BY <1>3, <1>4, <1>5

\* The worker takes a text from the front, when it is not told to stop.
LEMMA PopPath ==
    ASSUME TypeOK, PathInv, worker.pc = "loop", ~worker.stop, sendq # << >>,
           worker' = [worker EXCEPT !.pc = "popped", !.text = Head(sendq)],
           sendq' = Tail(sendq), UNCHANGED <<uiq, reported, texts, session>>
    PROVE  PathInv'
<1>0. /\ sendq \in Seq(1 .. texts) /\ DOMAIN sendq = 1 .. Len(sendq) /\ Len(sendq) \in Nat
      /\ \A k \in DOMAIN sendq : sendq[k] \in 1 .. texts
      /\ worker \in WorkerSet(texts)
  BY PathTypes
<1>1. /\ DOMAIN sendq' = 1 .. Len(sendq) - 1 /\ Len(sendq) >= 1 /\ Head(sendq) = sendq[1]
      /\ \A k \in 1 .. Len(sendq) - 1 : sendq'[k] = sendq[k + 1]
  BY <1>0
<1>2. \A k \in DOMAIN sendq' : k + 1 \in DOMAIN sendq /\ 1 < k + 1 /\ sendq'[k] = sendq[k + 1]
  BY <1>0, <1>1
<1>3. 1 \in DOMAIN sendq /\ Head(sendq) # NoText
  BY <1>0, <1>1 DEF NoText
<1>4. worker'.pc = "popped" /\ worker'.text = sendq[1] /\ worker'.stop = worker.stop
  BY <1>0, <1>1 DEF WorkerSet
<1>5. worker.text = NoText
  BY DEF PathInv, HandInv
<1>6. HandInv' /\ EventInv'
  BY <1>1, <1>3, <1>4 DEF PathInv, HandInv, EventInv
<1>7. PostedInv'
  BY <1>2, <1>3, <1>4 DEF PathInv, PostedInv
<1>8. InHandInv'
  BY <1>2, <1>3, <1>4 DEF PathInv, InHandInv, QueuedInv
<1>9. QueuedInv'
  <2>1. ASSUME NEW k \in DOMAIN sendq', NEW l \in DOMAIN sendq', k < l
        PROVE  sendq'[k] < sendq'[l]
    <3>1. k + 1 \in DOMAIN sendq /\ l + 1 \in DOMAIN sendq /\ k + 1 < l + 1
      BY <1>1, <1>2, <2>1
    <3> QED
      BY <1>2, <2>1, <3>1 DEF PathInv, QueuedInv
  <2>2. \A k \in DOMAIN sendq' :
           (\A n \in reported' : n < sendq'[k]) /\ sendq'[k] > session'.before
    BY <1>2 DEF PathInv, QueuedInv
  <2> QED
    BY <2>1, <2>2 DEF QueuedInv
<1> QED
  BY <1>6, <1>7, <1>8, <1>9 DEF PathInv

\* The worker looks at the epoch: it ends, with what it had in its hand back in
\* the queue, or goes on to send.
LEMMA CheckPath ==
    ASSUME TypeOK, PathInv, UNCHANGED <<uiq, reported, texts, session>>,
           \/ /\ worker.stop /\ worker.pc = "loop"
              /\ worker' = [worker EXCEPT !.pc = "ended"] /\ UNCHANGED sendq
           \/ /\ worker.stop
              /\ worker' = [worker EXCEPT !.pc = "ended", !.text = NoText]
           \/ /\ worker.pc = "popped"
              /\ worker' = [worker EXCEPT !.pc = "send"] /\ UNCHANGED sendq
    PROVE  PathInv'
<1>0. worker \in WorkerSet(texts)
  BY PathTypes
<1>1. CASE worker.stop /\ worker' = [worker EXCEPT !.pc = "ended", !.text = NoText]
  <2>1. worker'.pc = "ended" /\ worker'.text = NoText /\ worker'.stop
    BY <1>0, <1>1 DEF WorkerSet
  <2>2. HandInv' /\ EventInv' /\ InHandInv' /\ QueuedInv'
    BY <2>1 DEF PathInv, HandInv, EventInv, InHandInv, QueuedInv
  <2>3. PostedInv'
    BY <2>1 DEF PathInv, PostedInv
  <2> QED
    BY <2>2, <2>3 DEF PathInv
<1>2. ASSUME worker'.text = worker.text, worker'.stop = worker.stop, UNCHANGED sendq,
             worker'.pc \in {"popped", "send"} <=> worker.pc \in {"popped", "send"}
      PROVE  PathInv'
  <2>1. HandInv' /\ EventInv' /\ InHandInv' /\ QueuedInv'
    BY <1>2 DEF PathInv, HandInv, EventInv, InHandInv, QueuedInv
  <2>2. PostedInv'
    BY <1>2 DEF PathInv, PostedInv
  <2> QED
    BY <2>1, <2>2 DEF PathInv
<1>3. CASE worker.pc = "loop" /\ worker' = [worker EXCEPT !.pc = "ended"] /\ UNCHANGED sendq
  <2>1. worker'.text = worker.text /\ worker'.stop = worker.stop /\ worker'.pc = "ended"
    BY <1>0, <1>3 DEF WorkerSet
  <2> QED
    BY <1>2, <1>3, <2>1
<1>4. CASE worker.pc = "popped" /\ worker' = [worker EXCEPT !.pc = "send"] /\ UNCHANGED sendq
  <2>1. worker'.text = worker.text /\ worker'.stop = worker.stop /\ worker'.pc = "send"
    BY <1>0, <1>4 DEF WorkerSet
  <2> QED
    BY <1>2, <1>4, <2>1
<1> QED
  BY <1>1, <1>3, <1>4

\* A new session: an empty queue, and a worker with nothing in its hand.
LEMMA ConnectPath ==
    ASSUME TypeOK, PathInv, sendq' = << >>, worker'.text = NoText, worker'.pc = "loop",
           UNCHANGED <<uiq, reported, texts>>
    PROVE  PathInv'
<1>1. HandInv' /\ EventInv' /\ InHandInv' /\ QueuedInv'
  BY DEF PathInv, HandInv, EventInv, InHandInv, QueuedInv
<1>2. PostedInv'
  BY DEF PathInv, PostedInv
<1> QED
  BY <1>1, <1>2 DEF PathInv

LEMMA SamePath ==
    ASSUME PathInv, UNCHANGED <<uiq, sendq, worker, reported, texts>>,
           session'.before = session.before
    PROVE  PathInv'
<1>1. HandInv' /\ EventInv' /\ InHandInv' /\ QueuedInv'
  BY DEF PathInv, HandInv, EventInv, InHandInv, QueuedInv
<1>2. PostedInv'
  BY DEF PathInv, PostedInv
<1> QED
  BY <1>1, <1>2 DEF PathInv

LEMMA StepPath ==
    ASSUME TypeOK, PathInv, [Next]_vars, ~kept'
    PROVE  PathInv'
<1>0. session \in SessionSet(texts)
  BY TypeNow
<1>1. CASE UNCHANGED vars
  BY <1>1, SamePath DEF vars, uiVars, history
<1>2. CASE on_send_msg_clicked_slot
  BY <1>2, WritePath DEF on_send_msg_clicked_slot
<1>3. CASE on_text_send_slot
  <2>1. Sent(Head(uiq)) /\ uiq # << >> /\ uiq' = Tail(uiq)
    BY <1>3, TakeType DEF on_text_send_slot, Sent
  <2> QED
    BY <1>3, <2>1, TakePath DEF on_text_send_slot
<1>4. CASE handle_text_recv \/ handle_member
  <2>1. ~Sent(Head(uiq)) /\ uiq # << >> /\ uiq' = Tail(uiq)
    BY <1>4, TakeType DEF handle_text_recv, handle_member, Sent
  <2> QED
    BY <1>4, <2>1, TakePath DEF handle_text_recv, handle_member
<1>5. CASE on_network_disconnected_slot
  <2>1. ~Sent(Head(uiq)) /\ uiq # << >> /\ uiq' = Tail(uiq)
    BY <1>5, TakeType DEF on_network_disconnected_slot, Sent
  <2>2. session'.before = session.before
    BY <1>0, <1>5 DEF on_network_disconnected_slot, SessionSet
  <2> QED
    BY <1>5, <2>1, <2>2, TakePath DEF on_network_disconnected_slot, history
<1>6. CASE end_meeting_session
  <2>1. session'.before = session.before
    BY <1>0, <1>6 DEF end_meeting_session, SessionSet
  <2> QED
    BY <1>6, <2>1, SamePath DEF end_meeting_session, history
<1>7. CASE connect
  BY <1>7, ConnectPath DEF connect, history
<1>8. CASE worker_pop
  <2>1. CASE worker.stop
    BY <1>8, <2>1, CheckPath DEF worker_pop, uiVars, history
  <2>2. CASE ~worker.stop
    BY <1>8, <2>2, PopPath DEF worker_pop, uiVars, history
  <2> QED
    BY <2>1, <2>2
<1>9. CASE worker_check
  BY <1>9, CheckPath DEF worker_check, uiVars, history
<1>10. CASE worker_send
  BY <1>10, PostPath DEF worker_send, uiVars, history
<1>11. CASE admit \/ receive
  <2>1. PICK e : uiq' = Append(uiq, e) /\ ~Sent(e)
    BY <1>11 DEF admit, receive, Sent, Event
  <2> QED
    BY <1>11, <2>1, PostPath DEF admit, receive, uiVars, history
<1>12. CASE io_disconnect
  <2>1. ~Sent(Event("disconnected", NoText))
    BY DEF Sent, Event
  <2> QED
    BY <1>12, <2>1, PostPath DEF io_disconnect, uiVars, history
<1> QED
  BY <1>1, <1>2, <1>3, <1>4, <1>5, <1>6, <1>7, <1>8, <1>9, <1>10, <1>11, <1>12
  DEF Next, Slots, Worker

\* Whether or not something was left in the queue.
LEMMA StepHand ==
    ASSUME TypeOK, HandInv, EventInv, [Next]_vars
    PROVE  HandInv' /\ EventInv'
<1>0. /\ worker \in WorkerSet(texts) /\ worker.text \in 0 .. texts /\ texts \in Nat
      /\ uiq \in Seq(EventSet) /\ DOMAIN uiq = 1 .. Len(uiq) /\ Len(uiq) \in Nat
      /\ sendq \in Seq(1 .. texts)
  BY PathTypes
<1>1. ASSUME UNCHANGED <<uiq, worker>>, texts' \in {texts, texts + 1}
      PROVE  HandInv' /\ EventInv'
  BY <1>0, <1>1 DEF HandInv, EventInv
<1>2. CASE UNCHANGED vars \/ on_send_msg_clicked_slot \/ end_meeting_session
  BY <1>1, <1>2 DEF vars, history, on_send_msg_clicked_slot, end_meeting_session
<1>3. CASE Slots
  <2>1. /\ UNCHANGED <<worker, texts>> /\ uiq # << >> /\ uiq' = Tail(uiq)
    BY <1>3 DEF Slots, on_text_send_slot, handle_text_recv, handle_member,
                on_network_disconnected_slot, history, Take
  <2>2. \A i \in DOMAIN uiq' : i + 1 \in DOMAIN uiq /\ uiq'[i] = uiq[i + 1]
    BY <1>0, <2>1
  <2> QED
    BY <2>1, <2>2 DEF HandInv, EventInv
<1>4. CASE connect
  BY <1>4 DEF connect, HandInv, EventInv
<1>5. CASE worker_pop \/ worker_check
  <2>1. UNCHANGED <<uiq, texts>>
    BY <1>5 DEF worker_pop, worker_check, history
  <2>2. ASSUME worker_pop PROVE HandInv'
    <3>1. sendq # << >> => Head(sendq) # NoText
      BY <1>0 DEF NoText
    <3>2. \/ worker'.pc = "ended" /\ worker'.text = worker.text /\ worker.pc = "loop"
          \/ worker'.pc = "popped" /\ worker'.text # NoText
      BY <1>0, <2>2, <3>1 DEF worker_pop, WorkerSet
    <3> QED
      BY <3>2 DEF HandInv
  <2>3. ASSUME worker_check PROVE HandInv'
    <3>1. \/ worker'.pc = "ended" /\ worker'.text = NoText
          \/ worker'.pc = "send" /\ worker'.text = worker.text /\ worker.pc = "popped"
      BY <1>0, <2>3 DEF worker_check, WorkerSet
    <3> QED
      BY <3>1 DEF HandInv
  <2> QED
    BY <1>5, <2>1, <2>2, <2>3 DEF EventInv
<1>6. ASSUME NEW e, uiq' = Append(uiq, e), texts' = texts, Sent(e) => e.n \in 1 .. texts
      PROVE  EventInv'
  <2>1. \A i \in DOMAIN uiq' : (i \in DOMAIN uiq /\ uiq'[i] = uiq[i]) \/ uiq'[i] = e
    BY <1>0, <1>6
  <2> QED
    BY <1>6, <2>1 DEF EventInv
<1>7. CASE worker_send
  <2>1. worker.text \in 1 .. texts
    BY <1>0, <1>7 DEF worker_send, HandInv, NoText
  <2>2. EventInv'
    BY <1>6, <1>7, <2>1 DEF worker_send, history, Event
  <2>3. HandInv'
    BY <1>0, <1>7 DEF worker_send, HandInv, WorkerSet
  <2> QED
    BY <2>2, <2>3
<1>8. CASE admit \/ receive \/ io_disconnect
  <2>1. PICK e : uiq' = Append(uiq, e) /\ ~Sent(e)
    BY <1>8 DEF admit, receive, io_disconnect, Sent, Event
  <2>2. texts' = texts
    BY <1>8 DEF admit, receive, io_disconnect, history
  <2>3. EventInv'
    BY <1>6, <2>1, <2>2
  <2>4. worker'.pc = worker.pc /\ worker'.text = worker.text
    BY <1>0, <1>8 DEF admit, receive, io_disconnect, WorkerSet
  <2> QED
    BY <2>3, <2>4 DEF HandInv
<1> QED
  BY <1>2, <1>3, <1>4, <1>5, <1>7, <1>8 DEF Next, Worker

LEMMA StepKept ==
    ASSUME TypeOK, KeptInv, [Next]_vars
    PROVE  KeptInv'
<1>1. (stray => stray') /\ (kept' => stray' \/ kept) /\ (kept => kept')
  <2>1. CASE on_text_send_slot \/ handle_text_recv \/ handle_member
    <3>1. (stray => stray') /\ kept' = kept
      <4>1. CASE on_text_send_slot
        BY <4>1, ZenonT(20) DEF on_text_send_slot
      <4>2. CASE handle_text_recv
        BY <4>2, ZenonT(20) DEF handle_text_recv
      <4>3. CASE handle_member
        BY <4>3, ZenonT(20) DEF handle_member
      <4> QED
        BY <2>1, <4>1, <4>2, <4>3
    <3> QED
      BY <3>1
  <2>2. CASE connect
    BY <2>2 DEF connect
  <2>3. CASE \/ UNCHANGED vars \/ on_send_msg_clicked_slot \/ end_meeting_session
             \/ on_network_disconnected_slot \/ Worker
             \/ admit \/ receive \/ io_disconnect
    BY <2>3 DEF vars, history, on_send_msg_clicked_slot, end_meeting_session,
                on_network_disconnected_slot, Worker, worker_pop, worker_check,
                worker_send, admit, receive, io_disconnect
  <2> QED
    BY <2>1, <2>2, <2>3 DEF Next, Slots
<1>2. ~kept' => PathInv'
  BY <1>1, StepPath DEF KeptInv
<1> QED
  BY <1>1, <1>2 DEF KeptInv

-----------------------------------------------------------------------------
(***************************************************************************)
(* The notice of the disconnection.                                        *)
(***************************************************************************)
LEMMA StepEnding ==
    ASSUME TypeOK, EndingInv, [Next]_vars
    PROVE  EndingInv'
<1>0. /\ uiq \in Seq(EventSet) /\ DOMAIN uiq = 1 .. Len(uiq) /\ Len(uiq) \in Nat
      /\ worker \in WorkerSet(texts) /\ session \in SessionSet(texts)
  BY TypeNow, PathTypes
<1>1. ASSUME uiq' = uiq, session'.state = session.state \/ session.state # "ending",
             worker'.stop = worker.stop \/ session.state = "none",
             session.state = "none" => session'.state \in {"none", "active"}
      PROVE  EndingInv'
  BY <1>1 DEF EndingInv
<1>2. CASE UNCHANGED vars
  BY <1>1, <1>2 DEF vars, uiVars
<1>3. CASE on_send_msg_clicked_slot
  BY <1>0, <1>1, <1>3 DEF on_send_msg_clicked_slot
<1>4. CASE end_meeting_session
  <2>1. session'.state = session.state \/ session.state # "ending"
    BY <1>0, <1>4 DEF end_meeting_session, Active, SessionSet
  <2>2. session.state = "none" => session'.state = "none"
    BY <1>0, <1>4 DEF end_meeting_session, Active
  <2> QED
    BY <1>1, <1>4, <2>1, <2>2 DEF end_meeting_session
<1>5. CASE connect
  BY <1>1, <1>5 DEF connect
<1>6. CASE worker_pop \/ worker_check
  <2>1. worker'.stop = worker.stop
    BY <1>0, <1>6 DEF worker_pop, worker_check, WorkerSet
  <2> QED
    BY <1>1, <1>6, <2>1 DEF worker_pop, worker_check, uiVars
<1>7. CASE on_text_send_slot \/ handle_text_recv \/ handle_member \/ on_network_disconnected_slot
  <2>1. /\ DOMAIN uiq' = 1 .. Len(uiq) - 1 /\ Len(uiq) >= 1
        /\ \A i \in 1 .. Len(uiq) - 1 : uiq'[i] = uiq[i + 1]
    <3>1. uiq # << >> /\ uiq' = Tail(uiq)
      BY <1>7, TakeType
      DEF on_text_send_slot, handle_text_recv, handle_member, on_network_disconnected_slot
    <3> QED
      BY <1>0, <3>1
  <2>2. \A i \in DOMAIN uiq' : i + 1 \in DOMAIN uiq /\ 1 # i + 1 /\ uiq'[i] = uiq[i + 1]
    BY <1>0, <2>1
  <2>3. CASE on_network_disconnected_slot
    <3>1. uiq[1].type = "disconnected" /\ 1 \in DOMAIN uiq
      BY <1>0, <2>1, <2>3, TakeType DEF on_network_disconnected_slot
    <3> QED
      BY <2>2, <3>1 DEF EndingInv
  <2>4. CASE on_text_send_slot \/ handle_text_recv \/ handle_member
    <3>1. session' = session /\ worker' = worker
      BY <2>4 DEF on_text_send_slot, handle_text_recv, handle_member
    <3>2. ASSUME NEW i \in DOMAIN uiq', uiq'[i].type = "disconnected",
                 NEW j \in DOMAIN uiq', uiq'[j].type = "disconnected"
          PROVE  i = j
      <4>1. i + 1 = j + 1
        BY <2>2, <3>2 DEF EndingInv
      <4> QED
        BY <2>1, <4>1
    <3> QED
      BY <2>2, <3>1, <3>2 DEF EndingInv
  <2> QED
    BY <1>7, <2>3, <2>4
<1>8. ASSUME NEW e, uiq' = Append(uiq, e)
      PROVE  \A i \in DOMAIN uiq' : \/ i \in DOMAIN uiq /\ uiq'[i] = uiq[i]
                                    \/ i = Len(uiq) + 1 /\ uiq'[i] = e
  <2>1. /\ DOMAIN uiq' = 1 .. Len(uiq) + 1 /\ uiq'[Len(uiq) + 1] = e
        /\ \A i \in 1 .. Len(uiq) : uiq'[i] = uiq[i]
    BY <1>0, <1>8
  <2> QED
    BY <1>0, <2>1
<1>9. CASE worker_send \/ admit \/ receive
  <2>1. PICK e : uiq' = Append(uiq, e) /\ e.type # "disconnected"
    BY <1>9 DEF worker_send, admit, receive, Event
  <2>2. session' = session /\ worker'.stop = worker.stop
    BY <1>0, <1>9 DEF worker_send, admit, receive, uiVars, WorkerSet
  <2> QED
    BY <1>8, <2>1, <2>2 DEF EndingInv
<1>10. CASE io_disconnect
  <2>1. uiq' = Append(uiq, Event("disconnected", NoText)) /\ ~worker.stop
        /\ session.state = "ending" /\ session' = session
    BY <1>10 DEF io_disconnect, uiVars
  <2>2. worker'.stop
    BY <1>0, <1>10 DEF io_disconnect, WorkerSet
  <2>3. \A i \in DOMAIN uiq : uiq[i].type # "disconnected"
    BY <2>1 DEF EndingInv
  <2> QED
    BY <1>8, <2>1, <2>2, <2>3 DEF EndingInv
<1> QED
  BY <1>2, <1>3, <1>4, <1>5, <1>6, <1>7, <1>9, <1>10 DEF Next, Slots, Worker

-----------------------------------------------------------------------------
(***************************************************************************)
(* The list: one lemma for each kind of change.                            *)
(***************************************************************************)
ListInv == RowsInv /\ SessionInv /\ OwnTextIsMarked

LEMMA ListTypes ==
    ASSUME TypeOK
    PROVE  /\ rows \in Seq(RowSet) /\ DOMAIN rows = 1 .. Len(rows) /\ Len(rows) \in Nat
           /\ \A i \in DOMAIN rows : rows[i] \in RowSet
           /\ session \in SessionSet(texts) /\ session.before \in 0 .. texts
           /\ texts \in Nat /\ reported \subseteq 1 .. texts
           /\ sendmsg \in BOOLEAN /\ stray \in BOOLEAN
<1>1. rows \in Seq(RowSet)
  BY TypeNow
<1> QED
  BY <1>1, TypeNow, PathTypes

\* What a row shown after the others does to them: nothing.
LEMMA ShownRows ==
    ASSUME TypeOK, NEW kind \in {"mine", "theirs"}, NEW n \in 0 .. MaxTexts,
           rows' \in Shown(rows, Row(kind, n))
    PROVE  /\ DOMAIN rows' = 1 .. Len(rows') /\ Len(rows') \in Nat /\ Len(rows') > Len(rows)
           /\ rows' # << >> /\ rows'[Len(rows')] = Row(kind, n)
           /\ \A i \in DOMAIN rows' :
                 \/ i \in DOMAIN rows /\ rows'[i] = rows[i] /\ i < Len(rows')
                 \/ i < Len(rows') /\ rows'[i] = TimeRow
                 \/ i = Len(rows') /\ rows'[i] = Row(kind, n)
           /\ rows # << >> => rows'[1] = rows[1]
           /\ rows = << >> => rows'[1] = TimeRow
<1>1. /\ rows' \in Seq(RowSet) /\ Len(rows') > Len(rows) /\ rows'[Len(rows')] = Row(kind, n)
      /\ \A i \in 1 .. Len(rows) : rows'[i] = rows[i]
      /\ \A i \in Len(rows) + 1 .. Len(rows') - 1 : rows'[i] = TimeRow
      /\ rows = << >> => rows'[1] = TimeRow
  BY RowType, ShownFacts
<1>2. /\ DOMAIN rows' = 1 .. Len(rows') /\ Len(rows') \in Nat
      /\ DOMAIN rows = 1 .. Len(rows) /\ Len(rows) \in Nat
  BY <1>1, ListTypes
<1>3. \A i \in DOMAIN rows' : \/ i \in DOMAIN rows
                              \/ i \in Len(rows) + 1 .. Len(rows') - 1
                              \/ i = Len(rows')
  BY <1>1, <1>2
<1>4. \A i \in DOMAIN rows' :
         \/ i \in DOMAIN rows /\ rows'[i] = rows[i] /\ i < Len(rows')
         \/ i < Len(rows') /\ rows'[i] = TimeRow
         \/ i = Len(rows') /\ rows'[i] = Row(kind, n)
  BY <1>1, <1>2, <1>3
<1>5. rows # << >> => 1 \in 1 .. Len(rows)
  BY <1>2, ListTypes
<1>6. rows' # << >>
  BY <1>1, <1>2
<1> QED
  BY <1>1, <1>2, <1>4, <1>5, <1>6

LEMMA WriteList ==
    ASSUME TypeOK, ListInv, on_send_msg_clicked_slot
    PROVE  ListInv'
<1> DEFINE new == Row("mine", texts + 1)
<1>0. /\ texts \in Nat /\ texts' = texts + 1 /\ texts + 1 \in 0 .. MaxTexts
      /\ reported \subseteq 1 .. texts /\ session \in SessionSet(texts)
      /\ session.before \in 0 .. texts
  BY TypeNow, ListTypes, ChatAssumption DEF on_send_msg_clicked_slot
<1>1. rows' \in Shown(rows, new) /\ sendmsg /\ sendmsg' = FALSE
      /\ UNCHANGED <<session, reported, crashed, stray>>
  BY <1>0 DEF on_send_msg_clicked_slot
<1>2. /\ DOMAIN rows' = 1 .. Len(rows') /\ Len(rows') \in Nat
      /\ rows' # << >> /\ rows'[Len(rows')] = new
      /\ \A i \in DOMAIN rows' :
            \/ i \in DOMAIN rows /\ rows'[i] = rows[i] /\ i < Len(rows')
            \/ i < Len(rows') /\ rows'[i] = TimeRow
            \/ i = Len(rows') /\ rows'[i] = new
      /\ rows # << >> => rows'[1] = rows[1]
      /\ rows = << >> => rows'[1] = TimeRow
  BY <1>0, <1>1, ShownRows
<1>3. /\ Mine(new) /\ new.n = texts + 1 /\ new.session = session.n /\ ~new.sent
      /\ ~Mine(TimeRow) /\ TimeRow.kind = "time" /\ TimeRow.session = session.n /\ ~TimeRow.sent
  BY DEF Row, Mine, TimeRow
<1> HIDE DEF new
<1>4. RowsInv'
  <2>1. ASSUME NEW i \in DOMAIN rows', Mine(rows'[i])
        PROVE  /\ rows'[i].n \in 1 .. texts'
               /\ \A j \in DOMAIN rows' : i < j /\ Mine(rows'[j]) => rows'[i].n < rows'[j].n
    <3>1. CASE i \in DOMAIN rows /\ rows'[i] = rows[i] /\ i < Len(rows')
      <4>1. rows[i].n \in 1 .. texts
        BY <2>1, <3>1 DEF ListInv, RowsInv
      <4> QED
        BY <1>0, <1>2, <1>3, <2>1, <3>1, <4>1 DEF ListInv, RowsInv
    <3>2. CASE i = Len(rows') /\ rows'[i] = new
      BY <1>0, <1>2, <1>3, <3>2
    <3> QED
      BY <1>2, <1>3, <2>1, <3>1, <3>2
  <2>2. rows'[1].kind = "time"
    BY <1>2, <1>3 DEF ListInv, RowsInv
  <2> QED
    BY <2>1, <2>2 DEF RowsInv
<1>5. SessionInv'
  <2> SUFFICES ASSUME ~stray
               PROVE  /\ Active
                      /\ \A n \in session.before + 1 .. texts : n \in reported
                      /\ \A i \in DOMAIN rows' : rows'[i].session = session.n
    BY <1>0, <1>1, <1>2, <1>3 DEF SessionInv, Active
  <2>1. Active /\ ~Unreported
    BY <1>1 DEF ListInv, SessionInv
  <2>2. \A n \in session.before + 1 .. texts - 1 : n \in reported
    BY <2>1 DEF ListInv, SessionInv
  <2>3. \A n \in session.before + 1 .. texts : n \in reported
    BY <1>0, <2>1, <2>2 DEF Unreported
  <2>4. \A i \in DOMAIN rows' : rows'[i].session = session.n
    BY <1>2, <1>3, <2>1 DEF ListInv, SessionInv
  <2> QED
    BY <2>1, <2>3, <2>4
<1>6. OwnTextIsMarked'
  <2> SUFFICES ASSUME ~stray, NEW i \in DOMAIN rows'
               PROVE  rows'[i].sent <=> Mine(rows'[i]) /\ rows'[i].n \in reported
    BY <1>1 DEF ListInv, OwnTextIsMarked, Mine
  <2>1. texts + 1 \notin reported
    BY <1>0
  <2> QED
    BY <1>2, <1>3, <2>1 DEF ListInv, OwnTextIsMarked, Mine
<1> QED
  BY <1>4, <1>5, <1>6 DEF ListInv

\* A report that is handled in its session is of the text written last, and the
\* row of that text is the last one.
LEMMA MarkList ==
    ASSUME TypeOK, EventInv, KeptInv, ListInv, on_text_send_slot
    PROVE  ListInv'
<1> DEFINE L == Len(rows)
<1>0. /\ rows \in Seq(RowSet) /\ DOMAIN rows = 1 .. L /\ L \in Nat
      /\ \A i \in DOMAIN rows : rows[i] \in RowSet
      /\ texts \in Nat /\ reported \subseteq 1 .. texts
      /\ session.before \in 0 .. texts
  BY ListTypes
<1>1. /\ UNCHANGED <<session, texts>>
      /\ reported' = reported \cup {Head(uiq).n}
      /\ rows = << >> => crashed' = TRUE /\ rows' = rows /\ sendmsg' = sendmsg
      /\ rows # << >> => /\ rows' = [rows EXCEPT ![L] = setTextSuccess(@)]
                         /\ sendmsg' = TRUE /\ crashed' = crashed
      /\ ~stray' => ~stray /\ Active /\ ~(Head(uiq).n <= session.before)
  BY DEF on_text_send_slot
<1>2. rows # << >> => L \in DOMAIN rows
  BY <1>0
<1>3. rows # << >> =>
        /\ DOMAIN rows' = DOMAIN rows /\ Len(rows') = L
        /\ \A i \in DOMAIN rows : i # L => rows'[i] = rows[i]
        /\ rows'[L].sent
        /\ rows'[L].kind = rows[L].kind /\ rows'[L].n = rows[L].n
        /\ rows'[L].session = rows[L].session
  <2> SUFFICES ASSUME rows # << >>
               PROVE  /\ DOMAIN rows' = DOMAIN rows /\ Len(rows') = L
                      /\ \A i \in DOMAIN rows : i # L => rows'[i] = rows[i]
                      /\ rows'[L].sent
                      /\ rows'[L].kind = rows[L].kind /\ rows'[L].n = rows[L].n
                      /\ rows'[L].session = rows[L].session
    OBVIOUS
  <2>1. rows' = [rows EXCEPT ![L] = setTextSuccess(@)] /\ rows[L] \in RowSet
    BY <1>0, <1>1, <1>2
  <2>2. rows'[L] = setTextSuccess(rows[L]) /\ DOMAIN rows' = DOMAIN rows
    BY <1>0, <1>2, <2>1
  <2>3. \A i \in DOMAIN rows : i # L => rows'[i] = rows[i]
    BY <1>0, <2>1
  <2>4. Len(rows') = L
    BY <1>0, <1>2, <2>1
  <2>5. /\ setTextSuccess(rows[L]).sent
        /\ setTextSuccess(rows[L]).kind = rows[L].kind
        /\ setTextSuccess(rows[L]).n = rows[L].n
        /\ setTextSuccess(rows[L]).session = rows[L].session
    BY <2>1 DEF setTextSuccess, RowSet
  <2> QED
    BY <2>2, <2>3, <2>4, <2>5
<1> HIDE DEF L
<1>4. rows = << >> \/ rows # << >>
  OBVIOUS
<1>5. /\ DOMAIN rows' = DOMAIN rows
      /\ \A i \in DOMAIN rows : /\ rows'[i].kind = rows[i].kind /\ rows'[i].n = rows[i].n
                                /\ rows'[i].session = rows[i].session
      /\ rows' # << >> => rows # << >> /\ rows'[1].kind = rows[1].kind
  <2>1. CASE rows = << >>
    BY <1>1, <2>1
  <2>2. CASE rows # << >>
    <3>1. \A i \in DOMAIN rows : /\ rows'[i].kind = rows[i].kind /\ rows'[i].n = rows[i].n
                                 /\ rows'[i].session = rows[i].session
      BY <1>3, <2>2
    <3>2. 1 \in DOMAIN rows
      BY <1>0, <1>2, <2>2 DEF L
    <3> QED
      BY <1>3, <2>2, <3>1, <3>2
  <2> QED
    BY <2>1, <2>2
<1>6. RowsInv'
  BY <1>1, <1>5 DEF ListInv, RowsInv, Mine
<1>7. ASSUME ~stray'
      PROVE  /\ ~stray /\ Active /\ Head(uiq).n = texts /\ texts > session.before
             /\ rows # << >> /\ Mine(rows[L]) /\ rows[L].n = texts
             /\ texts \notin reported
             /\ \A n \in session.before + 1 .. texts - 1 : n \in reported
  <2>1. ~stray /\ Active /\ Head(uiq).n > session.before
    <3>1. 1 \in DOMAIN uiq /\ Head(uiq) = uiq[1] /\ Sent(uiq[1])
      <4>1. uiq \in Seq(EventSet) /\ uiq # << >>
        BY PathTypes, TakeType DEF on_text_send_slot
      <4> QED
        BY <4>1, TakeType DEF on_text_send_slot, Sent
    <3>2. Head(uiq).n \in 1 .. texts
      BY <3>1 DEF EventInv
    <3> QED
      BY <1>0, <1>1, <1>7, <3>2
  <2>2. Head(uiq).n \in 1 .. texts /\ Head(uiq).n \notin reported
    <3>1. 1 \in DOMAIN uiq /\ Head(uiq) = uiq[1] /\ Sent(uiq[1])
      <4>1. uiq \in Seq(EventSet) /\ uiq # << >>
        BY PathTypes, TakeType DEF on_text_send_slot
      <4> QED
        BY <4>1, TakeType DEF on_text_send_slot, Sent
    <3>2. Head(uiq).n \in 1 .. texts /\ \A n \in reported : n < Head(uiq).n
      BY <2>1, <3>1 DEF KeptInv, PathInv, EventInv, PostedInv
    <3> QED
      BY <1>0, <3>2
  <2>3. \A n \in session.before + 1 .. texts - 1 : n \in reported
    BY <2>1 DEF ListInv, SessionInv
  <2>4. Head(uiq).n = texts
    BY <1>0, <2>1, <2>2, <2>3
  <2>5. Unreported
    BY <2>1, <2>2, <2>4 DEF Unreported
  <2> QED
    BY <2>1, <2>2, <2>3, <2>4, <2>5 DEF ListInv, SessionInv, L
<1>8. SessionInv'
  <2> SUFFICES ASSUME ~stray'
               PROVE  /\ Active'
                      /\ \A n \in session.before + 1 .. texts - 1 : n \in reported'
                      /\ \A i \in DOMAIN rows' : rows'[i].session = session.n
                      /\ ~Unreported'
    BY <1>1 DEF SessionInv
  <2>1. Active' /\ ~Unreported'
    BY <1>1, <1>7 DEF Active, Unreported
  <2>2. \A i \in DOMAIN rows' : rows'[i].session = session.n
    BY <1>5, <1>7 DEF ListInv, SessionInv
  <2> QED
    BY <1>1, <1>7, <2>1, <2>2
<1>9. OwnTextIsMarked'
  <2> SUFFICES ASSUME ~stray'
               PROVE  /\ ~crashed'
                      /\ \A i \in DOMAIN rows' :
                            rows'[i].sent <=> Mine(rows'[i]) /\ rows'[i].n \in reported'
    BY DEF OwnTextIsMarked, Mine
  <2>1. ~crashed'
    BY <1>1, <1>7 DEF ListInv, OwnTextIsMarked
  <2>2. ASSUME NEW i \in DOMAIN rows'
        PROVE  rows'[i].sent <=> Mine(rows'[i]) /\ rows'[i].n \in reported'
    <3>1. CASE i = L
      BY <1>1, <1>3, <1>7, <3>1 DEF Mine
    <3>2. CASE i # L
      <4>1. rows'[i] = rows[i] /\ i \in DOMAIN rows
        BY <1>3, <1>5, <1>7, <2>2, <3>2
      <4>2. rows[i].sent <=> Mine(rows[i]) /\ rows[i].n \in reported
        BY <1>7, <4>1 DEF ListInv, OwnTextIsMarked, Mine
      <4>3. Mine(rows[i]) => rows[i].n # texts
        <5>1. i < L /\ L \in DOMAIN rows
          BY <1>0, <1>2, <1>7, <3>2, <4>1
        <5>2. Mine(rows[i]) => rows[i].n < rows[L].n /\ rows[i].n \in 1 .. texts
          BY <1>7, <4>1, <5>1 DEF ListInv, RowsInv
        <5> QED
          BY <1>0, <1>7, <5>2
      <4> QED
        BY <1>1, <1>7, <4>1, <4>2, <4>3
    <3> QED
      BY <3>1, <3>2
  <2> QED
    BY <2>1, <2>2
<1> QED
  BY <1>6, <1>8, <1>9 DEF ListInv

\* A text of this session that lacks its report would be in the list.
LEMMA Settled ==
    ASSUME TypeOK, SessionInv, ~stray, Active, ~Outstanding
    PROVE  ~Unreported
<1> SUFFICES ASSUME Unreported PROVE FALSE
  OBVIOUS
<1>1. rows # << >> /\ Mine(rows[Len(rows)]) /\ rows[Len(rows)].n = texts
  BY DEF SessionInv
<1>2. Len(rows) \in DOMAIN rows
  BY <1>1, ListTypes
<1> QED
  BY <1>1, <1>2 DEF Outstanding, Unreported, Mine

\* Another member's text, or a member, at a moment when no report is missing.
LEMMA ReceiveList ==
    ASSUME TypeOK, ListInv, handle_text_recv
    PROVE  ListInv'
<1> DEFINE new == Row("theirs", NoText)
<1>0. /\ texts \in Nat /\ NoText \in 0 .. MaxTexts /\ session.before \in 0 .. texts
  BY ListTypes, ChatAssumption DEF NoText
<1>1. /\ rows' \in Shown(rows, new)
      /\ UNCHANGED <<session, texts, reported, crashed, sendmsg>>
      /\ ~stray' => ~stray /\ Active /\ ~Outstanding
  BY DEF handle_text_recv
<1>2. /\ DOMAIN rows' = 1 .. Len(rows') /\ Len(rows') \in Nat /\ rows' # << >>
      /\ \A i \in DOMAIN rows' :
            \/ i \in DOMAIN rows /\ rows'[i] = rows[i] /\ i < Len(rows')
            \/ i < Len(rows') /\ rows'[i] = TimeRow
            \/ i = Len(rows') /\ rows'[i] = new
      /\ rows # << >> => rows'[1] = rows[1]
      /\ rows = << >> => rows'[1] = TimeRow
  BY <1>0, <1>1, ShownRows
<1>3. /\ ~Mine(new) /\ new.session = session.n /\ ~new.sent
      /\ ~Mine(TimeRow) /\ TimeRow.kind = "time" /\ TimeRow.session = session.n /\ ~TimeRow.sent
  BY DEF Row, Mine, TimeRow
<1> HIDE DEF new
<1>4. RowsInv'
  <2>1. ASSUME NEW i \in DOMAIN rows', Mine(rows'[i])
        PROVE  /\ rows'[i].n \in 1 .. texts'
               /\ \A j \in DOMAIN rows' : i < j /\ Mine(rows'[j]) => rows'[i].n < rows'[j].n
    BY <1>1, <1>2, <1>3, <2>1 DEF ListInv, RowsInv
  <2>2. rows'[1].kind = "time"
    BY <1>2, <1>3 DEF ListInv, RowsInv
  <2> QED
    BY <2>1, <2>2 DEF RowsInv
<1>5. SessionInv'
  <2> SUFFICES ASSUME ~stray' PROVE SessionInv'
    BY DEF SessionInv
  <2>1. ~stray /\ Active /\ ~Unreported
    BY <1>1, Settled DEF ListInv
  <2>2. Active' /\ ~Unreported'
    BY <1>1, <2>1 DEF Active, Unreported
  <2>3. \A i \in DOMAIN rows' : rows'[i].session = session.n
    BY <1>2, <1>3, <2>1 DEF ListInv, SessionInv
  <2>4. \A n \in session.before + 1 .. texts - 1 : n \in reported
    BY <2>1 DEF ListInv, SessionInv
  <2> QED
    BY <1>1, <2>2, <2>3, <2>4 DEF SessionInv
<1>6. OwnTextIsMarked'
  <2> SUFFICES ASSUME ~stray', NEW i \in DOMAIN rows'
               PROVE  rows'[i].sent <=> Mine(rows'[i]) /\ rows'[i].n \in reported
    BY <1>1 DEF ListInv, OwnTextIsMarked, Mine
  <2> QED
    BY <1>1, <1>2, <1>3 DEF ListInv, OwnTextIsMarked, Mine
<1> QED
  BY <1>4, <1>5, <1>6 DEF ListInv

LEMMA MemberList ==
    ASSUME TypeOK, ListInv, handle_member
    PROVE  ListInv'
<1>1. /\ UNCHANGED <<rows, session, texts, reported, crashed>>
      /\ ~stray' => ~stray /\ Active /\ ~Outstanding
  BY DEF handle_member
<1>2. RowsInv' /\ OwnTextIsMarked'
  BY <1>1 DEF ListInv, RowsInv, OwnTextIsMarked
<1>3. SessionInv'
  <2> SUFFICES ASSUME ~stray' PROVE SessionInv'
    BY DEF SessionInv
  <2>1. ~stray /\ Active /\ ~Unreported
    BY <1>1, Settled DEF ListInv
  <2>2. Active' /\ ~Unreported'
    BY <1>1, <2>1 DEF Active, Unreported
  <2> QED
    BY <1>1, <2>1, <2>2 DEF ListInv, SessionInv
<1> QED
  BY <1>2, <1>3 DEF ListInv

\* The list is emptied, or nobody is in a session before or after.
LEMMA EndList ==
    ASSUME TypeOK, ListInv, end_meeting_session
    PROVE  ListInv'
<1>1. /\ rows' = << >> /\ sendmsg' = FALSE /\ UNCHANGED <<texts, reported, crashed, stray>>
  BY DEF end_meeting_session, history
<1>2. session'.state # "active"
  <2>1. session \in SessionSet(texts)
    BY ListTypes
  <2> QED
    BY <2>1 DEF end_meeting_session, Active, SessionSet
<1>3. RowsInv'
  BY <1>1 DEF RowsInv
<1>4. SessionInv'
  BY <1>1, <1>2 DEF SessionInv, Active
<1>5. OwnTextIsMarked'
  BY <1>1 DEF ListInv, OwnTextIsMarked
<1> QED
  BY <1>3, <1>4, <1>5 DEF ListInv

LEMMA DisconnectedList ==
    ASSUME TypeOK, EndingInv, ListInv, on_network_disconnected_slot
    PROVE  ListInv'
<1>1. UNCHANGED <<rows, sendmsg, texts, reported, crashed, stray>>
  BY DEF on_network_disconnected_slot, history
<1>2. session'.state = "none"
  <2>1. session \in SessionSet(texts)
    BY ListTypes
  <2> QED
    BY <2>1 DEF on_network_disconnected_slot, SessionSet
<1>3. session.state = "ending"
  <2>1. uiq \in Seq(EventSet) /\ uiq # << >> /\ uiq[1].type = "disconnected"
    BY PathTypes, TakeType DEF on_network_disconnected_slot
  <2>2. 1 \in DOMAIN uiq
    BY <2>1
  <2> QED
    BY <2>1, <2>2 DEF EndingInv
<1>4. RowsInv' /\ OwnTextIsMarked'
  BY <1>1 DEF ListInv, RowsInv, OwnTextIsMarked
<1>5. SessionInv'
  BY <1>1, <1>2, <1>3 DEF ListInv, SessionInv, Active
<1> QED
  BY <1>4, <1>5 DEF ListInv

LEMMA ConnectList ==
    ASSUME TypeOK, ListInv, connect
    PROVE  ListInv'
<1>1. /\ UNCHANGED <<rows, texts, reported, crashed>> /\ (~stray' => ~stray)
      /\ session.state = "none" /\ sendmsg' = FALSE
      /\ session'.state = "active" /\ session'.before = texts
  BY DEF connect, history
<1>2. RowsInv' /\ OwnTextIsMarked'
  BY <1>1 DEF ListInv, RowsInv, OwnTextIsMarked
<1>3. SessionInv'
  <2> SUFFICES ASSUME ~stray' PROVE SessionInv'
    BY <1>1 DEF SessionInv
  <2>1. rows' = << >>
    BY <1>1 DEF ListInv, SessionInv, Active
  <2>2. ~Unreported' /\ \A n \in session'.before + 1 .. texts' - 1 : n \in reported'
    <3>1. texts \in Nat
      BY ListTypes
    <3> QED
      BY <1>1, <3>1 DEF Unreported
  <2> QED
    BY <1>1, <2>1, <2>2 DEF SessionInv, Active
<1> QED
  BY <1>2, <1>3 DEF ListInv

LEMMA StepList ==
    ASSUME TypeOK, EventInv, KeptInv, EndingInv, ListInv, [Next]_vars
    PROVE  ListInv'
<1>1. ASSUME UNCHANGED <<rows, sendmsg, session, texts, reported, crashed, stray>>
      PROVE  ListInv'
  BY <1>1 DEF ListInv, RowsInv, SessionInv, OwnTextIsMarked, Active, Unreported
<1>2. CASE UNCHANGED vars
  BY <1>1, <1>2 DEF vars, uiVars, history
<1>3. CASE worker_pop \/ worker_check \/ worker_send
  BY <1>1, <1>3 DEF worker_pop, worker_check, worker_send, uiVars, history
<1>4. CASE admit \/ receive \/ io_disconnect
  BY <1>1, <1>4 DEF admit, receive, io_disconnect, uiVars, history
<1> QED
  BY <1>2, <1>3, <1>4, WriteList, MarkList, ReceiveList, MemberList, EndList,
     DisconnectedList, ConnectList
  DEF Next, Slots, Worker
-----------------------------------------------------------------------------
(***************************************************************************)
(* The theorems.                                                           *)
(***************************************************************************)
\* The invariant holds in every run of the chat.
LEMMA Inductive == Spec => []IInv
<1>1. IInv /\ [Next]_vars => IInv'
  <2> SUFFICES ASSUME IInv, [Next]_vars PROVE IInv'
    OBVIOUS
  <2>1. TypeOK /\ HandInv /\ EventInv /\ KeptInv /\ EndingInv /\ ListInv
    BY DEF IInv, ListInv
  <2>2. TypeOK' /\ HandInv' /\ EventInv' /\ KeptInv' /\ EndingInv' /\ ListInv'
    BY <2>1, StepType, StepHand, StepKept, StepEnding, StepList
  <2> QED
    BY <2>2 DEF IInv, ListInv
<1> QED
  BY <1>1, InitIInv, PTL DEF Spec

\* The variables keep their types in every run of the chat: what is reported,
\* waits or is in the worker's hand is a text that was written.
THEOREM TypeCorrect == Spec => []TypeOK
BY Inductive, PTL DEF IInv

\* on_text_send_slot marks the last row without looking whose it is: it is the
\* right one as long as nothing came between a text and its report, no report
\* came after the end of its session and no text was left for the next one.
THEOREM MarksAreOwn == Spec => []OwnTextIsMarked
BY Inductive, PTL DEF IInv

\* reset_meeting_ui and the time put before the first row: the list begins with
\* a time and shows no earlier session.
THEOREM ListIsOfSession == Spec => []RowsOfSession
<1>1. IInv => RowsOfSession
  <2> SUFFICES ASSUME IInv PROVE RowsOfSession
    OBVIOUS
  <2>1. rows \in Seq(RowSet) /\ DOMAIN rows = 1 .. Len(rows)
    BY ListTypes DEF IInv
  <2>2. rows # << >> => Head(rows).kind = "time"
    BY <2>1 DEF IInv, RowsInv
  <2>3. ~stray => \A i \in DOMAIN rows : rows[i].session = session.n /\ Active
    BY <2>1 DEF IInv, SessionInv
  <2> QED
    BY <2>2, <2>3 DEF RowsOfSession, IInv
<1> QED
  BY <1>1, Inductive, PTL

\* send_loop and the queues: a text is reported at most once, in the order of
\* writing, and no worker gets a text of an earlier session, unless a clear
\* has given up.
THEOREM ReportsInOrder == Spec => []ReportedInOrder
<1>1. IInv => ReportedInOrder
  <2> SUFFICES ASSUME IInv, ~kept PROVE ReportedInOrder
    BY DEF ReportedInOrder
  <2> DEFINE inHand == IF worker.text = NoText THEN << >> ELSE <<worker.text>>
             waiting == IF worker.stop THEN << >> ELSE sendq
             toSend == inHand \o waiting
  <2>0. /\ sendq \in Seq(1 .. texts) /\ DOMAIN sendq = 1 .. Len(sendq) /\ Len(sendq) \in Nat
        /\ worker \in WorkerSet(texts)
    BY PathTypes DEF IInv
  <2>1. PathInv /\ HandInv /\ EventInv /\ PostedInv /\ InHandInv /\ QueuedInv
    BY DEF IInv, KeptInv, PathInv
  <2>2. \A k \in DOMAIN toSend :
           \/ worker.text # NoText /\ k = 1 /\ toSend[k] = worker.text
           \/ /\ worker.text # NoText /\ ~worker.stop /\ k - 1 \in DOMAIN sendq
              /\ k > 1 /\ toSend[k] = sendq[k - 1]
           \/ /\ worker.text = NoText /\ ~worker.stop /\ k \in DOMAIN sendq
              /\ toSend[k] = sendq[k]
    <3>1. CASE worker.text = NoText /\ worker.stop
      <4>1. toSend = << >>
        BY <3>1
      <4> HIDE DEF toSend
      <4>2. Len(toSend) = 0 /\ DOMAIN toSend = 1 .. Len(toSend)
        BY <4>1
      <4> QED
        BY <4>2
    <3>2. CASE worker.text = NoText /\ ~worker.stop
      <4>1. toSend = sendq
        BY <2>0, <3>2
      <4> QED
        BY <3>2, <4>1
    <3>3. CASE worker.text # NoText /\ worker.stop
      <4>1. toSend = <<worker.text>>
        BY <3>3
      <4> QED
        BY <3>3, <4>1
    <3>4. CASE worker.text # NoText /\ ~worker.stop
      <4>1. toSend = <<worker.text>> \o sendq
        BY <3>4
      <4> QED
        BY <2>0, <3>4, <4>1
    <3> QED
      BY <3>1, <3>2, <3>3, <3>4
  <2> HIDE DEF toSend
  <2>3. ASSUME NEW i \in DOMAIN uiq, Sent(uiq[i])
        PROVE  /\ \A j \in DOMAIN uiq : Sent(uiq[j]) /\ i < j => uiq[i].n < uiq[j].n
               /\ \A j \in DOMAIN toSend : uiq[i].n < toSend[j]
               /\ \A n \in reported : n < uiq[i].n
    BY <2>1, <2>2, <2>3 DEF PostedInv
  <2>4. ASSUME NEW i \in DOMAIN toSend
        PROVE  /\ \A j \in DOMAIN toSend : i < j => toSend[i] < toSend[j]
               /\ \A n \in reported : n < toSend[i]
               /\ toSend[i] > session.before
    <3>1. \A n \in reported : n < toSend[i]
      BY <2>1, <2>2, <2>4 DEF InHandInv, QueuedInv
    <3>2. toSend[i] > session.before
      BY <2>1, <2>2, <2>4 DEF InHandInv, QueuedInv
    <3>3. ASSUME NEW j \in DOMAIN toSend, i < j
          PROVE  toSend[i] < toSend[j]
      <4>0. i \in Nat /\ j \in Nat /\ i >= 1
        BY <2>2, <2>4, <3>3, <2>0
      <4>1. CASE worker.text # NoText /\ i = 1 /\ toSend[i] = worker.text
        <5>1. /\ ~worker.stop /\ j - 1 \in DOMAIN sendq /\ toSend[j] = sendq[j - 1]
          BY <2>2, <3>3, <4>0, <4>1
        <5> QED
          BY <2>1, <4>1, <5>1 DEF InHandInv
      <4>2. CASE /\ worker.text # NoText /\ ~worker.stop /\ i - 1 \in DOMAIN sendq
                 /\ i > 1 /\ toSend[i] = sendq[i - 1]
        <5>1. j - 1 \in DOMAIN sendq /\ toSend[j] = sendq[j - 1] /\ i - 1 < j - 1
          BY <2>2, <3>3, <4>0, <4>2
        <5> QED
          BY <2>1, <4>2, <5>1 DEF QueuedInv
      <4>3. CASE /\ worker.text = NoText /\ ~worker.stop /\ i \in DOMAIN sendq
                 /\ toSend[i] = sendq[i]
        <5>1. j \in DOMAIN sendq /\ toSend[j] = sendq[j]
          BY <2>2, <3>3, <4>3
        <5> QED
          BY <2>1, <3>3, <4>3, <5>1 DEF QueuedInv
      <4> QED
        BY <2>2, <2>4, <4>1, <4>2, <4>3
    <3> QED
      BY <3>1, <3>2, <3>3
  <2> QED
    BY <2>3, <2>4 DEF ReportedInOrder, Sent, toSend
<1> QED
  BY <1>1, Inductive, PTL
=============================================================================
