-------------------------------- MODULE Chat --------------------------------
(***************************************************************************)
(* The chat of the meeting window: the rows of the list, the button that   *)
(* sends a text, the send worker that takes the text from the queue, and   *)
(* the report "sent" that comes back to the UI thread, through one session *)
(* after another.                                                          *)
(*                                                                         *)
(* A row is a time, a text of this client or a text of another member; a   *)
(* text is its number.  Of the send queue only the texts are kept, of the  *)
(* worker its two looks at the epoch (SendQueue and ClientSession have the *)
(* rest).                                                                  *)
(***************************************************************************)
EXTENDS Integers, Sequences

CONSTANTS
    MaxSessions,  \* bound: sessions
    MaxTexts,     \* bound: texts of this client
    MaxOthers     \* bound: texts and joins of other members

ASSUME ChatAssumption == {MaxSessions, MaxTexts, MaxOthers} \subseteq Nat

VARIABLES
    rows,     \* ui->listWidget
    sendmsg,  \* is the button enabled?
    session,  \* of the UI thread: its number, its state, and how many texts
              \* were written before it
    inRoom,   \* the server has let this client in
    uiq,      \* posted to the UI thread
    sendq,    \* the texts in the send queue
    worker,   \* the send worker and the text in its hand
    crashed,  \* has the list been asked for the widget of a row it has not?
    texts,    \* the number of texts written
    others,   \* the number of texts and joins of other members
    reported, \* history: the texts whose report has been handled
    stray,    \* history: has something been handled that belongs to an ended
              \* session, been left for the next one in the send queue, or come
              \* between a text and its report?
    kept      \* history: has it been left in the send queue?

uiVars == <<rows, sendmsg, session>>
history == <<texts, others, reported, stray, kept>>
vars == <<uiVars, inRoom, uiq, sendq, worker, crashed, history>>

NoText == 0

Init ==
    /\ rows = << >>
    /\ sendmsg = FALSE
    /\ session = [n |-> 0, state |-> "none", before |-> 0]
    /\ inRoom = FALSE
    /\ uiq = << >>
    /\ sendq = << >>
    /\ worker = [pc |-> "ended", text |-> NoText, stop |-> FALSE]
    /\ crashed = FALSE
    /\ texts = 0 /\ others = 0
    /\ reported = {}
    /\ stray = FALSE /\ kept = FALSE

Alive == ~crashed
Active == session.state = "active"
Event(type, n) == [type |-> type, n |-> n]
Row(kind, n) == [kind |-> kind, n |-> n, session |-> session.n, sent |-> FALSE]

\* deal_message_time: an empty list gets a time first, another one when its
\* last row is older than a minute.
Timed(r) ==
    {Append(r, Row("time", NoText))} \cup (IF r = << >> THEN {} ELSE {r})

\* deal_message, after it.
Shown(r, row) == {Append(t, row) : t \in Timed(r)}
-----------------------------------------------------------------------------
(***************************************************************************)
(* The UI thread.                                                          *)
(***************************************************************************)
\* Mutant: the button stays enabled.
on_send_msg_clicked_Enabled ==
    /\ Alive /\ sendmsg /\ texts < MaxTexts
    /\ texts' = texts + 1
    /\ rows' \in Shown(rows, Row("mine", texts'))
    /\ sendq' = Append(sendq, texts')
    /\ UNCHANGED <<sendmsg, session, inRoom, uiq, worker, crashed, others, reported, stray, kept>>

\* The button, with a text that is not empty.
on_send_msg_clicked_slot ==
    /\ Alive /\ sendmsg /\ texts < MaxTexts
    /\ texts' = texts + 1
    /\ rows' \in Shown(rows, Row("mine", texts'))
    /\ sendq' = Append(sendq, texts')
    /\ sendmsg' = FALSE
    /\ UNCHANGED <<session, inRoom, uiq, worker, crashed, others, reported, stray, kept>>

\* A text that this client wrote in this session is not reported yet.
Outstanding ==
    \E i \in DOMAIN rows :
        /\ rows[i].kind = "mine"
        /\ rows[i].n > session.before /\ rows[i].n \notin reported

Take(type) == Alive /\ uiq # << >> /\ Head(uiq).type = type /\ uiq' = Tail(uiq)

setTextSuccess(row) == [row EXCEPT !.sent = TRUE]

\* Mutant: the button is forgotten.
on_text_send_slot_Disabled ==
    /\ Take("sent")
    /\ IF rows = << >>
       THEN crashed' = TRUE /\ UNCHANGED rows
       ELSE rows' = [rows EXCEPT ![Len(rows)] = setTextSuccess(@)] /\ UNCHANGED crashed
    /\ reported' = reported \cup {Head(uiq).n}
    /\ stray' = (stray \/ ~Active \/ Head(uiq).n <= session.before)
    /\ UNCHANGED <<sendmsg, session, inRoom, sendq, worker, texts, others, kept>>

\* The last row is marked, whatever it is; an empty list has none.
on_text_send_slot ==
    /\ Take("sent")
    /\ IF rows = << >>
       THEN crashed' = TRUE /\ UNCHANGED <<rows, sendmsg>>
       ELSE /\ rows' = [rows EXCEPT ![Len(rows)] = setTextSuccess(@)]
            /\ sendmsg' = TRUE
            /\ UNCHANGED crashed
    /\ reported' = reported \cup {Head(uiq).n}
    /\ stray' = (stray \/ ~Active \/ Head(uiq).n <= session.before)
    /\ UNCHANGED <<session, inRoom, sendq, worker, texts, others, kept>>

handle_text_recv ==
    /\ Take("text")
    /\ rows' \in Shown(rows, Row("theirs", NoText))
    /\ stray' = (stray \/ ~Active \/ Outstanding)
    /\ UNCHANGED <<sendmsg, session, inRoom, sendq, worker, crashed, texts, others, reported, kept>>

\* The answer that lets this client in, and add_partner of a second member: both
\* enable the button.
handle_member ==
    /\ Take("member")
    /\ sendmsg' = TRUE
    /\ stray' = (stray \/ ~Active \/ Outstanding)
    /\ UNCHANGED <<rows, session, inRoom, sendq, worker, crashed, texts, others, reported, kept>>

\* Mutant: the rows are kept.
end_meeting_session_KeepsRows ==
    /\ Alive
    /\ session' = IF Active THEN [session EXCEPT !.state = "ending"] ELSE session
    /\ sendmsg' = FALSE
    /\ UNCHANGED <<rows, inRoom, uiq, sendq, worker, crashed, history>>

\* By the user or an error, with or without a session; reset_meeting_ui
\* empties the list.
end_meeting_session ==
    /\ Alive
    /\ session' = IF Active THEN [session EXCEPT !.state = "ending"] ELSE session
    /\ rows' = << >>
    /\ sendmsg' = FALSE
    /\ UNCHANGED <<inRoom, uiq, sendq, worker, crashed, history>>

on_network_disconnected_slot ==
    /\ Take("disconnected")
    /\ session' = [session EXCEPT !.state = "none"]
    /\ UNCHANGED <<rows, sendmsg, inRoom, sendq, worker, crashed, history>>

\* Mutant: the queue is left as it is.
connect_KeepsQueue ==
    /\ Alive /\ session.state = "none" /\ session.n < MaxSessions
    /\ worker.pc = "ended"
    /\ session' = [n |-> session.n + 1, state |-> "active", before |-> texts]
    /\ sendmsg' = FALSE
    /\ worker' = [pc |-> "loop", text |-> NoText, stop |-> FALSE]
    /\ UNCHANGED <<rows, inRoom, uiq, sendq, crashed, history>>

\* A new session: the queues are cleared, the old worker is waited for and a
\* new one started before on_connect_finished_slot runs.  A clear that finds
\* the mutex taken eight times leaves the queue as it is.
connect ==
    /\ Alive /\ session.state = "none" /\ session.n < MaxSessions
    /\ worker.pc = "ended"
    /\ session' = [n |-> session.n + 1, state |-> "active", before |-> texts]
    /\ sendmsg' = FALSE
    /\ \/ sendq' = << >> /\ UNCHANGED <<stray, kept>>
       \/ sendq # << >> /\ UNCHANGED sendq /\ stray' = TRUE /\ kept' = TRUE
    /\ worker' = [pc |-> "loop", text |-> NoText, stop |-> FALSE]
    /\ UNCHANGED <<rows, inRoom, uiq, crashed, texts, others, reported>>
-----------------------------------------------------------------------------
(***************************************************************************)
(* The send worker: send_loop.                                             *)
(***************************************************************************)
\* The loop condition, and a pop; without a text it goes round.
worker_pop ==
    /\ Alive /\ worker.pc = "loop"
    /\ IF worker.stop
       THEN worker' = [worker EXCEPT !.pc = "ended"] /\ UNCHANGED sendq
       ELSE /\ sendq # << >>
            /\ worker' = [worker EXCEPT !.pc = "popped", !.text = Head(sendq)]
            /\ sendq' = Tail(sendq)
    /\ UNCHANGED <<uiVars, inRoom, uiq, crashed, history>>

\* Mutant: what goes back has been moved away before.
worker_check_Moved ==
    /\ worker.pc = "popped" /\ Alive
    /\ IF worker.stop
       THEN /\ worker' = [worker EXCEPT !.pc = "ended", !.text = NoText]
            /\ sendq' = Append(sendq, worker'.text)
       ELSE worker' = [worker EXCEPT !.pc = "send"] /\ UNCHANGED sendq
    /\ UNCHANGED <<uiVars, inRoom, uiq, crashed, history>>

\* The second look at the epoch; a text in hand goes back.
worker_check ==
    /\ worker.pc = "popped" /\ Alive
    /\ IF worker.stop
       THEN /\ worker' = [worker EXCEPT !.pc = "ended", !.text = NoText]
            /\ sendq' = Append(sendq, worker.text)
       ELSE worker' = [worker EXCEPT !.pc = "send"] /\ UNCHANGED sendq
    /\ UNCHANGED <<uiVars, inRoom, uiq, crashed, history>>

\* Posted to the IO thread, and reported as sent.
worker_send ==
    /\ worker.pc = "send" /\ Alive
    /\ uiq' = Append(uiq, Event("sent", worker.text))
    /\ worker' = [worker EXCEPT !.pc = "loop", !.text = NoText]
    /\ UNCHANGED <<uiVars, inRoom, sendq, crashed, history>>
-----------------------------------------------------------------------------
(***************************************************************************)
(* The IO thread, the server and the other members.                        *)
(***************************************************************************)
Connected == session.state # "none" /\ ~worker.stop

admit ==
    /\ Alive /\ Connected /\ ~inRoom
    /\ inRoom' = TRUE
    /\ uiq' = Append(uiq, Event("member", NoText))
    /\ UNCHANGED <<uiVars, sendq, worker, crashed, history>>

\* Another member writes, or a second one joins.
receive ==
    /\ Alive /\ Connected /\ inRoom /\ others < MaxOthers
    /\ others' = others + 1
    /\ \E type \in {"text", "member"} : uiq' = Append(uiq, Event(type, NoText))
    /\ UNCHANGED <<uiVars, inRoom, sendq, worker, crashed, texts, reported, stray, kept>>

\* The worker is told to stop, the socket closed, the queues cleared if their
\* mutex is free.
io_disconnect ==
    /\ Alive /\ session.state = "ending" /\ ~worker.stop
    /\ worker' = [worker EXCEPT !.stop = TRUE]
    /\ sendq' \in {<< >>, sendq}
    /\ inRoom' = FALSE
    /\ uiq' = Append(uiq, Event("disconnected", NoText))
    /\ UNCHANGED <<uiVars, crashed, history>>
-----------------------------------------------------------------------------
Slots ==
    \/ on_text_send_slot \/ handle_text_recv \/ handle_member
    \/ on_network_disconnected_slot

Worker == worker_pop \/ worker_check \/ worker_send

Next ==
    \/ Slots \/ Worker
    \/ on_send_msg_clicked_slot \/ end_meeting_session \/ connect
    \/ admit \/ receive \/ io_disconnect

Spec == Init /\ [][Next]_vars

\* The event loop and the worker go on; nobody need write, leave or come.
FairSpec == Spec /\ WF_vars(Slots) /\ WF_vars(Worker)
-----------------------------------------------------------------------------
(***************************************************************************)
(* Properties.                                                             *)
(***************************************************************************)
\* The values of the variables; nothing is reported that was not written.
TypeOK ==
    /\ rows \in Seq([kind : {"time", "mine", "theirs"}, n : 0 .. MaxTexts,
                     session : 0 .. MaxSessions, sent : BOOLEAN])
    /\ {sendmsg, inRoom, crashed, stray, kept} \subseteq BOOLEAN
    /\ session \in [n : 0 .. MaxSessions, state : {"none", "active", "ending"},
                    before : 0 .. texts]
    /\ uiq \in Seq([type : {"sent", "text", "member", "disconnected"},
                    n : 0 .. MaxTexts])
    /\ sendq \in Seq(1 .. texts)
    /\ worker \in [pc : {"ended", "loop", "popped", "send"}, text : 0 .. texts,
                   stop : BOOLEAN]
    /\ texts \in 0 .. MaxTexts /\ others \in 0 .. MaxOthers
    /\ reported \subseteq 1 .. texts

\* "标记本人消息已发送成功": the mark "sent" is on the texts that have been
\* reported and on no other row, and the row to mark is there, as long as
\* nothing came between a text and its report, no report came after the end
\* of its session and no text was left for the next.  (Otherwise the code marks the wrong row, or one
\* that is not there.)
OwnTextIsMarked ==
    ~stray =>
        /\ ~crashed
        /\ \A i \in DOMAIN rows :
             rows[i].sent <=> rows[i].kind = "mine" /\ rows[i].n \in reported

\* The list is that of the session: it never shows a row of an earlier one,
\* unless a message of that was handled after its end, and begins with a time.
RowsOfSession ==
    /\ TypeOK
    /\ rows # << >> => Head(rows).kind = "time"
    /\ ~stray => \A i \in DOMAIN rows : rows[i].session = session.n /\ Active

\* A text is reported once at most, and each in its turn: what waits for a
\* worker that runs, is in its hand or in reports is in the order it was
\* written.  No worker gets a text of an earlier session, though one that is
\* stopped gives back what it has in hand.  All this ends where connect could
\* not clear the queue: what the old worker gave back comes behind later texts.
ReportedInOrder ==
    ~kept =>
    LET reports == {i \in DOMAIN uiq : uiq[i].type = "sent"}
        toSend == (IF worker.text = NoText THEN << >> ELSE <<worker.text>>)
                    \o (IF worker.stop THEN << >> ELSE sendq)
    IN /\ \A i \in reports :
             /\ \A j \in reports : i < j => uiq[i].n < uiq[j].n
             /\ \A j \in DOMAIN toSend : uiq[i].n < toSend[j]
             /\ \A n \in reported : n < uiq[i].n
       /\ \A i \in DOMAIN toSend :
             /\ \A j \in DOMAIN toSend : i < j => toSend[i] < toSend[j]
             /\ \A n \in reported : n < toSend[i]
             /\ worker.pc # "ended" => toSend[i] > session.before

\* Who has written a text in a session can write the next: the button, which
\* only the report enables again, comes back unless the session ends.  (A text
\* written after the end is dropped by the next connect and never reported,
\* unless its clear gives up.)
ButtonReturns ==
    (Active /\ Outstanding) ~> (sendmsg \/ ~Active \/ crashed)
==============================================================================
