------------------------------ MODULE SendQueue ------------------------------
(***************************************************************************)
(* The send queue of the client (PriorityMessageQueue) with the threads    *)
(* that use it: "ui" pushes pictures, texts and CLOSE_CAMERA and empties   *)
(* the video bucket, "mic" pushes audio, "worker" is the send thread       *)
(* (MessageHub::send_loop), "io" empties the queue when a connection comes *)
(* or goes (MessageHub::clear_all).                                        *)
(*                                                                         *)
(* What runs under mutex_ is one step.  push, clear and clear_video do not *)
(* lock it but try to, each with a patience of its own: a try fails only   *)
(* while another thread is at a step that takes the mutex.                 *)
(*                                                                         *)
(* One send thread exists at a time: ClientSession has the hand-over.      *)
(***************************************************************************)
EXTENDS Integers, Sequences, FiniteSets

CONSTANTS
    Limit,      \* the limit of each bucket: QUEUE_MAXSIZE, AUDIO_..., VIDEO_...
    Tries,      \* how often clear() tries to lock: 8
    Sends,      \* the kinds that are pushed, besides CLOSE_CAMERA
    MaxAccepted,\* bound: how many messages are pushed
    MaxClears   \* bound: how often the IO thread empties the queue

Control == 0  Audio == 1  Text == 2  Video == 3
Priorities == Control .. Video

Kinds == {"CloseCamera", "SendAudio", "SendText", "SendImage"}
send_priority == [CloseCamera |-> Control, SendAudio |-> Audio,
                  SendText |-> Text, SendImage |-> Video]

ASSUME LimitAssumption == Limit \in [Priorities -> Nat \ {0}]
ASSUME SendsAssumption == Sends \subseteq Kinds \ {"CloseCamera"}
ASSUME TriesAssumption == Tries \in Nat \ {0}
ASSUME BoundsAssumption == MaxAccepted \in Nat /\ MaxClears \in Nat

Threads == {"ui", "mic", "worker", "io"}

VARIABLES
    buckets,  \* buckets_
    pc,       \* what each thread is about to do
    hand,     \* the message each thread is pushing or has popped
    attempt,  \* failed tries of the clear() under way
    clears,   \* clears begun so far
    stopped,  \* has send_epoch_ moved on from the epoch of the worker?
    camera,   \* CameraVideo::isCameraRunning
    wire,     \* the messages given to Connection::sendWireData, in order
    accepted, \* history: the kinds of the messages pushed, in order
    gone,     \* history: messages evicted by push_bounded or cleared
    skipped   \* history: has clear_video() found the mutex taken?

vars == <<buckets, pc, hand, attempt, clears, stopped, camera, wire,
          accepted, gone, skipped>>

\* A message is its kind and the place at which it was accepted.
Messages == [kind : Kinds, n : 0 .. MaxAccepted]
NoMessage == [kind |-> "none", n |-> 0]
Fresh(kind) == [kind |-> kind, n |-> 0]
PriorityOf(m) == send_priority[m.kind]

Init ==
    /\ buckets = [p \in Priorities |-> << >>]
    /\ pc = [t \in Threads |-> IF t = "worker" THEN "loop" ELSE "idle"]
    /\ hand = [t \in Threads |-> NoMessage]
    /\ attempt = 0
    /\ clears = 0
    /\ stopped = FALSE
    /\ camera = FALSE
    /\ wire = << >>
    /\ accepted = << >>
    /\ gone = {}
    /\ skipped = FALSE

Goto(t, label) == pc' = [pc EXCEPT ![t] = label]
Held(ms) == {ms[i].n : i \in DOMAIN ms}

\* The bound on pushes, those under way included.
MayPush ==
    LET pushing == {t \in Threads : /\ hand[t].n = 0
                                    /\ pc[t] \in {"clear_video", "push"}}
    IN  Len(accepted) + Cardinality(pushing) < MaxAccepted
-----------------------------------------------------------------------------
\* Another thread is at a step that takes the mutex: a try_lock may fail.
Contended(t) ==
    \E u \in Threads \ {t} :
        pc[u] \in {"push", "clear_video", "clear", "pop", "last_pop"}

\* notify_one and notify_all: only the worker ever waits.
WakeWorker(pcs) ==
    IF pcs["worker"] = "wait" THEN [pcs EXCEPT !["worker"] = "pop"] ELSE pcs

\* After a push the worker that returned a message leaves its loop; the
\* others are done.
Pushed(t) == IF t = "worker" THEN "ended" ELSE "idle"

\* Mutant: the notify_one of push is forgotten.
push_notify_Forgotten(t) ==
    /\ pc[t] = "notify"
    /\ Goto(t, Pushed(t))
    /\ UNCHANGED <<buckets, hand, attempt, clears, stopped, camera,
                   wire, accepted, gone, skipped>>

push_notify(t) ==
    /\ pc[t] = "notify"
    /\ pc' = WakeWorker([pc EXCEPT ![t] = Pushed(t)])
    /\ UNCHANGED <<buckets, hand, attempt, clears, stopped, camera,
                   wire, accepted, gone, skipped>>

\* Mutant: the bucket grows to one more than its limit.
push_bounded_OneMore(bucket, m, max_size) ==
    Append(IF Len(bucket) > max_size THEN Tail(bucket) ELSE bucket, m)

\* Mutant: a full bucket makes room by its newest message.
push_bounded_DropNewest(bucket, m, max_size) ==
    Append(IF Len(bucket) >= max_size
           THEN SubSeq(bucket, 1, Len(bucket) - 1) ELSE bucket, m)

push_bounded(bucket, m, max_size) ==
    Append(IF Len(bucket) >= max_size THEN Tail(bucket) ELSE bucket, m)

\* The critical section of push.
push(t) ==
    LET m == IF hand[t].n = 0
             THEN [hand[t] EXCEPT !.n = Len(accepted) + 1] ELSE hand[t]
        p == PriorityOf(m)
        b == push_bounded(buckets[p], m, Limit[p])
    IN  /\ pc[t] = "push"
        /\ buckets' = [buckets EXCEPT ![p] = b]
        /\ gone' = gone \cup (Held(buckets[p]) \ Held(b))
        /\ accepted' = IF hand[t].n = 0 THEN Append(accepted, m.kind)
                       ELSE accepted
        /\ hand' = [hand EXCEPT ![t] = NoMessage]
        /\ Goto(t, "notify")
        /\ UNCHANGED <<attempt, clears, stopped, camera, wire, skipped>>

\* try_lock has failed for WAITSECONDS: the message is dropped in silence.
push_timeout(t) ==
    /\ pc[t] = "push"
    /\ Contended(t)
    /\ hand' = [hand EXCEPT ![t] = NoMessage]
    /\ gone' = gone \cup ({hand[t].n} \ {0})
    /\ Goto(t, Pushed(t))
    /\ UNCHANGED <<buckets, attempt, clears, stopped, camera, wire,
                   accepted, skipped>>

Push(t) ==
    \/ push(t)
    \/ push_notify(t)
    \/ push_timeout(t)

\* enqueue_send: t begins to push a message of this kind.
enqueue_send(t, kind) ==
    /\ pc[t] = "idle"
    /\ kind \in Sends
    /\ MayPush
    /\ hand' = [hand EXCEPT ![t] = Fresh(kind)]
    /\ Goto(t, "push")
    /\ UNCHANGED <<buckets, attempt, clears, stopped, camera, wire,
                   accepted, gone, skipped>>
-----------------------------------------------------------------------------
\* The UI thread: on_local_frame_captured_slot, on_send_msg_clicked_slot and
\* on_open_vedio_clicked_slot.
ui_frame == camera /\ enqueue_send("ui", "SendImage")
ui_text == enqueue_send("ui", "SendText")

ui_camera_on ==
    /\ pc["ui"] = "idle"
    /\ ~camera
    /\ "SendImage" \in Sends
    /\ MayPush
    /\ camera' = TRUE
    /\ UNCHANGED <<buckets, pc, hand, attempt, clears, stopped, wire,
                   accepted, gone, skipped>>

ui_camera_off ==
    /\ pc["ui"] = "idle"
    /\ camera
    /\ MayPush
    /\ camera' = FALSE
    /\ Goto("ui", "clear_video")
    /\ UNCHANGED <<buckets, hand, attempt, clears, stopped, wire,
                   accepted, gone, skipped>>

\* clear_video() tries once, and returns without a word.
clear_video_skip ==
    /\ pc["ui"] = "clear_video"
    /\ Contended("ui")
    /\ skipped' = TRUE
    /\ hand' = [hand EXCEPT !["ui"] = Fresh("CloseCamera")]
    /\ Goto("ui", "push")
    /\ UNCHANGED <<buckets, attempt, clears, stopped, camera, wire,
                   accepted, gone>>

\* Mutant: the wrong bucket is swapped out.
clear_video_TextBucket ==
    /\ pc["ui"] = "clear_video"
    /\ buckets' = [buckets EXCEPT ![Text] = << >>]
    /\ gone' = gone \cup Held(buckets[Text])
    /\ hand' = [hand EXCEPT !["ui"] = Fresh("CloseCamera")]
    /\ pc' = WakeWorker([pc EXCEPT !["ui"] = "push"])
    /\ UNCHANGED <<attempt, clears, stopped, camera, wire, accepted, skipped>>

\* The swap and the notify_all of clear_video, then send_close_camera.
clear_video ==
    /\ pc["ui"] = "clear_video"
    /\ buckets' = [buckets EXCEPT ![Video] = << >>]
    /\ gone' = gone \cup Held(buckets[Video])
    /\ hand' = [hand EXCEPT !["ui"] = Fresh("CloseCamera")]
    /\ pc' = WakeWorker([pc EXCEPT !["ui"] = "push"])
    /\ UNCHANGED <<attempt, clears, stopped, camera, wire, accepted, skipped>>

ClearVideo == clear_video \/ clear_video_skip

UiThread ==
    \/ ui_frame \/ ui_text \/ ui_camera_on \/ ui_camera_off
    \/ ClearVideo
    \/ Push("ui")

MicThread == enqueue_send("mic", "SendAudio") \/ Push("mic")
-----------------------------------------------------------------------------
\* The IO thread in clear_all, from connectOnIoThread or disconnectOnIoThread.
io_clear ==
    /\ pc["io"] = "idle"
    /\ clears < MaxClears
    /\ clears' = clears + 1
    /\ attempt' = 0
    /\ Goto("io", "clear")
    /\ UNCHANGED <<buckets, hand, stopped, camera, wire, accepted,
                   gone, skipped>>

\* A failed try notifies all and sleeps; after the last one clear() returns.
clear_try_fails ==
    /\ pc["io"] = "clear"
    /\ Contended("io")
    /\ attempt' = attempt + 1
    /\ LET next == IF attempt + 1 = Tries THEN "gave_up" ELSE "clear"
       IN  pc' = WakeWorker([pc EXCEPT !["io"] = next])
    /\ UNCHANGED <<buckets, hand, clears, stopped, camera, wire,
                   accepted, gone, skipped>>

clear ==
    /\ pc["io"] = "clear"
    /\ buckets' = [p \in Priorities |-> << >>]
    /\ gone' = gone \cup UNION {Held(buckets[p]) : p \in Priorities}
    /\ pc' = WakeWorker([pc EXCEPT !["io"] = "cleared"])
    /\ UNCHANGED <<hand, attempt, clears, stopped, camera, wire, accepted,
                   skipped>>

\* The wake_all at the end of clear_all.
clear_all_wake ==
    /\ pc["io"] \in {"cleared", "gave_up"}
    /\ pc' = WakeWorker([pc EXCEPT !["io"] = "idle"])
    /\ attempt' = 0
    /\ UNCHANGED <<buckets, hand, clears, stopped, camera, wire,
                   accepted, gone, skipped>>

ClearAll == clear \/ clear_try_fails \/ clear_all_wake

IoThread == io_clear \/ ClearAll
-----------------------------------------------------------------------------
\* The condition of the loop of send_loop.
send_loop ==
    /\ pc["worker"] = "loop"
    /\ Goto("worker", IF stopped THEN "ended" ELSE "pop")
    /\ UNCHANGED <<buckets, hand, attempt, clears, stopped, camera,
                   wire, accepted, gone, skipped>>

HasAny == \E p \in Priorities : buckets[p] # << >>

\* pop() finds something, at once, when notified, or in the last look after
\* its 100 ms, and takes the first message of the most urgent bucket.
pop_take ==
    /\ pc["worker"] \in {"pop", "last_pop"}
    /\ \E p \in Priorities :
         /\ buckets[p] # << >>
         /\ \A q \in Priorities : q < p => buckets[q] = << >>
         /\ hand' = [hand EXCEPT !["worker"] = Head(buckets[p])]
         /\ buckets' = [buckets EXCEPT ![p] = Tail(@)]
    /\ Goto("worker", "popped")
    /\ UNCHANGED <<attempt, clears, stopped, camera, wire, accepted, gone,
                   skipped>>

\* pop() finds nothing: it waits, or it returns nullopt.
pop_none ==
    /\ pc["worker"] \in {"pop", "last_pop"}
    /\ ~HasAny
    /\ Goto("worker", IF pc["worker"] = "pop" THEN "wait" ELSE "popped")
    /\ UNCHANGED <<buckets, hand, attempt, clears, stopped, camera, wire,
                   accepted, gone, skipped>>

pop_timeout ==
    /\ pc["worker"] = "wait"
    /\ Goto("worker", "last_pop")
    /\ UNCHANGED <<buckets, hand, attempt, clears, stopped, camera,
                   wire, accepted, gone, skipped>>

Returned == {"CloseCamera", "SendText"}

\* Mutant: texts are forgotten in the list of what is returned.
return_or_drop_NoText ==
    /\ pc["worker"] = "popped"
    /\ stopped
    /\ IF hand["worker"].kind = "CloseCamera"
       THEN Goto("worker", "push") /\ UNCHANGED hand
       ELSE /\ Goto("worker", "ended")
            /\ hand' = [hand EXCEPT !["worker"] = NoMessage]
    /\ UNCHANGED <<buckets, attempt, clears, stopped, camera, wire,
                   accepted, gone, skipped>>

\* The epoch has moved on: requests and texts go back, media are dropped.
return_or_drop ==
    /\ pc["worker"] = "popped"
    /\ stopped
    /\ IF hand["worker"].kind \in Returned
       THEN Goto("worker", "push") /\ UNCHANGED hand
       ELSE /\ Goto("worker", "ended")
            /\ hand' = [hand EXCEPT !["worker"] = NoMessage]
    /\ UNCHANGED <<buckets, attempt, clears, stopped, camera, wire,
                   accepted, gone, skipped>>

\* Mutant: an empty pop ends the loop instead of going round.
send_BreakOnEmpty ==
    /\ pc["worker"] = "popped"
    /\ ~stopped
    /\ IF hand["worker"] = NoMessage
       THEN wire' = wire /\ Goto("worker", "ended")
       ELSE wire' = Append(wire, hand["worker"]) /\ Goto("worker", "loop")
    /\ hand' = [hand EXCEPT !["worker"] = NoMessage]
    /\ UNCHANGED <<buckets, attempt, clears, stopped, camera, accepted,
                   gone, skipped>>

\* The rest of the body: encode, post to the IO thread, go round.
send ==
    /\ pc["worker"] = "popped"
    /\ ~stopped
    /\ wire' = IF hand["worker"] = NoMessage THEN wire
               ELSE Append(wire, hand["worker"])
    /\ hand' = [hand EXCEPT !["worker"] = NoMessage]
    /\ Goto("worker", "loop")
    /\ UNCHANGED <<buckets, attempt, clears, stopped, camera, accepted,
                   gone, skipped>>

Worker ==
    \/ send_loop \/ pop_take \/ pop_none \/ pop_timeout
    \/ return_or_drop \/ send
    \/ Push("worker")

\* signal_send_stop, from any thread.
signal_send_stop ==
    /\ ~stopped
    /\ stopped' = TRUE
    /\ pc' = WakeWorker(pc)
    /\ UNCHANGED <<buckets, hand, attempt, clears, camera, wire,
                   accepted, gone, skipped>>

\* start_send_worker: after the join, and after the connectOnIoThread that
\* the controller has waited for.
start_send_worker ==
    /\ pc["worker"] = "ended"
    /\ pc["io"] = "idle"
    /\ stopped
    /\ stopped' = FALSE
    /\ Goto("worker", "loop")
    /\ UNCHANGED <<buckets, hand, attempt, clears, camera, wire,
                   accepted, gone, skipped>>

Next ==
    \/ UiThread \/ MicThread \/ IoThread \/ Worker
    \/ signal_send_stop \/ start_send_worker

Spec == Init /\ [][Next]_vars

\* Every thread goes on; nobody is forced to push, to clear or to stop.
Fairness ==
    /\ WF_vars(Worker)
    /\ WF_vars(start_send_worker)
    /\ \A t \in {"ui", "mic"} : WF_vars(Push(t))
    /\ WF_vars(ClearVideo)
    /\ WF_vars(ClearAll)

FairSpec == Spec /\ Fairness
-----------------------------------------------------------------------------
TypeOK ==
    /\ buckets \in [Priorities -> Seq(Messages)]
    /\ \A p \in Priorities : Len(buckets[p]) <= Limit[p]
    /\ pc \in [Threads -> {"idle", "push", "notify", "clear_video", "clear",
                           "cleared", "gave_up", "loop", "pop", "wait",
                           "last_pop", "popped", "ended"}]
    /\ hand \in [Threads -> Messages \cup {NoMessage}]
    /\ attempt \in 0 .. Tries
    /\ clears \in 0 .. MaxClears
    /\ stopped \in BOOLEAN /\ camera \in BOOLEAN /\ skipped \in BOOLEAN
    /\ wire \in Seq(Messages)
    /\ accepted \in Seq(Kinds)
    /\ gone \subseteq 1 .. Len(accepted)

(***************************************************************************)
(* What a full media bucket gives up is the oldest: a bucket of audio or   *)
(* video holds everything of its kind accepted since its first message, in *)
(* order.  (Not so for the other two: a returned message comes late.)      *)
(***************************************************************************)
NewestKept ==
    \A p \in {Audio, Video} :
        LET b == buckets[p]
            OfKind == {n \in DOMAIN accepted : send_priority[accepted[n]] = p}
        IN  b # << >> =>
              /\ \A i, j \in DOMAIN b : i < j => b[i].n < b[j].n
              /\ Held(b) = {n \in OfKind : n >= Head(b).n}

(***************************************************************************)
(* A request or a text that was accepted is in its bucket, in the hand of  *)
(* the worker, on the wire, or was discarded by a full bucket, a clear or  *)
(* a timeout: a worker that is stopped loses none ("避免创建/加入会议请求  *)
(* 丢失"), and nothing is sent twice.                                      *)
(***************************************************************************)
EachInOnePlace ==
    \A n \in DOMAIN accepted :
        LET at(p) == {i \in DOMAIN buckets[p] : buckets[p][i].n = n}
            waiting == {p \in Priorities : at(p) # {}}
            sent == {i \in DOMAIN wire : wire[i].n = n}
            held == hand["worker"].n = n
        IN  /\ \A p, q \in waiting : p = q
            /\ \A p \in waiting : \A i, j \in at(p) : i = j
            /\ \A i, j \in sent : i = j
            /\ ~(waiting # {} /\ (sent # {} \/ held \/ n \in gone))
            /\ ~(held /\ (sent # {} \/ n \in gone))
            /\ ~(sent # {} /\ n \in gone)
            /\ accepted[n] \in Returned =>
                 waiting # {} \/ sent # {} \/ held \/ n \in gone

(***************************************************************************)
(* The worker never sleeps on a filled queue unless whoever filled it is   *)
(* about to notify: the notify after the unlock of push is not lost.       *)
(***************************************************************************)
NoLostWakeup ==
    pc["worker"] = "wait" /\ HasAny => \E t \in Threads : pc[t] = "notify"

\* A picture taken before a CLOSE_CAMERA is on the wire after it.
PictureAfterClose ==
    \E i, j \in DOMAIN wire :
        /\ i < j
        /\ wire[i].kind = "CloseCamera"
        /\ wire[j].kind = "SendImage"
        /\ wire[j].n < wire[i].n

(***************************************************************************)
(* CLOSE_CAMERA overtakes the pictures in the queue, so these must be gone *)
(* when it is pushed: if clear_video got its lock, no older picture        *)
(* follows it, whatever the worker had in hand.                            *)
(***************************************************************************)
CameraOffIsLast == ~skipped => ~PictureAfterClose

(***************************************************************************)
(* A text or CLOSE_CAMERA that was accepted goes out, or is discarded by a *)
(* limit, a clear or a timeout, unless the worker is stopped for ever.     *)
(***************************************************************************)
Queued(n) == n \in DOMAIN accepted /\ accepted[n] \in Returned
Out(n) == n \in gone \/ \E i \in DOMAIN wire : wire[i].n = n
RequestsGoOut ==
    <>[]~stopped => \A n \in 1 .. MaxAccepted : Queued(n) ~> Out(n)
=============================================================================
