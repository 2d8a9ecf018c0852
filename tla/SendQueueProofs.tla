--------------------------- MODULE SendQueueProofs ---------------------------
(***************************************************************************)
(* Theorems about SendQueue, for all limits of the buckets and all bounds. *)
(***************************************************************************)
EXTENDS SendQueue, FiniteSetTheorems, TLAPS

(***************************************************************************)
(* The inductive invariant, in parts.                                      *)
(***************************************************************************)
\* Where the threads can be.
PcInv ==
    /\ pc["ui"] \in {"idle", "clear_video", "push", "notify"}
    /\ pc["mic"] \in {"idle", "push", "notify"}
    /\ pc["io"] \in {"idle", "clear", "cleared", "gave_up"}
    /\ pc["worker"] \in {"loop", "pop", "wait", "last_pop", "popped", "push",
                         "notify", "ended"}
    /\ pc["io"] = "clear" => attempt < Tries

\* The bound on pushes: who is about to push has its number reserved.
Pushing == {t \in Threads : hand[t].n = 0 /\ pc[t] \in {"clear_video", "push"}}
RoomInv == Len(accepted) + Cardinality(Pushing) <= MaxAccepted

\* m is a message that was accepted.
IsAccepted(m) ==
    m \in Messages /\ m.n \in DOMAIN accepted /\ accepted[m.n] = m.kind

\* What the threads have in hand.  The worker pushes only what it returns.
HandInv ==
    /\ hand["io"] = NoMessage
    /\ \A t \in {"ui", "mic"} :
         IF pc[t] = "push" THEN hand[t] \in Messages /\ hand[t].n = 0
         ELSE hand[t] = NoMessage
    /\ pc["mic"] = "push" => hand["mic"].kind = "SendAudio"
    /\ pc["worker"] \notin {"push", "popped"} => hand["worker"] = NoMessage
    /\ pc["worker"] = "push" => hand["worker"].kind \in Returned
    /\ hand["worker"] = NoMessage \/ IsAccepted(hand["worker"])

\* What is queued or sent was accepted, and each bucket has its kinds.
WhereInv ==
    /\ \A p \in Priorities : \A i \in DOMAIN buckets[p] :
         IsAccepted(buckets[p][i]) /\ PriorityOf(buckets[p][i]) = p
    /\ \A i \in DOMAIN wire : IsAccepted(wire[i])

\* EachInOnePlace, of places instead of numbers.
PlaceInv ==
    /\ \A p, q \in Priorities : \A i \in DOMAIN buckets[p], j \in DOMAIN buckets[q] :
         buckets[p][i].n = buckets[q][j].n => p = q /\ i = j
    /\ \A i, j \in DOMAIN wire : wire[i].n = wire[j].n => i = j
    /\ \A p \in Priorities : \A i \in DOMAIN buckets[p] :
         /\ buckets[p][i].n \notin gone
         /\ buckets[p][i].n # hand["worker"].n
         /\ \A j \in DOMAIN wire : wire[j].n # buckets[p][i].n
    /\ hand["worker"].n \notin gone
    /\ \A j \in DOMAIN wire : wire[j].n # hand["worker"].n /\ wire[j].n \notin gone
    /\ \A n \in DOMAIN accepted : accepted[n] \in Returned =>
         \/ n = hand["worker"].n \/ n \in gone
         \/ \E p \in Priorities : \E i \in DOMAIN buckets[p] : buckets[p][i].n = n
         \/ \E j \in DOMAIN wire : wire[j].n = n
-----------------------------------------------------------------------------
(***************************************************************************)
(* Sequences.                                                              *)
(***************************************************************************)
LEMMA PriorityType ==
    /\ \A kind \in Kinds : send_priority[kind] \in Priorities
    /\ \A m \in Messages : PriorityOf(m) \in Priorities
BY DEF Kinds, send_priority, Priorities, Control, Audio, Text, Video, Messages, PriorityOf

\* push_bounded drops the first message of a full bucket or none, and appends.
LEMMA PushBounded ==
    ASSUME NEW bucket \in Seq(Messages), NEW m \in Messages, NEW max \in Nat \ {0},
           Len(bucket) <= max
    PROVE  LET b == push_bounded(bucket, m, max)
           IN  /\ b \in Seq(Messages) /\ Len(b) <= max
               /\ \E d \in {0, 1} :
                    /\ d <= Len(bucket)
                    /\ Len(b) = Len(bucket) - d + 1
                    /\ b[Len(b)] = m
                    /\ \A i \in 1 .. Len(bucket) - d : b[i] = bucket[i + d]
<1>1. CASE Len(bucket) >= max
  <2> DEFINE t == Tail(bucket)
  <2>1. /\ t \in Seq(Messages) /\ Len(t) = Len(bucket) - 1
        /\ \A i \in 1 .. Len(t) : t[i] = bucket[i + 1]
    BY <1>1
  <2>2. push_bounded(bucket, m, max) = Append(t, m)
    BY <1>1 DEF push_bounded
  <2> HIDE DEF t
  <2> QED
    BY <1>1, <2>1, <2>2
<1>2. CASE Len(bucket) < max
  BY <1>2 DEF push_bounded
<1> QED
  BY <1>1, <1>2

LEMMA HeadTail ==
    ASSUME NEW bucket \in Seq(Messages), bucket # << >>
    PROVE  /\ Len(bucket) \in Nat \ {0} /\ Head(bucket) = bucket[1]
           /\ Head(bucket) \in Messages
           /\ Tail(bucket) \in Seq(Messages) /\ Len(Tail(bucket)) = Len(bucket) - 1
           /\ \A i \in 1 .. Len(bucket) - 1 : Tail(bucket)[i] = bucket[i + 1]
OBVIOUS
-----------------------------------------------------------------------------
(***************************************************************************)
(* The steps.                                                              *)
(***************************************************************************)
Pushers == {"ui", "mic", "worker"}

\* Every action of the specification, Push by its thread.
Step ==
    \/ \E t \in Pushers : push(t) \/ push_notify(t) \/ push_timeout(t)
    \/ \E t \in {"ui", "mic"}, kind \in Kinds \ {"CloseCamera"} :
         /\ t = "mic" => kind = "SendAudio"
         /\ enqueue_send(t, kind)
    \/ ui_camera_on \/ ui_camera_off \/ clear_video_skip \/ clear_video
    \/ io_clear \/ clear_try_fails \/ clear \/ clear_all_wake
    \/ send_loop \/ pop_take \/ pop_none \/ pop_timeout \/ return_or_drop \/ send
    \/ signal_send_stop \/ start_send_worker

LEMMA NextIsStep == ASSUME Next PROVE Step
BY DEF Next, UiThread, MicThread, IoThread, Worker, ClearVideo, ClearAll, Push,
       ui_frame, ui_text, Pushers, Kinds, Step

LEMMA ThreadsFinite == IsFiniteSet(Threads)
<1>1. IsFiniteSet({"ui"} \cup {"mic"})
  BY FS_Singleton, FS_Union
<1>2. IsFiniteSet({"worker"} \cup {"io"})
  BY FS_Singleton, FS_Union
<1>3. IsFiniteSet(({"ui"} \cup {"mic"}) \cup ({"worker"} \cup {"io"}))
  BY <1>1, <1>2, FS_Union
<1>4. Threads = ({"ui"} \cup {"mic"}) \cup ({"worker"} \cup {"io"})
  BY DEF Threads
<1> QED
  BY <1>3, <1>4

\* What is pushed, and where it goes.
PushedBy(t) ==
    IF hand[t].n = 0 THEN [hand[t] EXCEPT !.n = Len(accepted) + 1] ELSE hand[t]

\* Only the worker pushes again what was accepted before; the other two push
\* a message that gets the next number.
LEMMA PushedByType ==
    ASSUME TypeOK, PcInv, RoomInv, HandInv,
           NEW t \in Pushers, pc[t] = "push"
    PROVE  /\ PushedBy(t) \in Messages
           /\ PushedBy(t).kind = hand[t].kind
           /\ t = "worker" => hand[t].n # 0 /\ PushedBy(t) = hand[t] /\ IsAccepted(hand[t])
           /\ t # "worker" => /\ hand[t].n = 0
                              /\ PushedBy(t).n = Len(accepted) + 1
                              /\ Len(accepted) < MaxAccepted
<1>1. CASE t = "worker"
  <2>1. hand[t] # NoMessage
    BY <1>1 DEF HandInv, Returned, NoMessage
  <2>2. IsAccepted(hand[t])
    BY <1>1, <2>1 DEF HandInv
  <2>3. hand[t].n # 0
    BY <2>2 DEF IsAccepted, TypeOK
  <2> QED
    BY <1>1, <2>2, <2>3 DEF PushedBy, IsAccepted
<1>2. CASE t # "worker"
  <2>1. t \in {"ui", "mic"} /\ hand[t] \in Messages /\ hand[t].n = 0
    BY <1>2 DEF Pushers, HandInv
  <2>2. t \in Pushing /\ IsFiniteSet(Threads)
    BY <2>1, ThreadsFinite DEF Pushing, Threads
  <2>3. IsFiniteSet(Pushing) /\ Cardinality(Pushing) \in Nat /\ Cardinality(Pushing) # 0
    BY <2>2, FS_Subset, FS_CardinalityType, FS_EmptySet DEF Pushing
  <2>4. Len(accepted) \in Nat /\ MaxAccepted \in Nat
    BY BoundsAssumption DEF TypeOK
  <2>5. Len(accepted) < MaxAccepted
    BY <2>3, <2>4 DEF RoomInv
  <2>6. PushedBy(t) = [hand[t] EXCEPT !.n = Len(accepted) + 1]
    BY <2>1 DEF PushedBy
  <2>7. Len(accepted) + 1 \in 0 .. MaxAccepted
    BY <2>4, <2>5
  <2> QED
    BY <1>2, <2>1, <2>4, <2>5, <2>6, <2>7 DEF Messages
<1> QED
  BY <1>1, <1>2

\* The critical section of push, of the message that is pushed.
LEMMA PushIsPushedBy ==
    ASSUME NEW t, push(t)
    PROVE  LET m == PushedBy(t)
               p == PriorityOf(m)
               b == push_bounded(buckets[p], m, Limit[p])
           IN  /\ pc[t] = "push"
               /\ buckets' = [buckets EXCEPT ![p] = b]
               /\ gone' = gone \cup (Held(buckets[p]) \ Held(b))
               /\ accepted' = IF hand[t].n = 0 THEN Append(accepted, m.kind)
                              ELSE accepted
               /\ hand' = [hand EXCEPT ![t] = NoMessage]
               /\ pc' = [pc EXCEPT ![t] = "notify"]
               /\ UNCHANGED <<attempt, clears, stopped, camera, wire, skipped>>
BY DEF push, PushedBy, Goto

-----------------------------------------------------------------------------
(***************************************************************************)
(* Where the threads are.                                                  *)
(***************************************************************************)
LEMMA PcStep ==
    ASSUME TypeOK, PcInv, [Next]_vars
    PROVE  PcInv'
<1> USE DEF PcInv, Threads, Pushers, Goto, WakeWorker, Pushed
<1>0. DOMAIN pc = Threads /\ attempt \in Nat /\ Tries \in Nat \ {0}
  BY TriesAssumption DEF TypeOK
<1>1. CASE \E t \in Pushers : push(t) \/ push_notify(t) \/ push_timeout(t)
  BY <1>0, <1>1 DEF push, push_notify, push_timeout
<1>2. CASE \E t \in {"ui", "mic"}, kind \in Kinds \ {"CloseCamera"} :
              (t = "mic" => kind = "SendAudio") /\ enqueue_send(t, kind)
  BY <1>0, <1>2 DEF enqueue_send
<1>3. CASE ui_camera_on \/ ui_camera_off \/ clear_video_skip \/ clear_video
  BY <1>0, <1>3 DEF ui_camera_on, ui_camera_off, clear_video_skip, clear_video
<1>4. CASE io_clear \/ clear \/ clear_all_wake
  BY <1>0, <1>4 DEF io_clear, clear, clear_all_wake
<1>5. CASE clear_try_fails
  <2>1. attempt + 1 # Tries => attempt + 1 < Tries
    BY <1>0, <1>5 DEF clear_try_fails
  <2> QED
    BY <1>0, <1>5, <2>1 DEF clear_try_fails
<1>6. CASE send_loop \/ pop_take \/ pop_none \/ pop_timeout
  BY <1>0, <1>6 DEF send_loop, pop_take, pop_none, pop_timeout
<1>7. CASE return_or_drop \/ send
  BY <1>0, <1>7 DEF return_or_drop, send
<1>8. CASE signal_send_stop \/ start_send_worker
  BY <1>0, <1>8 DEF signal_send_stop, start_send_worker
<1>9. CASE UNCHANGED vars
  BY <1>9 DEF vars
<1> QED
  BY <1>1, <1>2, <1>3, <1>4, <1>5, <1>6, <1>7, <1>8, <1>9, NextIsStep DEF Step

(***************************************************************************)
(* What the threads have in hand.                                          *)
(***************************************************************************)
LEMMA HandStep ==
    ASSUME TypeOK, PcInv, RoomInv, HandInv, WhereInv, [Next]_vars
    PROVE  HandInv'
<1> USE DEF HandInv, PcInv, Threads, Pushers, Goto, WakeWorker, Pushed
<1>0. /\ DOMAIN pc = Threads /\ DOMAIN hand = Threads
      /\ \A t \in Threads : hand[t] \in Messages \cup {NoMessage}
      /\ NoMessage.n = 0 /\ NoMessage.kind = "none"
  BY DEF TypeOK, NoMessage
<1>1. ASSUME accepted' = accepted, hand'["worker"] = hand["worker"]
      PROVE  (hand["worker"] = NoMessage \/ IsAccepted(hand["worker"]))'
  BY <1>1 DEF IsAccepted, Messages
<1>2. CASE \E t \in Pushers : push(t)
  <2>1. PICK t \in Pushers : push(t)
    BY <1>2
  <2>2. /\ pc[t] = "push" /\ pc' = [pc EXCEPT ![t] = "notify"]
        /\ hand' = [hand EXCEPT ![t] = NoMessage]
        /\ accepted' = IF hand[t].n = 0 THEN Append(accepted, PushedBy(t).kind) ELSE accepted
    BY <2>1, PushIsPushedBy
  <2>3. PushedBy(t) \in Messages /\ accepted \in Seq(Kinds)
    BY <2>2, PushedByType DEF TypeOK
  <2>4. ASSUME IsAccepted(hand["worker"])
        PROVE  IsAccepted(hand["worker"])'
               \/ hand'["worker"] = NoMessage
    <3>1. PushedBy(t).kind \in Kinds
      BY <2>3 DEF Messages
    <3>2. \A n \in DOMAIN accepted : n \in DOMAIN accepted' /\ accepted'[n] = accepted[n]
      BY <2>2, <2>3, <3>1
    <3> QED
      BY <1>0, <2>2, <2>4, <3>2 DEF IsAccepted, Messages
  <2> QED
    BY <1>0, <2>2, <2>4
<1>3. CASE \E t \in Pushers : push_notify(t) \/ push_timeout(t)
  BY <1>0, <1>1, <1>3 DEF push_notify, push_timeout
<1>4. CASE \E t \in {"ui", "mic"}, kind \in Kinds \ {"CloseCamera"} :
              (t = "mic" => kind = "SendAudio") /\ enqueue_send(t, kind)
  BY <1>0, <1>1, <1>4, BoundsAssumption DEF enqueue_send, Fresh, Messages
<1>5. CASE ui_camera_on \/ ui_camera_off
  BY <1>0, <1>1, <1>5 DEF ui_camera_on, ui_camera_off
<1>6. CASE clear_video_skip \/ clear_video
  <2>1. Fresh("CloseCamera") \in Messages /\ Fresh("CloseCamera").n = 0
    BY BoundsAssumption DEF Fresh, Messages, Kinds
  <2> QED
    BY <1>0, <1>1, <1>6, <2>1 DEF clear_video_skip, clear_video
<1>7. CASE io_clear \/ clear_try_fails \/ clear \/ clear_all_wake
  BY <1>0, <1>1, <1>7 DEF io_clear, clear_try_fails, clear, clear_all_wake
<1>8. CASE send_loop \/ pop_none \/ pop_timeout
  BY <1>0, <1>1, <1>8 DEF send_loop, pop_none, pop_timeout
<1>9. CASE pop_take
  <2>1. PICK p \in Priorities :
            /\ buckets[p] # << >>
            /\ hand' = [hand EXCEPT !["worker"] = Head(buckets[p])]
    BY <1>9 DEF pop_take
  <2>2. buckets[p] \in Seq(Messages) /\ Head(buckets[p]) = buckets[p][1]
        /\ 1 \in DOMAIN buckets[p]
    BY <2>1, HeadTail DEF TypeOK
  <2>3. IsAccepted(Head(buckets[p]))
    BY <2>2 DEF WhereInv
  <2>4. IsAccepted(hand["worker"])'
    BY <1>0, <1>9, <2>1, <2>3 DEF pop_take, IsAccepted, Messages
  <2> QED
    BY <1>0, <1>9, <2>1, <2>4 DEF pop_take
<1>10. CASE return_or_drop \/ send
  BY <1>0, <1>1, <1>10 DEF return_or_drop, send, Returned
<1>11. CASE signal_send_stop \/ start_send_worker
  BY <1>0, <1>1, <1>11 DEF signal_send_stop, start_send_worker
<1>12. CASE UNCHANGED vars
  BY <1>0, <1>1, <1>12 DEF vars
<1> QED
  BY <1>2, <1>3, <1>4, <1>5, <1>6, <1>7, <1>8, <1>9, <1>10, <1>11, <1>12, NextIsStep
  DEF Step

(***************************************************************************)
(* The bound on pushes: a thread in Pushing has a number reserved, and it  *)
(* leaves the set when it takes that number.                               *)
(***************************************************************************)
LEMMA RoomStep ==
    ASSUME TypeOK, PcInv, RoomInv, HandInv, [Next]_vars
    PROVE  RoomInv'
<1> DEFINE Now == Pushing
           Later == Pushing'
<1>0. /\ DOMAIN pc = Threads /\ DOMAIN hand = Threads
      /\ NoMessage.n = 0 /\ Len(accepted) \in Nat /\ MaxAccepted \in Nat
  BY BoundsAssumption DEF TypeOK, NoMessage
<1>a. Later = {t \in Threads : hand'[t].n = 0 /\ pc'[t] \in {"clear_video", "push"}}
  BY DEF Pushing
<1>b. Now \subseteq Threads /\ IsFiniteSet(Now) /\ Cardinality(Now) \in Nat
  BY ThreadsFinite, FS_Subset, FS_CardinalityType DEF Pushing
<1>c. Len(accepted) + Cardinality(Now) <= MaxAccepted
  BY DEF RoomInv
<1>d. Len(accepted') + Cardinality(Later) <= MaxAccepted => RoomInv'
  BY DEF RoomInv
<1> HIDE DEF Now, Later
<1>1. ASSUME accepted' = accepted, Later \subseteq Now
      PROVE  RoomInv'
  <2>1. Cardinality(Later) \in Nat /\ Cardinality(Later) <= Cardinality(Now)
    BY <1>1, <1>b, FS_Subset, FS_CardinalityType
  <2> QED
    BY <1>0, <1>1, <1>b, <1>c, <1>d, <2>1
<1>2. ASSUME NEW t, accepted' = accepted, MayPush, Later \subseteq Now \cup {t}
      PROVE  RoomInv'
  <2>1. IsFiniteSet(Now \cup {t}) /\ Cardinality(Now \cup {t}) <= Cardinality(Now) + 1
        /\ Cardinality(Now \cup {t}) \in Nat
    <3>1. IsFiniteSet(Now \cup {t}) /\ Cardinality(Now \cup {t}) =
            IF t \in Now THEN Cardinality(Now) ELSE Cardinality(Now) + 1
      BY <1>b, FS_AddElement
    <3> QED
      BY <1>b, <3>1
  <2>2. Cardinality(Later) \in Nat /\ Cardinality(Later) <= Cardinality(Now \cup {t})
    BY <1>2, <2>1, FS_Subset, FS_CardinalityType
  <2>3. Len(accepted) + Cardinality(Now) < MaxAccepted
    BY <1>2 DEF MayPush, Now, Pushing
  <2> QED
    BY <1>0, <1>2, <1>b, <1>d, <2>1, <2>2, <2>3
<1> USE DEF HandInv, PcInv, Threads, Pushers, Goto, WakeWorker, Pushed
<1>3. CASE \E t \in Pushers : push(t)
  <2>1. PICK t \in Pushers : push(t)
    BY <1>3
  <2>2. /\ pc[t] = "push" /\ pc' = [pc EXCEPT ![t] = "notify"]
        /\ hand' = [hand EXCEPT ![t] = NoMessage]
        /\ accepted' = IF hand[t].n = 0 THEN Append(accepted, PushedBy(t).kind) ELSE accepted
    BY <2>1, PushIsPushedBy
  <2>3. Later \subseteq Now \ {t}
    BY <1>0, <1>a, <2>2 DEF Now, Pushing
  <2>4. CASE hand[t].n = 0
    <3>1. t \in Now
      BY <2>2, <2>4 DEF Now, Pushing
    <3>2. IsFiniteSet(Now \ {t}) /\ Cardinality(Now \ {t}) = Cardinality(Now) - 1
      BY <1>b, <3>1, FS_RemoveElement
    <3>3. Cardinality(Later) \in Nat /\ Cardinality(Later) <= Cardinality(Now) - 1
      BY <2>3, <3>2, FS_Subset, FS_CardinalityType
    <3>4. Len(accepted') = Len(accepted) + 1
      BY <2>2, <2>4, PushedByType DEF TypeOK, Messages
    <3> QED
      BY <1>0, <1>b, <1>c, <1>d, <3>3, <3>4
  <2>5. CASE hand[t].n # 0
    BY <1>1, <2>2, <2>3, <2>5
  <2> QED
    BY <2>4, <2>5
<1>4. CASE \E t \in Pushers : push_notify(t) \/ push_timeout(t)
  <2>1. Later \subseteq Now
    BY <1>0, <1>4, <1>a DEF push_notify, push_timeout, Now, Pushing
  <2> QED
    BY <1>1, <1>4, <2>1 DEF push_notify, push_timeout
<1>5. CASE \E t \in {"ui", "mic"}, kind \in Kinds \ {"CloseCamera"} :
              (t = "mic" => kind = "SendAudio") /\ enqueue_send(t, kind)
  <2>1. PICK t \in {"ui", "mic"} : \E kind \in Kinds : enqueue_send(t, kind)
    BY <1>5
  <2>2. Later \subseteq Now \cup {t}
    BY <1>0, <2>1, <1>a DEF enqueue_send, Now, Pushing
  <2> QED
    BY <1>2, <2>1, <2>2 DEF enqueue_send
<1>6. CASE ui_camera_off
  <2>1. Later \subseteq Now \cup {"ui"}
    BY <1>0, <1>6, <1>a DEF ui_camera_off, Now, Pushing
  <2> QED
    BY <1>2, <1>6, <2>1 DEF ui_camera_off
<1>7. CASE ui_camera_on \/ clear_video_skip \/ clear_video
  <2>1. Later \subseteq Now
    BY <1>0, <1>7, <1>a
    DEF ui_camera_on, clear_video_skip, clear_video, Fresh, Now, Pushing
  <2> QED
    BY <1>1, <1>7, <2>1 DEF ui_camera_on, clear_video_skip, clear_video
<1>8. CASE io_clear \/ clear_try_fails \/ clear \/ clear_all_wake
  <2>1. Later \subseteq Now
    BY <1>0, <1>8, <1>a
    DEF io_clear, clear_try_fails, clear, clear_all_wake, Now, Pushing
  <2> QED
    BY <1>1, <1>8, <2>1 DEF io_clear, clear_try_fails, clear, clear_all_wake
<1>9. CASE send_loop \/ pop_take \/ pop_none \/ pop_timeout \/ send
  <2>1. Later \subseteq Now
    BY <1>0, <1>9, <1>a
    DEF send_loop, pop_take, pop_none, pop_timeout, send, Now, Pushing
  <2> QED
    BY <1>1, <1>9, <2>1 DEF send_loop, pop_take, pop_none, pop_timeout, send
<1>10. CASE return_or_drop
  <2>1. hand["worker"].kind \in Returned => hand["worker"].n # 0
    BY DEF IsAccepted, Returned, NoMessage, TypeOK
  <2>2. Later \subseteq Now
    BY <1>0, <1>10, <1>a, <2>1 DEF return_or_drop, Now, Pushing
  <2> QED
    BY <1>1, <1>10, <2>2 DEF return_or_drop
<1>11. CASE signal_send_stop \/ start_send_worker
  <2>1. Later \subseteq Now
    BY <1>0, <1>11, <1>a DEF signal_send_stop, start_send_worker, Now, Pushing
  <2> QED
    BY <1>1, <1>11, <2>1 DEF signal_send_stop, start_send_worker
<1>12. CASE UNCHANGED vars
  BY <1>1, <1>12, <1>a DEF vars, Now, Pushing
<1> QED
  BY <1>3, <1>4, <1>5, <1>6, <1>7, <1>8, <1>9, <1>10, <1>11, <1>12, NextIsStep
  DEF Step

-----------------------------------------------------------------------------
(***************************************************************************)
(* What a push does, place by place: the bucket of m gives up its first    *)
(* message (d = 1) or none (d = 0) and gets m at its end.                  *)
(***************************************************************************)
PushShape(m, d) ==
    LET p == PriorityOf(m)
        old == buckets[p]
        new == buckets'[p]
    IN  /\ p \in Priorities /\ d <= Len(old)
        /\ new \in Seq(Messages) /\ Len(new) <= Limit[p]
        /\ Len(new) = Len(old) - d + 1
        /\ new[Len(new)] = m
        /\ \A i \in 1 .. Len(old) - d : new[i] = old[i + d]
        /\ buckets' \in [Priorities -> Seq(Messages)]
        /\ \A q \in Priorities \ {p} : buckets'[q] = buckets[q]
        /\ gone' = IF d = 1 THEN gone \cup {old[1].n} ELSE gone
        /\ wire' = wire

\* A push by the UI or the microphone gives m the next number; the worker
\* pushes what it has in hand.
NewPush(m) ==
    /\ m.n = Len(accepted) + 1
    /\ Len(accepted) < MaxAccepted
    /\ accepted' = Append(accepted, m.kind)
    /\ UNCHANGED hand["worker"]
Repush(m) ==
    /\ m = hand["worker"] /\ IsAccepted(m) /\ m.kind \in Returned
    /\ accepted' = accepted
    /\ hand'["worker"] = NoMessage

LEMMA PushIsShape ==
    ASSUME TypeOK, PcInv, RoomInv, HandInv, WhereInv, PlaceInv,
           NEW t \in Pushers, push(t)
    PROVE  \E m \in Messages, d \in {0, 1} :
             /\ m = PushedBy(t)
             /\ PushShape(m, d)
             /\ t = "worker" => Repush(m)
             /\ t # "worker" => NewPush(m)
<1> DEFINE m == PushedBy(t)
           p == PriorityOf(m)
           old == buckets[p]
           new == push_bounded(old, m, Limit[p])
<1>1. /\ pc[t] = "push"
      /\ buckets' = [buckets EXCEPT ![p] = new]
      /\ gone' = gone \cup (Held(old) \ Held(new))
      /\ accepted' = IF hand[t].n = 0 THEN Append(accepted, m.kind) ELSE accepted
      /\ hand' = [hand EXCEPT ![t] = NoMessage]
      /\ wire' = wire
  BY PushIsPushedBy
<1>2. /\ m \in Messages
      /\ t = "worker" => hand[t].n # 0 /\ m = hand[t] /\ IsAccepted(hand[t])
      /\ t # "worker" => /\ hand[t].n = 0 /\ m.n = Len(accepted) + 1
                         /\ Len(accepted) < MaxAccepted
  BY <1>1, PushedByType
<1>3. p \in Priorities /\ old \in Seq(Messages) /\ Limit[p] \in Nat \ {0}
      /\ Len(old) <= Limit[p]
  BY <1>2, PriorityType, LimitAssumption DEF TypeOK
<1>4. PICK d \in {0, 1} :
            /\ new \in Seq(Messages) /\ Len(new) <= Limit[p]
            /\ d <= Len(old)
            /\ Len(new) = Len(old) - d + 1
            /\ new[Len(new)] = m
            /\ \A i \in 1 .. Len(old) - d : new[i] = old[i + d]
  BY <1>2, <1>3, PushBounded, SMTT(20)
<1>5. buckets \in [Priorities -> Seq(Messages)] /\ accepted \in Seq(Kinds)
      /\ DOMAIN hand = Threads
  BY DEF TypeOK
<1>6. \A i \in DOMAIN old : old[i].n # m.n
  <2>1. CASE t = "worker"
    BY <1>2, <1>3, <2>1 DEF PlaceInv
  <2>2. CASE t # "worker"
    <3>1. \A i \in DOMAIN old : old[i].n \in 1 .. Len(accepted)
      BY <1>3, <1>5 DEF WhereInv, IsAccepted
    <3> QED
      BY <1>2, <1>5, <2>2, <3>1
  <2> QED
    BY <2>1, <2>2
<1>7. \A i, j \in DOMAIN old : old[i].n = old[j].n => i = j
  BY <1>3 DEF PlaceInv
<1> HIDE DEF m, p, old, new
<1>8. gone' = IF d = 1 THEN gone \cup {old[1].n} ELSE gone
  <2>1. CASE d = 0
    <3>1. \A i \in DOMAIN old : i \in DOMAIN new /\ new[i] = old[i]
      BY <1>3, <1>4, <2>1
    <3> QED
      BY <1>1, <2>1, <3>1 DEF Held
  <2>2. CASE d = 1
    <3>1. \A i \in DOMAIN old \ {1} : i - 1 \in DOMAIN new /\ new[i - 1] = old[i]
      <4>1. ASSUME NEW i \in DOMAIN old \ {1}
            PROVE  i - 1 \in 1 .. Len(old) - d /\ i - 1 + d = i
        BY <1>3, <2>2, <4>1
      <4> QED
        BY <1>3, <1>4, <2>2, <4>1
    <3>2. 1 \in DOMAIN old
      BY <1>3, <1>4, <2>2
    <3>3. \A j \in DOMAIN new : new[j].n # old[1].n
      <4>1. ASSUME NEW j \in DOMAIN new
            PROVE  \/ new[j] = m
                   \/ j + 1 \in DOMAIN old \ {1} /\ new[j] = old[j + 1]
        BY <1>3, <1>4, <2>2
      <4> QED
        BY <1>6, <1>7, <3>2, <4>1
    <3>4. Held(old) \ Held(new) = {old[1].n}
      BY <3>1, <3>2, <3>3 DEF Held
    <3> QED
      BY <1>1, <2>2, <3>4
  <2> QED
    BY <2>1, <2>2
<1>9. /\ buckets'[p] = new
      /\ \A q \in Priorities \ {p} : buckets'[q] = buckets[q]
      /\ buckets' \in [Priorities -> Seq(Messages)]
  BY <1>1, <1>3, <1>4, <1>5
<1>10. PushShape(m, d)
  <2>1. /\ p \in Priorities /\ d <= Len(old)
        /\ buckets'[p] \in Seq(Messages) /\ Len(buckets'[p]) <= Limit[p]
        /\ Len(buckets'[p]) = Len(old) - d + 1
        /\ buckets'[p][Len(buckets'[p])] = m
        /\ \A i \in 1 .. Len(old) - d : buckets'[p][i] = old[i + d]
    BY <1>3, <1>4, <1>9
  <2> QED
    BY <1>1, <1>8, <1>9, <2>1 DEF PushShape, p, old
<1>11. t = "worker" => Repush(m)
  <2>1. t = "worker" => hand[t].kind \in Returned
    BY <1>1 DEF HandInv
  <2> QED
    BY <1>1, <1>2, <1>5, <2>1 DEF Repush, Threads
<1>12. t # "worker" => NewPush(m)
  BY <1>1, <1>2, <1>5 DEF NewPush, Threads
<1> QED
  BY <1>2, <1>10, <1>11, <1>12 DEF m

-----------------------------------------------------------------------------
(***************************************************************************)
(* What a step does to the messages: nothing; a push; the worker drops     *)
(* what it has in hand; the buckets of S are emptied; the worker takes the *)
(* first message of bucket p; the worker sends what it has in hand.        *)
(***************************************************************************)
UiCloses == pc["ui"] = "push" /\ hand["ui"].kind = "CloseCamera"

Quiet == UNCHANGED <<buckets, accepted, wire, gone, hand["worker"]>>

Pushes ==
    \E m \in Messages, d \in {0, 1} :
        /\ PushShape(m, d)
        /\ NewPush(m) \/ Repush(m)
        /\ NewPush(m) /\ m.kind = "CloseCamera" => UiCloses

Drops ==
    /\ hand'["worker"] = NoMessage
    /\ \/ gone' = gone \cup {hand["worker"].n} /\ hand["worker"].n # 0
       \/ gone' = gone /\ hand["worker"].kind \notin Returned
    /\ UNCHANGED <<buckets, accepted, wire>>

Empties(S) ==
    /\ buckets' = [p \in Priorities |-> IF p \in S THEN << >> ELSE buckets[p]]
    /\ gone' = gone \cup UNION {Held(buckets[p]) : p \in S}
    /\ UNCHANGED <<accepted, wire, hand["worker"]>>

Takes(p) ==
    /\ buckets[p] # << >>
    /\ hand["worker"] = NoMessage
    /\ hand'["worker"] = Head(buckets[p])
    /\ buckets' = [buckets EXCEPT ![p] = Tail(buckets[p])]
    /\ UNCHANGED <<accepted, wire, gone>>

SendsOne ==
    /\ hand["worker"] # NoMessage
    /\ hand'["worker"] = NoMessage
    /\ wire' = Append(wire, hand["worker"])
    /\ UNCHANGED <<buckets, accepted, gone>>

LEMMA NextEffect ==
    ASSUME TypeOK, PcInv, RoomInv, HandInv, WhereInv, PlaceInv, [Next]_vars
    PROVE  \/ Quiet \/ Pushes \/ Drops
           \/ \E S \in SUBSET Priorities : Empties(S)
           \/ \E p \in Priorities : Takes(p)
           \/ SendsOne
<1>0. DOMAIN hand = Threads /\ NoMessage.n = 0 /\ NoMessage.kind = "none"
      /\ \A t \in Threads : hand[t] \in Messages \cup {NoMessage}
  BY DEF TypeOK, NoMessage
<1> USE DEF Threads, Pushers
<1>1. CASE \E t \in Pushers : push(t)
  <2>1. PICK t \in Pushers : push(t)
    BY <1>1
  <2>2. pc[t] = "push"
    BY <2>1 DEF push
  <2>3. PICK m \in Messages, d \in {0, 1} :
            /\ m = PushedBy(t) /\ PushShape(m, d)
            /\ t = "worker" => Repush(m)
            /\ t # "worker" => NewPush(m)
    BY <2>1, PushIsShape
  <2>4. m.kind = hand[t].kind
    BY <2>2, <2>3, PushedByType
  <2>5. NewPush(m) => t # "worker"
    BY <2>3 DEF NewPush, Repush, IsAccepted, TypeOK
  <2>6. NewPush(m) /\ m.kind = "CloseCamera" => UiCloses
    BY <2>2, <2>4, <2>5 DEF HandInv, UiCloses
  <2> QED
    BY <2>3, <2>6 DEF Pushes
<1>2. CASE \E t \in Pushers : push_timeout(t)
  <2>1. PICK t \in Pushers : push_timeout(t)
    BY <1>2
  <2>2. pc[t] = "push" /\ hand' = [hand EXCEPT ![t] = NoMessage]
        /\ gone' = gone \cup ({hand[t].n} \ {0})
        /\ UNCHANGED <<buckets, accepted, wire>>
    BY <2>1 DEF push_timeout
  <2>3. CASE t = "worker"
    <3>1. hand["worker"].n # 0
      BY <2>2, <2>3, PushedByType
    <3> QED
      BY <1>0, <2>2, <2>3, <3>1 DEF Drops
  <2>4. CASE t # "worker"
    <3>1. hand[t].n = 0
      BY <2>2, <2>4, PushedByType
    <3> QED
      BY <1>0, <2>2, <2>4, <3>1 DEF Quiet
  <2> QED
    BY <2>3, <2>4
<1>3. CASE \E t \in Pushers : push_notify(t)
  BY <1>3 DEF push_notify, Quiet
<1>4. CASE \E t \in {"ui", "mic"}, kind \in Kinds \ {"CloseCamera"} :
              (t = "mic" => kind = "SendAudio") /\ enqueue_send(t, kind)
  BY <1>0, <1>4 DEF enqueue_send, Quiet
<1>5. CASE ui_camera_on \/ ui_camera_off \/ clear_video_skip
  BY <1>0, <1>5 DEF ui_camera_on, ui_camera_off, clear_video_skip, Quiet
<1>6. CASE clear_video
  <2>1. UNION {Held(buckets[p]) : p \in {Video}} = Held(buckets[Video])
    OBVIOUS
  <2>2. [buckets EXCEPT ![Video] = << >>]
          = [p \in Priorities |-> IF p \in {Video} THEN << >> ELSE buckets[p]]
    BY DEF TypeOK
  <2>3. Empties({Video}) /\ {Video} \in SUBSET Priorities
    BY <1>0, <1>6, <2>1, <2>2
    DEF clear_video, Empties, Priorities, Control, Video
  <2> QED
    BY <2>3
<1>7. CASE clear
  <2>1. Empties(Priorities)
    BY <1>7 DEF clear, Empties
  <2> QED
    BY <2>1
<1>8. CASE io_clear \/ clear_try_fails \/ clear_all_wake
  BY <1>8 DEF io_clear, clear_try_fails, clear_all_wake, Quiet
<1>9. CASE send_loop \/ pop_none \/ pop_timeout
  BY <1>9 DEF send_loop, pop_none, pop_timeout, Quiet
<1>10. CASE pop_take
  <2>1. hand["worker"] = NoMessage
    BY <1>10 DEF pop_take, HandInv
  <2>2. PICK p \in Priorities : Takes(p)
    BY <1>0, <1>10, <2>1 DEF pop_take, Takes
  <2> QED
    BY <2>2
<1>11. CASE return_or_drop
  BY <1>0, <1>11 DEF return_or_drop, Quiet, Drops
<1>12. CASE send
  BY <1>0, <1>12 DEF send, Quiet, SendsOne
<1>13. CASE signal_send_stop \/ start_send_worker
  BY <1>13 DEF signal_send_stop, start_send_worker, Quiet
<1>14. CASE UNCHANGED vars
  BY <1>14 DEF vars, Quiet
<1> QED
  BY <1>1, <1>2, <1>3, <1>4, <1>5, <1>6, <1>7, <1>8, <1>9, <1>10, <1>11, <1>12,
     <1>13, <1>14, NextIsStep
  DEF Step

(***************************************************************************)
(* Types.                                                                  *)
(***************************************************************************)
\* The messages: each effect keeps the types of what it touches.
LEMMA MessageTypes ==
    ASSUME TypeOK, PcInv, RoomInv, HandInv, WhereInv, PlaceInv, [Next]_vars
    PROVE  /\ buckets' \in [Priorities -> Seq(Messages)]
           /\ \A p \in Priorities : Len(buckets'[p]) <= Limit[p]
           /\ wire' \in Seq(Messages)
           /\ accepted' \in Seq(Kinds)
           /\ gone' \subseteq 1 .. Len(accepted')
<1> DEFINE Goal == /\ buckets' \in [Priorities -> Seq(Messages)]
                   /\ \A p \in Priorities : Len(buckets'[p]) <= Limit[p]
                   /\ wire' \in Seq(Messages)
                   /\ accepted' \in Seq(Kinds)
                   /\ gone' \subseteq 1 .. Len(accepted')
<1>0. /\ buckets \in [Priorities -> Seq(Messages)]
      /\ \A p \in Priorities : Len(buckets[p]) <= Limit[p]
      /\ wire \in Seq(Messages) /\ accepted \in Seq(Kinds)
      /\ gone \subseteq 1 .. Len(accepted)
      /\ Limit \in [Priorities -> Nat \ {0}]
  BY LimitAssumption DEF TypeOK
<1>1. CASE Quiet
  BY <1>0, <1>1 DEF Quiet
<1>2. CASE Pushes
  <2>1. PICK m \in Messages, d \in {0, 1} :
            PushShape(m, d) /\ (NewPush(m) \/ Repush(m))
    BY <1>2 DEF Pushes
  <2>2. accepted' \in Seq(Kinds) /\ Len(accepted) <= Len(accepted')
    <3>1. m.kind \in Kinds
      BY DEF Messages
    <3>2. CASE NewPush(m)
      BY <1>0, <3>1, <3>2 DEF NewPush
    <3>3. CASE Repush(m)
      BY <1>0, <3>3 DEF Repush
    <3> QED
      BY <2>1, <3>2, <3>3
  <2>3. d = 1 => buckets[PriorityOf(m)][1].n \in 1 .. Len(accepted)
    <3>1. PriorityOf(m) \in Priorities /\ d <= Len(buckets[PriorityOf(m)])
      BY <2>1 DEF PushShape
    <3>2. d = 1 => 1 \in DOMAIN buckets[PriorityOf(m)]
      BY <1>0, <3>1
    <3> QED
      BY <1>0, <3>1, <3>2 DEF WhereInv, IsAccepted
  <2>4. /\ buckets' \in [Priorities -> Seq(Messages)] /\ wire' = wire
        /\ gone' = IF d = 1 THEN gone \cup {buckets[PriorityOf(m)][1].n} ELSE gone
    BY <2>1 DEF PushShape
  <2>6. gone' \subseteq 1 .. Len(accepted')
    <3>1. Len(accepted) \in Nat /\ Len(accepted') \in Nat
      BY <1>0, <2>2
    <3>2. 1 .. Len(accepted) \subseteq 1 .. Len(accepted')
      BY <2>2, <3>1
    <3> QED
      BY <1>0, <2>3, <2>4, <3>2
  <2>5. ASSUME NEW p \in Priorities PROVE Len(buckets'[p]) <= Limit[p]
    BY <1>0, <2>1 DEF PushShape
  <2> QED
    BY <1>0, <2>2, <2>4, <2>5, <2>6
<1>3. CASE Drops
  <2>1. hand["worker"].n # 0 => hand["worker"].n \in 1 .. Len(accepted)
    BY <1>0 DEF HandInv, IsAccepted, NoMessage
  <2> QED
    BY <1>0, <1>3, <2>1 DEF Drops
<1>4. ASSUME NEW S \in SUBSET Priorities, Empties(S) PROVE Goal
  <2>1. \A p \in Priorities : Held(buckets[p]) \subseteq 1 .. Len(accepted)
    BY <1>0 DEF WhereInv, IsAccepted, Held
  <2>2. \A p \in Priorities : buckets'[p] = buckets[p] \/ buckets'[p] = << >>
    BY <1>4 DEF Empties
  <2>3. << >> \in Seq(Messages) /\ Len(<< >>) = 0
    OBVIOUS
  <2>4. gone' \subseteq 1 .. Len(accepted')
    BY <1>0, <1>4, <2>1 DEF Empties
  <2> QED
    BY <1>0, <1>4, <2>2, <2>3, <2>4 DEF Empties
<1>5. ASSUME NEW p \in Priorities, Takes(p) PROVE Goal
  <2>1. Tail(buckets[p]) \in Seq(Messages) /\ Len(Tail(buckets[p])) <= Limit[p]
    BY <1>0, <1>5, HeadTail DEF Takes
  <2> QED
    BY <1>0, <1>5, <2>1 DEF Takes
<1>6. CASE SendsOne
  BY <1>0, <1>6 DEF SendsOne, TypeOK, Threads
<1> QED
  BY <1>1, <1>2, <1>3, <1>4, <1>5, <1>6, NextEffect

\* The rest: the labels and hands of the threads, the counters, the flags.
LEMMA ThreadTypes ==
    ASSUME TypeOK, PcInv, HandInv, PcInv', HandInv', [Next]_vars
    PROVE  /\ DOMAIN pc' = Threads /\ pc' = [t \in Threads |-> pc'[t]]
           /\ DOMAIN hand' = Threads /\ hand' = [t \in Threads |-> hand'[t]]
           /\ attempt' \in 0 .. Tries
           /\ clears' \in 0 .. MaxClears
           /\ stopped' \in BOOLEAN /\ camera' \in BOOLEAN /\ skipped' \in BOOLEAN
<1> USE DEF Goto, WakeWorker
<1>0. /\ DOMAIN pc = Threads /\ pc = [t \in Threads |-> pc[t]]
      /\ DOMAIN hand = Threads /\ hand = [t \in Threads |-> hand[t]]
      /\ attempt \in 0 .. Tries /\ clears \in 0 .. MaxClears
      /\ stopped \in BOOLEAN /\ camera \in BOOLEAN /\ skipped \in BOOLEAN
      /\ Tries \in Nat \ {0} /\ MaxClears \in Nat
  BY TriesAssumption, BoundsAssumption DEF TypeOK
<1>1. CASE \E t \in Pushers : push(t)
  <2>1. PICK t \in Pushers : push(t)
    BY <1>1
  <2> QED
    BY <1>0, <2>1, PushIsPushedBy
<1>2. CASE \E t \in Pushers : push_notify(t) \/ push_timeout(t)
  BY <1>0, <1>2 DEF push_notify, push_timeout
<1>3. CASE \E t \in {"ui", "mic"}, kind \in Kinds \ {"CloseCamera"} :
              (t = "mic" => kind = "SendAudio") /\ enqueue_send(t, kind)
  <2>1. PICK t \in {"ui", "mic"}, kind \in Kinds \ {"CloseCamera"} : enqueue_send(t, kind)
    BY <1>3
  <2>2. /\ pc' = [pc EXCEPT ![t] = "push"] /\ hand' = [hand EXCEPT ![t] = Fresh(kind)]
        /\ attempt' = attempt /\ clears' = clears /\ stopped' = stopped
        /\ camera' = camera /\ skipped' = skipped
    BY <2>1 DEF enqueue_send
  <2> QED
    BY <1>0, <2>2
<1>4. CASE ui_camera_on \/ ui_camera_off \/ clear_video_skip \/ clear_video
  BY <1>0, <1>4 DEF ui_camera_on, ui_camera_off, clear_video_skip, clear_video
<1>5. CASE io_clear \/ clear \/ clear_all_wake
  BY <1>0, <1>5 DEF io_clear, clear, clear_all_wake
<1>6. CASE clear_try_fails
  <2>1. attempt + 1 \in 0 .. Tries
    BY <1>0, <1>6 DEF clear_try_fails, PcInv
  <2> QED
    BY <1>0, <1>6, <2>1 DEF clear_try_fails
<1>7. CASE send_loop \/ pop_take \/ pop_none \/ pop_timeout
  BY <1>0, <1>7 DEF send_loop, pop_take, pop_none, pop_timeout
<1>8. CASE return_or_drop \/ send
  BY <1>0, <1>8 DEF return_or_drop, send
<1>9. CASE signal_send_stop \/ start_send_worker
  BY <1>0, <1>9 DEF signal_send_stop, start_send_worker
<1>10. CASE UNCHANGED vars
  BY <1>0, <1>10 DEF vars
<1> QED
  BY <1>1, <1>2, <1>3, <1>4, <1>5, <1>6, <1>7, <1>8, <1>9, <1>10, NextIsStep DEF Step

LEMMA TypeStep ==
    ASSUME TypeOK, PcInv, RoomInv, HandInv, WhereInv, PlaceInv,
           PcInv', HandInv', [Next]_vars
    PROVE  TypeOK'
<1>1. \A t \in Threads :
        pc'[t] \in {"idle", "push", "notify", "clear_video", "clear", "cleared",
                    "gave_up", "loop", "pop", "wait", "last_pop", "popped", "ended"}
  BY DEF PcInv, Threads
<1>2. \A t \in Threads : hand'[t] \in Messages \cup {NoMessage}
  BY DEF HandInv, Threads, IsAccepted
<1> QED
  BY <1>1, <1>2, MessageTypes, ThreadTypes DEF TypeOK

-----------------------------------------------------------------------------
(***************************************************************************)
(* Where the messages are.                                                 *)
(***************************************************************************)
\* Numbers are given once and for all.
LEMMA AcceptedKept ==
    ASSUME TypeOK, PcInv, RoomInv, HandInv, WhereInv, PlaceInv, [Next]_vars
    PROVE  /\ accepted \in Seq(Kinds) /\ accepted' \in Seq(Kinds)
           /\ \A n \in DOMAIN accepted :
                n \in DOMAIN accepted' /\ accepted'[n] = accepted[n]
<1>1. accepted' = accepted \/ \E m \in Messages : NewPush(m)
  BY NextEffect DEF Quiet, Pushes, Repush, Drops, Empties, Takes, SendsOne
<1>2. ASSUME NEW m \in Messages, NewPush(m)
      PROVE  /\ accepted' \in Seq(Kinds)
             /\ \A n \in DOMAIN accepted :
                  n \in DOMAIN accepted' /\ accepted'[n] = accepted[n]
  BY <1>2 DEF NewPush, TypeOK, Messages
<1> QED
  BY <1>1, <1>2 DEF TypeOK

\* Every place of the buckets of the new state: its message has come from a
\* place of the same bucket, sh further on, or it is the one that is pushed.
LEMMA PushPlaces ==
    ASSUME TypeOK, NEW m \in Messages, NEW d \in {0, 1}, PushShape(m, d),
           NEW q \in Priorities, NEW j \in DOMAIN buckets'[q]
    PROVE  \/ q = PriorityOf(m) /\ j = Len(buckets'[q]) /\ buckets'[q][j] = m
           \/ \E k \in DOMAIN buckets[q] :
                /\ buckets'[q][j] = buckets[q][k]
                /\ k = IF q = PriorityOf(m) THEN j + d ELSE j
<1>1. buckets \in [Priorities -> Seq(Messages)]
  BY DEF TypeOK
<1>2. CASE q # PriorityOf(m)
  BY <1>1, <1>2 DEF PushShape
<1>3. CASE q = PriorityOf(m)
  <2>1. /\ Len(buckets[q]) \in Nat /\ buckets[q] \in Seq(Messages)
        /\ d <= Len(buckets[q])
        /\ buckets'[q] \in Seq(Messages)
        /\ Len(buckets'[q]) = Len(buckets[q]) - d + 1
        /\ buckets'[q][Len(buckets'[q])] = m
        /\ \A i \in 1 .. Len(buckets[q]) - d : buckets'[q][i] = buckets[q][i + d]
    BY <1>1, <1>3 DEF PushShape
  <2>2. j \in 1 .. Len(buckets'[q])
    BY <2>1
  <2>3. CASE j = Len(buckets'[q])
    BY <1>3, <2>1, <2>3
  <2>4. CASE j # Len(buckets'[q])
    <3>1. j \in 1 .. Len(buckets[q]) - d /\ j + d \in DOMAIN buckets[q]
      BY <2>1, <2>2, <2>4
    <3> QED
      BY <1>3, <2>1, <3>1
  <2> QED
    BY <2>3, <2>4
<1> QED
  BY <1>2, <1>3

\* The other way: a message that was in a bucket and is not in gone has kept
\* a place, and m has one.
LEMMA PushKeeps ==
    ASSUME TypeOK, NEW m \in Messages, NEW d \in {0, 1}, PushShape(m, d)
    PROVE  /\ PriorityOf(m) \in Priorities
           /\ Len(buckets'[PriorityOf(m)]) \in DOMAIN buckets'[PriorityOf(m)]
           /\ buckets'[PriorityOf(m)][Len(buckets'[PriorityOf(m)])] = m
           /\ \A q \in Priorities : \A k \in DOMAIN buckets[q] :
                \/ buckets[q][k].n \in gone'
                \/ \E j \in DOMAIN buckets'[q] : buckets'[q][j] = buckets[q][k]
<1> DEFINE p == PriorityOf(m)
<1>1. buckets \in [Priorities -> Seq(Messages)]
  BY DEF TypeOK
<1>2. /\ p \in Priorities
      /\ Len(buckets[p]) \in Nat /\ buckets[p] \in Seq(Messages)
      /\ d <= Len(buckets[p])
      /\ buckets'[p] \in Seq(Messages)
      /\ Len(buckets'[p]) = Len(buckets[p]) - d + 1
      /\ buckets'[p][Len(buckets'[p])] = m
      /\ \A i \in 1 .. Len(buckets[p]) - d : buckets'[p][i] = buckets[p][i + d]
      /\ \A q \in Priorities \ {p} : buckets'[q] = buckets[q]
      /\ gone' = IF d = 1 THEN gone \cup {buckets[p][1].n} ELSE gone
  BY <1>1 DEF PushShape
<1>3. Len(buckets'[p]) \in DOMAIN buckets'[p]
  BY <1>2
<1>4. ASSUME NEW k \in DOMAIN buckets[p]
      PROVE  \/ buckets[p][k].n \in gone'
             \/ \E j \in DOMAIN buckets'[p] : buckets'[p][j] = buckets[p][k]
  <2>1. k \in 1 .. Len(buckets[p])
    BY <1>2
  <2>2. CASE d = 1 /\ k = 1
    BY <1>2, <2>2
  <2>3. CASE ~(d = 1 /\ k = 1)
    <3>1. /\ k - d \in 1 .. Len(buckets[p]) - d
          /\ k - d \in DOMAIN buckets'[p] /\ k - d + d = k
      BY <1>2, <2>1, <2>3
    <3> QED
      BY <1>2, <3>1
  <2> QED
    BY <2>2, <2>3
<1> QED
  BY <1>2, <1>3, <1>4

\* Takes: the places behind the first one move up.
LEMMA TakesPlaces ==
    ASSUME TypeOK, NEW p \in Priorities, Takes(p)
    PROVE  /\ 1 \in DOMAIN buckets[p] /\ hand'["worker"] = buckets[p][1]
           /\ \A q \in Priorities : \A j \in DOMAIN buckets'[q] :
                \E k \in DOMAIN buckets[q] :
                  /\ buckets'[q][j] = buckets[q][k]
                  /\ k = IF q = p THEN j + 1 ELSE j
           /\ \A q \in Priorities : \A k \in DOMAIN buckets[q] :
                \/ q = p /\ k = 1
                \/ \E j \in DOMAIN buckets'[q] : buckets'[q][j] = buckets[q][k]
<1>1. buckets \in [Priorities -> Seq(Messages)]
  BY DEF TypeOK
<1>2. /\ Len(buckets[p]) \in Nat \ {0}
      /\ Head(buckets[p]) = buckets[p][1]
      /\ buckets'[p] \in Seq(Messages) /\ Len(buckets'[p]) = Len(buckets[p]) - 1
      /\ \A i \in 1 .. Len(buckets[p]) - 1 : buckets'[p][i] = buckets[p][i + 1]
      /\ \A q \in Priorities \ {p} : buckets'[q] = buckets[q]
      /\ hand'["worker"] = Head(buckets[p])
  BY <1>1, HeadTail DEF Takes
<1>3. DOMAIN buckets[p] = 1 .. Len(buckets[p])
      /\ DOMAIN buckets'[p] = 1 .. Len(buckets[p]) - 1
  BY <1>1, <1>2
<1>4. ASSUME NEW j \in DOMAIN buckets'[p]
      PROVE  j + 1 \in DOMAIN buckets[p] /\ buckets'[p][j] = buckets[p][j + 1]
  BY <1>2, <1>3
<1>5. ASSUME NEW k \in DOMAIN buckets[p], k # 1
      PROVE  k - 1 \in DOMAIN buckets'[p] /\ buckets'[p][k - 1] = buckets[p][k]
  <2>1. k - 1 \in 1 .. Len(buckets[p]) - 1 /\ k - 1 + 1 = k
    BY <1>2, <1>3, <1>5
  <2> QED
    BY <1>2, <1>3, <2>1
<1>6. 1 \in DOMAIN buckets[p]
  BY <1>2, <1>3
<1> QED
  BY <1>2, <1>4, <1>5, <1>6

LEMMA WhereStep ==
    ASSUME TypeOK, PcInv, RoomInv, HandInv, WhereInv, PlaceInv, [Next]_vars
    PROVE  WhereInv'
<1>1. \A x : IsAccepted(x) => /\ x \in Messages /\ x.n \in DOMAIN accepted'
                              /\ accepted'[x.n] = x.kind
  BY AcceptedKept DEF IsAccepted
<1>2. ASSUME NEW q \in Priorities, NEW j \in DOMAIN buckets'[q]
      PROVE  /\ buckets'[q][j] \in Messages /\ buckets'[q][j].n \in DOMAIN accepted'
             /\ accepted'[buckets'[q][j].n] = buckets'[q][j].kind
             /\ PriorityOf(buckets'[q][j]) = q
  <2>1. ASSUME NEW k \in DOMAIN buckets[q], buckets'[q][j] = buckets[q][k]
        PROVE  /\ buckets'[q][j] \in Messages /\ buckets'[q][j].n \in DOMAIN accepted'
               /\ accepted'[buckets'[q][j].n] = buckets'[q][j].kind
               /\ PriorityOf(buckets'[q][j]) = q
    BY <1>1, <2>1 DEF WhereInv
  <2>2. CASE Quiet \/ Drops \/ SendsOne
    BY <1>2, <2>1, <2>2 DEF Quiet, Drops, SendsOne
  <2>3. CASE Pushes
    <3>1. PICK m \in Messages, d \in {0, 1} :
              PushShape(m, d) /\ (NewPush(m) \/ Repush(m))
      BY <2>3 DEF Pushes
    <3>2. m.n \in DOMAIN accepted' /\ accepted'[m.n] = m.kind
      <4>1. CASE NewPush(m)
        BY <4>1, AcceptedKept DEF NewPush, Messages
      <4>2. CASE Repush(m)
        BY <1>1, <4>2 DEF Repush
      <4> QED
        BY <3>1, <4>1, <4>2
    <3> QED
      BY <1>2, <2>1, <3>1, <3>2, PushPlaces
  <2>4. ASSUME NEW S \in SUBSET Priorities, Empties(S)
        PROVE  j \in DOMAIN buckets[q] /\ buckets'[q][j] = buckets[q][j]
    BY <1>2, <2>4 DEF Empties
  <2>5. ASSUME NEW p \in Priorities, Takes(p)
        PROVE  \E k \in DOMAIN buckets[q] : buckets'[q][j] = buckets[q][k]
    BY <1>2, <2>5, TakesPlaces
  <2> QED
    BY <2>1, <2>2, <2>3, <2>4, <2>5, NextEffect
<1>3. ASSUME NEW i \in DOMAIN wire'
      PROVE  /\ wire'[i] \in Messages /\ wire'[i].n \in DOMAIN accepted'
             /\ accepted'[wire'[i].n] = wire'[i].kind
  <2>1. CASE wire' = wire
    BY <1>1, <2>1 DEF WhereInv
  <2>2. CASE SendsOne
    <3>1. IsAccepted(hand["worker"]) /\ wire' = Append(wire, hand["worker"])
      BY <2>2 DEF SendsOne, HandInv
    <3>2. wire \in Seq(Messages) /\ hand["worker"] \in Messages
      BY <3>1 DEF TypeOK, IsAccepted
    <3>3. \/ i \in DOMAIN wire /\ wire'[i] = wire[i]
          \/ wire'[i] = hand["worker"]
      BY <3>1, <3>2
    <3> QED
      BY <1>1, <3>1, <3>3 DEF WhereInv
  <2> QED
    BY <2>1, <2>2, NextEffect DEF Quiet, Pushes, PushShape, Drops, Empties, Takes
<1> QED
  BY <1>2, <1>3 DEF WhereInv, IsAccepted

-----------------------------------------------------------------------------
(***************************************************************************)
(* Each message is in one place.                                           *)
(***************************************************************************)
\* The numbers in use, and that 0 is none of them.
LEMMA Numbers ==
    ASSUME TypeOK, HandInv, WhereInv
    PROVE  /\ Len(accepted) \in Nat /\ DOMAIN accepted = 1 .. Len(accepted)
           /\ gone \subseteq 1 .. Len(accepted)
           /\ \A q \in Priorities : \A k \in DOMAIN buckets[q] :
                buckets[q][k].n \in 1 .. Len(accepted)
           /\ \A i \in DOMAIN wire : wire[i].n \in 1 .. Len(accepted)
           /\ NoMessage.n = 0
           /\ hand["worker"].n = 0 <=> hand["worker"] = NoMessage
           /\ hand["worker"] # NoMessage => hand["worker"].n \in 1 .. Len(accepted)
<1>1. Len(accepted) \in Nat /\ DOMAIN accepted = 1 .. Len(accepted)
      /\ NoMessage.n = 0 /\ gone \subseteq 1 .. Len(accepted)
  BY DEF TypeOK, NoMessage
<1>2. hand["worker"] # NoMessage => hand["worker"].n \in 1 .. Len(accepted)
  BY <1>1 DEF HandInv, IsAccepted
<1> QED
  BY <1>1, <1>2 DEF WhereInv, IsAccepted

\* What is pushed is nowhere else.
LEMMA PushedIsNew ==
    ASSUME TypeOK, HandInv, WhereInv, PlaceInv,
           NEW m \in Messages, NewPush(m) \/ Repush(m)
    PROVE  /\ m.n # 0 /\ m.n \notin gone
           /\ \A q \in Priorities : \A k \in DOMAIN buckets[q] : buckets[q][k].n # m.n
           /\ \A i \in DOMAIN wire : wire[i].n # m.n
           /\ m.n # hand'["worker"].n
           /\ \A i \in DOMAIN wire : wire[i].n # hand'["worker"].n
           /\ \A q \in Priorities : \A k \in DOMAIN buckets[q] :
                buckets[q][k].n # hand'["worker"].n
           /\ hand'["worker"].n \notin gone
           /\ hand'["worker"].n \in 0 .. Len(accepted)
<1>1. CASE NewPush(m)
  <2>1. m.n = Len(accepted) + 1 /\ hand'["worker"] = hand["worker"]
    BY <1>1 DEF NewPush
  <2> QED
    BY <2>1, Numbers DEF PlaceInv
<1>2. CASE Repush(m)
  <2>1. m = hand["worker"] /\ m.n \in DOMAIN accepted /\ hand'["worker"] = NoMessage
    BY <1>2 DEF Repush, IsAccepted
  <2> QED
    BY <2>1, Numbers DEF PlaceInv
<1> QED
  BY <1>1, <1>2

LEMMA PlacePush ==
    ASSUME TypeOK, HandInv, WhereInv, PlaceInv,
           NEW m \in Messages, NEW d \in {0, 1}, PushShape(m, d),
           NewPush(m) \/ Repush(m)
    PROVE  PlaceInv'
<1>0. /\ PriorityOf(m) \in Priorities /\ wire' = wire
      /\ gone' = IF d = 1 THEN gone \cup {buckets[PriorityOf(m)][1].n} ELSE gone
      /\ d = 1 => 1 \in DOMAIN buckets[PriorityOf(m)]
  BY DEF PushShape, TypeOK
<1>1. ASSUME NEW p \in Priorities, NEW q \in Priorities,
             NEW i \in DOMAIN buckets'[p], NEW j \in DOMAIN buckets'[q],
             buckets'[p][i].n = buckets'[q][j].n
      PROVE  p = q /\ i = j
  <2>1. \/ p = PriorityOf(m) /\ i = Len(buckets'[p]) /\ buckets'[p][i] = m
        \/ \E k \in DOMAIN buckets[p] :
             /\ buckets'[p][i] = buckets[p][k]
             /\ k = IF p = PriorityOf(m) THEN i + d ELSE i
    BY <1>1, PushPlaces
  <2>2. \/ q = PriorityOf(m) /\ j = Len(buckets'[q]) /\ buckets'[q][j] = m
        \/ \E k \in DOMAIN buckets[q] :
             /\ buckets'[q][j] = buckets[q][k]
             /\ k = IF q = PriorityOf(m) THEN j + d ELSE j
    BY <1>1, PushPlaces
  <2>3. i \in Nat /\ j \in Nat
    BY <1>1 DEF PushShape
  <2> QED
    BY <1>1, <2>1, <2>2, <2>3, PushedIsNew, SMTT(20) DEF PlaceInv
<1>2. ASSUME NEW p \in Priorities, NEW i \in DOMAIN buckets'[p]
      PROVE  /\ buckets'[p][i].n \notin gone'
             /\ buckets'[p][i].n # hand'["worker"].n
             /\ \A j \in DOMAIN wire' : wire'[j].n # buckets'[p][i].n
  <2>1. CASE buckets'[p][i] = m
    BY <1>0, <2>1, PushedIsNew
  <2>2. ASSUME NEW k \in DOMAIN buckets[p], buckets'[p][i] = buckets[p][k],
               k = IF p = PriorityOf(m) THEN i + d ELSE i
        PROVE  buckets'[p][i].n \notin gone'
    <3>1. buckets[p][k].n \notin gone
      BY DEF PlaceInv
    <3>2. d = 1 /\ p = PriorityOf(m) => k # 1
      BY <1>2, <2>2 DEF PushShape
    <3>3. d = 1 => buckets[p][k].n # buckets[PriorityOf(m)][1].n
      BY <1>0, <2>2, <3>2 DEF PlaceInv
    <3> QED
      BY <1>0, <2>2, <3>1, <3>3
  <2> QED
    BY <1>0, <1>2, <2>1, <2>2, PushPlaces, PushedIsNew DEF PlaceInv
<1>3. /\ hand'["worker"].n \notin gone'
      /\ \A j \in DOMAIN wire' :
           wire'[j].n # hand'["worker"].n /\ wire'[j].n \notin gone'
  BY <1>0, PushedIsNew DEF PlaceInv
<1>4. ASSUME NEW n \in DOMAIN accepted', accepted'[n] \in Returned
      PROVE  \/ n = hand'["worker"].n \/ n \in gone'
             \/ \E p \in Priorities : \E i \in DOMAIN buckets'[p] : buckets'[p][i].n = n
             \/ \E j \in DOMAIN wire' : wire'[j].n = n
  <2>1. \/ n = m.n
        \/ n \in DOMAIN accepted /\ accepted'[n] = accepted[n]
    <3>1. accepted \in Seq(Kinds) /\ m.kind \in Kinds
      BY DEF TypeOK, Messages
    <3>2. CASE NewPush(m)
      BY <1>4, <3>1, <3>2 DEF NewPush
    <3>3. CASE Repush(m)
      BY <1>4, <3>3 DEF Repush
    <3> QED
      BY <3>2, <3>3
  <2>2. n # m.n /\ n = hand["worker"].n => n = hand'["worker"].n
    BY DEF NewPush, Repush
  <2>3. n = m.n => \E p \in Priorities : \E i \in DOMAIN buckets'[p] : buckets'[p][i].n = n
    BY PushKeeps
  <2>4. gone \subseteq gone'
    BY <1>0
  <2>5. ASSUME NEW q \in Priorities, NEW k \in DOMAIN buckets[q], buckets[q][k].n = n
        PROVE  \/ n \in gone'
               \/ \E p \in Priorities : \E i \in DOMAIN buckets'[p] : buckets'[p][i].n = n
    BY <2>5, PushKeeps
  <2>6. CASE n # m.n
    <3>1. \/ n = hand["worker"].n \/ n \in gone
          \/ \E p \in Priorities : \E i \in DOMAIN buckets[p] : buckets[p][i].n = n
          \/ \E j \in DOMAIN wire : wire[j].n = n
      BY <1>4, <2>1, <2>6 DEF PlaceInv
    <3> QED
      BY <1>0, <2>2, <2>4, <2>5, <2>6, <3>1
  <2> QED
    BY <2>3, <2>6
<1>5. \A i, j \in DOMAIN wire' : wire'[i].n = wire'[j].n => i = j
  BY <1>0 DEF PlaceInv
<1> QED
  BY <1>1, <1>2, <1>3, <1>4, <1>5 DEF PlaceInv

LEMMA PlaceStep ==
    ASSUME TypeOK, PcInv, RoomInv, HandInv, WhereInv, PlaceInv, [Next]_vars
    PROVE  PlaceInv'
<1>1. CASE Quiet
  BY <1>1 DEF Quiet, PlaceInv
<1>2. CASE Pushes
  BY <1>2, PlacePush DEF Pushes
<1>3. CASE Drops
  <2>1. /\ hand'["worker"] = NoMessage
        /\ UNCHANGED <<buckets, accepted, wire>>
        /\ gone' \subseteq gone \cup {hand["worker"].n} /\ gone \subseteq gone'
        /\ hand["worker"].n \in gone' \/ hand["worker"].kind \notin Returned
        /\ 0 \notin gone'
    BY <1>3, Numbers DEF Drops
  <2>2. \A n \in DOMAIN accepted : n = hand["worker"].n =>
            accepted[n] = hand["worker"].kind
    BY Numbers DEF HandInv, IsAccepted
  <2> QED
    BY <2>1, <2>2, Numbers DEF PlaceInv
<1>4. ASSUME NEW S \in SUBSET Priorities, Empties(S) PROVE PlaceInv'
  <2>1. /\ UNCHANGED <<accepted, wire>> /\ hand'["worker"] = hand["worker"]
        /\ gone' = gone \cup UNION {Held(buckets[p]) : p \in S}
        /\ \A q \in Priorities : \A j \in DOMAIN buckets'[q] :
             q \notin S /\ j \in DOMAIN buckets[q] /\ buckets'[q][j] = buckets[q][j]
        /\ \A q \in Priorities \ S : buckets'[q] = buckets[q]
    BY <1>4 DEF Empties
  <2>2. /\ \A q \in S : \A j \in DOMAIN buckets[q] : buckets[q][j].n \in gone'
        /\ \A n \in gone' : \/ n \in gone
                            \/ \E q \in S : \E j \in DOMAIN buckets[q] : n = buckets[q][j].n
    BY <2>1 DEF Held
  <2>3. /\ hand["worker"].n \notin gone'
        /\ \A j \in DOMAIN wire : wire[j].n \notin gone'
    BY <2>2 DEF PlaceInv
  <2>4. \A q \in Priorities : \A j \in DOMAIN buckets'[q] : buckets'[q][j].n \notin gone'
    BY <2>1, <2>2 DEF PlaceInv
  <2>5. \A p, q \in Priorities : \A i \in DOMAIN buckets'[p], j \in DOMAIN buckets'[q] :
          buckets'[p][i].n = buckets'[q][j].n => p = q /\ i = j
    BY <2>1 DEF PlaceInv
  <2>6. \A n \in DOMAIN accepted : accepted[n] \in Returned =>
          \/ n = hand["worker"].n \/ n \in gone'
          \/ \E p \in Priorities : \E i \in DOMAIN buckets'[p] : buckets'[p][i].n = n
          \/ \E j \in DOMAIN wire : wire[j].n = n
    BY <2>1, <2>2 DEF PlaceInv
  <2> QED
    BY <2>1, <2>3, <2>4, <2>5, <2>6 DEF PlaceInv
<1>5. ASSUME NEW p \in Priorities, Takes(p) PROVE PlaceInv'
  <2>1. /\ UNCHANGED <<accepted, wire, gone>> /\ hand["worker"] = NoMessage
        /\ 1 \in DOMAIN buckets[p] /\ hand'["worker"] = buckets[p][1]
    BY <1>5, TakesPlaces DEF Takes
  <2>2. ASSUME NEW q \in Priorities, NEW j \in DOMAIN buckets'[q]
        PROVE  \E k \in DOMAIN buckets[q] :
                  /\ buckets'[q][j] = buckets[q][k]
                  /\ k = IF q = p THEN j + 1 ELSE j
                  /\ buckets[q][k].n # hand'["worker"].n
                  /\ j \in Nat
    <3>1. PICK k \in DOMAIN buckets[q] :
               buckets'[q][j] = buckets[q][k] /\ k = IF q = p THEN j + 1 ELSE j
      BY <1>5, <2>2, TakesPlaces
    <3>2. j \in Nat \ {0}
      BY <1>5, <2>2 DEF Takes, TypeOK
    <3>3. ~(q = p /\ k = 1)
      BY <3>1, <3>2
    <3> QED
      BY <2>1, <3>1, <3>2, <3>3 DEF PlaceInv
  <2>3. \A q \in Priorities : \A k \in DOMAIN buckets[q] :
           \/ buckets[q][k].n = hand'["worker"].n
           \/ \E j \in DOMAIN buckets'[q] : buckets'[q][j] = buckets[q][k]
    BY <1>5, <2>1, TakesPlaces
  <2>4. ASSUME NEW q \in Priorities, NEW r \in Priorities,
               NEW i \in DOMAIN buckets'[q], NEW j \in DOMAIN buckets'[r],
               buckets'[q][i].n = buckets'[r][j].n
        PROVE  q = r /\ i = j
    <3>1. PICK k \in DOMAIN buckets[q] :
             buckets'[q][i] = buckets[q][k] /\ k = (IF q = p THEN i + 1 ELSE i) /\ i \in Nat
      BY <2>2, <2>4
    <3>2. PICK l \in DOMAIN buckets[r] :
             buckets'[r][j] = buckets[r][l] /\ l = (IF r = p THEN j + 1 ELSE j) /\ j \in Nat
      BY <2>2, <2>4
    <3>3. q = r /\ k = l
      BY <2>4, <3>1, <3>2 DEF PlaceInv
    <3> QED
      BY <3>1, <3>2, <3>3
  <2>5. \A q \in Priorities : \A j \in DOMAIN buckets'[q] :
          /\ buckets'[q][j].n \notin gone'
          /\ buckets'[q][j].n # hand'["worker"].n
          /\ \A i \in DOMAIN wire' : wire'[i].n # buckets'[q][j].n
    BY <2>1, <2>2 DEF PlaceInv
  <2>6. /\ hand'["worker"].n \notin gone'
        /\ \A j \in DOMAIN wire' :
             wire'[j].n # hand'["worker"].n /\ wire'[j].n \notin gone'
    BY <2>1 DEF PlaceInv
  <2>7. \A n \in DOMAIN accepted : accepted[n] \in Returned =>
          \/ n = hand'["worker"].n \/ n \in gone
          \/ \E q \in Priorities : \E i \in DOMAIN buckets'[q] : buckets'[q][i].n = n
          \/ \E j \in DOMAIN wire : wire[j].n = n
    BY <2>1, <2>3, Numbers DEF PlaceInv
  <2>8. \A i, j \in DOMAIN wire' : wire'[i].n = wire'[j].n => i = j
    BY <2>1 DEF PlaceInv
  <2> QED
    BY <2>1, <2>4, <2>5, <2>6, <2>7, <2>8 DEF PlaceInv
<1>6. CASE SendsOne
  <2>1. /\ UNCHANGED <<buckets, accepted, gone>> /\ hand'["worker"] = NoMessage
        /\ wire' = Append(wire, hand["worker"]) /\ hand["worker"] \in Messages
        /\ wire \in Seq(Messages)
    BY <1>6 DEF SendsOne, HandInv, IsAccepted, TypeOK
  <2>2. \A i \in DOMAIN wire' : \/ i \in DOMAIN wire /\ wire'[i] = wire[i]
                                \/ i = Len(wire) + 1 /\ wire'[i] = hand["worker"]
    BY <2>1
  <2>3. /\ \A i \in DOMAIN wire : i \in DOMAIN wire' /\ wire'[i] = wire[i]
        /\ Len(wire) + 1 \in DOMAIN wire' /\ wire'[Len(wire) + 1] = hand["worker"]
    BY <2>1
  <2>4. \A i, j \in DOMAIN wire' : wire'[i].n = wire'[j].n => i = j
    BY <2>2 DEF PlaceInv
  <2>5. \A p \in Priorities : \A i \in DOMAIN buckets[p] :
           \A j \in DOMAIN wire' : wire'[j].n # buckets[p][i].n
    BY <2>2 DEF PlaceInv
  <2>6. \A j \in DOMAIN wire' : wire'[j].n # 0 /\ wire'[j].n \notin gone
    BY <1>6, <2>2, Numbers DEF PlaceInv, SendsOne
  <2>7. \A n \in DOMAIN accepted : accepted[n] \in Returned =>
          \/ n \in gone
          \/ \E q \in Priorities : \E i \in DOMAIN buckets[q] : buckets[q][i].n = n
          \/ \E j \in DOMAIN wire' : wire'[j].n = n
    BY <2>3 DEF PlaceInv
  <2> QED
    BY <2>1, <2>4, <2>5, <2>6, <2>7, Numbers DEF PlaceInv
<1> QED
  BY <1>1, <1>2, <1>3, <1>4, <1>5, <1>6, NextEffect

-----------------------------------------------------------------------------
(***************************************************************************)
(* The media buckets keep the newest.                                      *)
(***************************************************************************)
\* NewestKept, of places: a media bucket is in order and has no gap.
NewestInv ==
    \A p \in {Audio, Video} :
        /\ \A i, j \in DOMAIN buckets[p] : i < j => buckets[p][i].n < buckets[p][j].n
        /\ \A n \in DOMAIN accepted : \A k \in DOMAIN buckets[p] :
             send_priority[accepted[n]] = p /\ n >= buckets[p][k].n =>
               \E i \in DOMAIN buckets[p] : buckets[p][i].n = n

LEMMA NewestPush ==
    ASSUME TypeOK, HandInv, WhereInv, PlaceInv, NewestInv,
           NEW m \in Messages, NEW d \in {0, 1}, PushShape(m, d),
           NewPush(m) \/ Repush(m)
    PROVE  NewestInv'
<1> SUFFICES ASSUME NEW p \in {Audio, Video}
             PROVE  /\ \A i, j \in DOMAIN buckets'[p] :
                         i < j => buckets'[p][i].n < buckets'[p][j].n
                    /\ \A n \in DOMAIN accepted' : \A k \in DOMAIN buckets'[p] :
                         send_priority[accepted'[n]] = p /\ n >= buckets'[p][k].n =>
                           \E i \in DOMAIN buckets'[p] : buckets'[p][i].n = n
  BY DEF NewestInv
<1>0. /\ p \in Priorities /\ buckets[p] \in Seq(Messages)
      /\ accepted \in Seq(Kinds) /\ m.kind \in Kinds /\ Len(accepted) \in Nat
  BY DEF TypeOK, Priorities, Control, Audio, Video, Messages
<1>1. /\ \A i, j \in DOMAIN buckets[p] : i < j => buckets[p][i].n < buckets[p][j].n
      /\ \A n \in DOMAIN accepted : \A k \in DOMAIN buckets[p] :
           send_priority[accepted[n]] = p /\ n >= buckets[p][k].n =>
             \E i \in DOMAIN buckets[p] : buckets[p][i].n = n
  BY DEF NewestInv
<1>2. CASE p # PriorityOf(m)
  <2>1. buckets'[p] = buckets[p]
    BY <1>0, <1>2 DEF PushShape
  <2>2. \A n \in DOMAIN accepted' :
           \/ n \in DOMAIN accepted /\ accepted'[n] = accepted[n]
           \/ accepted'[n] = m.kind
    BY <1>0 DEF NewPush, Repush
  <2>3. send_priority[m.kind] # p
    BY <1>2 DEF PriorityOf
  <2> QED
    BY <1>1, <2>1, <2>2, <2>3
<1>3. CASE p = PriorityOf(m)
  <2> DEFINE old == buckets[p]
             new == buckets'[p]
  <2>1. m.kind \notin Returned
    BY <1>3 DEF PriorityOf, send_priority, Returned, Control, Audio, Text, Video
  <2>2. m.n = Len(accepted) + 1 /\ accepted' = Append(accepted, m.kind)
    BY <2>1 DEF NewPush, Repush
  <2>3. /\ new \in Seq(Messages) /\ d <= Len(old)
        /\ Len(old) \in Nat /\ Len(new) = Len(old) - d + 1
        /\ new[Len(new)] = m
        /\ \A i \in 1 .. Len(old) - d : new[i] = old[i + d]
    BY <1>0, <1>3 DEF PushShape
  <2>4. /\ \A i \in DOMAIN old : old[i].n \in 1 .. Len(accepted)
        /\ DOMAIN accepted = 1 .. Len(accepted)
    BY <1>0, Numbers
  <2>5. DOMAIN new = 1 .. Len(new) /\ DOMAIN old = 1 .. Len(old)
    BY <1>0, <2>3
  <2> HIDE DEF old, new
  <2>6. ASSUME NEW j \in DOMAIN new, j # Len(new)
        PROVE  j + d \in DOMAIN old /\ new[j] = old[j + d] /\ j < Len(new)
    BY <2>3, <2>5, <2>6
  <2>7. ASSUME NEW k \in DOMAIN old, k > d
        PROVE  k - d \in DOMAIN new /\ new[k - d] = old[k]
    <3>1. k - d \in 1 .. Len(old) - d /\ k - d + d = k /\ k - d \in 1 .. Len(new)
      BY <2>3, <2>5, <2>7
    <3> QED
      BY <2>3, <2>5, <3>1
  <2>8. ASSUME NEW i \in DOMAIN new, NEW j \in DOMAIN new, i < j
        PROVE  new[i].n < new[j].n
    <3>1. i # Len(new)
      BY <2>3, <2>5, <2>8
    <3>2. i + d \in DOMAIN old /\ new[i] = old[i + d]
      BY <2>6, <3>1
    <3>3. CASE j = Len(new)
      <4>1. old[i + d].n \in 1 .. Len(accepted) /\ new[j] = m
        BY <2>3, <2>4, <3>2, <3>3
      <4> QED
        BY <1>0, <2>2, <3>2, <4>1
    <3>4. CASE j # Len(new)
      <4>1. j + d \in DOMAIN old /\ new[j] = old[j + d] /\ i + d < j + d
        BY <2>5, <2>6, <2>8, <3>4
      <4> QED
        BY <1>1, <3>2, <4>1 DEF old
    <3> QED
      BY <3>3, <3>4
  <2>9. ASSUME NEW n \in DOMAIN accepted', NEW k \in DOMAIN new,
               send_priority[accepted'[n]] = p, n >= new[k].n
        PROVE  \E i \in DOMAIN new : new[i].n = n
    <3>1. Len(new) \in DOMAIN new
      BY <2>3, <2>5
    <3>2. CASE n = m.n
      BY <2>3, <3>1, <3>2
    <3>3. CASE n # m.n
      <4>1. n \in 1 .. Len(accepted) /\ accepted'[n] = accepted[n]
        BY <1>0, <2>2, <2>9, <3>3
      <4>2. k # Len(new)
        BY <1>0, <2>2, <2>3, <2>9, <4>1
      <4>3. k + d \in DOMAIN old /\ new[k] = old[k + d]
        BY <2>6, <4>2
      <4>4. PICK i \in DOMAIN old : old[i].n = n
        BY <1>1, <2>4, <2>9, <4>1, <4>3 DEF old
      <4>5. ~(i < k + d)
        <5>1. i < k + d => old[i].n < old[k + d].n
          BY <1>1, <4>3 DEF old
        <5>2. old[i].n \in Nat /\ old[k + d].n \in Nat
          BY <2>4, <4>3 DEF old
        <5> QED
          BY <2>9, <4>3, <4>4, <5>1, <5>2
      <4>6. i > d
        BY <2>5, <4>5
      <4> QED
        BY <2>7, <4>4, <4>6
    <3> QED
      BY <3>2, <3>3
  <2> QED
    BY <2>8, <2>9 DEF new
<1> QED
  BY <1>2, <1>3

LEMMA NewestStep ==
    ASSUME TypeOK, PcInv, RoomInv, HandInv, WhereInv, PlaceInv, NewestInv,
           [Next]_vars
    PROVE  NewestInv'
<1>1. CASE Quiet \/ Drops \/ SendsOne
  BY <1>1 DEF Quiet, Drops, SendsOne, NewestInv
<1>2. CASE Pushes
  BY <1>2, NewestPush DEF Pushes
<1>3. ASSUME NEW S \in SUBSET Priorities, Empties(S) PROVE NewestInv'
  <2>1. accepted' = accepted
    BY <1>3 DEF Empties
  <2>2. \A p \in {Audio, Video} : buckets'[p] = buckets[p] \/ buckets'[p] = << >>
    BY <1>3 DEF Empties, Priorities, Control, Audio, Video
  <2> QED
    BY <2>1, <2>2 DEF NewestInv
<1>4. ASSUME NEW p \in Priorities, Takes(p) PROVE NewestInv'
  <2>0. accepted' = accepted
    BY <1>4 DEF Takes
  <2>1. ASSUME NEW q \in {Audio, Video}, NEW j \in DOMAIN buckets'[q]
        PROVE  \E k \in DOMAIN buckets[q] :
                  /\ buckets'[q][j] = buckets[q][k]
                  /\ k = IF q = p THEN j + 1 ELSE j
                  /\ j \in Nat \ {0} /\ k \in Nat \ {0}
    <3>1. q \in Priorities
      BY DEF Priorities, Control, Audio, Video
    <3>2. j \in Nat \ {0}
      BY <1>4, <2>1, <3>1 DEF Takes, TypeOK
    <3> QED
      BY <1>4, <2>1, <3>1, <3>2, TakesPlaces
  <2>2. ASSUME NEW q \in {Audio, Video},
               NEW i \in DOMAIN buckets'[q], NEW j \in DOMAIN buckets'[q], i < j
        PROVE  buckets'[q][i].n < buckets'[q][j].n
    <3>1. PICK k \in DOMAIN buckets[q] :
            /\ buckets'[q][i] = buckets[q][k]
            /\ k = (IF q = p THEN i + 1 ELSE i) /\ i \in Nat \ {0}
      BY <2>1, <2>2
    <3>2. PICK l \in DOMAIN buckets[q] :
            /\ buckets'[q][j] = buckets[q][l]
            /\ l = (IF q = p THEN j + 1 ELSE j) /\ j \in Nat \ {0}
      BY <2>1, <2>2
    <3>3. k < l
      BY <2>2, <3>1, <3>2
    <3> QED
      BY <3>1, <3>2, <3>3 DEF NewestInv
  <2>3. ASSUME NEW q \in {Audio, Video}, NEW n \in DOMAIN accepted,
               NEW j \in DOMAIN buckets'[q],
               send_priority[accepted[n]] = q, n >= buckets'[q][j].n
        PROVE  \E i \in DOMAIN buckets'[q] : buckets'[q][i].n = n
    <3>1. PICK k \in DOMAIN buckets[q] :
            /\ buckets'[q][j] = buckets[q][k]
            /\ k = (IF q = p THEN j + 1 ELSE j) /\ j \in Nat \ {0}
      BY <2>1, <2>3
    <3>2. PICK i \in DOMAIN buckets[q] : buckets[q][i].n = n
      BY <2>3, <3>1 DEF NewestInv
    <3>3. q = p => i # 1
      <4>1. q = p => 1 < k
        BY <3>1
      <4>2. q = p /\ i = 1 => buckets[q][i].n < buckets[q][k].n
        BY <4>1 DEF NewestInv
      <4>3. buckets[q][i].n \in Nat /\ buckets[q][k].n \in Nat
        BY Numbers DEF Priorities, Control, Audio, Video
      <4> QED
        BY <2>3, <3>1, <3>2, <4>2, <4>3
    <3>4. q \in Priorities
      BY DEF Priorities, Control, Audio, Video
    <3>5. PICK l \in DOMAIN buckets'[q] : buckets'[q][l] = buckets[q][i]
      BY <1>4, <3>2, <3>3, <3>4, TakesPlaces
    <3> QED
      BY <3>2, <3>5
  <2> QED
    BY <2>0, <2>2, <2>3 DEF NewestInv
<1> QED
  BY <1>1, <1>2, <1>3, <1>4, NextEffect

\* What the places say of the set of the numbers held.
LEMMA NewestIsKept ==
    ASSUME TypeOK, HandInv, WhereInv, NewestInv
    PROVE  NewestKept
<1> SUFFICES ASSUME NEW p \in {Audio, Video}, buckets[p] # << >>
             PROVE  /\ \A i, j \in DOMAIN buckets[p] :
                         i < j => buckets[p][i].n < buckets[p][j].n
                    /\ Held(buckets[p])
                         = {n \in {n \in DOMAIN accepted : send_priority[accepted[n]] = p} :
                              n >= Head(buckets[p]).n}
  BY DEF NewestKept
<1>1. /\ p \in Priorities /\ buckets[p] \in Seq(Messages)
      /\ Head(buckets[p]) = buckets[p][1]
      /\ Len(buckets[p]) \in Nat \ {0} /\ DOMAIN buckets[p] = 1 .. Len(buckets[p])
  <2>1. p \in Priorities /\ buckets[p] \in Seq(Messages)
    BY DEF TypeOK, Priorities, Control, Audio, Video
  <2> QED
    BY <2>1, HeadTail
<1>2. \A i \in DOMAIN buckets[p] :
         /\ buckets[p][i].n \in DOMAIN accepted
         /\ buckets[p][i].n \in Nat
         /\ send_priority[accepted[buckets[p][i].n]] = p
  BY <1>1, Numbers DEF WhereInv, IsAccepted, PriorityOf
<1>3. 1 \in DOMAIN buckets[p]
  BY <1>1
<1>4. \A i \in DOMAIN buckets[p] : buckets[p][i].n >= buckets[p][1].n
  <2>1. ASSUME NEW i \in DOMAIN buckets[p] PROVE i = 1 \/ 1 < i
    BY <1>1
  <2>2. \A i \in DOMAIN buckets[p] : 1 < i => buckets[p][1].n < buckets[p][i].n
    BY <1>3 DEF NewestInv
  <2> QED
    BY <1>2, <1>3, <2>1, <2>2
<1>5. \A i, j \in DOMAIN buckets[p] : i < j => buckets[p][i].n < buckets[p][j].n
  BY DEF NewestInv
<1>6. ASSUME NEW n \in DOMAIN accepted, send_priority[accepted[n]] = p,
             n >= buckets[p][1].n
      PROVE  \E i \in DOMAIN buckets[p] : buckets[p][i].n = n
  BY <1>3, <1>6 DEF NewestInv
<1>7. \A n : n \in Held(buckets[p]) <=> \E i \in DOMAIN buckets[p] : buckets[p][i].n = n
  BY DEF Held
<1>8. \A n : n \in Held(buckets[p]) <=> /\ n \in DOMAIN accepted
                                        /\ send_priority[accepted[n]] = p
                                        /\ n >= Head(buckets[p]).n
  BY <1>1, <1>2, <1>4, <1>6, <1>7
<1> QED
  BY <1>5, <1>8

-----------------------------------------------------------------------------
(***************************************************************************)
(* No lost wakeup: push fills the queue before its notify, and every other *)
(* step that could leave the worker asleep wakes it.                       *)
(***************************************************************************)
LEMMA WakeStep ==
    ASSUME TypeOK, PcInv, NoLostWakeup, [Next]_vars
    PROVE  NoLostWakeup'
<1> USE DEF NoLostWakeup, PcInv, Threads, Pushers, Goto, WakeWorker, Pushed, HasAny
<1>0. DOMAIN pc = Threads
  BY DEF TypeOK
<1>1. CASE \E t \in Pushers : push(t)
  BY <1>0, <1>1 DEF push
<1>2. CASE \E t \in Pushers : push_notify(t) \/ push_timeout(t)
  BY <1>0, <1>2 DEF push_notify, push_timeout
<1>3. CASE \E t \in {"ui", "mic"}, kind \in Kinds \ {"CloseCamera"} :
              (t = "mic" => kind = "SendAudio") /\ enqueue_send(t, kind)
  BY <1>0, <1>3 DEF enqueue_send
<1>4. CASE ui_camera_on \/ ui_camera_off \/ clear_video_skip \/ clear_video
  BY <1>0, <1>4 DEF ui_camera_on, ui_camera_off, clear_video_skip, clear_video
<1>5. CASE io_clear \/ clear_try_fails \/ clear \/ clear_all_wake
  BY <1>0, <1>5 DEF io_clear, clear_try_fails, clear, clear_all_wake
<1>6. CASE send_loop \/ pop_take \/ pop_none \/ pop_timeout
  BY <1>0, <1>6 DEF send_loop, pop_take, pop_none, pop_timeout
<1>7. CASE return_or_drop \/ send
  BY <1>0, <1>7 DEF return_or_drop, send
<1>8. CASE signal_send_stop \/ start_send_worker
  BY <1>0, <1>8 DEF signal_send_stop, start_send_worker
<1>9. CASE UNCHANGED vars
  BY <1>9 DEF vars
<1> QED
  BY <1>1, <1>2, <1>3, <1>4, <1>5, <1>6, <1>7, <1>8, <1>9, NextIsStep DEF Step
-----------------------------------------------------------------------------
(***************************************************************************)
(* Nothing of the camera follows CLOSE_CAMERA, while clear_video has got   *)
(* its lock.                                                               *)
(***************************************************************************)
\* When the UI thread pushes CLOSE_CAMERA, no picture is waiting.
ClosingInv == UiCloses => buckets[Video] = << >>

\* So the waiting pictures, and the one in hand, are younger than every
\* CLOSE_CAMERA, and so are the sent ones that follow it.
CloseInv ==
    /\ ClosingInv
    /\ \A n \in DOMAIN accepted : accepted[n] = "CloseCamera" =>
         \A j \in DOMAIN buckets[Video] : n < buckets[Video][j].n
    /\ hand["worker"].kind = "SendImage" =>
         \A i \in DOMAIN wire :
           wire[i].kind = "CloseCamera" => wire[i].n < hand["worker"].n
    /\ \A i, j \in DOMAIN wire :
         i < j /\ wire[i].kind = "CloseCamera" /\ wire[j].kind = "SendImage" =>
           wire[i].n < wire[j].n

LEMMA SkippedStays == ASSUME [Next]_vars, ~skipped' PROVE ~skipped
BY NextIsStep
DEF Step, push, push_notify, push_timeout, enqueue_send, ui_camera_on, ui_camera_off,
    clear_video_skip, clear_video, io_clear, clear_try_fails, clear, clear_all_wake,
    send_loop, pop_take, pop_none, pop_timeout, return_or_drop, send,
    signal_send_stop, start_send_worker, vars

\* A step that pushes no picture leaves the video bucket as it is, or takes
\* from it; the UI thread itself pushes none while it closes.
LEMMA ClosingStep ==
    ASSUME TypeOK, PcInv, RoomInv, HandInv, WhereInv, PlaceInv, ClosingInv,
           [Next]_vars, ~skipped'
    PROVE  ClosingInv'
<1> USE DEF ClosingInv, UiCloses, Threads, Pushers, Goto, WakeWorker, Pushed
<1>0. /\ DOMAIN pc = Threads /\ DOMAIN hand = Threads
      /\ buckets \in [Priorities -> Seq(Messages)] /\ Video \in Priorities
  BY DEF TypeOK, Priorities, Control, Video
<1>1. CASE \E t \in Pushers : push(t)
  <2>1. PICK t \in Pushers : push(t)
    BY <1>1
  <2>2. /\ pc[t] = "push" /\ pc' = [pc EXCEPT ![t] = "notify"]
        /\ hand' = [hand EXCEPT ![t] = NoMessage]
    BY <2>1, PushIsPushedBy
  <2>3. CASE t = "ui"
    BY <1>0, <2>2, <2>3
  <2>4. CASE t # "ui"
    <3>1. PICK m \in Messages, d \in {0, 1} : m = PushedBy(t) /\ PushShape(m, d)
      BY <2>1, PushIsShape
    <3>2. m.kind = hand[t].kind
      BY <2>2, <3>1, PushedByType
    <3>3. m.kind \in {"SendAudio", "SendText", "CloseCamera"}
      BY <2>2, <2>4, <3>2 DEF HandInv, Returned
    <3>4. PriorityOf(m) # Video
      BY <3>3 DEF PriorityOf, send_priority, Control, Audio, Text, Video
    <3>5. buckets'[Video] = buckets[Video]
      BY <1>0, <3>1, <3>4 DEF PushShape
    <3> QED
      BY <1>0, <2>2, <2>4, <3>5
  <2> QED
    BY <2>3, <2>4
<1>2. CASE \E t \in Pushers : push_notify(t) \/ push_timeout(t)
  BY <1>0, <1>2 DEF push_notify, push_timeout
<1>3. CASE \E t \in {"ui", "mic"}, kind \in Kinds \ {"CloseCamera"} :
              (t = "mic" => kind = "SendAudio") /\ enqueue_send(t, kind)
  BY <1>0, <1>3 DEF enqueue_send, Fresh
<1>4. CASE ui_camera_on \/ ui_camera_off
  BY <1>0, <1>4 DEF ui_camera_on, ui_camera_off
<1>5. CASE clear_video
  BY <1>0, <1>5 DEF clear_video
<1>6. CASE clear_video_skip
  BY <1>6 DEF clear_video_skip
<1>7. CASE io_clear \/ clear_try_fails \/ clear \/ clear_all_wake
  BY <1>0, <1>7 DEF io_clear, clear_try_fails, clear, clear_all_wake
<1>8. CASE send_loop \/ pop_none \/ pop_timeout
  BY <1>0, <1>8 DEF send_loop, pop_none, pop_timeout
<1>9. CASE pop_take
  <2>1. \A p \in Priorities : buckets[p] # << >> /\ buckets[Video] = << >> => p # Video
    OBVIOUS
  <2>2. buckets[Video] = << >> => buckets'[Video] = << >>
    BY <1>0, <1>9, <2>1 DEF pop_take
  <2> QED
    BY <1>0, <1>9, <2>2 DEF pop_take
<1>10. CASE return_or_drop \/ send
  BY <1>0, <1>10 DEF return_or_drop, send
<1>11. CASE signal_send_stop \/ start_send_worker
  BY <1>0, <1>11 DEF signal_send_stop, start_send_worker
<1>12. CASE UNCHANGED vars
  BY <1>12 DEF vars
<1> QED
  BY <1>1, <1>2, <1>3, <1>4, <1>5, <1>6, <1>7, <1>8, <1>9, <1>10, <1>11, <1>12,
     NextIsStep
  DEF Step

LEMMA CloseStep ==
    ASSUME TypeOK, PcInv, RoomInv, HandInv, WhereInv, PlaceInv, CloseInv,
           [Next]_vars, ~skipped'
    PROVE  CloseInv'
<1> DEFINE Waiting == \A n \in DOMAIN accepted : accepted[n] = "CloseCamera" =>
                        \A j \in DOMAIN buckets[Video] : n < buckets[Video][j].n
           InHand == hand["worker"].kind = "SendImage" =>
                        \A i \in DOMAIN wire : wire[i].kind = "CloseCamera" =>
                          wire[i].n < hand["worker"].n
           Sent == \A i, j \in DOMAIN wire :
                        i < j /\ wire[i].kind = "CloseCamera"
                              /\ wire[j].kind = "SendImage" =>
                          wire[i].n < wire[j].n
<1>0. /\ Video \in Priorities /\ buckets[Video] \in Seq(Messages)
      /\ ClosingInv /\ Waiting /\ InHand /\ Sent
      /\ NoMessage.kind = "none"
  BY DEF CloseInv, TypeOK, Priorities, Control, Video, NoMessage
<1>1. ClosingInv'
  BY <1>0, ClosingStep
<1>2. CASE Quiet
  BY <1>0, <1>1, <1>2 DEF Quiet, CloseInv
<1>3. CASE Pushes
  <2>1. PICK m \in Messages, d \in {0, 1} :
            /\ PushShape(m, d)
            /\ NewPush(m) \/ Repush(m)
            /\ NewPush(m) /\ m.kind = "CloseCamera" => UiCloses
    BY <1>3 DEF Pushes
  <2>2. wire' = wire /\ hand'["worker"] \in {hand["worker"], NoMessage}
    BY <2>1 DEF PushShape, NewPush, Repush
  <2>3. InHand' /\ Sent'
    BY <1>0, <2>2
  <2>4. ASSUME NEW n \in DOMAIN accepted', accepted'[n] = "CloseCamera",
               NEW j \in DOMAIN buckets'[Video]
        PROVE  n < buckets'[Video][j].n
    <3>1. /\ accepted \in Seq(Kinds) /\ m.kind \in Kinds /\ Len(accepted) \in Nat
          /\ DOMAIN accepted = 1 .. Len(accepted)
      BY DEF TypeOK, Messages
    <3>2. CASE NewPush(m)
      <4>1. m.n = Len(accepted) + 1 /\ accepted' = Append(accepted, m.kind)
        BY <3>2 DEF NewPush
      <4>2. \/ n \in DOMAIN accepted /\ accepted[n] = "CloseCamera" /\ n < m.n
            \/ n = m.n /\ m.kind = "CloseCamera"
        BY <2>4, <3>1, <4>1
      <4>3. CASE m.kind = "CloseCamera"
        <5>1. buckets[Video] = << >>
          BY <1>0, <2>1, <3>2, <4>3 DEF ClosingInv
        <5>2. PriorityOf(m) # Video
          BY <4>3 DEF PriorityOf, send_priority, Control, Audio, Text, Video
        <5>3. buckets'[Video] = buckets[Video]
          BY <1>0, <2>1, <5>2 DEF PushShape
        <5> QED
          BY <2>4, <5>1, <5>3
      <4>4. CASE m.kind # "CloseCamera"
        <5>1. n \in DOMAIN accepted /\ accepted[n] = "CloseCamera" /\ n < m.n
          BY <4>2, <4>4
        <5>2. \/ buckets'[Video][j] = m
              \/ \E k \in DOMAIN buckets[Video] : buckets'[Video][j] = buckets[Video][k]
          BY <1>0, <2>1, <2>4, PushPlaces
        <5> QED
          BY <1>0, <5>1, <5>2
      <4> QED
        BY <4>3, <4>4
    <3>3. CASE Repush(m)
      <4>1. m.kind \in Returned /\ accepted' = accepted
        BY <3>3 DEF Repush
      <4>2. PriorityOf(m) # Video
        BY <4>1 DEF Returned, PriorityOf, send_priority, Control, Audio, Text, Video
      <4>3. buckets'[Video] = buckets[Video]
        BY <1>0, <2>1, <4>2 DEF PushShape
      <4> QED
        BY <1>0, <2>4, <4>1, <4>3
    <3> QED
      BY <2>1, <3>2, <3>3
  <2> QED
    BY <1>1, <2>3, <2>4 DEF CloseInv
<1>4. CASE Drops
  BY <1>0, <1>1, <1>4 DEF Drops, CloseInv
<1>5. ASSUME NEW S \in SUBSET Priorities, Empties(S) PROVE CloseInv'
  <2>1. buckets'[Video] = buckets[Video] \/ buckets'[Video] = << >>
    BY <1>0, <1>5 DEF Empties
  <2>2. UNCHANGED <<accepted, wire>> /\ hand'["worker"] = hand["worker"]
    BY <1>5 DEF Empties
  <2> QED
    BY <1>0, <1>1, <2>1, <2>2 DEF CloseInv
<1>6. ASSUME NEW p \in Priorities, Takes(p) PROVE CloseInv'
  <2>1. /\ UNCHANGED <<accepted, wire>>
        /\ 1 \in DOMAIN buckets[p] /\ hand'["worker"] = buckets[p][1]
    BY <1>6, TakesPlaces DEF Takes
  <2>2. \A j \in DOMAIN buckets'[Video] :
           \E k \in DOMAIN buckets[Video] : buckets'[Video][j] = buckets[Video][k]
    BY <1>0, <1>6, TakesPlaces
  <2>3. Waiting'
    BY <1>0, <2>1, <2>2
  <2>4. ASSUME hand'["worker"].kind = "SendImage",
               NEW i \in DOMAIN wire, wire[i].kind = "CloseCamera"
        PROVE  wire[i].n < hand'["worker"].n
    <3>1. p = Video
      <4>1. PriorityOf(buckets[p][1]) = p /\ buckets[p][1].kind = "SendImage"
        BY <2>1, <2>4 DEF WhereInv
      <4> QED
        BY <4>1 DEF PriorityOf, send_priority, Control, Audio, Text, Video
    <3>2. wire[i].n \in DOMAIN accepted /\ accepted[wire[i].n] = "CloseCamera"
      BY <2>4 DEF WhereInv, IsAccepted
    <3> QED
      BY <1>0, <2>1, <3>1, <3>2
  <2> QED
    BY <1>0, <1>1, <2>1, <2>3, <2>4 DEF CloseInv
<1>7. CASE SendsOne
  <2>1. /\ UNCHANGED <<buckets, accepted>> /\ hand'["worker"] = NoMessage
        /\ wire' = Append(wire, hand["worker"]) /\ hand["worker"] \in Messages
        /\ wire \in Seq(Messages)
    BY <1>7 DEF SendsOne, HandInv, IsAccepted, TypeOK
  <2>2. ASSUME NEW i \in DOMAIN wire', NEW j \in DOMAIN wire', i < j
        PROVE  /\ i \in DOMAIN wire /\ wire'[i] = wire[i]
               /\ \/ j \in DOMAIN wire /\ wire'[j] = wire[j]
                  \/ wire'[j] = hand["worker"]
    BY <2>1, <2>2
  <2>3. Sent'
    BY <1>0, <2>2
  <2> QED
    BY <1>0, <1>1, <2>1, <2>3 DEF CloseInv
<1> QED
  BY <1>2, <1>3, <1>4, <1>5, <1>6, <1>7, NextEffect
-----------------------------------------------------------------------------
(***************************************************************************)
(* The inductive invariant, and the theorems.                              *)
(***************************************************************************)
IInv ==
    /\ TypeOK /\ PcInv /\ RoomInv /\ HandInv /\ WhereInv /\ PlaceInv
    /\ NewestInv
    /\ NoLostWakeup
    /\ ~skipped => CloseInv

LEMMA InitIInv == ASSUME Init PROVE IInv
<1> USE DEF Init
<1>0. /\ \A p \in Priorities : buckets[p] = << >>
      /\ \A t \in Threads : hand[t] = NoMessage
      /\ NoMessage.n = 0 /\ NoMessage.kind = "none"
      /\ Video \in Priorities /\ Audio \in Priorities
      /\ \A t \in Threads : pc[t] \in {"loop", "idle"}
  BY DEF NoMessage, Priorities, Control, Audio, Video
<1>1. TypeOK
  <2>1. /\ buckets \in [Priorities -> Seq(Messages)]
        /\ \A p \in Priorities : Len(buckets[p]) <= Limit[p]
    BY <1>0, LimitAssumption
  <2>2. attempt \in 0 .. Tries /\ clears \in 0 .. MaxClears
    BY TriesAssumption, BoundsAssumption
  <2>3. pc \in [Threads -> {"idle", "push", "notify", "clear_video", "clear",
                            "cleared", "gave_up", "loop", "pop", "wait",
                            "last_pop", "popped", "ended"}]
    OBVIOUS
  <2>4. hand \in [Threads -> Messages \cup {NoMessage}]
    OBVIOUS
  <2>5. wire \in Seq(Messages) /\ accepted \in Seq(Kinds)
    OBVIOUS
  <2> QED
    BY <2>1, <2>2, <2>3, <2>4, <2>5 DEF TypeOK
<1>2. PcInv
  BY DEF PcInv, Threads
<1>3. RoomInv
  <2>1. Pushing = {}
    BY DEF Pushing
  <2> QED
    BY <2>1, FS_EmptySet, BoundsAssumption DEF RoomInv
<1>4. HandInv
  BY <1>0 DEF HandInv, Threads
<1>5. WhereInv
  BY <1>0 DEF WhereInv
<1>6. PlaceInv
  BY <1>0 DEF PlaceInv, Threads
<1>7. NewestInv
  BY <1>0 DEF NewestInv
<1>8. NoLostWakeup
  BY <1>0 DEF NoLostWakeup, HasAny
<1>9. CloseInv
  BY <1>0 DEF CloseInv, ClosingInv, UiCloses, Threads
<1> QED
  BY <1>1, <1>2, <1>3, <1>4, <1>5, <1>6, <1>7, <1>8, <1>9 DEF IInv

LEMMA NextIInv == ASSUME IInv, [Next]_vars PROVE IInv'
<1>1. TypeOK /\ PcInv /\ RoomInv /\ HandInv /\ WhereInv /\ PlaceInv
  BY DEF IInv
<1>2. PcInv'
  BY <1>1, PcStep
<1>3. HandInv'
  BY <1>1, HandStep
<1>4. TypeOK' /\ RoomInv' /\ WhereInv' /\ PlaceInv'
  BY <1>1, <1>2, <1>3, TypeStep, RoomStep, WhereStep, PlaceStep
<1>5. NewestInv'
  BY <1>1, NewestStep DEF IInv
<1>6. NoLostWakeup'
  BY <1>1, WakeStep DEF IInv
<1>7. ~skipped' => CloseInv'
  BY <1>1, SkippedStays, CloseStep DEF IInv
<1> QED
  BY <1>2, <1>3, <1>4, <1>5, <1>6, <1>7 DEF IInv

LEMMA Inductive == Spec => []IInv
BY InitIInv, NextIInv, PTL DEF Spec

(***************************************************************************)
(* Types: no bucket exceeds its limit, whatever the limits, and the number *)
(* of messages keeps its bound.                                            *)
(***************************************************************************)
THEOREM TypeCorrect == Spec => []TypeOK
<1>1. IInv => TypeOK
  BY DEF IInv
<1> QED
  BY <1>1, Inductive, PTL

(***************************************************************************)
(* A full media bucket gives up its oldest message and nothing else.       *)
(***************************************************************************)
THEOREM NewestAreKept == Spec => []NewestKept
<1>1. IInv => NewestKept
  BY NewestIsKept DEF IInv
<1> QED
  BY <1>1, Inductive, PTL

(***************************************************************************)
(* Requests and texts are neither lost nor sent twice when a worker is     *)
(* stopped: each is in one place.                                          *)
(***************************************************************************)
THEOREM InOnePlace == Spec => []EachInOnePlace
<1>1. ASSUME IInv PROVE EachInOnePlace
  <2> SUFFICES ASSUME NEW n \in DOMAIN accepted
               PROVE  LET at(p) == {i \in DOMAIN buckets[p] : buckets[p][i].n = n}
                          waiting == {p \in Priorities : at(p) # {}}
                          sent == {i \in DOMAIN wire : wire[i].n = n}
                          held == hand["worker"].n = n
                      IN  /\ \A p, q \in waiting : p = q
                          /\ \A p \in waiting : \A i, j \in at(p) : i = j
                          /\ \A i, j \in sent : i = j
                          /\ ~(waiting # {} /\ (sent # {} \/ held \/ n \in gone))
                          /\ ~(held /\ (sent # {} \/ n \in gone))
                          /\ ~(sent # {} /\ n \in gone)
                          /\ accepted[n] \in Returned =>
                               waiting # {} \/ sent # {} \/ held \/ n \in gone
    BY DEF EachInOnePlace
  <2> DEFINE At(p) == {i \in DOMAIN buckets[p] : buckets[p][i].n = n}
             Waiting == {p \in Priorities : At(p) # {}}
  <2>1. PlaceInv
    BY <1>1 DEF IInv
  <2>2. /\ \A p \in Waiting : p \in Priorities
                              /\ \E i \in DOMAIN buckets[p] : buckets[p][i].n = n
        /\ \A p \in Priorities : \A i \in DOMAIN buckets[p] :
             buckets[p][i].n = n => p \in Waiting
        /\ \A p : \A i \in At(p) : i \in DOMAIN buckets[p] /\ buckets[p][i].n = n
    OBVIOUS
  <2>3. \A p, q \in Waiting : p = q
    BY <2>1, <2>2 DEF PlaceInv
  <2>4. \A p \in Waiting : \A i, j \in At(p) : i = j
    BY <2>1, <2>2 DEF PlaceInv
  <2>5. Waiting # {} => /\ n \notin gone /\ hand["worker"].n # n
                        /\ \A j \in DOMAIN wire : wire[j].n # n
    BY <2>1, <2>2 DEF PlaceInv
  <2>6. accepted[n] \in Returned =>
            Waiting # {} \/ hand["worker"].n = n \/ n \in gone
            \/ \E j \in DOMAIN wire : wire[j].n = n
    BY <2>1, <2>2 DEF PlaceInv
  <2> HIDE DEF Waiting
  <2> QED
    BY <2>1, <2>3, <2>4, <2>5, <2>6 DEF PlaceInv, Waiting
<1> QED
  BY <1>1, Inductive, PTL

(***************************************************************************)
(* The worker does not sleep on a filled queue with no notify to come.     *)
(***************************************************************************)
THEOREM WakeupsAreNotLost == Spec => []NoLostWakeup
<1>1. IInv => NoLostWakeup
  BY DEF IInv
<1> QED
  BY <1>1, Inductive, PTL

(***************************************************************************)
(* No picture taken before CLOSE_CAMERA is sent after it, unless           *)
(* clear_video has found the mutex taken.                                  *)
(***************************************************************************)
THEOREM CameraOffIsTheLast == Spec => []CameraOffIsLast
<1>1. ASSUME IInv PROVE CameraOffIsLast
  <2>1. ASSUME CloseInv, PictureAfterClose PROVE FALSE
    <3>1. PICK i \in DOMAIN wire, j \in DOMAIN wire :
              /\ i < j /\ wire[j].n < wire[i].n
              /\ wire[i].kind = "CloseCamera" /\ wire[j].kind = "SendImage"
      BY <2>1 DEF PictureAfterClose
    <3>2. wire[i].n < wire[j].n
      BY <2>1, <3>1 DEF CloseInv
    <3>3. wire[i].n \in Nat /\ wire[j].n \in Nat
      BY <1>1, Numbers DEF IInv
    <3> QED
      BY <3>1, <3>2, <3>3
  <2> QED
    BY <1>1, <2>1 DEF IInv, CameraOffIsLast
<1> QED
  BY <1>1, Inductive, PTL
=============================================================================
