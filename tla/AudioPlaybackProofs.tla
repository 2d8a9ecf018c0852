------------------------- MODULE AudioPlaybackProofs -------------------------
(***************************************************************************)
(* Theorems about AudioPlayback, for every size of the FIFO and of the     *)
(* meeting and any number of packets.                                      *)
(***************************************************************************)
EXTENDS AudioPlayback, TLAPS

(***************************************************************************)
(* The inductive invariant, in parts.                                      *)
(***************************************************************************)
\* A thread has a packet in hand where the code has one in a variable, and
\* there is something to write when a write begins.
HandInv ==
    /\ play.pc = "device" <=> play.msg # NoPacket
    /\ play.pc = "write" => unplayed # << >>
    /\ io.pc = "push" <=> io.msg # NoPacket

\* Sequences and hands, as sets of packets.
Increasing(s) == \A i, j \in DOMAIN s : i < j => s[i] < s[j]
Elems(s) == {s[i] : i \in DOMAIN s}
Hand(m) == {m} \ {NoPacket}
Below(S, T) == \A x \in S, y \in T : x < y

\* The stations of the pipeline are in order, each by itself and each before
\* all that follow, and the next packet will be above them all.
OrderInv ==
    /\ Increasing(played) /\ Increasing(unplayed) /\ Increasing(queue)
    /\ Below(Elems(played), Elems(unplayed) \cup Hand(play.msg) \cup Elems(queue)
                            \cup Hand(io.msg))
    /\ Below(Elems(unplayed), Hand(play.msg) \cup Elems(queue) \cup Hand(io.msg))
    /\ Below(Hand(play.msg), Elems(queue) \cup Hand(io.msg))
    /\ Below(Elems(queue), Hand(io.msg))
    /\ \A x \in Elems(played) \cup Elems(unplayed) \cup Hand(play.msg)
                \cup Elems(queue) \cup Hand(io.msg) : x <= received

\* One who is alone with an open device has a call of stopPlay to come, and
\* between the two parts of stopPlay the sink stays as it is.
DeviceInv ==
    /\ ui = "device_lock" => sink = "stopped" /\ events # << >>
                             /\ Head(events) = "stopPlay"
    /\ partner <= 1 /\ (sink # "stopped" \/ outputdevice) =>
         \E i \in DOMAIN events : events[i] = "stopPlay"

IInv == TypeOK /\ HandInv /\ OrderInv /\ DeviceInv
-----------------------------------------------------------------------------
(***************************************************************************)
(* Sequences of packets.                                                   *)
(***************************************************************************)
Packets == 1 .. MaxPackets
Events == {"join", "exit", "stopPlay"}
Plays == [pc : {"pop", "device", "write", "ended"}, msg : 0 .. MaxPackets,
          disturbed : BOOLEAN]
Ios == [pc : {"idle", "push"}, msg : 0 .. MaxPackets]

LEMMA Appended ==
    ASSUME NEW S, NEW s \in Seq(S), NEW e \in S
    PROVE  /\ Append(s, e) \in Seq(S)
           /\ Len(s) \in Nat /\ Len(Append(s, e)) = Len(s) + 1
           /\ DOMAIN s = 1 .. Len(s)
           /\ DOMAIN Append(s, e) = 1 .. Len(s) + 1
           /\ Append(s, e)[Len(s) + 1] = e
           /\ \A i \in 1 .. Len(s) : Append(s, e)[i] = s[i]
OBVIOUS

LEMMA Shifted ==
    ASSUME NEW S, NEW s \in Seq(S), s # << >>
    PROVE  /\ Len(s) \in Nat \ {0} /\ DOMAIN s = 1 .. Len(s)
           /\ Head(s) = s[1] /\ Head(s) \in S
           /\ Tail(s) \in Seq(S) /\ Len(Tail(s)) = Len(s) - 1
           /\ DOMAIN Tail(s) = 1 .. Len(s) - 1
           /\ \A i \in 1 .. Len(s) - 1 : Tail(s)[i] = s[i + 1]
OBVIOUS

LEMMA Joined ==
    ASSUME NEW S, NEW s \in Seq(S), NEW t \in Seq(S)
    PROVE  /\ s \o t \in Seq(S) /\ Len(s) \in Nat /\ Len(t) \in Nat
           /\ DOMAIN s = 1 .. Len(s) /\ DOMAIN t = 1 .. Len(t)
           /\ DOMAIN (s \o t) = 1 .. Len(s) + Len(t)
           /\ \A i \in 1 .. Len(s) : (s \o t)[i] = s[i]
           /\ \A i \in Len(s) + 1 .. Len(s) + Len(t) : (s \o t)[i] = t[i - Len(s)]
OBVIOUS

LEMMA AppendElems ==
    ASSUME NEW q \in Seq(Packets), NEW e \in Packets
    PROVE  /\ Elems(Append(q, e)) = Elems(q) \cup {e}
           /\ Increasing(q) /\ Below(Elems(q), {e}) => Increasing(Append(q, e))
<1> DEFINE r == Append(q, e)
           n == Len(q) + 1
<1>1. /\ n \in Nat \ {0} /\ DOMAIN q = 1 .. n - 1 /\ DOMAIN r = 1 .. n
      /\ r[n] = e /\ \A i \in 1 .. n - 1 : r[i] = q[i]
  BY Appended
<1> HIDE DEF r, n
<1>2. /\ n \in DOMAIN r /\ \A i \in DOMAIN q : i \in DOMAIN r /\ r[i] = q[i]
      /\ \A i \in DOMAIN r : i = n \/ (i \in DOMAIN q /\ r[i] = q[i])
      /\ \A i, j \in DOMAIN r : i < j => i \in DOMAIN q
  BY <1>1
<1>3. Elems(r) = Elems(q) \cup {e}
  BY <1>1, <1>2 DEF Elems
<1>4. ASSUME Increasing(q), Below(Elems(q), {e}) PROVE Increasing(r)
  <2>1. ASSUME NEW i \in DOMAIN r, NEW j \in DOMAIN r, i < j PROVE r[i] < r[j]
    <3>1. i \in DOMAIN q /\ r[i] = q[i] /\ q[i] \in Elems(q)
      BY <1>2, <2>1 DEF Elems
    <3>2. CASE j \in DOMAIN q
      BY <1>2, <1>4, <2>1, <3>1, <3>2 DEF Increasing
    <3>3. CASE j = n
      BY <1>1, <1>4, <3>1, <3>3 DEF Below
    <3> QED
      BY <1>2, <3>2, <3>3
  <2> QED
    BY <2>1 DEF Increasing
<1> QED
  BY <1>3, <1>4 DEF r

LEMMA TailElems ==
    ASSUME NEW q \in Seq(Packets), q # << >>
    PROVE  /\ Tail(q) \in Seq(Packets) /\ Head(q) \in Packets
           /\ Elems(q) = {Head(q)} \cup Elems(Tail(q))
           /\ Increasing(q) => Increasing(Tail(q)) /\ Below({Head(q)}, Elems(Tail(q)))
<1> DEFINE r == Tail(q)
           n == Len(q)
<1>1. /\ n \in Nat \ {0} /\ DOMAIN q = 1 .. n /\ Head(q) = q[1]
      /\ DOMAIN r = 1 .. n - 1 /\ \A i \in 1 .. n - 1 : r[i] = q[i + 1]
      /\ r \in Seq(Packets) /\ Head(q) \in Packets
  BY Shifted
<1> HIDE DEF r, n
<1>2. /\ 1 \in DOMAIN q
      /\ \A i \in DOMAIN r : i \in Nat \ {0} /\ i + 1 \in DOMAIN q /\ r[i] = q[i + 1]
  BY <1>1
<1>3. ASSUME NEW k \in DOMAIN q, k # 1
      PROVE  k - 1 \in DOMAIN r /\ r[k - 1] = q[k]
  <2>1. k - 1 \in 1 .. n - 1 /\ k - 1 + 1 = k
    BY <1>1, <1>3
  <2> QED
    BY <1>1, <2>1
<1>4. Elems(q) = {Head(q)} \cup Elems(r)
  <2>1. ASSUME NEW x \in Elems(q) PROVE x = Head(q) \/ x \in Elems(r)
    <3>1. PICK k \in DOMAIN q : x = q[k]
      BY <2>1 DEF Elems
    <3> QED
      BY <1>1, <1>3, <3>1 DEF Elems
  <2>2. ASSUME NEW x \in Elems(r) PROVE x \in Elems(q)
    <3>1. PICK i \in DOMAIN r : x = r[i]
      BY <2>2 DEF Elems
    <3> QED
      BY <1>2, <3>1 DEF Elems
  <2>3. Head(q) \in Elems(q)
    BY <1>1, <1>2 DEF Elems
  <2> QED
    BY <2>1, <2>2, <2>3
<1>5. ASSUME Increasing(q) PROVE Increasing(r) /\ Below({Head(q)}, Elems(r))
  <2>1. ASSUME NEW i \in DOMAIN r, NEW j \in DOMAIN r, i < j PROVE r[i] < r[j]
    <3>1. i + 1 < j + 1 /\ i + 1 \in DOMAIN q /\ j + 1 \in DOMAIN q
      BY <1>2, <2>1
    <3> QED
      BY <1>2, <1>5, <3>1 DEF Increasing
  <2>2. ASSUME NEW x \in Elems(r) PROVE Head(q) < x
    <3>1. PICK i \in DOMAIN r : x = r[i]
      BY <2>2 DEF Elems
    <3>2. 1 < i + 1 /\ i + 1 \in DOMAIN q /\ x = q[i + 1]
      BY <1>2, <3>1
    <3> QED
      BY <1>1, <1>2, <1>5, <3>2 DEF Increasing
  <2> QED
    BY <2>1, <2>2 DEF Increasing, Below
<1> QED
  BY <1>1, <1>4, <1>5 DEF r

LEMMA JoinedElems ==
    ASSUME NEW s \in Seq(Packets), NEW t \in Seq(Packets)
    PROVE  /\ s \o t \in Seq(Packets)
           /\ Elems(s \o t) = Elems(s) \cup Elems(t)
           /\ Increasing(s) /\ Increasing(t) /\ Below(Elems(s), Elems(t))
                => Increasing(s \o t)
<1> DEFINE r == s \o t
           m == Len(s)
           n == Len(t)
<1>1. /\ r \in Seq(Packets) /\ m \in Nat /\ n \in Nat
      /\ DOMAIN s = 1 .. m /\ DOMAIN t = 1 .. n /\ DOMAIN r = 1 .. m + n
      /\ \A i \in 1 .. m : r[i] = s[i]
      /\ \A i \in m + 1 .. m + n : r[i] = t[i - m]
  BY Joined
<1> HIDE DEF r, m, n
<1>2. \A i \in DOMAIN s : i \in DOMAIN r /\ r[i] = s[i]
  BY <1>1
<1>3. ASSUME NEW i \in DOMAIN r, i \notin DOMAIN s
      PROVE  i - m \in DOMAIN t /\ r[i] = t[i - m]
  <2>1. i \in m + 1 .. m + n /\ i - m \in 1 .. n
    BY <1>1, <1>3
  <2> QED
    BY <1>1, <2>1
<1>4. ASSUME NEW k \in DOMAIN t
      PROVE  k + m \in DOMAIN r /\ r[k + m] = t[k]
  <2>1. k + m \in m + 1 .. m + n /\ k + m - m = k /\ k + m \in 1 .. m + n
    BY <1>1
  <2> QED
    BY <1>1, <2>1
<1>5. Elems(r) = Elems(s) \cup Elems(t)
  <2>1. ASSUME NEW x \in Elems(r) PROVE x \in Elems(s) \/ x \in Elems(t)
    <3>1. PICK i \in DOMAIN r : x = r[i]
      BY <2>1 DEF Elems
    <3> QED
      BY <1>2, <1>3, <3>1 DEF Elems
  <2>2. ASSUME NEW x \in Elems(s) PROVE x \in Elems(r)
    BY <1>2 DEF Elems
  <2>3. ASSUME NEW x \in Elems(t) PROVE x \in Elems(r)
    <3>1. PICK k \in DOMAIN t : x = t[k]
      BY <2>3 DEF Elems
    <3> QED
      BY <1>4, <3>1 DEF Elems
  <2> QED
    BY <2>1, <2>2, <2>3
<1>6. ASSUME Increasing(s), Increasing(t), Below(Elems(s), Elems(t))
      PROVE  Increasing(r)
  <2>1. ASSUME NEW i \in DOMAIN r, NEW j \in DOMAIN r, i < j PROVE r[i] < r[j]
    <3>1. CASE i \in DOMAIN s /\ j \in DOMAIN s
      BY <1>2, <1>6, <2>1, <3>1 DEF Increasing
    <3>2. CASE i \in DOMAIN s /\ j \notin DOMAIN s
      <4>1. r[i] \in Elems(s) /\ r[j] \in Elems(t)
        BY <1>2, <1>3, <3>2 DEF Elems
      <4> QED
        BY <1>6, <4>1 DEF Below
    <3>3. CASE i \notin DOMAIN s
      <4>1. j \notin DOMAIN s
        BY <1>1, <2>1, <3>3
      <4>2. i - m < j - m
        BY <1>1, <2>1
      <4>3. /\ i - m \in DOMAIN t /\ r[i] = t[i - m]
            /\ j - m \in DOMAIN t /\ r[j] = t[j - m]
        BY <1>3, <3>3, <4>1
      <4> QED
        BY <1>6, <4>2, <4>3 DEF Increasing
    <3> QED
      BY <3>1, <3>2, <3>3
  <2> QED
    BY <2>1 DEF Increasing
<1> QED
  BY <1>1, <1>5, <1>6 DEF r

\* No packet is in hand, or one.
LEMMA HandElems ==
    ASSUME NEW m \in 0 .. MaxPackets
    PROVE  /\ InHand(m) \in Seq(Packets)
           /\ Elems(InHand(m)) = Hand(m) /\ Increasing(InHand(m))
<1>0. MaxPackets \in Nat
  BY AudioAssumption
<1>1. CASE m = NoPacket
  BY <1>1 DEF InHand, Elems, Hand, Increasing
<1>2. CASE m # NoPacket
  <2>1. m \in Packets /\ InHand(m) = <<m>>
    BY <1>0, <1>2 DEF InHand, NoPacket, Packets
  <2>2. <<m>> \in Seq(Packets) /\ DOMAIN <<m>> = {1} /\ <<m>>[1] = m
    BY <2>1
  <2>3. Elems(<<m>>) = {m} /\ Increasing(<<m>>)
    BY <2>2 DEF Elems, Increasing
  <2> QED
    BY <1>2, <2>1, <2>2, <2>3 DEF Hand
<1> QED
  BY <1>1, <1>2
-----------------------------------------------------------------------------
(***************************************************************************)
(* Types, and what is in hand.                                             *)
(***************************************************************************)
LEMMA HandTypes ==
    ASSUME TypeOK, HandInv
    PROVE  /\ play.pc = "device" => play.msg \in Packets
           /\ io.pc = "push" => io.msg \in Packets
           /\ play.pc = "write" => unplayed # << >>
<1>1. play.msg \in 0 .. MaxPackets /\ io.msg \in 0 .. MaxPackets
  BY DEF TypeOK
<1> QED
  BY <1>1, AudioAssumption DEF HandInv, Packets, NoPacket

LEMMA InitTyped == ASSUME Init PROVE TypeOK /\ HandInv
<1>1. /\ MaxPackets \in Nat /\ MaxPartners \in Nat /\ MaxNotices \in Nat
      /\ QUEUE_MAXSIZE \in Nat
  BY AudioAssumption
<1>2. TypeOK /\ HandInv
  <2>1. << >> \in Seq(Packets) /\ << >> \in Seq(Events) /\ Len(<< >>) = 0
    OBVIOUS
  <2>2. [pc |-> "pop", msg |-> 0, disturbed |-> FALSE] \in Plays
        /\ [pc |-> "idle", msg |-> 0] \in Ios
    BY <1>1 DEF Plays, Ios
  <2>a. /\ 0 \in 0 .. MaxPartners /\ 0 \in 0 .. MaxNotices /\ 0 \in 0 .. MaxPackets
        /\ Len(<< >>) <= QUEUE_MAXSIZE
    BY <1>1, <2>1
  <2>b. /\ partner = 0 /\ events = << >> /\ notices = 0 /\ ui = "idle"
        /\ sink = "stopped" /\ outputdevice = FALSE
        /\ play = [pc |-> "pop", msg |-> 0, disturbed |-> FALSE]
        /\ unplayed = << >> /\ queue = << >> /\ io = [pc |-> "idle", msg |-> 0]
        /\ received = 0 /\ played = << >>
    BY DEF Init, NoPacket
  <2>3. TypeOK
    BY <2>1, <2>2, <2>a, <2>b DEF TypeOK, Plays, Ios, Packets, Events
  <2> QED
    BY <2>3 DEF Init, HandInv
<1> QED
  BY <1>2

\* The steps of the UI thread, and the device.
UiSteps ==
    \/ add_partner \/ ignore_notice \/ remove_partner \/ stopPlay \/ stopPlay_forget
    \/ clear_partner \/ receive_notice \/ handleStateChanged \/ underrun

LEMMA UiTypes ==
    ASSUME TypeOK, DeviceInv, UiSteps
    PROVE  /\ partner' \in 0 .. MaxPartners
           /\ events' \in Seq(Events)
           /\ notices' \in 0 .. MaxNotices
           /\ ui' \in {"idle", "device_lock"}
           /\ sink' \in {"stopped", "idle", "active"} /\ outputdevice' \in BOOLEAN
           /\ play' \in Plays /\ play'.pc = play.pc /\ play'.msg = play.msg
           /\ UNCHANGED soundVars
<1>0. /\ MaxPartners \in Nat /\ MaxNotices \in Nat
      /\ partner \in 0 .. MaxPartners /\ notices \in 0 .. MaxNotices
      /\ events \in Seq(Events) /\ ui \in {"idle", "device_lock"}
      /\ sink \in {"stopped", "idle", "active"} /\ outputdevice \in BOOLEAN
      /\ play \in Plays
  BY AudioAssumption DEF TypeOK, Events, Plays
<1>1. /\ events # << >> => Tail(events) \in Seq(Events)
      /\ \A e \in Events : Append(events, e) \in Seq(Events)
      /\ events # << >> => Tail(events) \o <<"stopPlay">> \in Seq(Events)
      /\ events # << >> => Tail(events) \o << >> \in Seq(Events)
  <2>1. events # << >> => Tail(events) \in Seq(Events)
    BY <1>0
  <2>2. <<"stopPlay">> \in Seq(Events) /\ << >> \in Seq(Events)
    BY DEF Events
  <2> QED
    BY <1>0, <2>1, <2>2
<1>2. Disturb \in Plays /\ Disturb.pc = play.pc /\ Disturb.msg = play.msg
  <2>1. PICK b \in BOOLEAN : b = (play.disturbed \/ play.pc = "write")
    OBVIOUS
  <2>2. Disturb = [play EXCEPT !.disturbed = b]
    BY <2>1 DEF Disturb
  <2> QED
    BY <1>0, <2>2 DEF Plays
<1>3. CASE add_partner
  <2>1. /\ events # << >> /\ partner < MaxPartners /\ partner' = partner + 1
        /\ events' = Tail(events) /\ UNCHANGED <<ui, notices, soundVars>>
        /\ \/ UNCHANGED <<deviceVars, play>>
           \/ sink' = "idle" /\ outputdevice' = TRUE /\ play' = Disturb
    BY <1>3 DEF add_partner, NextEvent, startPlay
  <2>2. partner' \in 0 .. MaxPartners
    BY <1>0, <2>1
  <2> QED
    BY <1>0, <1>1, <1>2, <2>1, <2>2 DEF deviceVars
<1>4. CASE ignore_notice
  BY <1>0, <1>1, <1>4 DEF ignore_notice, NextEvent, deviceVars
<1>5. CASE remove_partner
  <2>1. /\ events # << >> /\ partner > 0 /\ partner' = partner - 1
        /\ UNCHANGED <<ui, notices, deviceVars, play, soundVars>>
        /\ events' = Tail(events) \o <<"stopPlay">> \/ events' = Tail(events) \o << >>
    BY <1>5 DEF remove_partner, NextEvent
  <2>2. partner' \in 0 .. MaxPartners
    BY <1>0, <2>1
  <2> QED
    BY <1>0, <1>1, <2>1, <2>2 DEF deviceVars
<1>6. CASE stopPlay \/ stopPlay_forget
  <2>1. CASE stopPlay
    BY <1>0, <1>2, <2>1 DEF stopPlay
  <2>2. CASE stopPlay_forget
    <3>1. /\ ui' = "idle" /\ outputdevice' = FALSE /\ events' = Tail(events)
          /\ UNCHANGED <<partner, notices, sink, play, soundVars>>
      BY <2>2 DEF stopPlay_forget
    <3>a. events # << >>
      BY <2>2 DEF stopPlay_forget, DeviceInv
    <3>2. events' \in Seq(Events)
      BY <1>0, <3>1, <3>a
    <3> QED
      BY <1>0, <3>1, <3>2
  <2> QED
    BY <1>6, <2>1, <2>2
<1>7. CASE clear_partner
  <2>1. notices' \in 0 .. MaxNotices /\ partner' \in 0 .. MaxPartners
    BY <1>0, <1>7 DEF clear_partner
  <2> QED
    BY <1>0, <1>1, <1>7, <2>1 DEF clear_partner, deviceVars, Events
<1>8. CASE receive_notice
  <2>1. notices' \in 0 .. MaxNotices
    BY <1>0, <1>8 DEF receive_notice
  <2> QED
    BY <1>0, <1>1, <1>8, <2>1 DEF receive_notice, deviceVars, Events
<1>9. CASE handleStateChanged \/ underrun
  BY <1>0, <1>2, <1>9 DEF handleStateChanged, underrun, uiVars
<1> QED
  BY <1>3, <1>4, <1>5, <1>6, <1>7, <1>8, <1>9 DEF UiSteps

-----------------------------------------------------------------------------
(***************************************************************************)
(* The way of a packet.                                                    *)
(***************************************************************************)
SoundSteps ==
    \/ receive_audio \/ push \/ push_timeout \/ clear
    \/ pop \/ run_no_device \/ run_append \/ run_not_converted
    \/ write_returns \/ write_nothing \/ write_fails

\* What a step does with the packets: the queues and hands after it.
SoundTyped ==
    /\ play \in Plays /\ io \in Ios /\ received \in 0 .. MaxPackets
    /\ unplayed \in Seq(Packets) /\ played \in Seq(Packets)
    /\ queue \in Seq(Packets) /\ Len(queue) <= QUEUE_MAXSIZE

LEMMA SoundStep ==
    ASSUME TypeOK, HandInv, OrderInv, SoundSteps
    PROVE  /\ UNCHANGED <<partner, events, ui, notices, outputdevice>>
           /\ sink' = sink \/ (sink = "idle" /\ sink' = "active")
           /\ SoundTyped' /\ HandInv' /\ OrderInv'
<1>0. /\ MaxPackets \in Nat /\ QUEUE_MAXSIZE \in Nat
      /\ play \in Plays /\ io \in Ios /\ received \in 0 .. MaxPackets
      /\ unplayed \in Seq(Packets) /\ played \in Seq(Packets)
      /\ queue \in Seq(Packets) /\ Len(queue) \in Nat /\ Len(queue) <= QUEUE_MAXSIZE
      /\ play.msg \in 0 .. MaxPackets /\ io.msg \in 0 .. MaxPackets
  BY AudioAssumption DEF TypeOK, Plays, Ios, Packets
<1>h. /\ play.pc = "device" => play.msg \in Packets
      /\ io.pc = "push" => io.msg \in Packets
      /\ play.pc = "write" => unplayed # << >>
  BY HandTypes
<1>g. /\ GoOn \in Plays /\ GoOn.pc = "pop" /\ GoOn.msg = NoPacket
  BY <1>0 DEF GoOn, Plays, NoPacket
<1>e. Elems(<< >>) = {} /\ Increasing(<< >>) /\ Hand(NoPacket) = {}
      /\ \A m \in Packets : Hand(m) = {m}
  BY <1>0 DEF Elems, Increasing, Hand, NoPacket, Packets
<1> DEFINE P == Elems(played)
           U == Elems(unplayed)
           M == Hand(play.msg)
           Q == Elems(queue)
           I == Hand(io.msg)
<1>o. /\ Increasing(played) /\ Increasing(unplayed) /\ Increasing(queue)
      /\ Below(P, U \cup M \cup Q \cup I) /\ Below(U, M \cup Q \cup I)
      /\ Below(M, Q \cup I) /\ Below(Q, I)
      /\ \A x \in P \cup U \cup M \cup Q \cup I : x <= received
  BY DEF OrderInv
<1>s. SUFFICES /\ UNCHANGED <<partner, events, ui, notices, outputdevice>>
               /\ sink' = sink \/ (sink = "idle" /\ sink' = "active")
               /\ SoundTyped' /\ HandInv'
               /\ Increasing(played') /\ Increasing(unplayed') /\ Increasing(queue')
               /\ Below(P', U' \cup M' \cup Q' \cup I') /\ Below(U', M' \cup Q' \cup I')
               /\ Below(M', Q' \cup I') /\ Below(Q', I')
               /\ \A x \in P' \cup U' \cup M' \cup Q' \cup I' : x <= received'
  BY DEF OrderInv
<1>m. ASSUME play' = GoOn
      PROVE  play' \in Plays /\ play'.pc = "pop" /\ play'.msg = NoPacket /\ M' = {}
  BY <1>e, <1>g, <1>m
<1> HIDE DEF P, U, M, Q, I
\* What leaves the order alone may also drop packets.
<1>d. ASSUME P' = P, U' \subseteq U, M' \subseteq M, Q' \subseteq Q, I' \subseteq I,
             received' = received
      PROVE  /\ Below(P', U' \cup M' \cup Q' \cup I') /\ Below(U', M' \cup Q' \cup I')
             /\ Below(M', Q' \cup I') /\ Below(Q', I')
             /\ \A x \in P' \cup U' \cup M' \cup Q' \cup I' : x <= received'
  BY <1>d, <1>o DEF Below
<1>1. CASE receive_audio
  <2>1. /\ io.pc = "idle" /\ received < MaxPackets /\ received' = received + 1
        /\ io' = [pc |-> "push", msg |-> received + 1]
        /\ UNCHANGED <<uiVars, notices, deviceVars, play, unplayed, queue, played>>
    BY <1>1 DEF receive_audio
  <2>2. /\ received + 1 \in 0 .. MaxPackets /\ received + 1 \in Packets
        /\ received + 1 # NoPacket
    BY <1>0, <2>1 DEF Packets, NoPacket
  <2>3. io' \in Ios /\ io'.pc = "push" /\ io'.msg = received + 1
    BY <2>1, <2>2 DEF Ios
  <2>4. P' = P /\ U' = U /\ M' = M /\ Q' = Q /\ I' = {received + 1}
    BY <1>e, <2>1, <2>2, <2>3 DEF P, U, M, Q, I
  <2>5. I = {}
    <3>1. io.msg = NoPacket
      BY <2>1 DEF HandInv
    <3> QED
      BY <1>e, <3>1 DEF I
  <2>6. \A x \in P \cup U \cup M \cup Q : x < received + 1 /\ x <= received + 1
    <3>1. ASSUME NEW x \in P \cup U \cup M \cup Q PROVE x \in Int
      <4>1. \A s \in Seq(Packets) : \A y \in Elems(s) : y \in Int
        BY <1>0 DEF Elems, Packets
      <4>2. \A y \in M : y \in Int
        BY <1>0 DEF M, Hand
      <4> QED
        BY <1>0, <3>1, <4>1, <4>2 DEF P, U, Q
    <3> QED
      BY <1>0, <1>o, <3>1
  <2>7. /\ Below(P', U' \cup M' \cup Q' \cup I') /\ Below(U', M' \cup Q' \cup I')
        /\ Below(M', Q' \cup I') /\ Below(Q', I')
        /\ \A x \in P' \cup U' \cup M' \cup Q' \cup I' : x <= received'
    <3>1. received + 1 <= received + 1
      BY <1>0
    <3> QED
      BY <1>o, <2>1, <2>4, <2>5, <2>6, <3>1 DEF Below
  <2>8. HandInv'
    BY <2>1, <2>2, <2>3 DEF HandInv
  <2>9. SoundTyped'
    BY <1>0, <2>1, <2>2, <2>3 DEF SoundTyped
  <2> QED
    BY <1>o, <2>1, <2>7, <2>8, <2>9 DEF uiVars, deviceVars
<1>2. CASE push
  <2>1. /\ io.pc = "push" /\ Len(queue) < QUEUE_MAXSIZE
        /\ queue' = Append(queue, io.msg) /\ io' = [pc |-> "idle", msg |-> NoPacket]
        /\ UNCHANGED <<uiVars, notices, deviceVars, play, unplayed, received, played>>
    BY <1>2 DEF push
  <2>2. /\ io' \in Ios /\ io'.pc = "idle" /\ io'.msg = NoPacket
        /\ io.msg \in Packets /\ queue' \in Seq(Packets) /\ Len(queue') <= QUEUE_MAXSIZE
    BY <1>0, <1>h, <2>1 DEF Ios, NoPacket
  <2>3. P' = P /\ U' = U /\ M' = M /\ I' = {} /\ I = {io.msg}
    BY <1>e, <2>1, <2>2 DEF P, U, M, I
  <2>4. Q' = Q \cup {io.msg} /\ Increasing(queue')
    BY <1>0, <1>o, <2>1, <2>2, <2>3, AppendElems DEF Q
  <2>5. /\ Below(P', U' \cup M' \cup Q' \cup I') /\ Below(U', M' \cup Q' \cup I')
        /\ Below(M', Q' \cup I') /\ Below(Q', I')
        /\ \A x \in P' \cup U' \cup M' \cup Q' \cup I' : x <= received'
    BY <1>o, <2>1, <2>3, <2>4 DEF Below
  <2>6. HandInv'
    BY <2>1, <2>2 DEF HandInv
  <2>7. SoundTyped'
    BY <1>0, <2>1, <2>2 DEF SoundTyped
  <2> QED
    BY <1>o, <2>1, <2>4, <2>5, <2>6, <2>7 DEF uiVars, deviceVars
<1>3. CASE push_timeout
  <2>1. /\ io' = [pc |-> "idle", msg |-> NoPacket]
        /\ UNCHANGED <<uiVars, notices, deviceVars, play, unplayed, queue, received, played>>
    BY <1>3 DEF push_timeout
  <2>2. io' \in Ios /\ io'.pc = "idle" /\ io'.msg = NoPacket
    BY <1>0, <2>1 DEF Ios, NoPacket
  <2>3. P' = P /\ U' = U /\ M' = M /\ Q' = Q /\ I' = {}
    BY <1>e, <2>1, <2>2 DEF P, U, M, Q, I
  <2>4. HandInv' /\ SoundTyped'
    BY <1>0, <2>1, <2>2 DEF HandInv, SoundTyped
  <2> QED
    BY <1>d, <1>o, <2>1, <2>3, <2>4 DEF uiVars, deviceVars
<1>4. CASE clear
  <2>1. /\ queue' = << >>
        /\ UNCHANGED <<uiVars, notices, deviceVars, play, unplayed, io, received, played>>
    BY <1>4 DEF clear
  <2>2. P' = P /\ U' = U /\ M' = M /\ Q' = {} /\ I' = I /\ Increasing(queue')
    BY <1>e, <2>1 DEF P, U, M, Q, I
  <2>3. HandInv' /\ SoundTyped'
    <3>1. queue' \in Seq(Packets) /\ Len(queue') <= QUEUE_MAXSIZE
      BY <1>0, <2>1
    <3> QED
      BY <1>0, <2>1, <3>1 DEF HandInv, SoundTyped
  <2> QED
    BY <1>d, <1>o, <2>1, <2>2, <2>3 DEF uiVars, deviceVars
<1>5. CASE pop
  <2>1. /\ play.pc = "pop" /\ queue # << >>
        /\ play' = [pc |-> "device", msg |-> Head(queue), disturbed |-> FALSE]
        /\ queue' = Tail(queue)
        /\ UNCHANGED <<uiVars, notices, deviceVars, unplayed, io, received, played>>
    BY <1>5 DEF pop
  <2>2. /\ Tail(queue) \in Seq(Packets) /\ Head(queue) \in Packets
        /\ Q = {Head(queue)} \cup Q'
        /\ Increasing(queue') /\ Below({Head(queue)}, Q')
    BY <1>0, <1>o, <2>1, TailElems DEF Q
  <2>3. Head(queue) \in 0 .. MaxPackets /\ Head(queue) # NoPacket
    BY <1>0, <2>2 DEF Packets, NoPacket
  <2>4. play' \in Plays /\ play'.pc = "device" /\ play'.msg = Head(queue)
    BY <2>1, <2>3 DEF Plays
  <2>5. P' = P /\ U' = U /\ M' = {Head(queue)} /\ I' = I
    BY <1>e, <2>1, <2>2, <2>4 DEF P, U, M, I
  <2>6. /\ Below(P', U' \cup M' \cup Q' \cup I') /\ Below(U', M' \cup Q' \cup I')
        /\ Below(M', Q' \cup I') /\ Below(Q', I')
        /\ \A x \in P' \cup U' \cup M' \cup Q' \cup I' : x <= received'
    BY <1>o, <2>1, <2>2, <2>5 DEF Below
  <2>7. HandInv'
    BY <2>1, <2>3, <2>4 DEF HandInv
  <2>8. SoundTyped'
    <3>1. Len(Tail(queue)) <= QUEUE_MAXSIZE
      BY <1>0, <2>1
    <3> QED
      BY <1>0, <2>1, <2>2, <2>4, <3>1 DEF SoundTyped
  <2> QED
    BY <1>o, <2>1, <2>2, <2>6, <2>7, <2>8 DEF uiVars, deviceVars
<1>6. CASE run_no_device
  <2>1. /\ unplayed' = << >> /\ play' = GoOn
        /\ UNCHANGED <<uiVars, notices, deviceVars, queue, io, received, played>>
    BY <1>6 DEF run_no_device
  <2>2. P' = P /\ U' = {} /\ M' = {} /\ Q' = Q /\ I' = I /\ Increasing(unplayed')
    BY <1>e, <1>m, <2>1 DEF P, U, Q, I
  <2>3. HandInv' /\ SoundTyped'
    <3>1. unplayed' \in Seq(Packets)
      BY <2>1
    <3> QED
      BY <1>0, <1>m, <2>1, <3>1 DEF HandInv, SoundTyped
  <2> QED
    BY <1>d, <1>o, <2>1, <2>2, <2>3 DEF uiVars, deviceVars
<1>7. CASE run_append
  <2>1. /\ play.pc = "device" /\ unplayed' = Append(unplayed, play.msg)
        /\ play' = [pc |-> "write", msg |-> NoPacket, disturbed |-> sink = "stopped"]
        /\ UNCHANGED <<uiVars, notices, deviceVars, queue, io, received, played>>
    BY <1>7 DEF run_append
  <2>2. /\ play.msg \in Packets /\ unplayed' \in Seq(Packets) /\ unplayed' # << >>
    <3>1. play.msg \in Packets
      BY <1>h, <2>1
    <3> QED
      BY <1>0, <2>1, <3>1
  <2>3. play' \in Plays /\ play'.pc = "write" /\ play'.msg = NoPacket
    <3>1. PICK b \in BOOLEAN : b = (sink = "stopped")
      OBVIOUS
    <3>2. play' = [pc |-> "write", msg |-> NoPacket, disturbed |-> b]
      BY <2>1, <3>1
    <3> QED
      BY <1>0, <3>2 DEF Plays, NoPacket
  <2>4. P' = P /\ M' = {} /\ M = {play.msg} /\ Q' = Q /\ I' = I
    BY <1>e, <2>1, <2>2, <2>3 DEF P, M, Q, I
  <2>5. U' = U \cup {play.msg} /\ Increasing(unplayed')
    <3>1. Below(U, {play.msg})
      BY <1>o, <2>4 DEF Below
    <3> QED
      BY <1>0, <1>o, <2>1, <2>2, <3>1, AppendElems DEF U
  <2>6. /\ Below(P', U' \cup M' \cup Q' \cup I') /\ Below(U', M' \cup Q' \cup I')
        /\ Below(M', Q' \cup I') /\ Below(Q', I')
        /\ \A x \in P' \cup U' \cup M' \cup Q' \cup I' : x <= received'
    BY <1>o, <2>1, <2>4, <2>5 DEF Below
  <2>7. HandInv' /\ SoundTyped'
    BY <1>0, <2>1, <2>2, <2>3 DEF HandInv, SoundTyped
  <2> QED
    BY <1>o, <2>1, <2>5, <2>6, <2>7 DEF uiVars, deviceVars
<1>8. CASE run_not_converted \/ write_nothing \/ write_fails
  <2>1. /\ UNCHANGED <<uiVars, notices, deviceVars, soundVars>>
        /\ play'.pc \in {"pop", "ended"} /\ play'.msg = NoPacket /\ play' \in Plays
    <3>1. CASE run_not_converted \/ write_nothing
      BY <1>m, <3>1 DEF run_not_converted, write_nothing
    <3>2. CASE write_fails
      <4>1. play' = [pc |-> "ended", msg |-> NoPacket, disturbed |-> FALSE]
        BY <3>2 DEF write_fails
      <4>2. play' \in Plays /\ play'.pc = "ended" /\ play'.msg = NoPacket
        BY <1>0, <4>1 DEF Plays, NoPacket
      <4> QED
        BY <3>2, <4>2 DEF write_fails
    <3> QED
      BY <1>8, <3>1, <3>2
  <2>2. P' = P /\ U' = U /\ M' = {} /\ Q' = Q /\ I' = I
    BY <1>e, <2>1 DEF P, U, M, Q, I, soundVars
  <2>3. HandInv' /\ SoundTyped'
    BY <1>0, <2>1 DEF HandInv, SoundTyped, soundVars
  <2> QED
    BY <1>d, <1>o, <2>1, <2>2, <2>3 DEF uiVars, deviceVars, soundVars
<1>9. CASE write_returns
  <2>1. /\ play.pc = "write" /\ played' = Append(played, Head(unplayed))
        /\ unplayed' = Tail(unplayed) /\ play' = GoOn
        /\ sink' = IF sink = "idle" THEN "active" ELSE sink
        /\ UNCHANGED <<uiVars, notices, outputdevice, queue, io, received>>
    BY <1>9 DEF write_returns
  <2>2. /\ Tail(unplayed) \in Seq(Packets) /\ Head(unplayed) \in Packets
        /\ U = {Head(unplayed)} \cup U'
        /\ Increasing(unplayed') /\ Below({Head(unplayed)}, U')
    BY <1>0, <1>h, <1>o, <2>1, TailElems DEF U
  <2>3. PICK h \in Packets : h = Head(unplayed)
    BY <2>2
  <2>4. played' \in Seq(Packets) /\ P' = P \cup {h} /\ Increasing(played')
    <3>1. Below(P, {h}) /\ played' = Append(played, h)
      BY <1>o, <2>1, <2>2, <2>3 DEF Below
    <3> QED
      BY <1>0, <1>o, <2>3, <3>1, AppendElems DEF P
  <2>5. M' = {} /\ Q' = Q /\ I' = I
    BY <1>m, <2>1 DEF Q, I
  <2>6. /\ Below(P', U' \cup M' \cup Q' \cup I') /\ Below(U', M' \cup Q' \cup I')
        /\ Below(M', Q' \cup I') /\ Below(Q', I')
        /\ \A x \in P' \cup U' \cup M' \cup Q' \cup I' : x <= received'
    BY <1>o, <2>1, <2>2, <2>3, <2>4, <2>5 DEF Below
  <2>7. HandInv' /\ SoundTyped'
    BY <1>0, <1>m, <2>1, <2>2, <2>4 DEF HandInv, SoundTyped
  <2> QED
    BY <1>o, <2>1, <2>2, <2>4, <2>6, <2>7 DEF uiVars
<1> QED
  BY <1>1, <1>2, <1>3, <1>4, <1>5, <1>6, <1>7, <1>8, <1>9 DEF SoundSteps

-----------------------------------------------------------------------------
(***************************************************************************)
(* The device of one who is alone.                                         *)
(***************************************************************************)
\* stopPlay is still to come: it has been posted, or was and is not done yet.
ToCome(q) == \E i \in DOMAIN q : q[i] = "stopPlay"

LEMMA ToComeLater ==
    ASSUME NEW q \in Seq(Events)
    PROVE  /\ \A e \in Events : ToCome(Append(q, e)) <=> ToCome(q) \/ e = "stopPlay"
           /\ q # << >> => (ToCome(q) <=> Head(q) = "stopPlay" \/ ToCome(Tail(q)))
           /\ ToCome(q \o <<"stopPlay">>)
           /\ q \o << >> = q
<1>1. ASSUME NEW e \in Events
      PROVE  ToCome(Append(q, e)) <=> ToCome(q) \/ e = "stopPlay"
  <2> DEFINE r == Append(q, e)
  <2>1. /\ Len(q) \in Nat /\ DOMAIN q = 1 .. Len(q) /\ DOMAIN r = 1 .. Len(q) + 1
        /\ r[Len(q) + 1] = e /\ \A i \in 1 .. Len(q) : r[i] = q[i]
    BY Appended
  <2> HIDE DEF r
  <2>2. /\ \A i \in DOMAIN r : i = Len(q) + 1 \/ i \in DOMAIN q
        /\ \A i \in DOMAIN q : i \in DOMAIN r /\ r[i] = q[i]
        /\ Len(q) + 1 \in DOMAIN r
    BY <2>1
  <2>3. ToCome(r) <=> ToCome(q) \/ e = "stopPlay"
    BY <2>1, <2>2 DEF ToCome
  <2> QED
    BY <2>3 DEF r
<1>2. ASSUME q # << >>
      PROVE  ToCome(q) <=> Head(q) = "stopPlay" \/ ToCome(Tail(q))
  <2> DEFINE r == Tail(q)
  <2>1. /\ Len(q) \in Nat \ {0} /\ DOMAIN q = 1 .. Len(q) /\ Head(q) = q[1]
        /\ DOMAIN r = 1 .. Len(q) - 1 /\ \A i \in 1 .. Len(q) - 1 : r[i] = q[i + 1]
    BY <1>2, Shifted
  <2> HIDE DEF r
  <2>2. /\ 1 \in DOMAIN q
        /\ \A i \in DOMAIN r : i + 1 \in DOMAIN q /\ r[i] = q[i + 1]
    BY <2>1
  <2>3. ASSUME NEW k \in DOMAIN q, k # 1
        PROVE  k - 1 \in DOMAIN r /\ r[k - 1] = q[k]
    <3>1. k - 1 \in 1 .. Len(q) - 1 /\ k - 1 + 1 = k
      BY <2>1, <2>3
    <3> QED
      BY <2>1, <3>1
  <2>4. ASSUME ToCome(r) PROVE ToCome(q)
    <3>1. PICK i \in DOMAIN r : r[i] = "stopPlay"
      BY <2>4 DEF ToCome
    <3>2. i + 1 \in DOMAIN q /\ q[i + 1] = "stopPlay"
      BY <2>2, <3>1
    <3> QED
      BY <3>2 DEF ToCome
  <2>5. ASSUME ToCome(q) PROVE q[1] = "stopPlay" \/ ToCome(r)
    <3>1. PICK k \in DOMAIN q : q[k] = "stopPlay"
      BY <2>5 DEF ToCome
    <3> QED
      BY <2>3, <3>1 DEF ToCome
  <2>6. q[1] = "stopPlay" => ToCome(q)
    BY <2>2 DEF ToCome
  <2> QED
    BY <2>1, <2>4, <2>5, <2>6 DEF r
<1>3. ToCome(q \o <<"stopPlay">>)
  <2>1. <<"stopPlay">> \in Seq(Events) /\ Len(<<"stopPlay">>) = 1
        /\ <<"stopPlay">>[1] = "stopPlay"
    BY DEF Events
  <2>2. /\ Len(q) \in Nat /\ Len(q) + 1 \in Len(q) + 1 .. Len(q) + 1
        /\ Len(q) + 1 \in 1 .. Len(q) + 1 /\ Len(q) + 1 - Len(q) = 1
    OBVIOUS
  <2>3. Len(q) + 1 \in DOMAIN (q \o <<"stopPlay">>)
        /\ (q \o <<"stopPlay">>)[Len(q) + 1] = "stopPlay"
    BY <2>1, <2>2
  <2> QED
    BY <2>3 DEF ToCome
<1>4. q \o << >> = q
  OBVIOUS
<1> QED
  BY <1>1, <1>2, <1>3, <1>4

LEMMA DeviceStep ==
    ASSUME TypeOK, HandInv, OrderInv, DeviceInv, [Next]_vars
    PROVE  DeviceInv'
<1>0. /\ partner \in 0 .. MaxPartners /\ MaxPartners \in Nat /\ events \in Seq(Events)
      /\ ui \in {"idle", "device_lock"} /\ sink \in {"stopped", "idle", "active"}
      /\ outputdevice \in BOOLEAN
      /\ events # << >> => Tail(events) \in Seq(Events)
      /\ \A e \in Events : Append(events, e) # << >>
      /\ "stopPlay" \in Events
  <2>1. /\ partner \in 0 .. MaxPartners /\ MaxPartners \in Nat /\ events \in Seq(Events)
        /\ ui \in {"idle", "device_lock"} /\ sink \in {"stopped", "idle", "active"}
        /\ outputdevice \in BOOLEAN /\ "stopPlay" \in Events
    BY AudioAssumption DEF TypeOK, Events
  <2>2. events # << >> => Tail(events) \in Seq(Events)
    BY <2>1
  <2>3. \A e \in Events : Append(events, e) # << >>
    BY <2>1
  <2> QED
    BY <2>1, <2>2, <2>3
<1>a. /\ ui = "device_lock" => /\ sink = "stopped" /\ events # << >>
                               /\ Head(events) = "stopPlay"
      /\ partner <= 1 /\ (sink # "stopped" \/ outputdevice) => ToCome(events)
  BY DEF DeviceInv, ToCome
<1>b. SUFFICES
      /\ ui' = "device_lock" => /\ sink' = "stopped" /\ events' # << >>
                                /\ Head(events') = "stopPlay"
      /\ partner' <= 1 /\ (sink' # "stopped" \/ outputdevice') => ToCome(events')
  BY DEF DeviceInv, ToCome
<1>1. CASE SoundSteps
  <2>1. /\ UNCHANGED <<partner, events, ui, notices, outputdevice>>
        /\ sink' = sink \/ (sink = "idle" /\ sink' = "active")
    BY <1>1, SoundStep
  <2> QED
    BY <1>a, <2>1
<1>2. CASE add_partner
  <2>1. /\ ui = "idle" /\ ui' = ui /\ events # << >> /\ Head(events) = "join"
        /\ events' = Tail(events) /\ partner' = partner + 1
        /\ partner' > 1 \/ UNCHANGED deviceVars
    BY <1>2 DEF add_partner, NextEvent
  <2>2. ToCome(events') <=> ToCome(events)
    BY <1>0, <2>1, ToComeLater
  <2>3. partner' <= 1 => partner <= 1 /\ ~(partner' > 1)
    BY <1>0, <2>1
  <2> QED
    BY <1>a, <2>1, <2>2, <2>3 DEF deviceVars
<1>3. CASE ignore_notice
  <2>1. /\ ui = "idle" /\ ui' = ui /\ events # << >> /\ Head(events) # "stopPlay"
        /\ events' = Tail(events) /\ partner' = partner /\ UNCHANGED deviceVars
    BY <1>3 DEF ignore_notice, NextEvent
  <2>2. ToCome(events') <=> ToCome(events)
    BY <1>0, <2>1, ToComeLater
  <2> QED
    BY <1>a, <2>1, <2>2 DEF deviceVars
<1>4. CASE remove_partner
  <2>1. /\ ui = "idle" /\ ui' = ui /\ events # << >> /\ UNCHANGED deviceVars
        /\ partner' = partner - 1
        /\ partner' <= 1 => events' = Tail(events) \o <<"stopPlay">>
    BY <1>4 DEF remove_partner, NextEvent
  <2>2. partner' <= 1 => ToCome(events')
    <3>1. Tail(events) \in Seq(Events)
      BY <1>0, <2>1
    <3>2. ToCome(Tail(events) \o <<"stopPlay">>)
      BY <3>1, ToComeLater
    <3> QED
      BY <2>1, <3>2
  <2> QED
    BY <2>1, <2>2
<1>5. CASE clear_partner
  <2>1. ui = "idle" /\ ui' = ui /\ events' = Append(events, "stopPlay")
    BY <1>5 DEF clear_partner
  <2>2. ToCome(events')
    BY <1>0, <2>1, ToComeLater
  <2> QED
    BY <2>1, <2>2
<1>6. CASE stopPlay
  <2>1. /\ events # << >> /\ Head(events) = "stopPlay" /\ sink' = "stopped"
        /\ UNCHANGED <<partner, events, outputdevice>>
    BY <1>6 DEF stopPlay, NextEvent
  <2> QED
    BY <1>a, <2>1
<1>7. CASE stopPlay_forget
  <2>1. ui = "device_lock" /\ ui' = "idle" /\ sink' = sink /\ outputdevice' = FALSE
    BY <1>7 DEF stopPlay_forget
  <2> QED
    BY <1>a, <2>1
<1>8. CASE receive_notice
  <2>1. PICK e \in Events : events' = Append(events, e)
    BY <1>8 DEF receive_notice, Events
  <2>2. UNCHANGED <<partner, ui, sink, outputdevice>>
    BY <1>8 DEF receive_notice, deviceVars
  <2>3. ToCome(events) => ToCome(events')
    BY <1>0, <2>1, ToComeLater
  <2>4. events # << >> => Head(events') = Head(events) /\ events' # << >>
    BY <1>0, <2>1
  <2> QED
    BY <1>a, <2>2, <2>3, <2>4
<1>9. CASE handleStateChanged \/ underrun
  <2>1. /\ UNCHANGED <<partner, events, outputdevice>> /\ ui' = ui
        /\ sink # "stopped"
        /\ \/ sink' = "stopped" /\ ui = "idle"
           \/ sink = "active"
    BY <1>9 DEF handleStateChanged, underrun, uiVars
  <2> QED
    BY <1>a, <2>1
<1>10. CASE UNCHANGED vars
  BY <1>10, <1>a DEF vars, uiVars, deviceVars
<1> QED
  BY <1>1, <1>2, <1>3, <1>4, <1>5, <1>6, <1>7, <1>8, <1>9, <1>10
  DEF Next, UiCall, Play, Write, SoundSteps
-----------------------------------------------------------------------------
(***************************************************************************)
(* Theorems.                                                               *)
(***************************************************************************)
LEMMA InitInv == ASSUME Init PROVE IInv
<1>1. played = << >> /\ unplayed = << >> /\ queue = << >>
      /\ play.msg = NoPacket /\ io.msg = NoPacket
  BY DEF Init
<1>2. Elems(<< >>) = {} /\ Increasing(<< >>) /\ Hand(NoPacket) = {}
  BY DEF Elems, Increasing, Hand
<1>3. OrderInv
  BY <1>1, <1>2 DEF OrderInv, Below
<1>4. DeviceInv
  BY DEF Init, DeviceInv
<1> QED
  BY <1>3, <1>4, InitTyped DEF IInv

LEMMA InvStep == ASSUME IInv, [Next]_vars PROVE IInv'
<1>0. TypeOK /\ HandInv /\ OrderInv /\ DeviceInv
  BY DEF IInv
<1>1. DeviceInv'
  BY <1>0, DeviceStep
<1>t. /\ play \in Plays /\ io \in Ios /\ received \in 0 .. MaxPackets
      /\ unplayed \in Seq(Packets) /\ played \in Seq(Packets)
      /\ queue \in Seq(Packets) /\ Len(queue) <= QUEUE_MAXSIZE
      /\ partner \in 0 .. MaxPartners /\ events \in Seq(Events)
      /\ notices \in 0 .. MaxNotices /\ ui \in {"idle", "device_lock"}
      /\ sink \in {"stopped", "idle", "active"} /\ outputdevice \in BOOLEAN
  BY <1>0 DEF TypeOK, Plays, Ios, Packets, Events
<1>s. ASSUME /\ partner' \in 0 .. MaxPartners /\ events' \in Seq(Events)
             /\ notices' \in 0 .. MaxNotices /\ ui' \in {"idle", "device_lock"}
             /\ sink' \in {"stopped", "idle", "active"} /\ outputdevice' \in BOOLEAN
             /\ play' \in Plays /\ io' \in Ios /\ received' \in 0 .. MaxPackets
             /\ unplayed' \in Seq(Packets) /\ played' \in Seq(Packets)
             /\ queue' \in Seq(Packets) /\ Len(queue') <= QUEUE_MAXSIZE
      PROVE  TypeOK'
  BY <1>s DEF TypeOK, Plays, Ios, Packets, Events
<1>2. CASE UiSteps
  <2>1. /\ partner' \in 0 .. MaxPartners /\ events' \in Seq(Events)
        /\ notices' \in 0 .. MaxNotices /\ ui' \in {"idle", "device_lock"}
        /\ sink' \in {"stopped", "idle", "active"} /\ outputdevice' \in BOOLEAN
        /\ play' \in Plays /\ play'.pc = play.pc /\ play'.msg = play.msg
        /\ UNCHANGED <<unplayed, queue, io, received, played>>
    BY <1>0, <1>2, UiTypes DEF soundVars
  <2>2. TypeOK'
    BY <1>s, <1>t, <2>1
  <2>3. HandInv' /\ OrderInv'
    BY <1>0, <2>1 DEF HandInv, OrderInv
  <2> QED
    BY <1>1, <2>2, <2>3 DEF IInv
<1>3. CASE SoundSteps
  <2>1. /\ UNCHANGED <<partner, events, ui, notices, outputdevice>>
        /\ sink' = sink \/ (sink = "idle" /\ sink' = "active")
        /\ SoundTyped' /\ HandInv' /\ OrderInv'
    BY <1>0, <1>3, SoundStep
  <2>2. TypeOK'
    BY <1>s, <1>t, <2>1 DEF SoundTyped
  <2> QED
    BY <1>1, <2>1, <2>2 DEF IInv
<1>4. CASE UNCHANGED vars
  <2>1. UNCHANGED <<partner, events, ui, notices, sink, outputdevice, play, unplayed,
                    queue, io, received, played>>
    BY <1>4 DEF vars, uiVars, deviceVars, soundVars
  <2>2. TypeOK'
    BY <1>s, <1>t, <2>1
  <2> QED
    BY <1>0, <1>1, <2>1, <2>2 DEF IInv, HandInv, OrderInv
<1> QED
  BY <1>2, <1>3, <1>4 DEF Next, UiCall, Play, Write, UiSteps, SoundSteps

\* The invariant holds in every run: no step disturbs a part of it.
LEMMA Inductive == Spec => []IInv
<1>1. Init => IInv
  BY InitInv
<1>2. IInv /\ [Next]_vars => IInv'
  BY InvStep
<1> QED
  BY <1>1, <1>2, PTL DEF Spec

\* Every variable of the playback keeps its type, and the FIFO its limit.
THEOREM TypeCorrect == Spec => []TypeOK
<1>1. IInv => TypeOK
  BY DEF IInv
<1> QED
  BY <1>1, Inductive, PTL

\* Sound reaches the device in the order in which it was received, whatever
\* AudioOutput and MessageQueue drop, clear, keep for the next write or lose.
THEOREM SoundInOrder == Spec => []HeardInOrder
<1>1. IInv => HeardInOrder
  <2> SUFFICES ASSUME IInv PROVE Increasing(Pipeline)
    BY DEF HeardInOrder, Increasing
  <2>1. /\ played \in Seq(Packets) /\ unplayed \in Seq(Packets) /\ queue \in Seq(Packets)
        /\ play.msg \in 0 .. MaxPackets /\ io.msg \in 0 .. MaxPackets
    BY DEF IInv, TypeOK, Packets
  <2>2. /\ InHand(play.msg) \in Seq(Packets) /\ Increasing(InHand(play.msg))
        /\ Elems(InHand(play.msg)) = Hand(play.msg)
        /\ InHand(io.msg) \in Seq(Packets) /\ Increasing(InHand(io.msg))
        /\ Elems(InHand(io.msg)) = Hand(io.msg)
    BY <2>1, HandElems
  <2>3. OrderInv
    BY DEF IInv
  <2> DEFINE a == played \o unplayed
             b == a \o InHand(play.msg)
             c == b \o queue
  <2>4. /\ a \in Seq(Packets) /\ Elems(a) = Elems(played) \cup Elems(unplayed)
        /\ Increasing(a)
    <3>1. Below(Elems(played), Elems(unplayed))
      BY <2>3 DEF OrderInv, Below
    <3> QED
      BY <2>1, <2>3, <3>1, JoinedElems DEF OrderInv
  <2> HIDE DEF a
  <2>5. /\ b \in Seq(Packets) /\ Elems(b) = Elems(a) \cup Hand(play.msg)
        /\ Increasing(b)
    <3>1. Below(Elems(a), Hand(play.msg))
      BY <2>3, <2>4 DEF OrderInv, Below
    <3> QED
      BY <2>2, <2>4, <3>1, JoinedElems, ZenonT(30)
  <2> HIDE DEF b
  <2>6. /\ c \in Seq(Packets) /\ Elems(c) = Elems(b) \cup Elems(queue)
        /\ Increasing(c)
    <3>1. Below(Elems(b), Elems(queue))
      BY <2>3, <2>4, <2>5 DEF OrderInv, Below
    <3> QED
      BY <2>1, <2>3, <2>5, <3>1, JoinedElems DEF OrderInv
  <2> HIDE DEF c
  <2>7. Increasing(c \o InHand(io.msg))
    <3>1. Below(Elems(c), Hand(io.msg))
      BY <2>3, <2>4, <2>5, <2>6 DEF OrderInv, Below
    <3> QED
      BY <2>2, <2>6, <3>1, JoinedElems
  <2> QED
    BY <2>7 DEF Pipeline, a, b, c
<1> QED
  BY <1>1, Inductive, PTL

\* A client that is alone closes its device, with startPlay called at once and
\* stopPlay only posted, in whatever order members come, go and are cleared.
THEOREM AloneIsSilent == Spec => []SilentWhenAlone
<1>1. IInv => SilentWhenAlone
  BY DEF IInv, DeviceInv, SilentWhenAlone, UiQuiet
<1> QED
  BY <1>1, Inductive, PTL
=============================================================================
