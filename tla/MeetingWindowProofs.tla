------------------------- MODULE MeetingWindowProofs -------------------------
(***************************************************************************)
(* Proofs about MeetingWindow, for every set of members and all bounds.    *)
(* A history of the queue is what the window will list after each of the   *)
(* messages in it, up to what the server has now: every message is one the *)
(* list it meets was made for.  It exists as long as no message or frame   *)
(* has been handled late, and from it follows what the window shows when   *)
(* all is handled.                                                         *)
(***************************************************************************)
EXTENDS MeetingWindow, FiniteSetTheorems, TLAPS

\* The values of the object that keeps the pictures, and of the window.
Displays == UNION {[D -> {"blank", "avatar", "picture"}] : D \in SUBSET Ips}

VideoType ==
    [displays : Displays, lastImages : SUBSET Ips,
     main : {"blank", "avatar"} \cup Ips, mainIp : Ips \cup {NoIp},
     localIp : {Self, NoIp}, isRunning : BOOLEAN]

UiType ==
    [partner : SUBSET Ips, iplist : Seq(Others), selected : SUBSET Ips,
     audioText : {Open, Close}, openAudio : BOOLEAN, openVedio : BOOLEAN,
     inMeeting : BOOLEAN, visible : BOOLEAN,
     session : {"none", "active", "ending"}, video : VideoType]

\* The messages, with the addresses each carries.
EmptyTypes ==
    {"CreateMeetingResponse", "JoinMeetingResponse", "JoinRefused",
     "RemoteHostClosed", "disconnected"}
IpTypes == {"PartnerJoin", "PartnerExit", "ImgRecv", "CloseCamera"}

IsMessage(m) ==
    /\ m.type \in EmptyTypes \cup IpTypes \cup {"PartnerJoin2"}
    /\ m.ips \in SUBSET Others
    /\ m.type \in IpTypes => \E ip \in Others : m.ips = {ip}

MessageType ==
    {m \in [type : EmptyTypes \cup IpTypes \cup {"PartnerJoin2"}, ips : SUBSET Others] :
        IsMessage(m)}

\* Each member has a tile, which shows a picture if there is a last one.
Tiles(u) ==
    /\ DOMAIN u.video.displays = u.partner
    /\ \A ip \in u.partner :
         u.video.displays[ip] =
            IF ip \in u.video.lastImages THEN "picture" ELSE "avatar"

UiOK(u) == u \in UiType /\ u.selected \subseteq u.partner /\ Tiles(u)

-----------------------------------------------------------------------------
(***************************************************************************)
(* CameraVideo: every operation, field by field.                           *)
(***************************************************************************)
LEMMA DisplaysAreFunctions ==
    /\ \A d \in Displays :
         DOMAIN d \in SUBSET Ips /\ d \in [DOMAIN d -> {"blank", "avatar", "picture"}]
    /\ \A D \in SUBSET Ips : \A d \in [D -> {"blank", "avatar", "picture"}] : d \in Displays
BY DEF Displays

LEMMA ShowAvatars ==
    ASSUME NEW v \in VideoType, NEW ips
    PROVE  LET r == showAvatars(v, ips)
           IN  /\ r \in VideoType
               /\ DOMAIN r.displays = DOMAIN v.displays
               /\ \A i \in DOMAIN v.displays :
                    r.displays[i] = IF i \in ips THEN "avatar" ELSE v.displays[i]
               /\ r.lastImages = v.lastImages \ ips
               /\ r.main = IF v.mainIp \in ips THEN "avatar" ELSE v.main
               /\ r.mainIp = v.mainIp /\ r.localIp = v.localIp
               /\ r.isRunning = v.isRunning
<1> DEFINE r == showAvatars(v, ips)
           d == [i \in DOMAIN v.displays |-> IF i \in ips THEN "avatar" ELSE v.displays[i]]
<1>1. v.displays \in Displays BY DEF VideoType
<1>2. d \in Displays
  <2> DEFINE D == DOMAIN v.displays
  <2>1. D \in SUBSET Ips /\ v.displays \in [D -> {"blank", "avatar", "picture"}]
    BY <1>1, DisplaysAreFunctions
  <2>2. d \in [D -> {"blank", "avatar", "picture"}] BY <2>1
  <2> QED BY <2>1, <2>2, DisplaysAreFunctions
<1>3. r = [v EXCEPT !.displays = d, !.lastImages = v.lastImages \ ips,
                    !.main = IF v.mainIp \in ips THEN "avatar" ELSE v.main]
  BY DEF showAvatars
<1>4. DOMAIN d = DOMAIN v.displays
      /\ \A i \in DOMAIN v.displays : d[i] = IF i \in ips THEN "avatar" ELSE v.displays[i]
  OBVIOUS
<1> HIDE DEF r, d
<1> QED BY <1>2, <1>3, <1>4 DEF VideoType, r

LEMMA AddPartnerDisplays ==
    ASSUME NEW v \in VideoType, NEW ips \in SUBSET Ips
    PROVE  LET r == addPartnerDisplays(v, ips)
           IN  /\ r \in VideoType
               /\ DOMAIN r.displays = DOMAIN v.displays \cup ips
               /\ \A i \in DOMAIN v.displays \cup ips :
                    r.displays[i] = IF i \in DOMAIN v.displays THEN v.displays[i]
                                    ELSE "avatar"
               /\ r.lastImages = v.lastImages \ (ips \ DOMAIN v.displays)
               /\ r.main = IF v.mainIp \in ips \ DOMAIN v.displays THEN "avatar" ELSE v.main
               /\ r.mainIp = v.mainIp /\ r.localIp = v.localIp
               /\ r.isRunning = v.isRunning
<1> DEFINE D == DOMAIN v.displays
           d == [i \in D \cup ips |-> IF i \in D THEN v.displays[i] ELSE "blank"]
           b == [v EXCEPT !.displays = d]
           r == addPartnerDisplays(v, ips)
<1>1. D \in SUBSET Ips /\ v.displays \in [D -> {"blank", "avatar", "picture"}]
  BY DisplaysAreFunctions DEF VideoType
<1>2. d \in [D \cup ips -> {"blank", "avatar", "picture"}] BY <1>1
<1>3. d \in Displays BY <1>1, <1>2, DisplaysAreFunctions
<1>4. DOMAIN d = D \cup ips
      /\ \A i \in D \cup ips : d[i] = IF i \in D THEN v.displays[i] ELSE "blank"
  OBVIOUS
<1>5. r = showAvatars(b, ips \ D) BY DEF addPartnerDisplays
<1> HIDE DEF D, d, r
<1>6. /\ b \in VideoType /\ b.displays = d /\ b.lastImages = v.lastImages
      /\ b.main = v.main /\ b.mainIp = v.mainIp /\ b.localIp = v.localIp
      /\ b.isRunning = v.isRunning
  BY <1>3 DEF VideoType
<1> HIDE DEF b
<1>7. /\ r \in VideoType /\ DOMAIN r.displays = D \cup ips
      /\ \A i \in D \cup ips : r.displays[i] = IF i \in ips \ D THEN "avatar" ELSE d[i]
      /\ r.lastImages = v.lastImages \ (ips \ D)
      /\ r.main = IF v.mainIp \in ips \ D THEN "avatar" ELSE v.main
      /\ r.mainIp = v.mainIp /\ r.localIp = v.localIp /\ r.isRunning = v.isRunning
  BY <1>4, <1>5, <1>6, ShowAvatars
<1>8. \A i \in D \cup ips : r.displays[i] = IF i \in D THEN v.displays[i] ELSE "avatar"
  BY <1>4, <1>7
<1> QED BY <1>7, <1>8 DEF r, D

LEMMA ShowImageForIp ==
    ASSUME NEW v \in VideoType, NEW ip \in Ips
    PROVE  LET r == showImageForIp(v, ip)
           IN  /\ r \in VideoType
               /\ DOMAIN r.displays = DOMAIN v.displays
               /\ \A i \in DOMAIN v.displays :
                    r.displays[i] = IF i = ip THEN "picture" ELSE v.displays[i]
               /\ r.lastImages = v.lastImages \cup {ip}
               /\ r.main = IF v.mainIp = ip THEN ip ELSE v.main
               /\ r.mainIp = v.mainIp /\ r.localIp = v.localIp
               /\ r.isRunning = v.isRunning
<1> DEFINE D == DOMAIN v.displays
           d == IF ip \in D THEN [v.displays EXCEPT ![ip] = "picture"] ELSE v.displays
           r == showImageForIp(v, ip)
           m == IF v.mainIp = ip THEN ip ELSE v.main
<1>1. D \in SUBSET Ips /\ v.displays \in [D -> {"blank", "avatar", "picture"}]
  BY DisplaysAreFunctions DEF VideoType
<1>2. /\ d \in [D -> {"blank", "avatar", "picture"}]
      /\ \A i \in D : d[i] = IF i = ip THEN "picture" ELSE v.displays[i]
  BY <1>1
<1>3. d \in Displays BY <1>1, <1>2, DisplaysAreFunctions
<1>4. r = [displays |-> d, lastImages |-> v.lastImages \cup {ip}, main |-> m,
           mainIp |-> v.mainIp, localIp |-> v.localIp, isRunning |-> v.isRunning]
  BY DEF showImageForIp, Draw, VideoType
<1>5. m \in {"blank", "avatar"} \cup Ips BY DEF VideoType
<1> HIDE DEF d, r, D, m
<1>6. r \in VideoType BY <1>3, <1>4, <1>5 DEF VideoType
<1> QED BY <1>2, <1>4, <1>6 DEF r, D, m

LEMMA RemovePartnerDisplay ==
    ASSUME NEW v \in VideoType, NEW ip
    PROVE  LET r == removePartnerDisplay(v, ip)
           IN  /\ r \in VideoType
               /\ DOMAIN r.displays = DOMAIN v.displays \ {ip}
               /\ \A i \in DOMAIN v.displays \ {ip} : r.displays[i] = v.displays[i]
               /\ r.lastImages = v.lastImages /\ r.main = v.main
               /\ r.mainIp = v.mainIp /\ r.localIp = v.localIp
               /\ r.isRunning = v.isRunning
<1> DEFINE D == DOMAIN v.displays
           d == [i \in D \ {ip} |-> v.displays[i]]
           r == removePartnerDisplay(v, ip)
<1>1. D \in SUBSET Ips /\ v.displays \in [D -> {"blank", "avatar", "picture"}]
  BY DisplaysAreFunctions DEF VideoType
<1>2. d \in [D \ {ip} -> {"blank", "avatar", "picture"}] BY <1>1
<1>3. D \ {ip} \in SUBSET Ips BY <1>1
<1>4. d \in Displays BY <1>2, <1>3, DisplaysAreFunctions
<1>5. DOMAIN d = D \ {ip} /\ \A i \in D \ {ip} : d[i] = v.displays[i] OBVIOUS
<1>6. r = [v EXCEPT !.displays = d] BY DEF removePartnerDisplay
<1> HIDE DEF d, r, D
<1> QED BY <1>4, <1>5, <1>6 DEF VideoType, r, D

LEMMA ClearAllPartnerDisplays ==
    ASSUME NEW v \in VideoType
    PROVE  LET r == clearAllPartnerDisplays(v)
           IN  /\ r \in VideoType
               /\ DOMAIN r.displays = {} /\ r.lastImages = {} /\ r.main = v.main
               /\ r.mainIp = v.mainIp /\ r.localIp = v.localIp
               /\ r.isRunning = v.isRunning
<1> DEFINE d == [i \in {} |-> "blank"]
           r == clearAllPartnerDisplays(v)
<1>1. d \in [{} -> {"blank", "avatar", "picture"}] /\ DOMAIN d = {} OBVIOUS
<1>2. d \in Displays BY <1>1, DisplaysAreFunctions
<1>3. r = [v EXCEPT !.displays = d, !.lastImages = {}] BY DEF clearAllPartnerDisplays
<1> HIDE DEF d, r
<1> QED BY <1>1, <1>2, <1>3 DEF VideoType, r

\* Those that leave the tiles alone.
SameTiles(r, v) == r \in VideoType /\ r.displays = v.displays

LEMMA MainScreen ==
    ASSUME NEW v \in VideoType, NEW ip \in Ips
    PROVE  /\ LET r == showMainAvatar(v)
              IN  /\ SameTiles(r, v) /\ r.lastImages = v.lastImages
                  /\ r.main = "avatar" /\ r.mainIp = v.mainIp
                  /\ r.localIp = v.localIp /\ r.isRunning = v.isRunning
           /\ LET r == refreshMainForIp(v, ip)
              IN  /\ SameTiles(r, v) /\ r.lastImages = v.lastImages
                  /\ r.main = IF ip \in v.lastImages THEN ip ELSE "avatar"
                  /\ r.mainIp = ip
                  /\ r.localIp = v.localIp /\ r.isRunning = v.isRunning
           /\ LET r == showMainAvatar(setLocalAndMainIp(v, Self))
              IN  /\ SameTiles(r, v) /\ r.lastImages = v.lastImages
                  /\ r.main = "avatar" /\ r.mainIp = Self
                  /\ r.localIp = Self /\ r.isRunning = v.isRunning
BY DEF SameTiles, showMainAvatar, refreshMainForIp, setLocalAndMainIp, VideoType, Ips

LEMMA Camera ==
    ASSUME NEW v \in VideoType
    PROVE  /\ LET r == startCamera(v)
              IN  /\ SameTiles(r, v) /\ r.lastImages = v.lastImages
                  /\ r.main = v.main /\ r.mainIp = v.mainIp
                  /\ r.localIp = v.localIp /\ r.isRunning = TRUE
           /\ LET r == stopCamera(v)
              IN  /\ SameTiles(r, v) /\ r.lastImages = v.lastImages
                  /\ r.main = v.main /\ r.mainIp = v.mainIp
                  /\ r.localIp = v.localIp /\ r.isRunning = FALSE
           /\ cameraImageCapture(v) \in {v, showImageForIp(v, Self)}
BY DEF SameTiles, startCamera, stopCamera, cameraImageCapture, VideoType

LEMMA EndVideo ==
    ASSUME NEW v \in VideoType
    PROVE  LET r == endVideo(v)
           IN  /\ r \in VideoType
               /\ DOMAIN r.displays = DOMAIN v.displays
               /\ r.lastImages = v.lastImages /\ r.main = "blank"
               /\ r.mainIp = v.mainIp /\ r.localIp = v.localIp
               /\ r.isRunning = FALSE
<1> DEFINE D == DOMAIN v.displays
           d == [i \in D |-> "blank"]
           r == endVideo(v)
<1>1. D \in SUBSET Ips BY DisplaysAreFunctions DEF VideoType
<1>2. d \in [D -> {"blank", "avatar", "picture"}] /\ DOMAIN d = D OBVIOUS
<1>3. d \in Displays BY <1>1, <1>2, DisplaysAreFunctions
<1> DEFINE s == stopCamera(v)
<1>4. /\ s \in VideoType /\ s.displays = v.displays /\ s.lastImages = v.lastImages
      /\ s.mainIp = v.mainIp /\ s.localIp = v.localIp /\ s.isRunning = FALSE
  BY Camera DEF SameTiles
<1>5. r = [s EXCEPT !.main = "blank", !.displays = d] BY <1>4 DEF endVideo
<1> HIDE DEF d, r, D, s
<1> QED BY <1>2, <1>3, <1>4, <1>5 DEF VideoType, r, D

-----------------------------------------------------------------------------
(***************************************************************************)
(* The list for "@", and how many there are.                               *)
(***************************************************************************)
LEMMA FiniteIps == IsFiniteSet(Ips) /\ \A S \in SUBSET Ips : IsFiniteSet(S)
<1>1. IsFiniteSet(Ips) BY WindowAssumption, FS_AddElement DEF Ips
<1> QED BY <1>1, FS_Subset

\* Where there is more than one there is somebody else.
LEMMA SomebodyElse ==
    ASSUME NEW S \in SUBSET Ips, Cardinality(S) > 1
    PROVE  S \ {Self} # {}
<1>1. SUFFICES ASSUME S \subseteq {Self} PROVE FALSE OBVIOUS
<1>2. IsFiniteSet({Self}) /\ Cardinality({Self}) = 1 BY FS_Singleton
<1>3. IsFiniteSet(S) /\ Cardinality(S) <= 1 BY <1>1, <1>2, FS_Subset
<1>4. Cardinality(S) \in Nat BY <1>3, FS_CardinalityType
<1> QED BY <1>3, <1>4

LEMMA LeastOf ==
    ASSUME NEW T \in SUBSET Nat, T # {}
    PROVE  Min(T) \in T /\ \A k \in T : Min(T) <= k
<1> DEFINE Below(n) == 0 .. n - 1
           U == {Below(n) : n \in T}
<1>1. IsWellFoundedOn(StrictSubsetOrdering(Nat), FiniteSubsetsOf(Nat))
  BY FS_StrictSubsetOrderingWellFounded
<1>2. U \subseteq FiniteSubsetsOf(Nat) /\ U # {}
  <2>1. ASSUME NEW n \in T PROVE Below(n) \in SUBSET Nat /\ IsFiniteSet(Below(n))
    BY FS_Interval
  <2> QED BY <2>1 DEF FiniteSubsetsOf
<1>3. \E x \in U : \A y \in U : <<y, x>> \notin StrictSubsetOrdering(Nat)
  <2> HIDE DEF U
  <2> QED BY <1>1, <1>2, WFMin
<1>4. PICK m \in T : \A n \in T : <<Below(n), Below(m)>> \notin StrictSubsetOrdering(Nat)
  BY <1>3
<1>5. ASSUME NEW n \in T PROVE m <= n
  <2>1. SUFFICES ASSUME n < m PROVE FALSE OBVIOUS
  <2>2. /\ Below(n) \subseteq Below(m) /\ Below(m) \subseteq Nat
        /\ n \in Below(m) /\ n \notin Below(n)
    BY <2>1
  <2> HIDE DEF Below
  <2> QED BY <2>2, <1>4 DEF StrictSubsetOrdering
<1> QED BY <1>5 DEF Min

LEMMA ListOfSet ==
    ASSUME NEW S \in SUBSET Others
    PROVE  /\ SetToSeq(S) \in Seq(Others) /\ ToSet(SetToSeq(S)) = S
           /\ IsInjective(SetToSeq(S))
<1> DEFINE n == Cardinality(S)
<1>1. IsFiniteSet(S) BY FiniteIps DEF Ips
<1>2. n \in Nat /\ ExistsBijection(1 .. n, S) BY <1>1, FS_CardinalityType
<1>3. \E f \in [1 .. n -> S] : IsInjective(f)
  BY <1>2 DEF ExistsBijection, Bijection, Injection, IsInjective
<1> DEFINE f == SetToSeq(S)
<1>4. f \in [1 .. n -> S] /\ IsInjective(f) BY <1>3 DEF SetToSeq
<1>5. f \in Injection(1 .. n, S) BY <1>4 DEF Injection, IsInjective
<1>6. IsFiniteSet(1 .. n) /\ Cardinality(1 .. n) = n
  BY <1>2, FS_Interval
<1> HIDE DEF f, n
<1>7. f \in Surjection(1 .. n, S)
  <2>1. Cardinality(1 .. n) = Cardinality(S) BY <1>6 DEF n
  <2> QED BY <1>1, <1>5, <2>1, FS_Injection
<1>8. ToSet(f) = S BY <1>4, <1>7 DEF ToSet, Surjection
<1>9. f \in Seq(S) BY <1>2, <1>4
<1> QED BY <1>4, <1>8, <1>9 DEF f

LEMMA Concatenation ==
    ASSUME NEW S, NEW a \in Seq(S), NEW b \in Seq(S)
    PROVE  /\ a \o b \in Seq(S) /\ Len(a \o b) = Len(a) + Len(b)
           /\ DOMAIN (a \o b) = 1 .. Len(a) + Len(b)
           /\ \A i \in 1 .. Len(a) : (a \o b)[i] = a[i]
           /\ \A i \in 1 .. Len(b) : (a \o b)[Len(a) + i] = b[i]
OBVIOUS

LEMMA ListGrows ==
    ASSUME NEW list \in Seq(Others), NEW S \in SUBSET Others
    PROVE  /\ list \o SetToSeq(S) \in Seq(Others)
           /\ IsInjective(list) /\ ToSet(list) \cap S = {} =>
                /\ IsInjective(list \o SetToSeq(S))
                /\ ToSet(list \o SetToSeq(S)) = ToSet(list) \cup S
<1> DEFINE t == SetToSeq(S)
<1>1. t \in Seq(Others) /\ ToSet(t) = S /\ IsInjective(t) BY ListOfSet
<1> HIDE DEF t
<1>3. /\ DOMAIN list = 1 .. Len(list) /\ Len(list) \in Nat
      /\ DOMAIN t = 1 .. Len(t) /\ Len(t) \in Nat
  BY <1>1
<1> DEFINE c == list \o t
<1>4. /\ c \in Seq(Others) /\ Len(c) = Len(list) + Len(t)
      /\ DOMAIN c = 1 .. Len(list) + Len(t)
      /\ \A i \in 1 .. Len(list) : c[i] = list[i]
      /\ \A i \in 1 .. Len(t) : c[Len(list) + i] = t[i]
  BY <1>1, Concatenation
<1> HIDE DEF c
<1>5. \A i \in DOMAIN c : i \notin 1 .. Len(list) =>
        \E j \in 1 .. Len(t) : i = Len(list) + j /\ c[i] = t[j]
  <2> TAKE i \in DOMAIN c
  <2> HAVE i \notin 1 .. Len(list)
  <2> DEFINE j == i - Len(list)
  <2>1. j \in 1 .. Len(t) /\ i = Len(list) + j BY <1>3, <1>4
  <2> HIDE DEF j
  <2>2. c[i] = t[j] BY <2>1, <1>4
  <2> QED BY <2>1, <2>2
<1>6. ToSet(c) = ToSet(list) \cup ToSet(t)
  <2>1. ASSUME NEW x \in ToSet(c) PROVE x \in ToSet(list) \cup ToSet(t)
    BY <1>3, <1>4, <1>5 DEF ToSet
  <2>2. ASSUME NEW x \in ToSet(list) PROVE x \in ToSet(c)
    BY <1>3, <1>4 DEF ToSet
  <2>3. ASSUME NEW x \in ToSet(t) PROVE x \in ToSet(c)
    <3>1. PICK j \in 1 .. Len(t) : t[j] = x BY <1>3 DEF ToSet
    <3>2. Len(list) + j \in DOMAIN c /\ c[Len(list) + j] = x BY <3>1, <1>3, <1>4
    <3> QED BY <3>2 DEF ToSet
  <2> QED BY <2>1, <2>2, <2>3
<1>7. ASSUME IsInjective(list), ToSet(list) \cap S = {} PROVE IsInjective(c)
  <2> SUFFICES ASSUME NEW i \in DOMAIN c, NEW j \in DOMAIN c, c[i] = c[j] PROVE i = j
    BY DEF IsInjective
  <2>1. CASE i \in 1 .. Len(list) /\ j \in 1 .. Len(list)
    BY <2>1, <1>3, <1>4, <1>7 DEF IsInjective
  <2>2. \A k \in 1 .. Len(list) : c[k] \in ToSet(list) BY <1>3, <1>4 DEF ToSet
  <2>3. \A k \in DOMAIN c : k \notin 1 .. Len(list) => c[k] \in S
    BY <1>1, <1>3, <1>5 DEF ToSet
  <2>4. CASE i \notin 1 .. Len(list) /\ j \notin 1 .. Len(list)
    BY <2>4, <1>1, <1>3, <1>5 DEF IsInjective
  <2> QED BY <2>1, <2>2, <2>3, <2>4, <1>7
<1> QED BY <1>1, <1>4, <1>6, <1>7 DEF c, t

LEMMA ListShrinks ==
    ASSUME NEW list \in Seq(Others), NEW ip
    PROVE  /\ RemoveFirst(list, ip) \in Seq(Others)
           /\ IsInjective(list) =>
                /\ IsInjective(RemoveFirst(list, ip))
                /\ ToSet(RemoveFirst(list, ip)) = ToSet(list) \ {ip}
<1>1. CASE ~\E i \in 1 .. Len(list) : list[i] = ip
  <2>1. RemoveFirst(list, ip) = list BY <1>1 DEF RemoveFirst
  <2>2. ip \notin ToSet(list) BY <1>1 DEF ToSet
  <2> QED BY <2>1, <2>2
<1>2. CASE \E i \in 1 .. Len(list) : list[i] = ip
  <2> DEFINE I == {i \in 1 .. Len(list) : list[i] = ip}
             n == Len(list)
  <2>1. I \in SUBSET Nat /\ I # {} BY <1>2
  <2>2. Min(I) \in I BY <2>1, LeastOf
  <2>3. SelectInSeq(list, LAMBDA v : v = ip) = Min(I) BY <2>1 DEF SelectInSeq
  <2>4. PICK k \in 1 .. n : list[k] = ip /\ RemoveFirst(list, ip) = RemoveAt(list, k)
    BY <2>2, <2>3, <1>2 DEF RemoveFirst
  <2> DEFINE r == SubSeq(list, 1, k - 1) \o SubSeq(list, k + 1, n)
  <2>5. RemoveFirst(list, ip) = r BY <2>4 DEF RemoveAt
  <2>6. /\ r \in Seq(Others) /\ Len(r) = n - 1
        /\ \A i \in 1 .. n - 1 : r[i] = IF i < k THEN list[i] ELSE list[i + 1]
    <3>1. n \in Nat /\ k \in 1 .. n OBVIOUS
    <3>2. /\ SubSeq(list, 1, k - 1) \in Seq(Others) /\ Len(SubSeq(list, 1, k - 1)) = k - 1
          /\ SubSeq(list, k + 1, n) \in Seq(Others) /\ Len(SubSeq(list, k + 1, n)) = n - k
          /\ \A i \in 1 .. k - 1 : SubSeq(list, 1, k - 1)[i] = list[i]
          /\ \A i \in 1 .. n - k : SubSeq(list, k + 1, n)[i] = list[k + i]
      BY <3>1
    <3> DEFINE a == SubSeq(list, 1, k - 1)
               b == SubSeq(list, k + 1, n)
    <3> HIDE DEF a, b
    <3>3. /\ a \in Seq(Others) /\ Len(a) = k - 1 /\ b \in Seq(Others) /\ Len(b) = n - k
          /\ \A i \in 1 .. k - 1 : a[i] = list[i]
          /\ \A i \in 1 .. n - k : b[i] = list[k + i]
      BY <3>2 DEF a, b
    <3>4. /\ a \o b \in Seq(Others) /\ Len(a \o b) = Len(a) + Len(b)
          /\ \A i \in 1 .. Len(a) : (a \o b)[i] = a[i]
          /\ \A i \in 1 .. Len(b) : (a \o b)[Len(a) + i] = b[i]
      <4>1. a \in Seq(Others) /\ b \in Seq(Others) BY <3>3
      <4> QED BY ONLY <4>1, Concatenation
    <3> DEFINE c == a \o b
    <3>6. /\ c \in Seq(Others) /\ Len(c) = n - 1
          /\ \A i \in 1 .. k - 1 : c[i] = a[i]
          /\ \A i \in 1 .. n - k : c[k - 1 + i] = b[i]
      BY <3>1, <3>3, <3>4
    <3> HIDE DEF c
    <3>5. ASSUME NEW i \in 1 .. n - 1
          PROVE  c[i] = IF i < k THEN list[i] ELSE list[i + 1]
      <4>1. CASE i < k BY <4>1, <3>1, <3>3, <3>6
      <4>2. CASE ~(i < k)
        <5> DEFINE j == i - (k - 1)
        <5>1. j \in 1 .. n - k /\ k + j = i + 1 /\ k - 1 + j = i BY <4>2, <3>1
        <5> HIDE DEF j
        <5>2. b[j] = list[i + 1] /\ c[i] = b[j]
          <6>1. b[j] = list[k + j] /\ c[k - 1 + j] = b[j] BY <5>1, <3>3, <3>6
          <6> QED BY <5>1, <6>1
        <5> QED BY <4>2, <5>2
      <4> QED BY <4>1, <4>2
    <3> QED BY <3>6, <3>5 DEF a, b, c
  <2> HIDE DEF r
  <2>7. n \in Nat /\ DOMAIN list = 1 .. n /\ DOMAIN r = 1 .. n - 1 BY <2>6
  <2>8. ASSUME IsInjective(list) PROVE IsInjective(r)
    BY <2>4, <2>6, <2>7, <2>8, SMTT(20) DEF IsInjective
  <2>9. ASSUME IsInjective(list) PROVE ToSet(r) = ToSet(list) \ {ip}
    <3>1. ASSUME NEW i \in 1 .. n - 1 PROVE r[i] \in ToSet(list) /\ r[i] # ip
      <4> DEFINE j == IF i < k THEN i ELSE i + 1
      <4>1. j \in 1 .. n /\ j # k /\ r[i] = list[j] BY <2>4, <2>6, <2>7
      <4>2. list[j] # list[k] BY <4>1, <2>4, <2>7, <2>9 DEF IsInjective
      <4> QED BY <4>1, <4>2, <2>4, <2>7 DEF ToSet
    <3>2. ASSUME NEW i \in 1 .. n, list[i] # ip PROVE \E j \in 1 .. n - 1 : r[j] = list[i]
      <4>1. CASE i < k
        <5>1. i \in 1 .. n - 1 /\ r[i] = list[i] BY <4>1, <2>6, <2>7
        <5> QED BY <5>1
      <4>2. CASE i > k
        <5>1. i - 1 \in 1 .. n - 1 /\ r[i - 1] = list[i] BY <4>2, <2>6, <2>7
        <5> QED BY <5>1
      <4> QED BY <4>1, <4>2, <3>2, <2>4, <2>7
    <3>3. ToSet(r) \subseteq ToSet(list) \ {ip} BY <3>1, <2>7 DEF ToSet
    <3>4. ToSet(list) \ {ip} \subseteq ToSet(r) BY <3>2, <2>7 DEF ToSet
    <3> QED BY <3>3, <3>4
  <2> QED BY <2>5, <2>6, <2>8, <2>9
<1> QED BY <1>1, <1>2

-----------------------------------------------------------------------------
(***************************************************************************)
(* The functions of the window, field by field.                            *)
(***************************************************************************)
\* What is left alone by what concerns members and pictures only.
SameButtons(r, u) ==
    /\ r.audioText = u.audioText /\ r.openVedio = u.openVedio
    /\ r.inMeeting = u.inMeeting /\ r.visible = u.visible /\ r.session = u.session

SameDevice(r, u) ==
    /\ r.video.mainIp = u.video.mainIp /\ r.video.localIp = u.video.localIp
    /\ r.video.isRunning = u.video.isRunning

LEMMA AddPartners ==
    ASSUME NEW u, UiOK(u), NEW ips \in SUBSET Ips
    PROVE  LET a == add_partners(u, ips)
               new == ips \ u.partner
           IN  /\ UiOK(a) /\ SameButtons(a, u) /\ SameDevice(a, u)
               /\ a.partner = u.partner \cup ips
               /\ a.iplist = u.iplist /\ a.selected = u.selected
               /\ a.openAudio => u.openAudio \/ a.partner \ {Self} # {}
               /\ u.openAudio => a.openAudio
               /\ a.video.lastImages = u.video.lastImages \ new
               /\ a.video.main = IF u.video.mainIp \in new THEN "avatar" ELSE u.video.main
<1> DEFINE a == add_partners(u, ips)
           new == ips \ u.partner
           V == addPartnerDisplays(u.video, ips)
<1>1. /\ u \in UiType /\ u.selected \subseteq u.partner /\ u.video \in VideoType
      /\ u.partner \in SUBSET Ips /\ DOMAIN u.video.displays = u.partner
      /\ \A ip \in u.partner :
           u.video.displays[ip] = IF ip \in u.video.lastImages THEN "picture" ELSE "avatar"
  BY DEF UiOK, UiType, Tiles
<1>2. CASE ips \subseteq u.partner
  <2>1. a = u BY <1>2 DEF add_partners
  <2>2. u.partner \cup ips = u.partner /\ new = {} BY <1>2
  <2> QED BY <2>1, <2>2, <1>1 DEF SameButtons, SameDevice, UiType, VideoType
<1>3. CASE ~(ips \subseteq u.partner)
  <2> DEFINE open == u.openAudio \/ Cardinality(u.partner \cup ips) > 1
  <2>1. a = [u EXCEPT !.partner = u.partner \cup ips, !.video = V, !.openAudio = open]
    BY <1>3 DEF add_partners
  <2>2. open \in BOOLEAN /\ (u.openAudio => open)
        /\ (open => u.openAudio \/ (u.partner \cup ips) \ {Self} # {})
    <3>1. u.partner \cup ips \in SUBSET Ips BY <1>1
    <3> QED BY <1>1, <3>1, SomebodyElse DEF UiType
  <2>3. /\ V \in VideoType
        /\ DOMAIN V.displays = u.partner \cup ips
        /\ \A i \in u.partner \cup ips :
             V.displays[i] = IF i \in u.partner THEN u.video.displays[i] ELSE "avatar"
        /\ V.lastImages = u.video.lastImages \ new
        /\ V.main = IF u.video.mainIp \in new THEN "avatar" ELSE u.video.main
        /\ V.mainIp = u.video.mainIp /\ V.localIp = u.video.localIp
        /\ V.isRunning = u.video.isRunning
    BY <1>1, AddPartnerDisplays
  <2> HIDE DEF V, open, a
  <2>4. /\ a \in UiType /\ a.partner = u.partner \cup ips /\ a.video = V
        /\ a.openAudio = open /\ a.iplist = u.iplist /\ a.selected = u.selected
        /\ SameButtons(a, u)
    BY <1>1, <2>1, <2>2, <2>3 DEF UiType, SameButtons
  <2>5. \A i \in u.partner \cup ips :
          V.displays[i] = IF i \in V.lastImages THEN "picture" ELSE "avatar"
    BY <1>1, <2>3
  <2>6. UiOK(a) BY <2>3, <2>4, <2>5, <1>1 DEF UiOK, Tiles
  <2> QED BY <2>2, <2>3, <2>4, <2>6 DEF a, SameDevice
<1> QED BY <1>2, <1>3

LEMMA JoinPartners ==
    ASSUME NEW u, UiOK(u), NEW ips \in SUBSET Others
    PROVE  LET a == join_partners(u, ips)
               new == ips \ u.partner
           IN  /\ UiOK(a) /\ SameButtons(a, u) /\ SameDevice(a, u)
               /\ a.partner = u.partner \cup ips
               /\ a.iplist = u.iplist \o SetToSeq(new) /\ a.selected = u.selected
               /\ a.openAudio => u.openAudio \/ a.partner \ {Self} # {}
               /\ u.openAudio => a.openAudio
               /\ a.video.lastImages = u.video.lastImages \ new
               /\ a.video.main = IF u.video.mainIp \in new THEN "avatar" ELSE u.video.main
<1> DEFINE new == ips \ u.partner
           b == add_partners(u, ips)
           V == showAvatars(b.video, new)
           list == u.iplist \o SetToSeq(new)
           a == join_partners(u, ips)
<1>1. ips \in SUBSET Ips BY DEF Ips
<1>2. /\ UiOK(b) /\ SameButtons(b, u) /\ SameDevice(b, u)
      /\ b.partner = u.partner \cup ips
      /\ b.iplist = u.iplist /\ b.selected = u.selected
      /\ b.openAudio => u.openAudio \/ b.partner \ {Self} # {}
      /\ u.openAudio => b.openAudio
      /\ b.video.lastImages = u.video.lastImages \ new
      /\ b.video.main = IF u.video.mainIp \in new THEN "avatar" ELSE u.video.main
  BY <1>1, AddPartners
<1> HIDE DEF b
<1>3. /\ b \in UiType /\ b.video \in VideoType /\ DOMAIN b.video.displays = b.partner
      /\ b.selected \subseteq b.partner
      /\ \A ip \in b.partner :
           b.video.displays[ip] = IF ip \in b.video.lastImages THEN "picture" ELSE "avatar"
  BY <1>2 DEF UiOK, UiType, Tiles
<1>4. /\ V \in VideoType
      /\ DOMAIN V.displays = b.partner
      /\ \A i \in b.partner :
           V.displays[i] = IF i \in new THEN "avatar" ELSE b.video.displays[i]
      /\ V.lastImages = b.video.lastImages \ new
      /\ V.main = IF b.video.mainIp \in new THEN "avatar" ELSE b.video.main
      /\ V.mainIp = b.video.mainIp /\ V.localIp = b.video.localIp
      /\ V.isRunning = b.video.isRunning
  BY <1>3, ShowAvatars
<1>5. list \in Seq(Others)
  <2>1. u.iplist \in Seq(Others) /\ new \in SUBSET Others BY DEF UiOK, UiType
  <2> QED BY <2>1, ListGrows
<1>6. a = [b EXCEPT !.video = V, !.iplist = list] BY <1>2 DEF join_partners, b
<1> HIDE DEF V, list, a, new
<1>7. /\ a \in UiType /\ a.video = V /\ a.iplist = list /\ a.partner = b.partner
      /\ a.selected = b.selected /\ a.openAudio = b.openAudio /\ SameButtons(a, u)
  BY <1>2, <1>3, <1>4, <1>5, <1>6 DEF UiType, SameButtons
<1>8. \A i \in b.partner :
        V.displays[i] = IF i \in V.lastImages THEN "picture" ELSE "avatar"
  BY <1>3, <1>4
<1>9. UiOK(a) BY <1>3, <1>4, <1>7, <1>8 DEF UiOK, Tiles
<1>10. /\ SameDevice(a, u)
       /\ a.video.lastImages = u.video.lastImages \ new
       /\ a.video.main = IF u.video.mainIp \in new THEN "avatar" ELSE u.video.main
  BY <1>2, <1>4, <1>7 DEF SameDevice
<1> QED BY <1>2, <1>7, <1>9, <1>10 DEF a, new, list

LEMMA RemovePartner ==
    ASSUME NEW u, UiOK(u), NEW ip
    PROVE  LET r == remove_partner(u, ip)
           IN  /\ UiOK(r) /\ SameDevice(r, u)
               /\ r.partner = u.partner \ {ip} /\ r.iplist = u.iplist
               /\ r.selected = u.selected \ {ip}
               /\ IF LeftAlone(u, ip) THEN r.audioText = Open /\ r.openAudio = FALSE
                  ELSE r.audioText = u.audioText /\ r.openAudio = u.openAudio
               /\ r.openVedio = u.openVedio /\ r.inMeeting = u.inMeeting
               /\ r.visible = u.visible /\ r.session = u.session
               /\ r.video.lastImages = u.video.lastImages /\ r.video.main = u.video.main
<1> DEFINE r == remove_partner(u, ip)
           V == removePartnerDisplay(u.video, ip)
<1>1. /\ u \in UiType /\ u.selected \subseteq u.partner /\ u.video \in VideoType
      /\ u.partner \in SUBSET Ips /\ DOMAIN u.video.displays = u.partner
      /\ \A i \in u.partner :
           u.video.displays[i] = IF i \in u.video.lastImages THEN "picture" ELSE "avatar"
  BY DEF UiOK, UiType, Tiles
<1>2. CASE ip \notin u.partner
  <2>1. r = u /\ ~LeftAlone(u, ip) BY <1>2 DEF remove_partner, LeftAlone
  <2>2. u.partner \ {ip} = u.partner /\ u.selected \ {ip} = u.selected BY <1>1, <1>2
  <2> QED BY <2>1, <2>2 DEF SameDevice
<1>3. CASE ip \in u.partner
  <2>1. /\ V \in VideoType
        /\ DOMAIN V.displays = u.partner \ {ip}
        /\ \A i \in u.partner \ {ip} : V.displays[i] = u.video.displays[i]
        /\ V.lastImages = u.video.lastImages /\ V.main = u.video.main
        /\ V.mainIp = u.video.mainIp /\ V.localIp = u.video.localIp
        /\ V.isRunning = u.video.isRunning
    BY <1>1, RemovePartnerDisplay
  <2> DEFINE text == IF LeftAlone(u, ip) THEN Open ELSE u.audioText
             open == IF LeftAlone(u, ip) THEN FALSE ELSE u.openAudio
  <2> DEFINE x == [u EXCEPT !.partner = u.partner \ {ip},
                            !.selected = u.selected \ {ip}, !.video = V]
  <2>2. r = IF LeftAlone(u, ip) THEN [x EXCEPT !.audioText = Open, !.openAudio = FALSE]
            ELSE x
    BY <1>3 DEF remove_partner
  <2>3. text \in {Open, Close} /\ open \in BOOLEAN BY <1>1 DEF UiType
  <2> HIDE DEF V, r
  <2>4. /\ x \in UiType /\ x.partner = u.partner \ {ip} /\ x.iplist = u.iplist
        /\ x.selected = u.selected \ {ip} /\ x.audioText = u.audioText
        /\ x.openAudio = u.openAudio /\ x.openVedio = u.openVedio
        /\ x.inMeeting = u.inMeeting /\ x.visible = u.visible
        /\ x.session = u.session /\ x.video = V
    <3>1. u.partner \ {ip} \in SUBSET Ips /\ u.selected \ {ip} \in SUBSET Ips
      BY <1>1
    <3> QED BY <1>1, <2>1, <3>1 DEF UiType
  <2> HIDE DEF x
  <2>6. /\ r \in UiType /\ r.partner = x.partner /\ r.iplist = x.iplist
        /\ r.selected = x.selected /\ r.audioText = text
        /\ r.openAudio = open /\ r.openVedio = x.openVedio
        /\ r.inMeeting = x.inMeeting /\ r.visible = x.visible
        /\ r.session = x.session /\ r.video = x.video
    <3>1. CASE LeftAlone(u, ip) BY <3>1, <2>2, <2>4 DEF UiType, Open, Close
    <3>2. CASE ~LeftAlone(u, ip) BY <3>2, <2>2, <2>4
    <3> QED BY <3>1, <3>2
  <2> HIDE DEF text, open
  <2>5. UiOK(r) BY <1>1, <2>1, <2>4, <2>6 DEF UiOK, Tiles
  <2> QED BY <2>1, <2>4, <2>5, <2>6 DEF SameDevice, r, text, open
<1> QED BY <1>2, <1>3

\* Everything but the pictures.
SameButVideo(r, u) ==
    /\ r.partner = u.partner /\ r.iplist = u.iplist /\ r.selected = u.selected
    /\ r.openAudio = u.openAudio /\ SameButtons(r, u)

TilesOf(V, P) ==
    /\ DOMAIN V.displays = P
    /\ \A i \in P : V.displays[i] = IF i \in V.lastImages THEN "picture" ELSE "avatar"

LEMMA OtherVideo ==
    ASSUME NEW u, UiOK(u), NEW V \in VideoType, TilesOf(V, u.partner)
    PROVE  LET r == [u EXCEPT !.video = V]
           IN  UiOK(r) /\ r.video = V /\ SameButVideo(r, u)
<1> DEFINE r == [u EXCEPT !.video = V]
<1>1. r \in UiType /\ r.video = V /\ SameButVideo(r, u)
  BY DEF UiOK, UiType, SameButVideo, SameButtons
<1> HIDE DEF r
<1> QED BY <1>1 DEF UiOK, Tiles, TilesOf, SameButVideo, r

LEMMA VideoOfUi ==
    ASSUME NEW u, UiOK(u)
    PROVE  /\ u \in UiType /\ u.video \in VideoType /\ TilesOf(u.video, u.partner)
           /\ u.partner \in SUBSET Ips /\ u.iplist \in Seq(Others)
           /\ u.selected \subseteq u.partner
           /\ u.video.lastImages \in SUBSET Ips /\ u.video.isRunning \in BOOLEAN
BY DEF UiOK, UiType, Tiles, TilesOf, VideoType

LEMMA PartnerExit ==
    \A u, ip, r : UiOK(u) /\ ip \in Ips /\ r = handle_partner_exit(u, ip) =>
           /\ UiOK(r) /\ SameDevice(r, u)
           /\ r.partner = u.partner \ {ip} /\ r.iplist = RemoveFirst(u.iplist, ip)
           /\ r.selected = u.selected \ {ip}
           /\ IF LeftAlone(u, ip) THEN r.audioText = Open /\ r.openAudio = FALSE
              ELSE r.audioText = u.audioText /\ r.openAudio = u.openAudio
           /\ r.openVedio = u.openVedio /\ r.inMeeting = u.inMeeting
           /\ r.visible = u.visible /\ r.session = u.session
           /\ r.video.lastImages = u.video.lastImages
           /\ r.video.main = IF ip = u.video.mainIp THEN "avatar" ELSE u.video.main
<1> TAKE u, ip, r
<1> HAVE UiOK(u) /\ ip \in Ips /\ r = handle_partner_exit(u, ip)
<1> DEFINE p == remove_partner(u, ip)
           list == RemoveFirst(u.iplist, ip)
           q == [p EXCEPT !.iplist = list]
           V == showMainAvatar(q.video)
<1>1. /\ UiOK(p) /\ SameDevice(p, u)
      /\ p.partner = u.partner \ {ip} /\ p.iplist = u.iplist
      /\ p.selected = u.selected \ {ip}
      /\ IF LeftAlone(u, ip) THEN p.audioText = Open /\ p.openAudio = FALSE
         ELSE p.audioText = u.audioText /\ p.openAudio = u.openAudio
      /\ p.openVedio = u.openVedio /\ p.inMeeting = u.inMeeting
      /\ p.visible = u.visible /\ p.session = u.session
      /\ p.video.lastImages = u.video.lastImages /\ p.video.main = u.video.main
  BY RemovePartner
<1>2. list \in Seq(Others) BY VideoOfUi, ListShrinks
<1>3. r = IF ip = u.video.mainIp THEN [q EXCEPT !.video = V] ELSE q
  BY <1>1 DEF handle_partner_exit
<1> HIDE DEF p, list
<1>4. /\ UiOK(q) /\ q.video = p.video /\ q.iplist = list /\ q.partner = p.partner
      /\ q.selected = p.selected /\ q.audioText = p.audioText
      /\ q.openAudio = p.openAudio /\ SameButtons(q, p)
  <2>1. /\ q \in UiType /\ q.video = p.video /\ q.iplist = list /\ q.partner = p.partner
        /\ q.selected = p.selected /\ q.audioText = p.audioText
        /\ q.openAudio = p.openAudio /\ SameButtons(q, p)
    BY <1>1, <1>2 DEF UiOK, UiType, SameButtons
  <2> HIDE DEF q
  <2> QED BY <1>1, <2>1 DEF UiOK, Tiles
<1> HIDE DEF q
<1>5. /\ V \in VideoType /\ V.displays = q.video.displays
      /\ V.lastImages = q.video.lastImages
      /\ V.main = "avatar" /\ V.mainIp = q.video.mainIp
      /\ V.localIp = q.video.localIp /\ V.isRunning = q.video.isRunning
  BY <1>4, VideoOfUi, MainScreen DEF SameTiles
<1> HIDE DEF V
<1>6. CASE ip # u.video.mainIp
  <2>1. r = q BY <1>3, <1>6
  <2> QED BY <2>1, <1>1, <1>4, <1>6 DEF SameButtons, SameDevice, list
<1>7. CASE ip = u.video.mainIp
  <2>1. r = [q EXCEPT !.video = V] BY <1>3, <1>7
  <2>2. TilesOf(V, q.partner) BY <1>4, <1>5, VideoOfUi DEF TilesOf
  <2>3. UiOK(r) /\ r.video = V /\ SameButVideo(r, q)
    BY <1>4, <1>5, <2>1, <2>2, OtherVideo
  <2> QED BY <2>3, <1>1, <1>4, <1>5, <1>7 DEF SameButtons, SameDevice, SameButVideo, list
<1> QED BY <1>6, <1>7

\* What the handlers of the pictures do.
LEMMA ImgRecv ==
    ASSUME NEW u, UiOK(u), NEW ip \in Ips
    PROVE  LET r == handle_img_recv(u, ip)
           IN  /\ UiOK(r) /\ SameButtons(r, u) /\ SameDevice(r, u)
               /\ r.partner = u.partner \cup {ip}
               /\ r.iplist = u.iplist /\ r.selected = u.selected
               /\ r.openAudio => u.openAudio \/ r.partner \ {Self} # {}
               /\ u.openAudio => r.openAudio
               /\ r.video.lastImages = u.video.lastImages \cup {ip}
               /\ r.video.main =
                    IF u.video.mainIp = ip THEN ip ELSE u.video.main
<1> DEFINE a == add_partners(u, {ip})
           V == showImageForIp(a.video, ip)
           r == handle_img_recv(u, ip)
           new == {ip} \ u.partner
<1>1. /\ UiOK(a) /\ SameButtons(a, u) /\ SameDevice(a, u)
      /\ a.partner = u.partner \cup {ip}
      /\ a.iplist = u.iplist /\ a.selected = u.selected
      /\ a.openAudio => u.openAudio \/ a.partner \ {Self} # {}
      /\ u.openAudio => a.openAudio
      /\ a.video.lastImages = u.video.lastImages \ new
      /\ a.video.main = IF u.video.mainIp \in new THEN "avatar" ELSE u.video.main
  <2>1. {ip} \in SUBSET Ips OBVIOUS
  <2> QED BY <2>1, AddPartners
<1>2. r = [a EXCEPT !.video = V] BY DEF handle_img_recv
<1> HIDE DEF a, r
<1>3. /\ V \in VideoType
      /\ DOMAIN V.displays = a.partner
      /\ \A i \in a.partner :
           V.displays[i] = IF i = ip THEN "picture" ELSE a.video.displays[i]
      /\ V.lastImages = a.video.lastImages \cup {ip}
      /\ V.main = IF a.video.mainIp = ip THEN ip ELSE a.video.main
      /\ V.mainIp = a.video.mainIp /\ V.localIp = a.video.localIp
      /\ V.isRunning = a.video.isRunning
  <2>1. a.video \in VideoType /\ DOMAIN a.video.displays = a.partner
    BY <1>1, VideoOfUi DEF TilesOf
  <2> QED BY <2>1, ShowImageForIp
<1> HIDE DEF V
<1>4. TilesOf(V, a.partner) BY <1>1, <1>3, VideoOfUi DEF TilesOf
<1>5. UiOK(r) /\ r.video = V /\ SameButVideo(r, a)
  <2>1. UiOK(a) /\ V \in VideoType BY <1>1, <1>3
  <2> QED BY <1>2, <1>4, <2>1, OtherVideo
<1>6. V.lastImages = u.video.lastImages \cup {ip} BY <1>1, <1>3
<1> QED BY <1>1, <1>3, <1>5, <1>6 DEF SameButtons, SameDevice, SameButVideo, r

LEMMA CloseImg ==
    ASSUME NEW u, UiOK(u), NEW ip \in Ips
    PROVE  LET r == close_img(u, ip)
           IN  /\ UiOK(r) /\ SameButVideo(r, u) /\ SameDevice(r, u)
               /\ r.video.lastImages =
                    IF ip \in u.partner THEN u.video.lastImages \ {ip}
                    ELSE u.video.lastImages
               /\ r.video.main =
                    IF ip \in u.partner /\ u.video.mainIp = ip THEN "avatar"
                    ELSE u.video.main
<1> DEFINE V == showAvatars(u.video, {ip})
           r == close_img(u, ip)
<1>1. /\ V \in VideoType
      /\ DOMAIN V.displays = u.partner
      /\ \A i \in u.partner :
           V.displays[i] = IF i \in {ip} THEN "avatar" ELSE u.video.displays[i]
      /\ V.lastImages = u.video.lastImages \ {ip}
      /\ V.main = IF u.video.mainIp \in {ip} THEN "avatar" ELSE u.video.main
      /\ V.mainIp = u.video.mainIp /\ V.localIp = u.video.localIp
      /\ V.isRunning = u.video.isRunning
  BY VideoOfUi, ShowAvatars DEF TilesOf
<1>2. r = IF ip \in u.partner THEN [u EXCEPT !.video = V] ELSE u BY DEF close_img
<1> HIDE DEF V, r
<1>3. TilesOf(V, u.partner) BY <1>1, VideoOfUi DEF TilesOf
<1>4. CASE ip \in u.partner
  <2>1. UiOK(r) /\ r.video = V /\ SameButVideo(r, u) BY <1>1, <1>2, <1>3, <1>4, OtherVideo
  <2> QED BY <2>1, <1>1, <1>4 DEF SameDevice, r
<1>5. CASE ip \notin u.partner
  BY <1>2, <1>5 DEF SameDevice, SameButVideo, SameButtons, r
<1> QED BY <1>4, <1>5

LEMMA EnterRoom ==
    ASSUME NEW u, UiOK(u)
    PROVE  LET r == enter_room(u)
           IN  /\ UiOK(r)
               /\ r.partner = u.partner \cup {Self}
               /\ r.iplist = u.iplist /\ r.selected = u.selected
               /\ r.audioText = u.audioText /\ r.openVedio = u.openVedio
               /\ r.inMeeting = TRUE /\ r.visible = u.visible /\ r.session = u.session
               /\ r.openAudio => u.openAudio \/ r.partner \ {Self} # {}
               /\ u.openAudio => r.openAudio
               /\ r.video.lastImages = u.video.lastImages \ ({Self} \ u.partner)
               /\ r.video.main = "avatar" /\ r.video.mainIp = Self
               /\ r.video.isRunning = u.video.isRunning
<1> DEFINE a == add_partners(u, {Self})
           b == [a EXCEPT !.inMeeting = TRUE]
           V == showMainAvatar(setLocalAndMainIp(a.video, Self))
           r == enter_room(u)
<1>1. /\ UiOK(a) /\ SameButtons(a, u) /\ SameDevice(a, u)
      /\ a.partner = u.partner \cup {Self}
      /\ a.iplist = u.iplist /\ a.selected = u.selected
      /\ a.openAudio => u.openAudio \/ a.partner \ {Self} # {}
      /\ u.openAudio => a.openAudio
      /\ a.video.lastImages = u.video.lastImages \ ({Self} \ u.partner)
  <2>1. {Self} \in SUBSET Ips BY DEF Ips
  <2> QED BY <2>1, AddPartners
<1>2. r = [a EXCEPT !.inMeeting = TRUE, !.video = V] BY DEF enter_room
<1> HIDE DEF a, r
<1>3. /\ V \in VideoType /\ V.displays = a.video.displays
      /\ V.lastImages = a.video.lastImages /\ V.main = "avatar" /\ V.mainIp = Self
      /\ V.localIp = Self /\ V.isRunning = a.video.isRunning
  <2>1. Self \in Ips BY DEF Ips
  <2> QED BY <1>1, <2>1, VideoOfUi, MainScreen DEF SameTiles
<1> HIDE DEF V
<1>4. r = [b EXCEPT !.video = V] BY <1>2
<1>5. /\ UiOK(b) /\ b.inMeeting = TRUE /\ b.video = a.video /\ b.partner = a.partner
      /\ b.iplist = a.iplist /\ b.selected = a.selected /\ b.audioText = a.audioText
      /\ b.openAudio = a.openAudio /\ b.openVedio = a.openVedio
      /\ b.visible = a.visible /\ b.session = a.session
  <2>1. /\ b \in UiType /\ b.inMeeting = TRUE /\ b.video = a.video /\ b.partner = a.partner
        /\ b.iplist = a.iplist /\ b.selected = a.selected /\ b.audioText = a.audioText
        /\ b.openAudio = a.openAudio /\ b.openVedio = a.openVedio
        /\ b.visible = a.visible /\ b.session = a.session
    BY <1>1 DEF UiOK, UiType
  <2> HIDE DEF b
  <2> QED BY <1>1, <2>1 DEF UiOK, Tiles
<1> HIDE DEF b
<1>6. TilesOf(V, b.partner) BY <1>1, <1>3, <1>5, VideoOfUi DEF TilesOf
<1>7. UiOK(r) /\ r.video = V /\ SameButVideo(r, b) BY <1>3, <1>4, <1>5, <1>6, OtherVideo
<1> QED BY <1>1, <1>3, <1>5, <1>7 DEF SameButtons, SameDevice, SameButVideo, r

LEMMA EndMeetingSession ==
    ASSUME NEW u, UiOK(u)
    PROVE  LET r == end_meeting_session(u)
           IN  /\ UiOK(r)
               /\ r.partner = {} /\ r.iplist = << >> /\ r.selected = {}
               /\ r.openAudio = FALSE /\ r.openVedio = FALSE
               /\ r.inMeeting = FALSE /\ r.visible = u.visible
               /\ r.session = IF u.session = "active" THEN "ending" ELSE u.session
               /\ r.video.lastImages = IF u.partner = {} THEN u.video.lastImages ELSE {}
               /\ r.video.main = "blank" /\ r.video.isRunning = FALSE
<1> DEFINE W == endVideo(u.video)
           e == [u EXCEPT !.video = W, !.inMeeting = FALSE]
           V == clearAllPartnerDisplays(W)
           c == clear_partner(e)
           d == [c EXCEPT !.openAudio = FALSE, !.openVedio = FALSE, !.iplist = << >>]
           s == IF u.session = "active" THEN "ending" ELSE u.session
           r == end_meeting_session(u)
<1>0. u \in UiType /\ u.selected \subseteq u.partner /\ DOMAIN u.video.displays = u.partner
      /\ u.video \in VideoType
  BY VideoOfUi DEF TilesOf
<1>1. /\ W \in VideoType /\ DOMAIN W.displays = u.partner
      /\ W.lastImages = u.video.lastImages /\ W.main = "blank"
      /\ W.mainIp = u.video.mainIp /\ W.localIp = u.video.localIp
      /\ W.isRunning = FALSE
  BY <1>0, EndVideo
<1> HIDE DEF W
<1>2. /\ V \in VideoType /\ DOMAIN V.displays = {} /\ V.lastImages = {}
      /\ V.main = "blank" /\ V.isRunning = FALSE
  BY <1>1, ClearAllPartnerDisplays
<1>3. /\ e \in UiType /\ e.video = W /\ e.inMeeting = FALSE /\ e.partner = u.partner
      /\ e.selected = u.selected /\ e.visible = u.visible /\ e.session = u.session
  BY <1>0, <1>1 DEF UiType
<1>4. c = IF e.partner = {} THEN e
          ELSE [e EXCEPT !.partner = {}, !.selected = {}, !.video = V,
                         !.audioText = Close, !.openAudio = FALSE, !.openVedio = FALSE]
  BY <1>3 DEF clear_partner
<1>5. r = [d EXCEPT !.session = IF d.session = "active" THEN "ending" ELSE d.session]
  BY DEF end_meeting_session, reset_meeting_ui, W
<1> HIDE DEF V, e, c, d, r
<1>6. /\ c \in UiType /\ c.inMeeting = FALSE /\ c.partner = {} /\ c.selected = {}
      /\ c.visible = u.visible /\ c.session = u.session
      /\ DOMAIN c.video.displays = {}
      /\ c.video.lastImages = IF u.partner = {} THEN u.video.lastImages ELSE {}
      /\ c.video.main = "blank" /\ c.video.isRunning = FALSE
  <2>1. CASE u.partner = {}
    <3>1. c = e BY <1>3, <1>4, <2>1
    <3> QED BY <1>0, <1>1, <1>3, <2>1, <3>1
  <2>2. CASE u.partner # {}
    <3>1. c = [e EXCEPT !.partner = {}, !.selected = {}, !.video = V,
                        !.audioText = Close, !.openAudio = FALSE, !.openVedio = FALSE]
      BY <1>3, <1>4, <2>2
    <3>2. /\ c \in UiType /\ c.inMeeting = FALSE /\ c.partner = {} /\ c.selected = {}
          /\ c.visible = u.visible /\ c.session = u.session /\ c.video = V
      BY <1>2, <1>3, <3>1 DEF UiType
    <3> QED BY <1>2, <2>2, <3>2
  <2> QED BY <2>1, <2>2
<1>7. /\ d \in UiType /\ d.inMeeting = FALSE /\ d.partner = {} /\ d.selected = {}
      /\ d.visible = u.visible /\ d.session = u.session /\ d.video = c.video
      /\ d.iplist = << >> /\ d.openAudio = FALSE /\ d.openVedio = FALSE
  <2>1. << >> \in Seq(Others) OBVIOUS
  <2> QED BY <1>6, <2>1 DEF UiType, d
<1>8. s \in {"none", "active", "ending"} BY <1>0 DEF UiType
<1>9. r = [d EXCEPT !.session = s] BY <1>5, <1>7
<1> HIDE DEF s
<1>10. /\ r \in UiType /\ r.inMeeting = FALSE /\ r.partner = {} /\ r.selected = {}
       /\ r.visible = u.visible /\ r.session = s /\ r.video = c.video
       /\ r.iplist = << >> /\ r.openAudio = FALSE /\ r.openVedio = FALSE
  BY <1>7, <1>8, <1>9 DEF UiType
<1>11. UiOK(r) BY <1>6, <1>10 DEF UiOK, Tiles
<1> QED BY <1>6, <1>10, <1>11 DEF r, s

\* The buttons, the session and the window itself leave members and pictures
\* alone.
LEMMA OpenVedio ==
    ASSUME NEW u, UiOK(u), NEW b \in BOOLEAN
    PROVE  LET r == [u EXCEPT !.openVedio = b]
           IN  /\ UiOK(r)
               /\ r.video = u.video /\ r.partner = u.partner /\ r.iplist = u.iplist
               /\ r.selected = u.selected /\ r.audioText = u.audioText /\ r.openAudio = u.openAudio
               /\ r.inMeeting = u.inMeeting /\ r.visible = u.visible /\ r.session = u.session
               /\ r.openVedio = b
BY DEF UiOK, UiType, Tiles

LEMMA Disconnected ==
    ASSUME NEW u, UiOK(u)
    PROVE  LET r == [u EXCEPT !.session = "none"]
           IN  /\ UiOK(r)
               /\ r.video = u.video /\ r.partner = u.partner /\ r.iplist = u.iplist
               /\ r.selected = u.selected /\ r.audioText = u.audioText /\ r.openAudio = u.openAudio
               /\ r.openVedio = u.openVedio /\ r.inMeeting = u.inMeeting /\ r.visible = u.visible
               /\ r.session = "none"
BY DEF UiOK, UiType, Tiles

LEMMA Visible ==
    ASSUME NEW u, UiOK(u), NEW b \in BOOLEAN
    PROVE  LET r == [u EXCEPT !.visible = b]
           IN  /\ UiOK(r)
               /\ r.video = u.video /\ r.partner = u.partner /\ r.iplist = u.iplist
               /\ r.selected = u.selected /\ r.audioText = u.audioText /\ r.openAudio = u.openAudio
               /\ r.openVedio = u.openVedio /\ r.inMeeting = u.inMeeting /\ r.session = u.session
               /\ r.visible = b
BY DEF UiOK, UiType, Tiles

LEMMA Connected ==
    ASSUME NEW u, UiOK(u)
    PROVE  LET r == [u EXCEPT !.session = "active", !.openAudio = FALSE,
                              !.openVedio = FALSE]
           IN  /\ UiOK(r)
               /\ r.video = u.video /\ r.partner = u.partner /\ r.iplist = u.iplist
               /\ r.selected = u.selected /\ r.audioText = u.audioText /\ r.inMeeting = u.inMeeting
               /\ r.visible = u.visible
               /\ r.session = "active" /\ r.openAudio = FALSE /\ r.openVedio = FALSE
BY DEF UiOK, UiType, Tiles

LEMMA AudioText ==
    ASSUME NEW u, UiOK(u), NEW text \in {Open, Close}
    PROVE  LET r == [u EXCEPT !.audioText = text]
           IN  /\ UiOK(r)
               /\ r.video = u.video /\ r.partner = u.partner /\ r.iplist = u.iplist
               /\ r.selected = u.selected /\ r.openAudio = u.openAudio /\ r.openVedio = u.openVedio
               /\ r.inMeeting = u.inMeeting /\ r.visible = u.visible /\ r.session = u.session
               /\ r.audioText = text
BY DEF UiOK, UiType, Tiles

-----------------------------------------------------------------------------
(***************************************************************************)
(* What holds of the window as long as nothing has been handled late.      *)
(***************************************************************************)
\* The client lists itself exactly in a meeting, and nobody outside of one; the
\* list for "@" has everybody else, once.
MembersListed(u) ==
    /\ u.inMeeting <=> u.partner # {}
    /\ u.inMeeting <=> Self \in u.partner
    /\ ToSet(u.iplist) = u.partner \ {Self} /\ IsInjective(u.iplist)
    /\ u.selected \subseteq {u.video.mainIp}

\* The main screen shows the last picture of the member chosen, if there is one.
MainShown(u) ==
    u.video.main =
        IF u.video.mainIp \notin u.partner
        THEN IF u.inMeeting THEN "avatar" ELSE "blank"
        ELSE IF u.video.mainIp \in u.video.lastImages THEN u.video.mainIp
        ELSE "avatar"

\* The camera and its button are on in a meeting only, the button of the
\* microphone among others only.
ButtonsJustified(u) ==
    /\ u.openVedio => u.inMeeting
    /\ u.video.isRunning => u.openVedio
    /\ Self \in u.video.lastImages => u.video.isRunning
    /\ u.openAudio => u.partner \ {Self} # {}

MeetingOK(u) == MembersListed(u) /\ MainShown(u) /\ ButtonsJustified(u)

(***************************************************************************)
(* What the client knows of the room, and what a message makes of it.      *)
(***************************************************************************)
Views == [in : BOOLEAN, members : SUBSET Others, pictures : SUBSET Others]

View(u) ==
    [in |-> u.inMeeting, members |-> u.partner \ {Self},
     pictures |-> (u.partner \cap u.video.lastImages) \ {Self}]

Responses == {"CreateMeetingResponse", "JoinMeetingResponse"}
Joins == {"PartnerJoin", "PartnerJoin2"}
Endings == {"RemoteHostClosed", "disconnected"}

\* Is m a message for one who knows v?
Legal(v, m) ==
    /\ m.type \in Responses =>
         ~v.in /\ v.members = {} /\ v.pictures = {}
    /\ m.type = "JoinRefused" => ~v.in
    /\ m.type \in Joins =>
         v.in /\ m.ips \cap v.members = {} /\ m.ips \cap v.pictures = {}
    /\ m.type \in {"PartnerExit", "ImgRecv", "CloseCamera"} =>
         v.in /\ m.ips \subseteq v.members

After(v, m) ==
    [in |-> v.in \/ m.type \in Responses,
     members |-> IF m.type \in Joins THEN v.members \cup m.ips
                 ELSE IF m.type = "PartnerExit" THEN v.members \ m.ips
                 ELSE v.members,
     pictures |-> IF m.type = "ImgRecv" THEN v.pictures \cup m.ips
                  ELSE IF m.type \in {"PartnerExit", "CloseCamera"}
                       THEN v.pictures \ m.ips
                  ELSE v.pictures]

-----------------------------------------------------------------------------
LEMMA AddressOf ==
    ASSUME NEW m, IsMessage(m), m.type \in IpTypes
    PROVE  IpOf(m) \in Others /\ m.ips = {IpOf(m)}
BY DEF IsMessage, IpOf

\* Every message leaves the window in order, late or not.
LEMMA HandledOK ==
    ASSUME NEW u, UiOK(u), NEW m, IsMessage(m)
    PROVE  LET r == Handled(u, m)
           IN  /\ UiOK(r)
               /\ r.session = IF m.type = "disconnected" THEN "none"
                              ELSE IF m.type = "RemoteHostClosed" /\ u.session = "active"
                              THEN "ending" ELSE u.session
               /\ ~StopsMic(u, m) => r.audioText = u.audioText
<1> DEFINE r == Handled(u, m)
<1>0. Self \in Ips /\ Others \subseteq Ips /\ m.ips \in SUBSET Others
  BY DEF Ips, IsMessage
<1>1. CASE m.type \in Responses
  <2> DEFINE e == enter_room(u)
  <2>1. UiOK(e) /\ e.session = u.session /\ e.audioText = u.audioText BY EnterRoom
  <2>2. r = IF m.type = "CreateMeetingResponse" THEN [e EXCEPT !.openVedio = TRUE] ELSE e
    BY <1>1 DEF Handled, Responses
  <2> HIDE DEF e, r
  <2>3. UiOK(r) /\ r.session = e.session /\ r.audioText = e.audioText
    BY <2>1, <2>2, OpenVedio
  <2> QED BY <1>1, <2>1, <2>3 DEF r, Responses
<1>2. CASE m.type = "JoinRefused"
  <2>1. r = [u EXCEPT !.openVedio = FALSE] BY <1>2 DEF Handled
  <2>2. UiOK(r) /\ r.session = u.session /\ r.audioText = u.audioText
    BY <2>1, OpenVedio, ZenonT(30)
  <2> QED BY <1>2, <2>2
<1>3. CASE m.type \in Joins
  <2> DEFINE e == join_partners(u, m.ips)
  <2>1. UiOK(e) /\ SameButtons(e, u) BY <1>0, JoinPartners
  <2>2. r = IF m.type = "PartnerJoin2" THEN [e EXCEPT !.openVedio = TRUE] ELSE e
    BY <1>3 DEF Handled, Joins
  <2> HIDE DEF e, r
  <2>3. UiOK(r) /\ r.session = e.session /\ r.audioText = e.audioText
    BY <2>1, <2>2, OpenVedio
  <2> QED BY <1>3, <2>1, <2>3 DEF r, Joins, SameButtons
<1>4. CASE m.type = "PartnerExit"
  <2>1. IpOf(m) \in Ips BY <1>0, <1>4, AddressOf DEF IpTypes
  <2>2. r = handle_partner_exit(u, IpOf(m)) BY <1>4 DEF Handled
  <2>3. StopsMic(u, m) <=> LeftAlone(u, IpOf(m)) BY <1>4 DEF StopsMic
  <2> HIDE DEF r
  <2>4. /\ UiOK(r) /\ r.session = u.session
        /\ ~LeftAlone(u, IpOf(m)) => r.audioText = u.audioText
    BY <2>1, <2>2, PartnerExit
  <2> QED BY <1>4, <2>3, <2>4 DEF r
<1>5. CASE m.type = "ImgRecv"
  <2>1. IpOf(m) \in Ips BY <1>0, <1>5, AddressOf DEF IpTypes
  <2>2. r = handle_img_recv(u, IpOf(m)) BY <1>5 DEF Handled
  <2> QED BY <1>5, <2>1, <2>2, ImgRecv DEF SameButtons
<1>6. CASE m.type = "CloseCamera"
  <2>1. IpOf(m) \in Ips BY <1>0, <1>6, AddressOf DEF IpTypes
  <2>2. r = close_img(u, IpOf(m)) BY <1>6 DEF Handled
  <2> QED BY <1>6, <2>1, <2>2, CloseImg, ZenonT(30) DEF SameButtons, SameButVideo
<1>7. CASE m.type = "RemoteHostClosed"
  <2>1. r = IF u.session = "ending" THEN u ELSE end_meeting_session(u)
    BY <1>7 DEF Handled
  <2>2. StopsMic(u, m) <=> u.session # "ending" BY <1>7 DEF StopsMic
  <2> HIDE DEF r
  <2>3. /\ UiOK(r)
        /\ r.session = IF u.session = "active" THEN "ending" ELSE u.session
        /\ u.session = "ending" => r.audioText = u.audioText
    <3>1. CASE u.session = "ending" BY <2>1, <3>1
    <3>2. CASE u.session # "ending"
      <4>1. r = end_meeting_session(u) BY <2>1, <3>2
      <4> QED BY <3>2, <4>1, EndMeetingSession
    <3> QED BY <3>1, <3>2
  <2> QED BY <1>7, <2>2, <2>3 DEF r
<1>8. CASE m.type = "disconnected"
  <2>1. r = [u EXCEPT !.session = "none"] BY <1>8 DEF Handled
  <2>2. UiOK(r) /\ r.session = "none" /\ r.audioText = u.audioText
    BY <2>1, Disconnected
  <2> QED BY <1>8, <2>2
<1> QED
  BY <1>1, <1>2, <1>3, <1>4, <1>5, <1>6, <1>7, <1>8
  DEF IsMessage, EmptyTypes, IpTypes, Responses, Joins

\* A message that comes in its session, to a window that knows what it should:
\* the window knows what the message says, and the rest stays true.
LEMMA HandledMeeting ==
    ASSUME NEW u, UiOK(u), MeetingOK(u),
           NEW m, IsMessage(m), m.type \notin Endings, Legal(View(u), m)
    PROVE  LET r == Handled(u, m)
           IN  /\ MeetingOK(r) /\ View(r) = After(View(u), m)
               /\ ~StopsMic(u, m) /\ u.openAudio => r.openAudio
<1> DEFINE r == Handled(u, m)
<1>0. /\ Self \in Ips /\ Others \subseteq Ips /\ Self \notin Others
      /\ m.ips \in SUBSET Others
      /\ u.partner \in SUBSET Ips /\ u.selected \subseteq u.partner
      /\ u.iplist \in Seq(Others) /\ u.video.lastImages \in SUBSET Ips
  BY WindowAssumption, VideoOfUi DEF Ips, IsMessage
<1>b. UiOK(u) OBVIOUS
<1>c. View(u).in \in BOOLEAN BY DEF View, UiOK, UiType
<1>a. /\ View(u).in = u.inMeeting /\ View(u).members = u.partner \ {Self}
      /\ View(u).pictures = (u.partner \cap u.video.lastImages) \ {Self}
  BY DEF View
<1> USE DEF MeetingOK
<1>1. CASE m.type \in Responses
  <2> DEFINE e == enter_room(u)
  <2>1. ~u.inMeeting /\ u.partner = {} /\ ToSet(u.iplist) = {}
    BY <1>1, <1>a DEF Legal, MembersListed
  <2>2. /\ UiOK(e)
        /\ e.partner = {Self} /\ e.iplist = u.iplist /\ e.selected = {}
        /\ e.openVedio = u.openVedio /\ e.inMeeting = TRUE
        /\ e.openAudio => u.openAudio \/ e.partner \ {Self} # {}
        /\ u.openAudio => e.openAudio
        /\ e.video.lastImages = u.video.lastImages \ {Self}
        /\ e.video.main = "avatar" /\ e.video.mainIp = Self
        /\ e.video.isRunning = u.video.isRunning
    <3>1. u.partner \cup {Self} = {Self} /\ {Self} \ u.partner = {Self} /\ u.selected = {}
      BY <2>1, <1>0
    <3> QED BY <3>1, EnterRoom, ZenonT(30)
  <2>3. r = IF m.type = "CreateMeetingResponse" THEN [e EXCEPT !.openVedio = TRUE] ELSE e
    BY <1>1 DEF Handled, Responses
  <2> HIDE DEF e, r
  <2>4. /\ r.partner = {Self} /\ r.iplist = u.iplist /\ r.selected = {}
        /\ r.inMeeting = TRUE /\ r.openAudio = e.openAudio /\ r.video = e.video
    BY <2>2, <2>3, OpenVedio
  <2>5. MembersListed(r) BY <2>1, <2>4 DEF MembersListed
  <2>6. MainShown(r) BY <2>2, <2>4 DEF MainShown
  <2>7. ButtonsJustified(r)
    <3>1. ~u.video.isRunning /\ ~u.openAudio BY <2>1 DEF ButtonsJustified
    <3> QED BY <3>1, <2>2, <2>4 DEF ButtonsJustified
  <2>8. View(r) = After(View(u), m)
    <3>1. m.type \notin Joins /\ m.type \notin {"PartnerExit", "ImgRecv", "CloseCamera"}
      BY <1>1 DEF Responses, Joins
    <3>2. View(r) = [in |-> TRUE, members |-> {}, pictures |-> {}] BY <2>4 DEF View
    <3>3. View(u).members = {} /\ View(u).pictures = {} BY <2>1, <1>a
    <3> QED BY <1>1, <3>1, <3>2, <3>3 DEF After
  <2> QED BY <2>2, <2>4, <2>5, <2>6, <2>7, <2>8 DEF r
<1>2. CASE m.type = "JoinRefused"
  <2>1. r = [u EXCEPT !.openVedio = FALSE] BY <1>2 DEF Handled
  <2>2. /\ r.video = u.video /\ r.partner = u.partner /\ r.iplist = u.iplist
        /\ r.selected = u.selected /\ r.openAudio = u.openAudio /\ r.openVedio = FALSE
        /\ r.inMeeting = u.inMeeting
    BY <2>1, OpenVedio
  <2>3. ~u.inMeeting BY <1>2, <1>a DEF Legal
  <2> HIDE DEF r
  <2>4. View(r) = After(View(u), m)
    <3>1. m.type \notin Responses /\ m.type \notin Joins
          /\ m.type \notin {"PartnerExit", "ImgRecv", "CloseCamera"}
      BY <1>2 DEF Responses, Joins
    <3>2. View(r) = View(u) BY <2>2 DEF View
    <3>3. After(View(u), m) = [in |-> View(u).in, members |-> View(u).members,
                               pictures |-> View(u).pictures]
      BY <3>1, <1>2, <1>a, <1>c, <2>3 DEF After
    <3> QED BY <3>2, <3>3 DEF View
  <2> QED BY <2>2, <2>3, <2>4 DEF MembersListed, MainShown, ButtonsJustified, r
<1>3. CASE m.type \in Joins
  <2> DEFINE e == join_partners(u, m.ips)
  <2>1. /\ u.inMeeting /\ Self \in u.partner /\ m.ips \cap u.partner = {}
        /\ m.ips \ u.partner = m.ips
    BY <1>3, <1>0, <1>a DEF Legal, MembersListed
  <2>2. /\ UiOK(e)
        /\ e.partner = u.partner \cup m.ips /\ e.iplist = u.iplist \o SetToSeq(m.ips)
        /\ e.selected = u.selected
        /\ e.openVedio = u.openVedio /\ e.inMeeting = u.inMeeting
        /\ e.openAudio => u.openAudio \/ e.partner \ {Self} # {}
        /\ u.openAudio => e.openAudio
        /\ e.video.lastImages = u.video.lastImages \ m.ips
        /\ e.video.main = IF u.video.mainIp \in m.ips THEN "avatar" ELSE u.video.main
        /\ e.video.mainIp = u.video.mainIp /\ e.video.isRunning = u.video.isRunning
    <3> DEFINE new == m.ips \ u.partner
    <3>1. /\ UiOK(e) /\ SameButtons(e, u) /\ SameDevice(e, u)
          /\ e.partner = u.partner \cup m.ips
          /\ e.iplist = u.iplist \o SetToSeq(new) /\ e.selected = u.selected
          /\ e.openAudio => u.openAudio \/ e.partner \ {Self} # {}
          /\ u.openAudio => e.openAudio
          /\ e.video.lastImages = u.video.lastImages \ new
          /\ e.video.main = IF u.video.mainIp \in new THEN "avatar" ELSE u.video.main
      BY <1>0, JoinPartners
    <3>2. new = m.ips BY <2>1
    <3> HIDE DEF e, new
    <3> QED BY <3>1, <3>2 DEF SameButtons, SameDevice
  <2>3. r = IF m.type = "PartnerJoin2" THEN [e EXCEPT !.openVedio = TRUE] ELSE e
    BY <1>3 DEF Handled, Joins
  <2> HIDE DEF e, r
  <2>4. /\ r.partner = e.partner /\ r.iplist = e.iplist /\ r.selected = e.selected
        /\ r.inMeeting = e.inMeeting /\ r.openAudio = e.openAudio /\ r.video = e.video
        /\ r.openVedio \in {TRUE, u.openVedio}
    BY <2>2, <2>3, OpenVedio
  <2>5. MembersListed(r)
    <3>1. ToSet(u.iplist) \cap m.ips = {} /\ IsInjective(u.iplist)
      BY <2>1 DEF MembersListed
    <3>2. ToSet(r.iplist) = ToSet(u.iplist) \cup m.ips /\ IsInjective(r.iplist)
      BY <3>1, <1>0, <2>2, <2>4, ListGrows
    <3> QED BY <3>2, <1>0, <2>1, <2>2, <2>4 DEF MembersListed
  <2>6. MainShown(r) BY <2>1, <2>2, <2>4 DEF MainShown
  <2>7. ButtonsJustified(r) BY <1>0, <2>1, <2>2, <2>4 DEF ButtonsJustified
  <2>8. View(r) = After(View(u), m)
    <3>1. m.type \notin Responses /\ m.type \notin {"PartnerExit", "ImgRecv", "CloseCamera"}
      BY <1>3 DEF Responses, Joins
    <3>2. /\ r.partner \ {Self} = (u.partner \ {Self}) \cup m.ips
          /\ (r.partner \cap r.video.lastImages) \ {Self}
                = (u.partner \cap u.video.lastImages) \ {Self}
      BY <1>0, <2>1, <2>2, <2>4
    <3> QED BY <1>3, <1>a, <3>1, <3>2, <2>1, <2>2, <2>4 DEF After, View
  <2> QED BY <2>2, <2>4, <2>5, <2>6, <2>7, <2>8 DEF r
<1>4. CASE m.type = "PartnerExit"
  <2> DEFINE ip == IpOf(m)
  <2>1. ip \in Others /\ m.ips = {ip} BY <1>4, AddressOf DEF IpTypes
  <2>2. r = handle_partner_exit(u, ip) BY <1>4 DEF Handled
  <2>3. StopsMic(u, m) <=> LeftAlone(u, ip) BY <1>4 DEF StopsMic
  <2> HIDE DEF ip, r
  <2>4. u.inMeeting /\ ip \in u.partner /\ ip # Self
    BY <1>4, <1>0, <1>a, <2>1 DEF Legal
  <2>5. /\ SameDevice(r, u)
        /\ r.partner = u.partner \ {ip} /\ r.iplist = RemoveFirst(u.iplist, ip)
        /\ r.selected = u.selected \ {ip}
        /\ IF LeftAlone(u, ip) THEN r.openAudio = FALSE ELSE r.openAudio = u.openAudio
        /\ r.openVedio = u.openVedio /\ r.inMeeting = u.inMeeting
        /\ r.video.lastImages = u.video.lastImages
        /\ r.video.main = IF ip = u.video.mainIp THEN "avatar" ELSE u.video.main
    <3>1. ip \in Ips BY <2>1, <1>0
    <3> QED BY <2>2, <3>1, PartnerExit
  <2>6. MembersListed(r)
    <3>1. ToSet(r.iplist) = ToSet(u.iplist) \ {ip} /\ IsInjective(r.iplist)
      BY <1>0, <2>5, ListShrinks DEF MembersListed
    <3> QED BY <3>1, <2>4, <2>5 DEF MembersListed, SameDevice
  <2>7. MainShown(r) BY <2>4, <2>5 DEF MainShown, SameDevice
  <2>8. ButtonsJustified(r)
    <3>1. r.openAudio => r.partner \ {Self} # {}
      <4>1. CASE LeftAlone(u, ip) BY <4>1, <2>5
      <4>2. CASE ~LeftAlone(u, ip)
        <5>1. Cardinality(r.partner) > 1
          <6>1. Cardinality(r.partner) \in Nat
            <7>1. r.partner \in SUBSET Ips BY <1>0, <2>5
            <7> QED BY <7>1, FiniteIps, FS_CardinalityType
          <6> QED BY <6>1, <4>2, <2>4, <2>5 DEF LeftAlone
        <5> QED BY <5>1, <1>0, <2>5, SomebodyElse
      <4> QED BY <4>1, <4>2
    <3> QED BY <3>1, <2>5 DEF ButtonsJustified, SameDevice
  <2>9. View(r) = After(View(u), m)
    <3>1. m.type \notin Responses /\ m.type \notin Joins /\ m.type # "ImgRecv"
      BY <1>4 DEF Responses, Joins
    <3>2. /\ r.partner \ {Self} = (u.partner \ {Self}) \ m.ips
          /\ (r.partner \cap r.video.lastImages) \ {Self}
                = ((u.partner \cap u.video.lastImages) \ {Self}) \ m.ips
      BY <2>1, <2>5
    <3> QED BY <1>4, <1>a, <3>1, <3>2, <2>4, <2>5 DEF After, View
  <2> QED BY <2>3, <2>5, <2>6, <2>7, <2>8, <2>9 DEF r
<1>5. CASE m.type = "ImgRecv"
  <2> DEFINE ip == IpOf(m)
  <2>1. ip \in Others /\ m.ips = {ip} BY <1>5, AddressOf DEF IpTypes
  <2>2. r = handle_img_recv(u, ip) BY <1>5 DEF Handled
  <2> HIDE DEF ip, r
  <2>4. u.inMeeting /\ ip \in u.partner /\ ip # Self
    BY <1>5, <1>0, <1>a, <2>1 DEF Legal
  <2>5. /\ SameButtons(r, u) /\ SameDevice(r, u)
        /\ r.partner = u.partner /\ r.iplist = u.iplist /\ r.selected = u.selected
        /\ r.openAudio => u.openAudio \/ r.partner \ {Self} # {}
        /\ u.openAudio => r.openAudio
        /\ r.video.lastImages = u.video.lastImages \cup {ip}
        /\ r.video.main = IF u.video.mainIp = ip THEN ip ELSE u.video.main
    <3>1. ip \in Ips /\ u.partner \cup {ip} = u.partner BY <2>1, <2>4, <1>0
    <3>2. /\ SameButtons(r, u) /\ SameDevice(r, u)
          /\ r.partner = u.partner \cup {ip}
          /\ r.iplist = u.iplist /\ r.selected = u.selected
          /\ r.openAudio => u.openAudio \/ r.partner \ {Self} # {}
          /\ u.openAudio => r.openAudio
          /\ r.video.lastImages = u.video.lastImages \cup {ip}
          /\ r.video.main = IF u.video.mainIp = ip THEN ip ELSE u.video.main
      BY <2>2, <3>1, ImgRecv
    <3> QED BY <3>1, <3>2
  <2>6. MembersListed(r) BY <2>5 DEF MembersListed, SameButtons, SameDevice
  <2>7. MainShown(r) BY <2>4, <2>5 DEF MainShown, SameButtons, SameDevice
  <2>8. ButtonsJustified(r)
    BY <2>4, <2>5 DEF ButtonsJustified, SameButtons, SameDevice
  <2>9. View(r) = After(View(u), m)
    <3>1. m.type \notin Responses /\ m.type \notin Joins
          /\ m.type \notin {"PartnerExit", "CloseCamera"}
      BY <1>5 DEF Responses, Joins
    <3>2. (r.partner \cap r.video.lastImages) \ {Self}
                = ((u.partner \cap u.video.lastImages) \ {Self}) \cup m.ips
      BY <2>1, <2>4, <2>5
    <3> QED BY <1>5, <1>a, <3>1, <3>2, <2>4, <2>5 DEF After, View, SameButtons
  <2> QED BY <2>5, <2>6, <2>7, <2>8, <2>9 DEF r
<1>6. CASE m.type = "CloseCamera"
  <2> DEFINE ip == IpOf(m)
  <2>1. ip \in Others /\ m.ips = {ip} BY <1>6, AddressOf DEF IpTypes
  <2>2. r = close_img(u, ip) BY <1>6 DEF Handled
  <2> HIDE DEF ip, r
  <2>4. u.inMeeting /\ ip \in u.partner /\ ip # Self
    BY <1>6, <1>0, <1>a, <2>1 DEF Legal
  <2>5. /\ SameButVideo(r, u) /\ SameDevice(r, u)
        /\ r.video.lastImages = u.video.lastImages \ {ip}
        /\ r.video.main = IF u.video.mainIp = ip THEN "avatar" ELSE u.video.main
    <3>1. ip \in Ips BY <2>1, <1>0
    <3> QED BY <2>2, <2>4, <3>1, CloseImg
  <2>6. MembersListed(r) BY <2>5 DEF MembersListed, SameButVideo, SameButtons, SameDevice
  <2>7. MainShown(r) BY <2>4, <2>5 DEF MainShown, SameButVideo, SameButtons, SameDevice
  <2>8. ButtonsJustified(r)
    BY <2>4, <2>5 DEF ButtonsJustified, SameButVideo, SameButtons, SameDevice
  <2>9. View(r) = After(View(u), m)
    <3>1. m.type \notin Responses /\ m.type \notin Joins
          /\ m.type \notin {"PartnerExit", "ImgRecv"}
      BY <1>6 DEF Responses, Joins
    <3>2. (r.partner \cap r.video.lastImages) \ {Self}
                = ((u.partner \cap u.video.lastImages) \ {Self}) \ m.ips
      BY <2>1, <2>4, <2>5 DEF SameButVideo
    <3> QED BY <1>6, <1>a, <3>1, <3>2, <2>4, <2>5 DEF After, View, SameButVideo, SameButtons
  <2> QED BY <2>5, <2>6, <2>7, <2>8, <2>9 DEF r, SameButVideo
<1> QED
  BY <1>1, <1>2, <1>3, <1>4, <1>5, <1>6
  DEF IsMessage, EmptyTypes, IpTypes, Responses, Joins, Endings


-----------------------------------------------------------------------------
(***************************************************************************)
(* The end of a session in the queue: after it nothing comes from the      *)
(* server, and a session that is over for the server is not for the client *)
(* until it has handled that.                                              *)
(***************************************************************************)
EndsOK(session, srv, q) ==
    /\ \A i \in 1 .. Len(q) :
         q[i].type = "disconnected" <=> srv = "out" /\ i = Len(q)
    /\ \A i \in 1 .. Len(q) :
         q[i].type = "RemoteHostClosed" => srv = "out" /\ i = Len(q) - 1
    /\ session = "none" => srv = "out" /\ q = << >>
    /\ srv = "out" /\ session = "ending" => q # << >>
    /\ srv = "out" /\ session = "active" =>
         Len(q) > 1 /\ q[Len(q) - 1].type = "RemoteHostClosed"

LEMMA QueueFacts ==
    ASSUME NEW q \in Seq(MessageType), q # << >>
    PROVE  /\ Len(q) \in Nat /\ Len(q) >= 1 /\ Head(q) = q[1] /\ IsMessage(Head(q))
           /\ Tail(q) \in Seq(MessageType) /\ Len(Tail(q)) = Len(q) - 1
           /\ \A i \in 1 .. Len(q) - 1 : Tail(q)[i] = q[i + 1]
<1>1. /\ Len(q) \in Nat /\ Len(q) >= 1 /\ Head(q) = q[1] /\ Head(q) \in MessageType
      /\ Tail(q) \in Seq(MessageType) /\ Len(Tail(q)) = Len(q) - 1
      /\ \A i \in 1 .. Len(q) - 1 : Tail(q)[i] = q[i + 1]
  OBVIOUS
<1> QED BY <1>1 DEF MessageType

LEMMA Appended ==
    ASSUME NEW q \in Seq(MessageType), NEW m \in MessageType
    PROVE  /\ q \o <<m>> = Append(q, m) /\ Append(q, m) \in Seq(MessageType)
           /\ Len(q) \in Nat /\ Len(Append(q, m)) = Len(q) + 1
           /\ \A i \in 1 .. Len(q) : Append(q, m)[i] = q[i]
           /\ Append(q, m)[Len(q) + 1] = m
OBVIOUS

LEMMA AppendedTwice ==
    ASSUME NEW q \in Seq(MessageType), NEW m \in MessageType, NEW n \in MessageType
    PROVE  q \o <<m, n>> = Append(Append(q, m), n)
OBVIOUS

LEMMA EndsTail ==
    ASSUME NEW session \in {"none", "active", "ending"}, NEW srv,
           NEW q \in Seq(MessageType), q # << >>, EndsOK(session, srv, q)
    PROVE  LET m == Head(q)
           IN  /\ session # "none"
               /\ m.type \notin Endings => EndsOK(session, srv, Tail(q))
               /\ m.type = "RemoteHostClosed" => EndsOK("ending", srv, Tail(q))
               /\ m.type = "disconnected" =>
                    session = "ending" /\ EndsOK("none", srv, Tail(q))
<1> DEFINE m == Head(q)
           t == Tail(q)
<1>1. /\ Len(q) \in Nat /\ Len(q) >= 1 /\ m = q[1]
      /\ t \in Seq(MessageType) /\ Len(t) = Len(q) - 1
      /\ \A i \in 1 .. Len(q) - 1 : t[i] = q[i + 1]
  BY QueueFacts
<1>2. session # "none" BY DEF EndsOK
<1>e. \A s \in Seq(MessageType) : s = << >> <=> Len(s) = 0 OBVIOUS
<1> HIDE DEF m, t
<1>f. t = << >> <=> Len(t) = 0 BY <1>1, <1>e
<1>3. /\ \A i \in 1 .. Len(t) : t[i].type = "disconnected" <=> srv = "out" /\ i = Len(t)
      /\ \A i \in 1 .. Len(t) : t[i].type = "RemoteHostClosed" => srv = "out" /\ i = Len(t) - 1
  <2> SUFFICES ASSUME NEW i \in 1 .. Len(t)
               PROVE  /\ t[i].type = "disconnected" <=> srv = "out" /\ i = Len(t)
                      /\ t[i].type = "RemoteHostClosed" => srv = "out" /\ i = Len(t) - 1
    OBVIOUS
  <2>1. i \in Nat /\ i + 1 \in 1 .. Len(q) /\ t[i] = q[i + 1] BY <1>1
  <2>2. /\ q[i + 1].type = "disconnected" <=> srv = "out" /\ i + 1 = Len(q)
        /\ q[i + 1].type = "RemoteHostClosed" => srv = "out" /\ i + 1 = Len(q) - 1
    BY <2>1 DEF EndsOK
  <2> QED BY <1>1, <2>1, <2>2
<1>4. CASE m.type \notin Endings
  <2>1. srv = "out" => Len(q) > 1 BY <1>1, <1>4 DEF EndsOK, Endings
  <2>2. srv = "out" /\ session = "active" =>
          Len(t) > 1 /\ t[Len(t) - 1].type = "RemoteHostClosed"
    <3> SUFFICES ASSUME srv = "out", session = "active"
                 PROVE  Len(t) > 1 /\ t[Len(t) - 1].type = "RemoteHostClosed"
      OBVIOUS
    <3>1. Len(q) > 1 /\ q[Len(q) - 1].type = "RemoteHostClosed" BY DEF EndsOK
    <3>2. Len(q) - 1 # 1 BY <1>1, <1>4, <3>1 DEF Endings
    <3>3. Len(t) > 1 /\ Len(t) - 1 \in 1 .. Len(q) - 1 /\ (Len(t) - 1) + 1 = Len(q) - 1
      BY <1>1, <3>1, <3>2
    <3> QED BY <1>1, <3>1, <3>3
  <2> QED BY <1>1, <1>2, <1>3, <1>4, <1>f, <2>1, <2>2 DEF EndsOK, Endings
<1>5. CASE m.type = "RemoteHostClosed"
  <2>1. srv = "out" /\ Len(q) = 2 BY <1>1, <1>5 DEF EndsOK
  <2>2. Len(t) = 1 BY <1>1, <2>1
  <2>3. EndsOK("ending", srv, t) BY <1>3, <1>f, <2>1, <2>2 DEF EndsOK
  <2> QED BY <1>2, <1>5, <2>3 DEF Endings, m, t
<1>6. CASE m.type = "disconnected"
  <2>1. srv = "out" /\ Len(q) = 1 BY <1>1, <1>6 DEF EndsOK
  <2>2. session = "ending" BY <1>2, <2>1 DEF EndsOK
  <2>3. t = << >> BY <1>1, <1>f, <2>1
  <2>4. EndsOK("none", srv, t) BY <1>3, <2>1, <2>3 DEF EndsOK
  <2> QED BY <1>2, <1>6, <2>2, <2>4 DEF Endings, m, t
<1> QED BY <1>4, <1>5, <1>6 DEF Endings, m, t

LEMMA EndsAppend ==
    ASSUME NEW session \in {"none", "active", "ending"}, NEW srv, srv # "out",
           NEW q \in Seq(MessageType), NEW m \in MessageType, EndsOK(session, srv, q)
    PROVE  /\ session # "none"
           /\ \A s : s # "out" /\ m.type \notin Endings => EndsOK(session, s, Append(q, m))
           /\ m.type = "disconnected" /\ session = "ending" =>
                EndsOK(session, "out", Append(q, m))
           /\ \A n \in MessageType :
                m.type = "RemoteHostClosed" /\ n.type = "disconnected" =>
                    EndsOK(session, "out", Append(Append(q, m), n))
<1> DEFINE a == Append(q, m)
<1>1. /\ a \in Seq(MessageType) /\ Len(q) \in Nat /\ Len(a) = Len(q) + 1
      /\ \A i \in 1 .. Len(q) : a[i] = q[i]
      /\ a[Len(q) + 1] = m
  BY Appended
<1>2. session # "none" BY DEF EndsOK
<1>3. \A i \in 1 .. Len(q) :
        a[i].type # "disconnected" /\ a[i].type # "RemoteHostClosed"
  BY <1>1 DEF EndsOK
<1> HIDE DEF a
<1>4. a # << >> BY <1>1
<1>5. ASSUME NEW s, s # "out", m.type \notin Endings PROVE EndsOK(session, s, a)
  <2>1. \A i \in 1 .. Len(a) :
          a[i].type # "disconnected" /\ a[i].type # "RemoteHostClosed"
    <3> TAKE i \in 1 .. Len(a)
    <3>1. i \in 1 .. Len(q) \/ i = Len(q) + 1 BY <1>1
    <3> QED BY <1>1, <1>3, <1>5, <3>1 DEF Endings
  <2> QED BY <1>2, <1>5, <2>1 DEF EndsOK
<1>6. ASSUME m.type = "disconnected", session = "ending" PROVE EndsOK(session, "out", a)
  <2>1. \A i \in 1 .. Len(a) :
          (a[i].type = "disconnected" <=> i = Len(a)) /\ a[i].type # "RemoteHostClosed"
    <3> TAKE i \in 1 .. Len(a)
    <3>1. (i \in 1 .. Len(q) /\ i # Len(a)) \/ (i = Len(q) + 1 /\ i = Len(a)) BY <1>1
    <3> QED BY <1>1, <1>3, <1>6, <3>1
  <2> QED BY <1>4, <1>6, <2>1 DEF EndsOK
<1>7. ASSUME NEW n \in MessageType, m.type = "RemoteHostClosed", n.type = "disconnected"
      PROVE  EndsOK(session, "out", Append(a, n))
  <2> DEFINE b == Append(a, n)
  <2>1. /\ Len(a) \in Nat /\ Len(b) = Len(a) + 1
        /\ \A i \in 1 .. Len(a) : b[i] = a[i]
        /\ b[Len(a) + 1] = n
    BY <1>1, Appended
  <2> HIDE DEF b
  <2>2. b # << >> /\ Len(b) > 1 BY <1>1, <2>1
  <2>3. \A i \in 1 .. Len(b) :
          /\ b[i].type = "disconnected" <=> i = Len(b)
          /\ b[i].type = "RemoteHostClosed" <=> i = Len(b) - 1
    <3> TAKE i \in 1 .. Len(b)
    <3>1. CASE i \in 1 .. Len(q)
      <4>1. b[i] = a[i] /\ i # Len(b) /\ i # Len(b) - 1 BY <1>1, <2>1, <3>1
      <4> QED BY <1>3, <3>1, <4>1
    <3>2. CASE i = Len(q) + 1
      <4>1. b[i] = m /\ i # Len(b) /\ i = Len(b) - 1 BY <1>1, <2>1, <3>2
      <4> QED BY <1>7, <4>1
    <3>3. CASE i = Len(q) + 2
      <4>1. b[i] = n /\ i = Len(b) /\ i # Len(b) - 1 BY <1>1, <2>1, <3>3
      <4> QED BY <1>7, <4>1
    <3> QED BY <1>1, <2>1, <3>1, <3>2, <3>3
  <2>4. Len(b) - 1 \in 1 .. Len(b) BY <1>1, <2>1
  <2> QED BY <1>2, <2>2, <2>3, <2>4 DEF EndsOK, b
<1> QED BY <1>2, <1>5, <1>6, <1>7 DEF a


-----------------------------------------------------------------------------
(***************************************************************************)
(* A history of the queue q: from the view a, what the client will know    *)
(* after each of its messages, up to b.                                    *)
(***************************************************************************)
IsHistory(w, a, q, b) ==
    /\ w \in [0 .. Len(q) -> Views]
    /\ w[0] = a /\ w[Len(q)] = b
    /\ \A i \in 1 .. Len(q) : Legal(w[i - 1], q[i]) /\ w[i] = After(w[i - 1], q[i])

History(a, q, b) == \E w : IsHistory(w, a, q, b)

LEMMA AfterIsView ==
    ASSUME NEW v \in Views, NEW m \in MessageType
    PROVE  After(v, m) \in Views
BY DEF Views, After, MessageType

LEMMA NoHistory ==
    /\ \A a \in Views : History(a, << >>, a)
    /\ \A a, b : History(a, << >>, b) => a = b
<1>1. Len(<< >>) = 0 OBVIOUS
<1>2. ASSUME NEW a \in Views PROVE History(a, << >>, a)
  <2> DEFINE w == [i \in 0 .. 0 |-> a]
  <2>1. IsHistory(w, a, << >>, a) BY <1>1 DEF IsHistory
  <2> QED BY <2>1 DEF History
<1> QED BY <1>1, <1>2 DEF History, IsHistory

\* The first message is handled.
LEMMA HistoryOfTail ==
    ASSUME NEW a, NEW b, NEW q \in Seq(MessageType), q # << >>, History(a, q, b)
    PROVE  Legal(a, Head(q)) /\ History(After(a, Head(q)), Tail(q), b)
<1> DEFINE m == Head(q)
           t == Tail(q)
<1>1. PICK w : IsHistory(w, a, q, b) BY DEF History
<1>2. /\ Len(q) \in Nat /\ Len(q) >= 1 /\ m = q[1]
      /\ t \in Seq(MessageType) /\ Len(t) = Len(q) - 1
      /\ \A i \in 1 .. Len(q) - 1 : t[i] = q[i + 1]
  BY QueueFacts
<1> HIDE DEF m, t
<1> DEFINE x == [i \in 0 .. Len(t) |-> w[i + 1]]
<1>3. \A i \in 1 .. Len(q) : Legal(w[i - 1], q[i]) /\ w[i] = After(w[i - 1], q[i])
  BY <1>1 DEF IsHistory
<1>4. Legal(a, m) /\ w[1] = After(a, m)
  <2>1. 1 \in 1 .. Len(q) /\ 1 - 1 = 0 BY <1>2
  <2>2. Legal(w[1 - 1], q[1]) /\ w[1] = After(w[1 - 1], q[1]) BY <1>3, <2>1
  <2>3. w[0] = a BY <1>1 DEF IsHistory
  <2> QED BY <1>2, <2>1, <2>2, <2>3
<1>5. x \in [0 .. Len(t) -> Views]
  <2>1. ASSUME NEW i \in 0 .. Len(t) PROVE w[i + 1] \in Views
    <3>1. i + 1 \in 0 .. Len(q) BY <1>2
    <3> QED BY <1>1, <3>1 DEF IsHistory
  <2> QED BY <2>1
<1>6. x[0] = After(a, m) /\ x[Len(t)] = b
  <2>1. 0 \in 0 .. Len(t) /\ Len(t) \in 0 .. Len(t) /\ Len(t) + 1 = Len(q) BY <1>2
  <2>2. w[Len(q)] = b BY <1>1 DEF IsHistory
  <2> QED BY <1>4, <2>1, <2>2
<1>7. ASSUME NEW i \in 1 .. Len(t)
      PROVE  Legal(x[i - 1], t[i]) /\ x[i] = After(x[i - 1], t[i])
  <2>1. /\ i + 1 \in 1 .. Len(q) /\ t[i] = q[i + 1] /\ (i + 1) - 1 = i
        /\ i \in 0 .. Len(t) /\ i - 1 \in 0 .. Len(t) /\ (i - 1) + 1 = i
    BY <1>2
  <2>2. Legal(w[i], q[i + 1]) /\ w[i + 1] = After(w[i], q[i + 1])
    <3>1. Legal(w[(i + 1) - 1], q[i + 1]) /\ w[i + 1] = After(w[(i + 1) - 1], q[i + 1])
      BY <1>3, <2>1
    <3> QED BY <2>1, <3>1
  <2>3. x[i - 1] = w[i] /\ x[i] = w[i + 1] BY <2>1
  <2> QED BY <2>1, <2>2, <2>3
<1>8. IsHistory(x, After(a, m), t, b)
  <2> HIDE DEF x
  <2> QED BY <1>5, <1>6, <1>7 DEF IsHistory
<1> QED BY <1>4, <1>8 DEF History, m, t

\* One more message comes.
LEMMA HistoryGrows ==
    ASSUME NEW a, NEW b, NEW q \in Seq(MessageType), NEW m \in MessageType,
           History(a, q, b), Legal(b, m)
    PROVE  History(a, Append(q, m), After(b, m))
<1> DEFINE n == Append(q, m)
<1>1. PICK w : IsHistory(w, a, q, b) BY DEF History
<1>2. /\ n \in Seq(MessageType) /\ Len(q) \in Nat /\ Len(n) = Len(q) + 1
      /\ \A i \in 1 .. Len(q) : n[i] = q[i]
      /\ n[Len(q) + 1] = m
  BY Appended
<1> HIDE DEF n
<1> DEFINE x == [i \in 0 .. Len(n) |-> IF i = Len(n) THEN After(b, m) ELSE w[i]]
<1>3. b \in Views /\ After(b, m) \in Views
  <2>1. Len(q) \in 0 .. Len(q) BY <1>2
  <2>2. b \in Views BY <1>1, <2>1 DEF IsHistory
  <2> QED BY <2>2, AfterIsView
<1>4. x \in [0 .. Len(n) -> Views]
  <2>1. ASSUME NEW i \in 0 .. Len(n), i # Len(n) PROVE w[i] \in Views
    <3>1. i \in 0 .. Len(q) BY <1>2, <2>1
    <3> QED BY <1>1, <3>1 DEF IsHistory
  <2> QED BY <1>3, <2>1
<1>5. x[0] = a /\ x[Len(n)] = After(b, m)
  <2>1. 0 \in 0 .. Len(n) /\ 0 # Len(n) /\ Len(n) \in 0 .. Len(n) BY <1>2
  <2> QED BY <1>1, <2>1 DEF IsHistory
<1>6. ASSUME NEW i \in 1 .. Len(n)
      PROVE  Legal(x[i - 1], n[i]) /\ x[i] = After(x[i - 1], n[i])
  <2>1. i \in 0 .. Len(n) /\ i - 1 \in 0 .. Len(n) /\ i - 1 # Len(n) BY <1>2
  <2>2. x[i - 1] = w[i - 1] BY <2>1
  <2>3. CASE i = Len(n)
    <3>1. i - 1 = Len(q) /\ n[i] = m BY <1>2, <2>3
    <3>2. w[i - 1] = b BY <1>1, <3>1 DEF IsHistory
    <3>3. x[i] = After(b, m) BY <2>1, <2>3
    <3> QED BY <2>2, <3>1, <3>2, <3>3
  <2>4. CASE i # Len(n)
    <3>1. i \in 1 .. Len(q) /\ n[i] = q[i] BY <1>2, <2>4
    <3>2. Legal(w[i - 1], q[i]) /\ w[i] = After(w[i - 1], q[i])
      BY <1>1, <3>1 DEF IsHistory
    <3>3. x[i] = w[i] BY <2>1, <2>4
    <3> QED BY <2>2, <3>1, <3>2, <3>3
  <2> QED BY <2>3, <2>4
<1>7. IsHistory(x, a, n, After(b, m))
  <2> HIDE DEF x
  <2> QED BY <1>4, <1>5, <1>6 DEF IsHistory
<1> QED BY <1>7 DEF History, n


-----------------------------------------------------------------------------
(***************************************************************************)
(* What the user and the camera do leaves in order what nothing has        *)
(* disturbed, and what the client knows of the room as it is.              *)
(***************************************************************************)
SameMeeting(r, u) ==
    /\ r.partner = u.partner /\ r.iplist = u.iplist
    /\ r.openAudio = u.openAudio /\ View(r) = View(u)

LEMMA SessionEnds ==
    ASSUME NEW u, UiOK(u), MeetingOK(u)
    PROVE  MeetingOK(end_meeting_session(u))
<1> DEFINE r == end_meeting_session(u)
<1>1. /\ r.partner = {} /\ r.iplist = << >> /\ r.selected = {}
      /\ r.openAudio = FALSE /\ r.openVedio = FALSE /\ r.inMeeting = FALSE
      /\ r.video.lastImages = IF u.partner = {} THEN u.video.lastImages ELSE {}
      /\ r.video.main = "blank" /\ r.video.isRunning = FALSE
  BY EndMeetingSession
<1>2. u.partner = {} => Self \notin u.video.lastImages
  BY DEF MeetingOK, MembersListed, ButtonsJustified
<1> HIDE DEF r
<1>3. ToSet(r.iplist) = {} /\ IsInjective(r.iplist)
  BY <1>1 DEF ToSet, IsInjective
<1>4. Self \notin r.video.lastImages BY <1>1, <1>2
<1> QED BY <1>1, <1>3, <1>4 DEF MeetingOK, MembersListed, MainShown, ButtonsJustified, r

LEMMA FrameShown ==
    ASSUME NEW u, UiOK(u)
    PROVE  LET r == [u EXCEPT !.video = cameraImageCapture(@)]
           IN  /\ UiOK(r) /\ r.session = u.session /\ r.audioText = u.audioText
               /\ MeetingOK(u) /\ u.video.isRunning => MeetingOK(r) /\ SameMeeting(r, u)
<1> DEFINE W == showImageForIp(u.video, Self)
           V == cameraImageCapture(u.video)
           r == [u EXCEPT !.video = V]
<1>1. u.video \in VideoType /\ TilesOf(u.video, u.partner) BY VideoOfUi
<1>2. V \in {u.video, W} BY <1>1, Camera
<1>3. Self \in Ips BY DEF Ips
<1>4. /\ W \in VideoType /\ DOMAIN W.displays = u.partner
      /\ \A i \in u.partner :
           W.displays[i] = IF i = Self THEN "picture" ELSE u.video.displays[i]
      /\ W.lastImages = u.video.lastImages \cup {Self}
      /\ W.main = IF u.video.mainIp = Self THEN Self ELSE u.video.main
      /\ W.mainIp = u.video.mainIp /\ W.isRunning = u.video.isRunning
  BY <1>1, <1>3, ShowImageForIp DEF TilesOf
<1> HIDE DEF V, W
<1>5. V \in VideoType /\ TilesOf(V, u.partner) BY <1>1, <1>2, <1>4 DEF TilesOf
<1>6. UiOK(r) /\ r.video = V /\ SameButVideo(r, u) BY <1>5, OtherVideo
<1>7. ASSUME MeetingOK(u), u.video.isRunning PROVE MeetingOK(r) /\ SameMeeting(r, u)
  <2>1. u.inMeeting /\ Self \in u.partner
    BY <1>7 DEF MeetingOK, MembersListed, ButtonsJustified
  <2> HIDE DEF r
  <2>2. /\ r.video.mainIp = u.video.mainIp /\ r.video.isRunning = u.video.isRunning
        /\ r.video.lastImages \cup {Self} = u.video.lastImages \cup {Self}
    BY <1>2, <1>4, <1>6
  <2>3. MainShown(r)
    <3>1. CASE V = u.video
      BY <1>6, <1>7, <3>1 DEF MeetingOK, MainShown, SameButVideo, SameButtons
    <3>2. CASE V = W
      BY <1>4, <1>6, <1>7, <2>1, <3>2 DEF MeetingOK, MainShown, SameButVideo, SameButtons
    <3> QED BY <1>2, <3>1, <3>2
  <2>4. MembersListed(r) /\ ButtonsJustified(r)
    BY <1>6, <1>7, <2>2
    DEF MeetingOK, MembersListed, ButtonsJustified, SameButVideo, SameButtons
  <2>5. (r.partner \cap r.video.lastImages) \ {Self}
          = (u.partner \cap u.video.lastImages) \ {Self}
    BY <1>6, <2>2 DEF SameButVideo
  <2> QED BY <1>6, <2>3, <2>4, <2>5 DEF MeetingOK, SameMeeting, View, SameButVideo, SameButtons
<1> QED BY <1>6, <1>7 DEF SameButVideo, SameButtons, r, V

LEMMA CameraToggled ==
    ASSUME NEW u, UiOK(u), u.openVedio
    PROVE  LET r == IF u.video.isRunning
                    THEN close_img([u EXCEPT !.video = stopCamera(@)], Self)
                    ELSE [u EXCEPT !.video = startCamera(@)]
           IN  /\ UiOK(r) /\ r.session = u.session /\ r.audioText = u.audioText
               /\ MeetingOK(u) => MeetingOK(r) /\ SameMeeting(r, u)
<1> DEFINE S == stopCamera(u.video)
           T == startCamera(u.video)
           s == [u EXCEPT !.video = S]
           t == [u EXCEPT !.video = T]
           c == close_img(s, Self)
<1>1. /\ S \in VideoType /\ S.displays = u.video.displays
      /\ S.lastImages = u.video.lastImages /\ S.main = u.video.main
      /\ S.mainIp = u.video.mainIp /\ S.isRunning = FALSE
      /\ T \in VideoType /\ T.displays = u.video.displays
      /\ T.lastImages = u.video.lastImages /\ T.main = u.video.main
      /\ T.mainIp = u.video.mainIp /\ T.isRunning = TRUE
  BY VideoOfUi, Camera DEF SameTiles
<1> HIDE DEF S, T
<1>2. TilesOf(S, u.partner) /\ TilesOf(T, u.partner) BY <1>1, VideoOfUi DEF TilesOf
<1>3. UiOK(s) /\ s.video = S /\ SameButVideo(s, u) BY <1>1, <1>2, OtherVideo
<1>4. UiOK(t) /\ t.video = T /\ SameButVideo(t, u) BY <1>1, <1>2, OtherVideo
<1> HIDE DEF s, t
<1>5. /\ UiOK(c) /\ SameButVideo(c, s) /\ SameDevice(c, s)
      /\ c.video.lastImages = IF Self \in s.partner THEN s.video.lastImages \ {Self}
                              ELSE s.video.lastImages
      /\ c.video.main = IF Self \in s.partner /\ s.video.mainIp = Self THEN "avatar"
                        ELSE s.video.main
  <2>1. Self \in Ips BY DEF Ips
  <2> QED BY <1>3, <2>1, CloseImg
<1> HIDE DEF c
<1>6. ASSUME MeetingOK(u) PROVE MeetingOK(c) /\ SameMeeting(c, u)
  <2>1. u.inMeeting /\ Self \in u.partner
    BY <1>6 DEF MeetingOK, MembersListed, ButtonsJustified
  <2>2. /\ SameButVideo(c, u) /\ c.video.mainIp = u.video.mainIp
        /\ c.video.isRunning = FALSE
        /\ c.video.lastImages = u.video.lastImages \ {Self}
        /\ c.video.main = IF u.video.mainIp = Self THEN "avatar" ELSE u.video.main
    BY <1>1, <1>3, <1>5, <2>1 DEF SameButVideo, SameButtons, SameDevice
  <2>3. MainShown(c)
    BY <1>6, <2>1, <2>2 DEF MeetingOK, MainShown, SameButVideo, SameButtons
  <2>4. MembersListed(c) /\ ButtonsJustified(c)
    BY <1>6, <2>1, <2>2
    DEF MeetingOK, MembersListed, ButtonsJustified, SameButVideo, SameButtons
  <2>5. (c.partner \cap c.video.lastImages) \ {Self}
          = (u.partner \cap u.video.lastImages) \ {Self}
    BY <2>2 DEF SameButVideo
  <2> QED BY <2>2, <2>3, <2>4, <2>5 DEF MeetingOK, SameMeeting, View, SameButVideo, SameButtons
<1>7. ASSUME MeetingOK(u) PROVE MeetingOK(t) /\ SameMeeting(t, u)
  BY <1>1, <1>4, <1>7
  DEF MeetingOK, MembersListed, MainShown, ButtonsJustified, SameMeeting, View,
      SameButVideo, SameButtons
<1>8. /\ c.session = u.session /\ c.audioText = u.audioText
      /\ t.session = u.session /\ t.audioText = u.audioText
  BY <1>3, <1>4, <1>5 DEF SameButVideo, SameButtons
<1>9. CASE u.video.isRunning BY <1>5, <1>6, <1>8, <1>9 DEF c, s, S
<1>10. CASE ~u.video.isRunning BY <1>4, <1>7, <1>8, <1>10 DEF t, T
<1> QED BY <1>9, <1>10

LEMMA TileChosen ==
    ASSUME NEW u, UiOK(u), NEW ip \in u.partner
    PROVE  LET r == [u EXCEPT !.selected = setSelected(@, u.video.mainIp, ip),
                              !.video = refreshMainForIp(@, ip)]
           IN  /\ UiOK(r) /\ r.session = u.session /\ r.audioText = u.audioText
               /\ MeetingOK(u) => MeetingOK(r) /\ SameMeeting(r, u)
<1> DEFINE V == refreshMainForIp(u.video, ip)
           sel == setSelected(u.selected, u.video.mainIp, ip)
           s == [u EXCEPT !.selected = sel]
           r == [u EXCEPT !.selected = sel, !.video = V]
<1>1. /\ u \in UiType /\ u.video \in VideoType /\ TilesOf(u.video, u.partner)
      /\ u.partner \in SUBSET Ips /\ u.selected \subseteq u.partner
  BY VideoOfUi
<1>2. /\ V \in VideoType /\ V.displays = u.video.displays
      /\ V.lastImages = u.video.lastImages /\ V.mainIp = ip
      /\ V.main = IF ip \in u.video.lastImages THEN ip ELSE "avatar"
      /\ V.isRunning = u.video.isRunning
  BY <1>1, MainScreen DEF SameTiles
<1>3. sel \subseteq u.partner /\ (u.selected \subseteq {u.video.mainIp} => sel \subseteq {ip})
  BY <1>1 DEF setSelected
<1> HIDE DEF V, sel
<1>4. /\ r \in UiType /\ r.video = V /\ r.selected = sel /\ r.partner = u.partner
      /\ r.iplist = u.iplist /\ r.openAudio = u.openAudio /\ SameButtons(r, u)
  BY <1>1, <1>2, <1>3 DEF UiType, SameButtons
<1> HIDE DEF r
<1>5. UiOK(r)
  <2>1. Tiles(r) BY <1>1, <1>2, <1>4 DEF Tiles, TilesOf
  <2> QED BY <1>3, <1>4, <2>1 DEF UiOK
<1>6. ASSUME MeetingOK(u) PROVE MeetingOK(r) /\ SameMeeting(r, u)
  BY <1>2, <1>3, <1>4, <1>6
  DEF MeetingOK, MembersListed, MainShown, ButtonsJustified, SameMeeting, View,
      SameButtons
<1> QED BY <1>4, <1>5, <1>6 DEF SameButtons, r, sel, V

\* The buttons and the window itself.
LEMMA OnlyButtons ==
    ASSUME NEW u, MeetingOK(u), NEW r,
           r.video = u.video, r.partner = u.partner, r.iplist = u.iplist,
           r.selected = u.selected, r.openAudio = u.openAudio,
           r.openVedio = u.openVedio, r.inMeeting = u.inMeeting
    PROVE  MeetingOK(r) /\ SameMeeting(r, u)
BY DEF MeetingOK, MembersListed, MainShown, ButtonsJustified, SameMeeting, View


-----------------------------------------------------------------------------
(***************************************************************************)
(* The inductive invariant.                                                *)
(***************************************************************************)
StateOK ==
    /\ UiOK(ui) /\ frame \in BOOLEAN /\ late \in BOOLEAN
    /\ mic \in {"stopped", "active"}
    /\ uiq \in Seq(MessageType)
    /\ server \in {"out", "lobby", "in"}
    /\ cam \in SUBSET room /\ room \in SUBSET Others
    /\ server # "in" => room = {}

ServerView == [in |-> server = "in", members |-> room, pictures |-> cam]

\* While a session goes on, the queue leads from what the client knows to what
\* the server has.
Informed ==
    ui.session = "active" =>
        \E b \in Views : History(View(ui), uiq, b) /\ (server # "out" => b = ServerView)

InOrder ==
    /\ MeetingOK(ui)
    /\ ui.session # "active" => ui.partner = {} /\ ui.iplist = << >>
    /\ mic = "active" => ui.openAudio
    /\ Informed

IInv ==
    /\ StateOK
    /\ EndsOK(ui.session, server, uiq)
    /\ mic = "active" => ui.audioText = Close
    /\ ~late => InOrder

LEMMA ViewOfUi == ASSUME NEW u, UiOK(u) PROVE View(u) \in Views
BY VideoOfUi DEF View, Views, Ips, UiOK, UiType

LEMMA ServerViewIsView == ASSUME StateOK PROVE ServerView \in Views
BY DEF StateOK, ServerView, Views

LEMMA SessionType == ASSUME NEW u, UiOK(u) PROVE u.session \in {"none", "active", "ending"}
BY DEF UiOK, UiType

LEMMA InitInv == Init => IInv
<1> SUFFICES ASSUME Init PROVE IInv OBVIOUS
<1> DEFINE d == [i \in {} |-> "blank"]
<1>1. d \in Displays
  <2>1. d \in [{} -> {"blank", "avatar", "picture"}] /\ {} \in SUBSET Ips OBVIOUS
  <2> QED BY <2>1, DisplaysAreFunctions
<1>2. DOMAIN d = {} OBVIOUS
<1> HIDE DEF d
<1>3. NewVideo = [displays |-> d, lastImages |-> {}, main |-> "blank",
                  mainIp |-> NoIp, localIp |-> NoIp, isRunning |-> FALSE]
  BY DEF NewVideo, d
<1>4. NewVideo \in VideoType BY <1>1, <1>3 DEF VideoType
<1>5. /\ ui \in UiType /\ ui.video = NewVideo /\ ui.partner = {} /\ ui.selected = {}
      /\ ui.iplist = << >> /\ ui.inMeeting = FALSE /\ ui.openVedio = FALSE
      /\ ui.openAudio = FALSE /\ ui.session = "none"
  <2>1. << >> \in Seq(Others) OBVIOUS
  <2> QED BY <1>4, <2>1 DEF Init, UiType, Open
<1>6. UiOK(ui) BY <1>2, <1>3, <1>5 DEF UiOK, Tiles
<1>7. StateOK
  <2>1. << >> \in Seq(MessageType) OBVIOUS
  <2> QED BY <1>6, <2>1 DEF Init, StateOK
<1>8. EndsOK(ui.session, server, uiq)
  <2>1. Len(uiq) = 0 BY DEF Init
  <2> QED BY <1>5, <2>1 DEF Init, EndsOK
<1>9. MeetingOK(ui)
  <2>1. ToSet(ui.iplist) = {} /\ IsInjective(ui.iplist) BY <1>5 DEF ToSet, IsInjective
  <2> QED BY <1>3, <1>5, <2>1 DEF MeetingOK, MembersListed, MainShown, ButtonsJustified
<1> QED BY <1>5, <1>7, <1>8, <1>9 DEF Init, IInv, InOrder, Informed

(***************************************************************************)
(* The messages.                                                           *)
(***************************************************************************)
LEMMA MessageStep == ASSUME IInv, handle_message PROVE IInv'
<1> DEFINE m == Head(uiq)
<1>0. /\ UiOK(ui) /\ uiq \in Seq(MessageType) /\ uiq # << >> /\ late \in BOOLEAN
      /\ mic \in {"stopped", "active"} /\ ui.session \in {"none", "active", "ending"}
  BY SessionType DEF IInv, StateOK, handle_message
<1>1. IsMessage(m) /\ uiq' = Tail(uiq) /\ uiq' \in Seq(MessageType)
  BY <1>0, QueueFacts DEF handle_message
<1>2. /\ ui' = Handled(ui, m)
      /\ mic' = IF StopsMic(ui, m) THEN "stopped" ELSE mic
      /\ late' = (late \/ (ui.session # "active" /\ m.type \notin Endings))
      /\ UNCHANGED <<frame, server, room, cam>>
  BY DEF handle_message, Endings
<1> HIDE DEF m
<1>3. /\ UiOK(ui')
      /\ ui'.session = IF m.type = "disconnected" THEN "none"
                       ELSE IF m.type = "RemoteHostClosed" /\ ui.session = "active"
                       THEN "ending" ELSE ui.session
      /\ ~StopsMic(ui, m) => ui'.audioText = ui.audioText
  BY <1>0, <1>1, <1>2, HandledOK
<1>4. StateOK'
  <2>1. mic' \in {"stopped", "active"} /\ late' \in BOOLEAN BY <1>0, <1>2
  <2> QED BY <1>1, <1>2, <1>3, <2>1 DEF IInv, StateOK
<1>5. /\ ui.session # "none"
      /\ m.type \notin Endings => EndsOK(ui.session, server, uiq')
      /\ m.type = "RemoteHostClosed" => EndsOK("ending", server, uiq')
      /\ m.type = "disconnected" => ui.session = "ending" /\ EndsOK("none", server, uiq')
  <2>1. EndsOK(ui.session, server, uiq) BY DEF IInv
  <2> QED BY <1>0, <1>1, <2>1, EndsTail DEF m
<1>6. EndsOK(ui'.session, server', uiq')
  <2>1. m.type = "RemoteHostClosed" => ui'.session = "ending" BY <1>0, <1>3, <1>5
  <2> QED BY <1>2, <1>3, <1>5, <2>1 DEF Endings
<1>7. mic' = "active" => ui'.audioText = Close BY <1>2, <1>3 DEF IInv
<1>8. ASSUME ~late' PROVE InOrder'
  <2>1. /\ ~late /\ MeetingOK(ui)
        /\ ui.session # "active" => ui.partner = {} /\ ui.iplist = << >>
        /\ mic = "active" => ui.openAudio
        /\ Informed
    BY <1>0, <1>2, <1>8 DEF IInv, InOrder
  <2>2. CASE m.type \notin Endings
    <3>1. ui.session = "active" BY <1>0, <1>2, <1>8, <2>2
    <3>2. PICK b \in Views : History(View(ui), uiq, b) /\ (server # "out" => b = ServerView)
      BY <2>1, <3>1 DEF Informed
    <3>3. Legal(View(ui), m) /\ History(After(View(ui), m), uiq', b)
      BY <1>0, <1>1, <3>2, HistoryOfTail DEF m
    <3>4. /\ MeetingOK(ui') /\ View(ui') = After(View(ui), m)
          /\ ~StopsMic(ui, m) /\ ui.openAudio => ui'.openAudio
      BY <1>0, <1>1, <1>2, <2>1, <2>2, <3>3, HandledMeeting
    <3>5. ui'.session = "active" BY <1>3, <2>2, <3>1 DEF Endings
    <3>6. Informed'
      <4>1. ServerView' = ServerView BY <1>2 DEF ServerView
      <4> QED BY <1>2, <3>2, <3>3, <3>4, <4>1 DEF Informed
    <3> QED BY <1>2, <2>1, <3>4, <3>5, <3>6 DEF InOrder
  <2>3. CASE m.type = "RemoteHostClosed" /\ ui.session = "ending"
    <3>1. ui' = ui BY <1>2, <2>3 DEF Handled
    <3> QED BY <1>2, <2>1, <2>3, <3>1 DEF InOrder, Informed
  <2>4. CASE m.type = "RemoteHostClosed" /\ ui.session # "ending"
    <3>1. ui' = end_meeting_session(ui) BY <1>2, <2>4 DEF Handled
    <3>2. mic' # "active" BY <1>2, <2>4 DEF StopsMic
    <3>3. MeetingOK(ui') BY <1>0, <2>1, <3>1, SessionEnds
    <3>4. ui'.partner = {} /\ ui'.iplist = << >> BY <1>0, <3>1, EndMeetingSession
    <3>5. ui'.session # "active" BY <1>0, <1>3, <2>4
    <3> QED BY <3>2, <3>3, <3>4, <3>5 DEF InOrder, Informed
  <2>5. CASE m.type = "disconnected"
    <3>1. ui' = [ui EXCEPT !.session = "none"] BY <1>2, <2>5 DEF Handled
    <3>2. /\ ui'.video = ui.video /\ ui'.partner = ui.partner /\ ui'.iplist = ui.iplist
          /\ ui'.selected = ui.selected /\ ui'.openAudio = ui.openAudio
          /\ ui'.openVedio = ui.openVedio /\ ui'.inMeeting = ui.inMeeting
          /\ ui'.session = "none"
      BY <1>0, <3>1, Disconnected
    <3>3. MeetingOK(ui') BY <2>1, <3>2, OnlyButtons
    <3>4. mic' = mic BY <1>2, <2>5 DEF StopsMic
    <3> QED BY <1>5, <2>1, <2>5, <3>2, <3>3, <3>4 DEF InOrder, Informed
  <2> QED BY <2>2, <2>3, <2>4, <2>5 DEF Endings
<1> QED BY <1>4, <1>6, <1>7, <1>8 DEF IInv


(***************************************************************************)
(* The user and the devices.                                               *)
(***************************************************************************)
LEMMA WindowStep ==
    ASSUME IInv, UiOK(ui'), ui'.session = ui.session, frame' \in BOOLEAN,
           late' \in BOOLEAN, late => late', mic' \in {"stopped", "active"},
           mic' = "active" => ui'.audioText = Close,
           UNCHANGED remoteVars,
           ~late' => MeetingOK(ui') /\ SameMeeting(ui', ui) /\ (mic' = "active" => ui.openAudio)
    PROVE  IInv'
<1>1. UNCHANGED <<uiq, server, room, cam>> BY DEF remoteVars
<1>2. StateOK' BY <1>1 DEF IInv, StateOK
<1>3. EndsOK(ui'.session, server', uiq') BY <1>1 DEF IInv
<1>4. ASSUME ~late' PROVE InOrder'
  <2>1. InOrder BY <1>4 DEF IInv
  <2>2. MeetingOK(ui') /\ SameMeeting(ui', ui) /\ (mic' = "active" => ui.openAudio)
    BY <1>4
  <2>3. ServerView' = ServerView BY <1>1 DEF ServerView
  <2> QED BY <1>1, <2>1, <2>2, <2>3 DEF InOrder, Informed, SameMeeting
<1> QED BY <1>2, <1>3, <1>4 DEF IInv

LEMMA ShowStep == ASSUME IInv, show_window PROVE IInv'
<1>1. UiOK(ui) BY DEF IInv, StateOK
<1>2. ui' = [ui EXCEPT !.visible = TRUE] /\ UNCHANGED <<frame, mic, late, remoteVars>>
  BY DEF show_window, deviceVars
<1>3. /\ UiOK(ui') /\ ui'.session = ui.session /\ ui'.audioText = ui.audioText
      /\ ui'.video = ui.video /\ ui'.partner = ui.partner /\ ui'.iplist = ui.iplist
      /\ ui'.selected = ui.selected /\ ui'.openAudio = ui.openAudio
      /\ ui'.openVedio = ui.openVedio /\ ui'.inMeeting = ui.inMeeting
  BY <1>1, <1>2, Visible
<1>4. MeetingOK(ui) => MeetingOK(ui') /\ SameMeeting(ui', ui) BY <1>3, OnlyButtons
<1> QED BY <1>2, <1>3, <1>4, WindowStep DEF IInv, StateOK, InOrder

LEMMA ConnectStep == ASSUME IInv, connect PROVE IInv'
<1>1. UiOK(ui) /\ late \in BOOLEAN /\ mic \in {"stopped", "active"} BY DEF IInv, StateOK
<1>2. /\ ui' = [ui EXCEPT !.session = "active", !.openAudio = FALSE, !.openVedio = FALSE]
      /\ server' = "lobby" /\ ui.session = "none" /\ server = "out"
      /\ UNCHANGED <<frame, mic, uiq, room, cam, late>>
  BY DEF connect, deviceVars
<1>3. /\ UiOK(ui') /\ ui'.session = "active" /\ ui'.audioText = ui.audioText
      /\ ui'.video = ui.video /\ ui'.partner = ui.partner /\ ui'.iplist = ui.iplist
      /\ ui'.selected = ui.selected /\ ui'.openAudio = FALSE
      /\ ui'.openVedio = FALSE /\ ui'.inMeeting = ui.inMeeting
  BY <1>1, <1>2, Connected
<1>4. uiq = << >> /\ room = {} /\ cam = {} BY <1>2 DEF IInv, EndsOK, StateOK
<1>5. StateOK' BY <1>2, <1>3 DEF IInv, StateOK
<1>6. EndsOK(ui'.session, server', uiq')
  <2>1. Len(uiq') = 0 BY <1>2, <1>4
  <2> QED BY <1>2, <1>3, <2>1 DEF EndsOK
<1>7. mic' = "active" => ui'.audioText = Close BY <1>2, <1>3 DEF IInv
<1>8. ASSUME ~late' PROVE InOrder'
  <2>1. /\ MeetingOK(ui) /\ ui.partner = {} /\ ui.iplist = << >>
        /\ mic = "active" => ui.openAudio
    BY <1>2, <1>8 DEF IInv, InOrder
  <2>2. ui.inMeeting = FALSE /\ ~ui.video.isRunning /\ ~ui.openAudio
    <3>1. ui.inMeeting \in BOOLEAN BY <1>1 DEF UiOK, UiType
    <3> QED BY <2>1, <3>1 DEF MeetingOK, MembersListed, ButtonsJustified
  <2>3. MeetingOK(ui')
    BY <1>3, <2>1, <2>2 DEF MeetingOK, MembersListed, MainShown, ButtonsJustified
  <2>4. View(ui') = ServerView'
    <3>1. View(ui') = [in |-> FALSE, members |-> {}, pictures |-> {}]
      BY <1>3, <2>1, <2>2 DEF View
    <3>2. ServerView' = [in |-> FALSE, members |-> {}, pictures |-> {}]
      BY <1>2, <1>4 DEF ServerView
    <3> QED BY <3>1, <3>2
  <2>5. Informed'
    <3>1. View(ui') \in Views BY <1>3, ViewOfUi
    <3>2. History(View(ui'), uiq', View(ui')) BY <1>2, <1>4, <3>1, NoHistory
    <3> QED BY <2>4, <3>1, <3>2 DEF Informed
  <2>6. mic' # "active" BY <1>2, <2>1, <2>2
  <2> QED BY <1>3, <2>3, <2>5, <2>6 DEF InOrder
<1> QED BY <1>5, <1>6, <1>7, <1>8 DEF IInv

LEMMA CloseStep == ASSUME IInv, closeEvent PROVE IInv'
<1> DEFINE h == [ui EXCEPT !.visible = FALSE]
<1>1. /\ UiOK(ui) /\ late \in BOOLEAN /\ mic \in {"stopped", "active"}
      /\ ui.session \in {"none", "active", "ending"}
  BY SessionType DEF IInv, StateOK
<1>2. UNCHANGED <<frame, remoteVars, late>> BY DEF closeEvent
<1>3. /\ UiOK(h) /\ h.session = ui.session /\ h.audioText = ui.audioText
      /\ h.video = ui.video /\ h.partner = ui.partner /\ h.iplist = ui.iplist
      /\ h.selected = ui.selected /\ h.openAudio = ui.openAudio
      /\ h.openVedio = ui.openVedio /\ h.inMeeting = ui.inMeeting
  BY <1>1, Visible
<1>4. MeetingOK(ui) => MeetingOK(h) /\ SameMeeting(h, ui) BY <1>3, OnlyButtons
<1>5. IF ui.session = "ending" THEN ui' = h /\ mic' = mic
      ELSE ui' = end_meeting_session(h) /\ mic' = "stopped"
  BY DEF closeEvent
<1> HIDE DEF h
<1>6. CASE ui.session = "ending"
  <2>1. ui' = h /\ mic' = mic BY <1>5, <1>6
  <2> QED BY <1>2, <1>3, <1>4, <2>1, WindowStep DEF IInv, StateOK, InOrder
<1>7. CASE ui.session # "ending"
  <2>1. ui' = end_meeting_session(h) /\ mic' = "stopped" BY <1>5, <1>7
  <2>2. /\ UiOK(ui') /\ ui'.partner = {} /\ ui'.iplist = << >>
        /\ ui'.session = IF ui.session = "active" THEN "ending" ELSE ui.session
    <3>1. UiOK(h) BY <1>3
    <3>2. LET r == end_meeting_session(h)
          IN  /\ UiOK(r) /\ r.partner = {} /\ r.iplist = << >>
              /\ r.session = IF h.session = "active" THEN "ending" ELSE h.session
      BY <3>1, EndMeetingSession
    <3> QED BY <1>3, <2>1, <3>2
  <2>3. UNCHANGED <<uiq, server, room, cam>> BY <1>2 DEF remoteVars
  <2>4. StateOK' BY <1>2, <2>1, <2>2, <2>3 DEF IInv, StateOK
  <2>5. EndsOK(ui'.session, server', uiq')
    <3>1. EndsOK(ui.session, server, uiq) BY DEF IInv
    <3>2. CASE ui.session = "none" BY <2>2, <2>3, <3>1, <3>2
    <3>3. CASE ui.session = "active"
      <4>1. server = "out" => uiq # << >>
        <5>1. uiq = << >> => Len(uiq) = 0 OBVIOUS
        <5> QED BY <3>1, <3>3, <5>1 DEF EndsOK
      <4> QED BY <2>2, <2>3, <3>1, <3>3, <4>1 DEF EndsOK
    <3> QED BY <1>1, <1>7, <3>2, <3>3
  <2>6. ASSUME ~late' PROVE InOrder'
    <3>1. MeetingOK(h) BY <1>2, <1>4, <2>6 DEF IInv, InOrder
    <3>2. MeetingOK(ui') BY <1>3, <2>1, <3>1, SessionEnds
    <3>3. ui'.session # "active" BY <1>1, <1>7, <2>2
    <3> QED BY <2>1, <2>2, <3>2, <3>3 DEF InOrder, Informed
  <2> QED BY <2>1, <2>4, <2>5, <2>6 DEF IInv
<1> QED BY <1>6, <1>7

LEMMA AudioStep == ASSUME IInv, on_open_audio_clicked_slot PROVE IInv'
<1> DEFINE text == IF ui.audioText = Open THEN Close ELSE Open
<1>1. UiOK(ui) /\ late \in BOOLEAN /\ ui.audioText \in {Open, Close}
  BY DEF IInv, StateOK, UiOK, UiType
<1>2. /\ ui' = [ui EXCEPT !.audioText = text] /\ ui.openAudio
      /\ mic' = IF ui.audioText = Open THEN "active" ELSE "stopped"
      /\ UNCHANGED <<frame, remoteVars, late>>
  BY DEF on_open_audio_clicked_slot
<1>3. text \in {Open, Close} OBVIOUS
<1>4. mic' = "active" => text = Close BY <1>2
<1> HIDE DEF text
<1>5. /\ UiOK(ui') /\ ui'.session = ui.session /\ ui'.audioText = text
      /\ ui'.video = ui.video /\ ui'.partner = ui.partner /\ ui'.iplist = ui.iplist
      /\ ui'.selected = ui.selected /\ ui'.openAudio = ui.openAudio
      /\ ui'.openVedio = ui.openVedio /\ ui'.inMeeting = ui.inMeeting
  BY <1>1, <1>2, <1>3, AudioText, ZenonT(30)
<1>6. MeetingOK(ui) => MeetingOK(ui') /\ SameMeeting(ui', ui) BY <1>5, OnlyButtons
<1>7. mic' \in {"stopped", "active"} BY <1>2
<1> QED BY <1>2, <1>4, <1>5, <1>6, <1>7, WindowStep DEF IInv, StateOK, InOrder

LEMMA VedioStep == ASSUME IInv, on_open_vedio_clicked_slot PROVE IInv'
<1>1. UiOK(ui) BY DEF IInv, StateOK
<1>2. /\ ui.openVedio /\ UNCHANGED <<frame, mic, late, remoteVars>>
      /\ ui' = IF ui.video.isRunning
               THEN close_img([ui EXCEPT !.video = stopCamera(@)], Self)
               ELSE [ui EXCEPT !.video = startCamera(@)]
  BY DEF on_open_vedio_clicked_slot, deviceVars
<1>3. /\ UiOK(ui') /\ ui'.session = ui.session /\ ui'.audioText = ui.audioText
      /\ MeetingOK(ui) => MeetingOK(ui') /\ SameMeeting(ui', ui)
  BY <1>1, <1>2, CameraToggled
<1> QED BY <1>2, <1>3, WindowStep DEF IInv, StateOK, InOrder

LEMMA TileStep == ASSUME IInv, on_recv_ip_slot PROVE IInv'
<1>1. UiOK(ui) BY DEF IInv, StateOK
<1>2. UNCHANGED <<frame, mic, late, remoteVars>> BY DEF on_recv_ip_slot, deviceVars
<1>3. PICK ip \in ui.partner :
        ui' = [ui EXCEPT !.selected = setSelected(@, ui.video.mainIp, ip),
                         !.video = refreshMainForIp(@, ip)]
  BY DEF on_recv_ip_slot
<1>4. /\ UiOK(ui') /\ ui'.session = ui.session /\ ui'.audioText = ui.audioText
      /\ MeetingOK(ui) => MeetingOK(ui') /\ SameMeeting(ui', ui)
  BY <1>1, <1>3, TileChosen
<1> QED BY <1>2, <1>4, WindowStep DEF IInv, StateOK, InOrder

LEMMA SameWindow == ASSUME MeetingOK(ui), ui' = ui PROVE MeetingOK(ui') /\ SameMeeting(ui', ui)
BY DEF SameMeeting

LEMMA DeviceStep == ASSUME IInv, Devices PROVE IInv'
<1>1. CASE camera_frame
  <2>1. ui' = ui /\ frame' = TRUE /\ UNCHANGED <<mic, late, remoteVars>>
    BY <1>1 DEF camera_frame
  <2> QED BY <2>1, SameWindow, WindowStep DEF IInv, StateOK, InOrder
<1>2. CASE handle_frame
  <2>1. /\ ui' = [ui EXCEPT !.video = cameraImageCapture(@)]
        /\ frame' = FALSE /\ late' = (late \/ ~ui.video.isRunning)
        /\ UNCHANGED <<mic, remoteVars>>
    BY <1>2 DEF handle_frame
  <2>2. UiOK(ui) /\ late \in BOOLEAN BY DEF IInv, StateOK
  <2>3. /\ UiOK(ui') /\ ui'.session = ui.session /\ ui'.audioText = ui.audioText
        /\ MeetingOK(ui) /\ ui.video.isRunning => MeetingOK(ui') /\ SameMeeting(ui', ui)
    BY <2>1, <2>2, FrameShown
  <2>4. late' \in BOOLEAN BY <2>1, <2>2
  <2>5. ~late' => ~late /\ ui.video.isRunning BY <2>1
  <2> QED BY <2>1, <2>3, <2>4, <2>5, WindowStep DEF IInv, StateOK, InOrder
<1>3. CASE mic_error
  <2>1. ui' = ui /\ mic' = "stopped" /\ UNCHANGED <<frame, late, remoteVars>>
    BY <1>3 DEF mic_error
  <2> QED BY <2>1, SameWindow, WindowStep DEF IInv, StateOK, InOrder
<1> QED BY <1>1, <1>2, <1>3 DEF Devices


(***************************************************************************)
(* What comes from the server.                                             *)
(***************************************************************************)
LEMMA Messages ==
    /\ \A t \in EmptyTypes : Msg(t, {}) \in MessageType /\ Msg(t, {}).type = t
    /\ \A t \in IpTypes, ip \in Others :
         /\ Msg(t, {ip}) \in MessageType
         /\ Msg(t, {ip}).type = t /\ Msg(t, {ip}).ips = {ip}
    /\ \A ips \in SUBSET Others :
         /\ Msg("PartnerJoin2", ips) \in MessageType
         /\ Msg("PartnerJoin2", ips).type = "PartnerJoin2"
         /\ Msg("PartnerJoin2", ips).ips = ips
BY DEF Msg, MessageType, IsMessage, EmptyTypes, IpTypes

\* One message within a session, which tells of what the server has now.
LEMMA ReceiveStep ==
    ASSUME IInv, NEW m \in MessageType, m.type \notin Endings,
           server # "out", server' # "out", UNCHANGED <<ui, frame, mic, late>>,
           uiq' = uiq \o <<m>>, StateOK',
           Legal(ServerView, m), ServerView' = After(ServerView, m)
    PROVE  IInv'
<1>1. /\ uiq \in Seq(MessageType) /\ EndsOK(ui.session, server, uiq)
      /\ ui.session \in {"none", "active", "ending"}
  BY SessionType DEF IInv, StateOK
<1>2. uiq' = Append(uiq, m) BY <1>1, Appended
<1>3. EndsOK(ui'.session, server', uiq') BY <1>1, <1>2, EndsAppend
<1>4. ASSUME ~late' PROVE InOrder'
  <2>1. InOrder BY <1>4 DEF IInv
  <2>2. Informed'
    <3> SUFFICES ASSUME ui.session = "active"
                 PROVE  \E b \in Views : History(View(ui), uiq', b) /\ b = ServerView'
      BY DEF Informed
    <3>1. PICK b \in Views : History(View(ui), uiq, b) /\ b = ServerView
      BY <2>1 DEF InOrder, Informed
    <3>2. History(View(ui), uiq', After(b, m)) BY <1>1, <1>2, <3>1, HistoryGrows
    <3>3. After(b, m) \in Views BY AfterIsView
    <3> QED BY <3>1, <3>2, <3>3
  <2> QED BY <2>1, <2>2 DEF InOrder
<1> QED BY <1>3, <1>4 DEF IInv

LEMMA AdmitStep == ASSUME IInv, admit PROVE IInv'
<1>1. /\ server = "lobby" /\ server' = "in" /\ UNCHANGED <<ui, frame, mic, cam, late>>
      /\ room = {} /\ cam = {} /\ uiq \in Seq(MessageType)
      /\ ui.session \in {"none", "active", "ending"} /\ EndsOK(ui.session, server, uiq)
  BY SessionType DEF admit, deviceVars, IInv, StateOK
<1>2. ServerView = [in |-> FALSE, members |-> {}, pictures |-> {}]
  BY <1>1 DEF ServerView
<1> DEFINE c == Msg("CreateMeetingResponse", {})
           j == Msg("JoinMeetingResponse", {})
<1>3. CASE uiq' = uiq \o <<c>> /\ room' = room
  <2>1. c \in MessageType /\ c.type = "CreateMeetingResponse"
    BY Messages DEF EmptyTypes
  <2> HIDE DEF c
  <2>2. uiq' \in Seq(MessageType) BY <1>1, <1>3, <2>1, Appended
  <2>3. StateOK' BY <1>1, <1>3, <2>2 DEF IInv, StateOK
  <2>4. Legal(ServerView, c) BY <1>2, <2>1 DEF Legal, Responses, Joins
  <2>5. ServerView' = After(ServerView, c)
    <3>1. ServerView' = [in |-> TRUE, members |-> {}, pictures |-> {}]
      BY <1>1, <1>3 DEF ServerView
    <3>2. After(ServerView, c) = [in |-> TRUE, members |-> {}, pictures |-> {}]
      BY <1>2, <2>1 DEF After, Responses, Joins
    <3> QED BY <3>1, <3>2
  <2> QED BY <1>1, <1>3, <2>1, <2>3, <2>4, <2>5, ReceiveStep DEF Endings
<1>4. CASE room' \in SUBSET Others /\ uiq' = uiq \o <<j, Msg("PartnerJoin2", room')>>
  <2> DEFINE p == Msg("PartnerJoin2", room')
             a == Append(uiq, j)
  <2>1. j \in MessageType /\ j.type = "JoinMeetingResponse"
    BY Messages DEF EmptyTypes
  <2>2. p \in MessageType /\ p.type = "PartnerJoin2" /\ p.ips = room'
    BY <1>4, Messages
  <2>3. uiq' = Append(Append(uiq, j), p) BY <1>1, <1>4, <2>1, <2>2, AppendedTwice
  <2> HIDE DEF j, p
  <2>4. a \in Seq(MessageType) BY <1>1, <2>1, Appended
  <2>5. uiq' = Append(a, p) BY <2>3
  <2>6. EndsOK(ui.session, "in", a) BY <1>1, <2>1, EndsAppend DEF Endings
  <2> HIDE DEF a
  <2>7. EndsOK(ui.session, "in", uiq') BY <1>1, <2>2, <2>4, <2>5, <2>6, EndsAppend DEF Endings
  <2>8. StateOK'
    <3>1. uiq' \in Seq(MessageType) BY <2>2, <2>4, <2>5, Appended
    <3> QED BY <1>1, <1>4, <3>1 DEF IInv, StateOK
  <2>9. ASSUME ~late' PROVE InOrder'
    <3>1. InOrder BY <1>1, <2>9 DEF IInv
    <3>2. Informed'
      <4> SUFFICES ASSUME ui.session = "active"
                   PROVE  \E b \in Views : History(View(ui), uiq', b) /\ b = ServerView'
        BY <1>1 DEF Informed
      <4> DEFINE in == [in |-> TRUE, members |-> {}, pictures |-> {}]
      <4>1. PICK b \in Views : History(View(ui), uiq, b) /\ b = ServerView
        BY <1>1, <3>1 DEF InOrder, Informed
      <4>2. Legal(b, j) /\ After(b, j) = in
        BY <1>2, <2>1, <4>1 DEF Legal, After, Responses, Joins
      <4>3. History(View(ui), a, in) BY <1>1, <2>1, <4>1, <4>2, HistoryGrows DEF a
      <4>4. in \in Views /\ Legal(in, p) BY <2>2 DEF Views, Legal, Responses, Joins
      <4>5. After(in, p) = [in |-> TRUE, members |-> room', pictures |-> {}]
        BY <2>2 DEF After, Responses, Joins
      <4>6. ServerView' = [in |-> TRUE, members |-> room', pictures |-> {}]
        BY <1>1 DEF ServerView
      <4> HIDE DEF in
      <4>7. History(View(ui), uiq', After(in, p)) BY <2>2, <2>4, <2>5, <4>3, <4>4, HistoryGrows
      <4>8. After(in, p) \in Views BY <2>2, <4>4, AfterIsView
      <4> QED BY <4>5, <4>6, <4>7, <4>8
    <3> QED BY <1>1, <3>1, <3>2 DEF InOrder
  <2> QED BY <1>1, <2>7, <2>8, <2>9 DEF IInv
<1> QED BY <1>3, <1>4 DEF admit, Receive

LEMMA RefuseStep == ASSUME IInv, refuse PROVE IInv'
<1> DEFINE m == Msg("JoinRefused", {})
<1>1. /\ server = "lobby" /\ UNCHANGED <<ui, frame, mic, server, room, cam, late>>
      /\ uiq' = uiq \o <<m>> /\ uiq \in Seq(MessageType)
  BY DEF refuse, Receive, deviceVars, IInv, StateOK
<1>2. m \in MessageType /\ m.type = "JoinRefused" BY Messages DEF EmptyTypes
<1> HIDE DEF m
<1>3. StateOK'
  <2>1. uiq' \in Seq(MessageType) BY <1>1, <1>2, Appended
  <2> QED BY <1>1, <2>1 DEF IInv, StateOK
<1>4. Legal(ServerView, m) BY <1>1, <1>2 DEF Legal, ServerView, Responses, Joins
<1>5. ServerView' = After(ServerView, m)
  BY <1>1, <1>2 DEF After, ServerView, Responses, Joins
<1> QED BY <1>1, <1>2, <1>3, <1>4, <1>5, ReceiveStep DEF Endings

\* What one of the others does.
LEMMA OtherStep ==
    ASSUME IInv, NEW ip \in Others,
           partner_joins(ip) \/ partner_exits(ip) \/ partner_sends_picture(ip)
               \/ partner_closes_camera(ip)
    PROVE  IInv'
<1>0. uiq \in Seq(MessageType) /\ cam \in SUBSET room /\ room \in SUBSET Others
  BY DEF IInv, StateOK
<1>1. CASE partner_joins(ip)
  <2> DEFINE m == Msg("PartnerJoin", {ip})
  <2>1. /\ server = "in" /\ ip \notin room /\ room' = room \cup {ip}
        /\ UNCHANGED <<ui, frame, mic, server, cam, late>> /\ uiq' = uiq \o <<m>>
    BY <1>1 DEF partner_joins, Receive, deviceVars
  <2>2. m \in MessageType /\ m.type = "PartnerJoin" /\ m.ips = {ip}
    BY Messages DEF IpTypes
  <2> HIDE DEF m
  <2>3. uiq' \in Seq(MessageType) BY <1>0, <2>1, <2>2, Appended
  <2>4. StateOK' BY <1>0, <2>1, <2>3 DEF IInv, StateOK
  <2>5. Legal(ServerView, m) BY <1>0, <2>1, <2>2 DEF Legal, ServerView, Responses, Joins
  <2>6. ServerView' = After(ServerView, m)
    BY <2>1, <2>2 DEF After, ServerView, Responses, Joins
  <2> QED BY <2>1, <2>2, <2>4, <2>5, <2>6, ReceiveStep DEF Endings
<1>2. CASE partner_exits(ip)
  <2> DEFINE m == Msg("PartnerExit", {ip})
  <2>1. /\ server = "in" /\ ip \in room /\ room' = room \ {ip} /\ cam' = cam \ {ip}
        /\ UNCHANGED <<ui, frame, mic, server, late>> /\ uiq' = uiq \o <<m>>
    BY <1>2 DEF partner_exits, Receive, deviceVars
  <2>2. m \in MessageType /\ m.type = "PartnerExit" /\ m.ips = {ip}
    BY Messages DEF IpTypes
  <2> HIDE DEF m
  <2>3. uiq' \in Seq(MessageType) BY <1>0, <2>1, <2>2, Appended
  <2>4. StateOK' BY <1>0, <2>1, <2>3 DEF IInv, StateOK
  <2>5. Legal(ServerView, m) BY <1>0, <2>1, <2>2 DEF Legal, ServerView, Responses, Joins
  <2>6. ServerView' = After(ServerView, m)
    BY <2>1, <2>2 DEF After, ServerView, Responses, Joins
  <2> QED BY <2>1, <2>2, <2>4, <2>5, <2>6, ReceiveStep DEF Endings
<1>3. CASE partner_sends_picture(ip)
  <2> DEFINE m == Msg("ImgRecv", {ip})
  <2>1. /\ server = "in" /\ ip \in room /\ cam' = cam \cup {ip}
        /\ UNCHANGED <<ui, frame, mic, server, room, late>> /\ uiq' = uiq \o <<m>>
    BY <1>3 DEF partner_sends_picture, Receive, deviceVars
  <2>2. m \in MessageType /\ m.type = "ImgRecv" /\ m.ips = {ip}
    BY Messages DEF IpTypes
  <2> HIDE DEF m
  <2>3. uiq' \in Seq(MessageType) BY <1>0, <2>1, <2>2, Appended
  <2>4. StateOK' BY <1>0, <2>1, <2>3 DEF IInv, StateOK
  <2>5. Legal(ServerView, m) BY <1>0, <2>1, <2>2 DEF Legal, ServerView, Responses, Joins
  <2>6. ServerView' = After(ServerView, m)
    BY <2>1, <2>2 DEF After, ServerView, Responses, Joins
  <2> QED BY <2>1, <2>2, <2>4, <2>5, <2>6, ReceiveStep DEF Endings
<1>4. CASE partner_closes_camera(ip)
  <2> DEFINE m == Msg("CloseCamera", {ip})
  <2>1. /\ server = "in" /\ ip \in cam /\ cam' = cam \ {ip}
        /\ UNCHANGED <<ui, frame, mic, server, room, late>> /\ uiq' = uiq \o <<m>>
    BY <1>4 DEF partner_closes_camera, Receive, deviceVars
  <2>2. m \in MessageType /\ m.type = "CloseCamera" /\ m.ips = {ip}
    BY Messages DEF IpTypes
  <2> HIDE DEF m
  <2>3. uiq' \in Seq(MessageType) BY <1>0, <2>1, <2>2, Appended
  <2>4. StateOK' BY <1>0, <2>1, <2>3 DEF IInv, StateOK
  <2>5. Legal(ServerView, m) BY <1>0, <2>1, <2>2 DEF Legal, ServerView, Responses, Joins
  <2>6. ServerView' = After(ServerView, m)
    BY <2>1, <2>2 DEF After, ServerView, Responses, Joins
  <2> QED BY <2>1, <2>2, <2>4, <2>5, <2>6, ReceiveStep DEF Endings
<1> QED BY <1>1, <1>2, <1>3, <1>4

LEMMA OutStep == ASSUME IInv, io_disconnect \/ remote_host_closes PROVE IInv'
<1> DEFINE d == Msg("disconnected", {})
           r == Msg("RemoteHostClosed", {})
<1>1. /\ server # "out" /\ server' = "out" /\ room' = {} /\ cam' = {}
      /\ UNCHANGED <<ui, frame, mic, late>>
      /\ \/ ui.session = "ending" /\ uiq' = uiq \o <<d>>
         \/ uiq' = uiq \o <<r, d>>
  BY DEF io_disconnect, remote_host_closes, GoOut, Receive, deviceVars
<1>2. /\ d \in MessageType /\ d.type = "disconnected"
      /\ r \in MessageType /\ r.type = "RemoteHostClosed"
  BY Messages DEF EmptyTypes
<1>3. /\ uiq \in Seq(MessageType) /\ EndsOK(ui.session, server, uiq)
      /\ ui.session \in {"none", "active", "ending"}
  BY SessionType DEF IInv, StateOK
<1> HIDE DEF d, r
<1> DEFINE a == Append(uiq, r)
<1>4. a \in Seq(MessageType) BY <1>2, <1>3, Appended
<1>5. \/ ui.session = "ending" /\ uiq' = Append(uiq, d)
      \/ uiq' = Append(a, d)
  <2>1. CASE ui.session = "ending" /\ uiq' = uiq \o <<d>> BY <1>2, <1>3, <2>1, Appended
  <2>2. CASE uiq' = uiq \o <<r, d>> BY <1>2, <1>3, <2>2, AppendedTwice
  <2> QED BY <1>1, <2>1, <2>2
<1>6. EndsOK(ui'.session, server', uiq')
  <2>1. CASE ui.session = "ending" /\ uiq' = Append(uiq, d)
    <3>1. EndsOK(ui.session, "out", Append(uiq, d)) BY <1>1, <1>2, <1>3, <2>1, EndsAppend
    <3> QED BY <1>1, <2>1, <3>1
  <2>2. CASE uiq' = Append(a, d)
    <3>1. EndsOK(ui.session, "out", Append(a, d)) BY <1>1, <1>2, <1>3, EndsAppend
    <3> QED BY <1>1, <2>2, <3>1
  <2> QED BY <1>5, <2>1, <2>2
<1>7. uiq' \in Seq(MessageType)
  <2>1. Append(uiq, d) \in Seq(MessageType) BY <1>2, <1>3, Appended
  <2> HIDE DEF a
  <2>2. Append(a, d) \in Seq(MessageType) BY <1>2, <1>4, Appended
  <2> QED BY <1>5, <2>1, <2>2
<1>8. StateOK' BY <1>1, <1>7 DEF IInv, StateOK
<1>9. ASSUME ~late' PROVE InOrder'
  <2>1. InOrder BY <1>1, <1>9 DEF IInv
  <2>2. Informed'
    <3> SUFFICES ASSUME ui.session = "active"
                 PROVE  \E b \in Views : History(View(ui), uiq', b)
      BY <1>1 DEF Informed
    <3>1. uiq' = Append(a, d) BY <1>5
    <3>2. PICK b \in Views : History(View(ui), uiq, b) BY <2>1 DEF InOrder, Informed
    <3>3. Legal(b, r) /\ \A v : Legal(v, d) BY <1>2 DEF Legal, Responses, Joins
    <3>4. History(View(ui), a, After(b, r)) BY <1>2, <1>3, <3>2, <3>3, HistoryGrows
    <3>5. After(b, r) \in Views BY <1>2, AfterIsView
    <3> HIDE DEF a
    <3>6. History(View(ui), Append(a, d), After(After(b, r), d))
      BY <1>2, <1>4, <3>3, <3>4, HistoryGrows
    <3>7. After(After(b, r), d) \in Views BY <1>2, <3>5, AfterIsView
    <3> QED BY <3>1, <3>6, <3>7
  <2> QED BY <1>1, <2>1, <2>2 DEF InOrder
<1> QED BY <1>1, <1>6, <1>8, <1>9 DEF IInv


-----------------------------------------------------------------------------
LEMMA NextInv == IInv /\ [Next]_vars => IInv'
<1> SUFFICES ASSUME IInv, [Next]_vars PROVE IInv' OBVIOUS
<1>1. CASE handle_message BY <1>1, MessageStep
<1>2. CASE User
  BY <1>2, ShowStep, ConnectStep, CloseStep, AudioStep, VedioStep, TileStep DEF User
<1>3. CASE Devices BY <1>3, DeviceStep
<1>4. CASE Remote BY <1>4, AdmitStep, RefuseStep, OutStep, OtherStep DEF Remote
<1>5. CASE UNCHANGED vars
  <2>1. UNCHANGED <<ui, frame, mic, uiq, server, room, cam, late>>
    BY <1>5 DEF vars, deviceVars, remoteVars
  <2>2. ServerView' = ServerView BY <2>1 DEF ServerView
  <2> QED BY <2>1, <2>2 DEF IInv, StateOK, InOrder, Informed
<1> QED BY <1>1, <1>2, <1>3, <1>4, <1>5 DEF Next

\* The window is in order, the end of a session comes last in the queue, and
\* unless a message or a frame was handled late the queue leads from what the
\* window shows to what the server has.
LEMMA Inductive == Spec => []IInv
BY InitInv, NextInv, PTL DEF Spec

LEMMA TypeFromInv == ASSUME IInv PROVE TypeOK
<1>1. /\ ui \in UiType /\ ui.selected \subseteq ui.partner /\ ui.video \in VideoType
      /\ ui.partner \in SUBSET Ips /\ TilesOf(ui.video, ui.partner)
  BY VideoOfUi DEF IInv, StateOK
<1> DEFINE d == ui.video.displays
<1>2. d \in [DOMAIN d -> {"avatar", "picture"}]
  <2>1. d \in [DOMAIN d -> {"blank", "avatar", "picture"}]
    BY <1>1, DisplaysAreFunctions DEF VideoType
  <2>2. \A i \in DOMAIN d : d[i] \in {"avatar", "picture"} BY <1>1 DEF TilesOf
  <2> HIDE DEF d
  <2> QED BY <2>1, <2>2
<1>3. /\ ui.partner \subseteq Ips /\ ui.iplist \in Seq(Others)
      /\ ui.audioText \in {Open, Close}
      /\ {ui.openAudio, ui.openVedio, ui.inMeeting, ui.visible} \subseteq BOOLEAN
      /\ ui.session \in {"none", "active", "ending"}
  BY <1>1 DEF UiType
<1>4. /\ ui.video.lastImages \subseteq Ips /\ ui.video.main \in {"blank", "avatar"} \cup Ips
      /\ {ui.video.mainIp, ui.video.localIp} \subseteq Ips \cup {NoIp}
      /\ ui.video.isRunning \in BOOLEAN
  <2>1. Self \in Ips BY DEF Ips
  <2> QED BY <1>1, <2>1 DEF VideoType
<1> QED BY <1>1, <1>2, <1>3, <1>4 DEF IInv, StateOK, TypeOK

LEMMA Pictures == ASSUME IInv PROVE PicturesAgree
<1>1. TilesOf(ui.video, ui.partner) BY VideoOfUi DEF IInv, StateOK
<1>2. late \/ MainShown(ui) BY DEF IInv, InOrder, MeetingOK
<1> QED BY <1>1, <1>2, TypeFromInv DEF PicturesAgree, TilesOf, MainShown

LEMMA Members == ASSUME IInv PROVE MembersShown
<1> SUFFICES ASSUME uiq = << >>, ~late
             PROVE  IF ui.session = "active" /\ server = "in"
                    THEN /\ ui.partner = room \cup {Self}
                         /\ ToSet(ui.iplist) = room /\ IsInjective(ui.iplist)
                         /\ \A ip \in room : ui.video.displays[ip] = "picture" <=> ip \in cam
                         /\ ui.video.displays[Self] = "picture" => ui.video.isRunning
                         /\ ui.selected \subseteq {ui.video.mainIp}
                    ELSE ui.partner = {} /\ ui.iplist = << >>
  BY DEF MembersShown, Quiet
<1>1. /\ UiOK(ui) /\ cam \in SUBSET room /\ room \in SUBSET Others
      /\ server \in {"out", "lobby", "in"} /\ (server # "in" => room = {})
      /\ MeetingOK(ui) /\ Informed
      /\ ui.session # "active" => ui.partner = {} /\ ui.iplist = << >>
  BY DEF IInv, StateOK, InOrder
<1>2. /\ TilesOf(ui.video, ui.partner) /\ ui.partner \in SUBSET Ips
      /\ ui.inMeeting \in BOOLEAN /\ ui.iplist \in Seq(Others)
  BY <1>1, VideoOfUi DEF UiOK, UiType
<1>3. Self \notin Others BY WindowAssumption
<1>4. ASSUME ui.session = "active"
      PROVE  /\ server # "out" /\ ui.inMeeting = (server = "in")
             /\ ui.partner \ {Self} = room
             /\ (ui.partner \cap ui.video.lastImages) \ {Self} = cam
  <2>1. server # "out"
    <3>1. Len(uiq) = 0 OBVIOUS
    <3> QED BY <1>4, <3>1 DEF IInv, EndsOK
  <2>2. View(ui) = ServerView BY <1>1, <1>4, <2>1, NoHistory DEF Informed
  <2> QED BY <2>1, <2>2 DEF View, ServerView
<1>5. CASE ui.session = "active" /\ server = "in"
  <2>1. /\ ui.inMeeting /\ Self \in ui.partner
        /\ ToSet(ui.iplist) = ui.partner \ {Self} /\ IsInjective(ui.iplist)
        /\ ui.selected \subseteq {ui.video.mainIp}
        /\ Self \in ui.video.lastImages => ui.video.isRunning
    BY <1>1, <1>4, <1>5 DEF MeetingOK, MembersListed, ButtonsJustified
  <2>2. \A ip \in ui.partner :
          ui.video.displays[ip] = "picture" <=> ip \in ui.video.lastImages
    BY <1>2 DEF TilesOf
  <2>3. ui.partner = room \cup {Self} BY <1>4, <1>5, <2>1
  <2>4. \A ip \in room : ui.video.displays[ip] = "picture" <=> ip \in cam
    <3> TAKE ip \in room
    <3>1. ip \in ui.partner /\ ip # Self BY <1>1, <1>3, <2>3
    <3> QED BY <1>4, <1>5, <2>2, <3>1
  <2> QED BY <1>4, <1>5, <2>1, <2>2, <2>3, <2>4
<1>6. CASE ui.session = "active" /\ server # "in"
  <2>1. ~ui.inMeeting BY <1>2, <1>4, <1>6
  <2>2. ui.partner = {} /\ ToSet(ui.iplist) = {}
    BY <1>1, <2>1 DEF MeetingOK, MembersListed
  <2>3. ui.iplist = << >>
    <3>1. \A list \in Seq(Others) : list # << >> => list[1] \in ToSet(list) BY DEF ToSet
    <3> QED BY <1>2, <2>2, <3>1
  <2> QED BY <1>6, <2>2, <2>3
<1>7. CASE ui.session # "active" BY <1>1, <1>7
<1> QED BY <1>5, <1>6, <1>7

LEMMA LiveMic == ASSUME IInv PROVE LiveMicIsShown
<1>1. ASSUME mic = "active" PROVE ui.audioText = Close /\ (late \/ (ui.openAudio /\ ui.inMeeting))
  <2>1. ui.audioText = Close BY <1>1 DEF IInv
  <2>2. ASSUME ~late PROVE ui.openAudio /\ ui.inMeeting
    <3>1. MeetingOK(ui) /\ ui.openAudio BY <1>1, <2>2 DEF IInv, InOrder
    <3> QED BY <3>1 DEF MeetingOK, MembersListed, ButtonsJustified
  <2> QED BY <2>1, <2>2
<1> QED BY <1>1 DEF LiveMicIsShown

LEMMA DevicesOff == ASSUME IInv PROVE DevicesInMeeting
<1> SUFFICES ASSUME ~late
             PROVE  /\ Quiet /\ mic = "active" => room # {}
                    /\ ui.video.isRunning => ui.inMeeting /\ ui.openVedio
  BY DEF DevicesInMeeting
<1>1. /\ MeetingOK(ui) /\ Informed /\ (mic = "active" => ui.openAudio)
      /\ ui.session # "active" => ui.partner = {}
  BY DEF IInv, InOrder
<1>2. ui.video.isRunning => ui.inMeeting /\ ui.openVedio
  BY <1>1 DEF MeetingOK, ButtonsJustified
<1>3. ASSUME uiq = << >>, mic = "active" PROVE room # {}
  <2>1. ui.partner \ {Self} # {} BY <1>1, <1>3 DEF MeetingOK, ButtonsJustified
  <2>2. ui.session = "active" BY <1>1, <2>1
  <2>3. server # "out"
    <3>1. Len(uiq) = 0 BY <1>3
    <3> QED BY <2>2, <3>1 DEF IInv, EndsOK
  <2>4. View(ui) = ServerView BY <1>1, <1>3, <2>2, <2>3, NoHistory DEF Informed
  <2>5. ui.partner \ {Self} = room BY <2>4 DEF View, ServerView
  <2> QED BY <2>1, <2>5
<1> QED BY <1>2, <1>3 DEF Quiet

\* The variables have the values the code gives them: above all, whoever comes,
\* goes or is cleared, a tile is of a member and never left blank, and only a
\* member's tile is marked.
THEOREM TypeCorrect == Spec => []TypeOK
BY Inductive, TypeFromInv, PTL

\* Every member has a tile, which shows a picture exactly if there is a last
\* one of that member; and, unless something of an ended session was handled,
\* the main screen shows that of the member chosen: through joins, exits,
\* pictures, cameras, clicks and ends in any order.
THEOREM PicturesInStep == Spec => []PicturesAgree
BY Inductive, Pictures, PTL

\* When all messages are handled, and none of them late, the window lists the
\* members of the room and the pictures of those who show themselves.
THEOREM MembersAreShown == Spec => []MembersShown
BY Inductive, Members, PTL

\* A microphone that is on is shown to be on and can be switched off.
THEOREM LiveMicShown == Spec => []LiveMicIsShown
BY Inductive, LiveMic, PTL

\* No microphone is on among nobody, no camera outside a meeting.
THEOREM DevicesOfMeeting == Spec => []DevicesInMeeting
BY Inductive, DevicesOff, PTL
=============================================================================
