----------------------------- MODULE WireProofs -----------------------------
(***************************************************************************)
(* Theorems about Wire, for any packets and messages, any sizes of reads,  *)
(* writes and buffers: frames can be told apart wherever a stream of them  *)
(* is cut, the server's buffer holds what has arrived and not been decoded *)
(* whatever it is moved and grown, and both directions implement           *)
(* PacketChannel.                                                          *)
(*                                                                         *)
(* The argument goes over positions in the stream, the concatenation of    *)
(* the frames of all that has been sent: up to one position the stream has *)
(* been delivered, up to the next it has been read, up to the next it has  *)
(* been written, and what lies between two of them is the contents of a    *)
(* buffer (Tracks).  The loops of the two decoders are functions on a      *)
(* buffer's positions; that there are such functions is itself proved, by  *)
(* induction on how much there is to read.                                 *)
(***************************************************************************)
EXTENDS Wire, FiniteSetTheorems, SequenceTheorems, TLAPS
-----------------------------------------------------------------------------
(***************************************************************************)
(* Numbers.                                                                *)
(***************************************************************************)
LEMMA NatInduct ==
    ASSUME NEW S \in SUBSET Nat, 0 \in S, \A n \in S : n + 1 \in S
    PROVE  S = Nat
<1> DEFINE T == Nat \ S
           Below(n) == 0 .. n - 1
           U == {Below(n) : n \in T}
<1>1. SUFFICES ASSUME T # {} PROVE FALSE OBVIOUS
<1>2. IsWellFoundedOn(StrictSubsetOrdering(Nat), FiniteSubsetsOf(Nat))
  BY FS_StrictSubsetOrderingWellFounded
<1>3. U \subseteq FiniteSubsetsOf(Nat) /\ U # {}
  <2>1. ASSUME NEW n \in T PROVE Below(n) \in SUBSET Nat /\ IsFiniteSet(Below(n))
    BY FS_Interval
  <2> QED BY <2>1, <1>1 DEF FiniteSubsetsOf
<1>4. \E x \in U : \A y \in U : <<y, x>> \notin StrictSubsetOrdering(Nat)
  <2> HIDE DEF U
  <2> QED BY <1>2, <1>3, WFMin
<1>5. PICK m \in T : \A n \in T : <<Below(n), Below(m)>> \notin StrictSubsetOrdering(Nat)
  BY <1>4
<1>6. m \in Nat /\ m # 0 /\ m - 1 \in Nat OBVIOUS
<1>7. m - 1 \in S
  <2>1. SUFFICES ASSUME m - 1 \in T PROVE FALSE BY <1>6
  <2>2. /\ Below(m - 1) \subseteq Below(m) /\ Below(m) \subseteq Nat
        /\ m - 1 \in Below(m) /\ m - 1 \notin Below(m - 1)
    BY <1>6
  <2> HIDE DEF Below
  <2> QED BY <2>1, <2>2, <1>5 DEF StrictSubsetOrdering
<1>8. m \in S
  <2>1. (m - 1) + 1 \in S BY <1>7
  <2> QED BY <2>1, <1>6
<1> QED BY <1>8

\* Of what is bounded, there is a greatest.
LEMMA GreatestOf ==
    ASSUME NEW T \in SUBSET Nat, T # {}, NEW b \in Nat, \A x \in T : x <= b
    PROVE  Max(T) \in T /\ \A x \in T : x <= Max(T)
<1> DEFINE S == {n \in Nat : (\A x \in T : x <= n) => \E m \in T : \A x \in T : x <= m}
<1>1. 0 \in S
  <2>1. SUFFICES ASSUME \A x \in T : x <= 0 PROVE \E m \in T : \A x \in T : x <= m
    OBVIOUS
  <2>2. PICK m \in T : TRUE OBVIOUS
  <2>3. m = 0 BY <2>1
  <2> QED BY <2>1, <2>3
<1>2. ASSUME NEW n \in S PROVE n + 1 \in S
  <2>1. SUFFICES ASSUME \A x \in T : x <= n + 1 PROVE \E m \in T : \A x \in T : x <= m
    OBVIOUS
  <2>2. CASE n + 1 \in T BY <2>1, <2>2
  <2>3. CASE n + 1 \notin T
    <3>1. ASSUME NEW x \in T PROVE x <= n
      <4>1. x <= n + 1 /\ x # n + 1 /\ x \in Nat /\ n \in Nat BY <2>1, <2>3
      <4> QED BY <4>1
    <3> QED BY <3>1
  <2> QED BY <2>2, <2>3
<1>3. S = Nat
  <2> HIDE DEF S
  <2>1. S \in SUBSET Nat BY DEF S
  <2> QED BY <1>1, <1>2, <2>1, NatInduct
<1>4. b \in S BY <1>3
<1>5. \E m \in T : \A x \in T : x <= m BY <1>4
<1>6. \E m \in T : \A x \in T : m >= x BY <1>5
<1> QED BY <1>6 DEF Max
-----------------------------------------------------------------------------
(***************************************************************************)
(* Frames one after the other: FlattenSeq and Offset.                      *)
(***************************************************************************)
\* f is the function FlattenSeq(ss) chooses.
Sums(f, ss) ==
    f = [i \in 1 .. Len(ss) |-> IF i = 1 THEN ss[i] ELSE f[i - 1] \o ss[i]]

LEMMA SumsExists ==
    ASSUME NEW ss \in Seq(Seq(Byte))
    PROVE  \E f : Sums(f, ss)
<1> DEFINE R(f, n) == f = [i \in 1 .. n |-> IF i = 1 THEN ss[i] ELSE f[i - 1] \o ss[i]]
           S == {n \in Nat : \E f : R(f, n)}
<1>1. 0 \in S
  <2>1. R(<< >>, 0) OBVIOUS
  <2> QED BY <2>1
<1>2. ASSUME NEW n \in S PROVE n + 1 \in S
  <2>1. PICK f : R(f, n) OBVIOUS
  <2> DEFINE g == [i \in 1 .. n + 1 |->
                     IF i <= n THEN f[i]
                     ELSE IF i = 1 THEN ss[i] ELSE f[i - 1] \o ss[i]]
  <2>2. ASSUME NEW i \in 1 .. n + 1
        PROVE  g[i] = IF i = 1 THEN ss[i] ELSE g[i - 1] \o ss[i]
    <3>1. CASE i <= n
      <4>1. g[i] = f[i] BY <3>1
      <4>2. f[i] = IF i = 1 THEN ss[i] ELSE f[i - 1] \o ss[i]
        <5>1. i \in 1 .. n BY <3>1
        <5> QED BY <2>1, <5>1
      <4>3. i # 1 => g[i - 1] = f[i - 1] BY <3>1
      <4> HIDE DEF g
      <4> QED BY <4>1, <4>2, <4>3
    <3>2. CASE ~(i <= n)
      <4>1. g[i] = IF i = 1 THEN ss[i] ELSE f[i - 1] \o ss[i] BY <3>2
      <4>2. i # 1 => g[i - 1] = f[i - 1] BY <3>2
      <4> HIDE DEF g
      <4> QED BY <4>1, <4>2
    <3> QED BY <3>1, <3>2
  <2>3. R(g, n + 1)
    <3> DEFINE h == [i \in 1 .. n + 1 |-> IF i = 1 THEN ss[i] ELSE g[i - 1] \o ss[i]]
    <3>1. DOMAIN g = 1 .. n + 1 /\ g = [i \in 1 .. n + 1 |-> g[i]] OBVIOUS
    <3> HIDE DEF g
    <3>2. g = h BY <3>1, <2>2
    <3> QED BY <3>2
  <2>4. n + 1 \in Nat OBVIOUS
  <2> HIDE DEF R, g
  <2> QED BY <2>3, <2>4
<1>3. S = Nat
  <2> HIDE DEF S
  <2>1. S \in SUBSET Nat BY DEF S
  <2> QED BY <1>1, <1>2, <2>1, NatInduct
<1>4. Len(ss) \in S BY <1>3, LenProperties
<1> QED BY <1>4 DEF Sums

LEMMA SumsType ==
    ASSUME NEW ss \in Seq(Seq(Byte)), NEW f, Sums(f, ss)
    PROVE  \A i \in 1 .. Len(ss) : f[i] \in Seq(Byte)
<1> DEFINE S == {n \in Nat : n + 1 \in 1 .. Len(ss) => f[n + 1] \in Seq(Byte)}
<1>1. 0 \in S
  <2>1. SUFFICES ASSUME 1 \in 1 .. Len(ss) PROVE f[1] \in Seq(Byte) OBVIOUS
  <2>2. f[1] = ss[1] BY <2>1 DEF Sums
  <2> QED BY <2>1, <2>2, ElementOfSeq
<1>2. ASSUME NEW n \in S PROVE n + 1 \in S
  <2>1. SUFFICES ASSUME n + 2 \in 1 .. Len(ss) PROVE f[n + 2] \in Seq(Byte)
    <3>1. (n + 1) + 1 = n + 2 OBVIOUS
    <3> QED BY <3>1
  <2>2. n + 1 \in 1 .. Len(ss) BY <2>1
  <2>3. f[n + 1] \in Seq(Byte) BY <2>2
  <2>4. f[n + 2] = f[n + 1] \o ss[n + 2]
    <3>1. n + 2 # 1 /\ (n + 2) - 1 = n + 1 OBVIOUS
    <3> QED BY <2>1, <3>1 DEF Sums
  <2>5. ss[n + 2] \in Seq(Byte) BY <2>1, ElementOfSeq
  <2> QED BY <2>3, <2>4, <2>5, ConcatProperties
<1>3. S = Nat
  <2> HIDE DEF S
  <2>1. S \in SUBSET Nat BY DEF S
  <2> QED BY <1>1, <1>2, <2>1, NatInduct
<1>4. TAKE i \in 1 .. Len(ss)
<1>5. i - 1 \in Nat /\ (i - 1) + 1 = i BY LenProperties
<1>6. i - 1 \in S BY <1>3, <1>5
<1> QED BY <1>5, <1>6

Begins(ss, tt) == Len(ss) <= Len(tt) /\ \A i \in 1 .. Len(ss) : tt[i] = ss[i]

\* The function of a longer sequence begins like that of the shorter.
LEMMA SumsAgree ==
    \A ss, tt \in Seq(Seq(Byte)) : \A f, g :
        Begins(ss, tt) /\ Sums(f, ss) /\ Sums(g, tt)
        => \A i \in 1 .. Len(ss) : g[i] = f[i]
<1> SUFFICES ASSUME NEW ss \in Seq(Seq(Byte)), NEW tt \in Seq(Seq(Byte)), NEW f, NEW g,
                    Len(ss) <= Len(tt), \A i \in 1 .. Len(ss) : tt[i] = ss[i],
                    Sums(f, ss), Sums(g, tt)
             PROVE  \A i \in 1 .. Len(ss) : g[i] = f[i]
  BY DEF Begins
<1> DEFINE S == {n \in Nat : n + 1 \in 1 .. Len(ss) => g[n + 1] = f[n + 1]}
<1>0. Len(ss) \in Nat /\ Len(tt) \in Nat BY LenProperties
<1>1. 0 \in S
  <2>1. SUFFICES ASSUME 1 \in 1 .. Len(ss) PROVE g[1] = f[1] OBVIOUS
  <2>2. f[1] = ss[1] BY <2>1 DEF Sums
  <2>3. 1 \in 1 .. Len(tt) BY <2>1, <1>0
  <2>4. g[1] = tt[1] BY <2>3 DEF Sums
  <2> QED BY <2>1, <2>2, <2>4
<1>2. ASSUME NEW n \in S PROVE n + 1 \in S
  <2>1. SUFFICES ASSUME n + 2 \in 1 .. Len(ss) PROVE g[n + 2] = f[n + 2]
    <3>1. (n + 1) + 1 = n + 2 OBVIOUS
    <3> QED BY <3>1
  <2>2. n + 1 \in 1 .. Len(ss) /\ n + 2 \in 1 .. Len(tt) BY <2>1, <1>0
  <2>3. n + 2 # 1 /\ (n + 2) - 1 = n + 1 OBVIOUS
  <2>4. f[n + 2] = f[n + 1] \o ss[n + 2]
    <3>1. f = [i \in 1 .. Len(ss) |-> IF i = 1 THEN ss[i] ELSE f[i - 1] \o ss[i]]
      BY DEF Sums
    <3>2. f[n + 2] = IF n + 2 = 1 THEN ss[n + 2] ELSE f[(n + 2) - 1] \o ss[n + 2]
      BY <2>1, <3>1
    <3> QED BY <2>3, <3>2
  <2>5. g[n + 2] = g[n + 1] \o tt[n + 2] BY <2>2, <2>3 DEF Sums
  <2> QED BY <2>1, <2>2, <2>4, <2>5
<1>3. S = Nat
  <2> HIDE DEF S
  <2>1. S \in SUBSET Nat BY DEF S
  <2> QED BY <1>1, <1>2, <2>1, NatInduct
<1>4. TAKE i \in 1 .. Len(ss)
<1>5. i - 1 \in Nat /\ (i - 1) + 1 = i BY LenProperties
<1>6. i - 1 \in S BY <1>3, <1>5
<1> QED BY <1>5, <1>6

LEMMA FlattenIs ==
    ASSUME NEW ss \in Seq(Seq(Byte))
    PROVE  \E f : /\ Sums(f, ss)
                  /\ FlattenSeq(ss) = IF Len(ss) = 0 THEN << >> ELSE f[Len(ss)]
<1> DEFINE f == CHOOSE g : Sums(g, ss)
<1>1. Sums(f, ss) BY SumsExists
<1>2. Len(ss) = 0 => ss = << >> BY EmptySeq
<1>3. FlattenSeq(ss) = IF Len(ss) = 0 THEN << >> ELSE f[Len(ss)]
  BY <1>2 DEF FlattenSeq, Sums
<1> QED BY <1>1, <1>3

LEMMA FlattenAppend ==
    ASSUME NEW ss \in Seq(Seq(Byte)), NEW x \in Seq(Byte)
    PROVE  /\ FlattenSeq(ss) \in Seq(Byte)
           /\ FlattenSeq(Append(ss, x)) = FlattenSeq(ss) \o x
<1>0. PICK longer : longer = Append(ss, x) OBVIOUS
<1>1. /\ longer \in Seq(Seq(Byte)) /\ Len(longer) = Len(ss) + 1 /\ Len(ss) \in Nat
      /\ \A i \in 1 .. Len(ss) : longer[i] = ss[i]
      /\ longer[Len(ss) + 1] = x
  BY <1>0, AppendProperties, LenProperties
<1>2. PICK f : /\ Sums(f, ss)
               /\ FlattenSeq(ss) = IF Len(ss) = 0 THEN << >> ELSE f[Len(ss)]
  BY FlattenIs
<1>3. PICK g : /\ Sums(g, longer)
               /\ FlattenSeq(longer) = IF Len(longer) = 0 THEN << >> ELSE g[Len(longer)]
  BY FlattenIs, <1>1
<1>4. FlattenSeq(ss) \in Seq(Byte)
  <2>1. CASE Len(ss) = 0 BY <2>1, <1>2, EmptySeq
  <2>2. CASE Len(ss) # 0
    <3>1. Len(ss) \in 1 .. Len(ss) BY <2>2, <1>1
    <3> QED BY <3>1, <2>2, <1>2, SumsType
  <2> QED BY <2>1, <2>2
<1>5. FlattenSeq(longer) = FlattenSeq(ss) \o x
  <2>0. Len(longer) # 0 /\ Len(longer) \in 1 .. Len(longer) BY <1>1
  <2>1. FlattenSeq(longer) = g[Len(longer)] BY <1>3, <2>0
  <2>2. CASE Len(ss) = 0
    <3>1. g[1] = longer[1] BY <2>2, <1>1, <1>3, <2>0 DEF Sums
    <3>2. << >> \o x = x BY ConcatEmptySeq
    <3> QED BY <2>1, <2>2, <3>1, <3>2, <1>1, <1>2
  <2>3. CASE Len(ss) # 0
    <3>1. Len(longer) # 1 /\ Len(longer) - 1 = Len(ss) /\ Len(ss) \in 1 .. Len(ss) BY <2>3, <1>1
    <3>2. g[Len(longer)] = g[Len(ss)] \o longer[Len(longer)] BY <2>0, <3>1, <1>3 DEF Sums
    <3>3. g[Len(ss)] = f[Len(ss)]
      <4>1. Len(ss) <= Len(longer) BY <1>1
      <4>2. \A i \in 1 .. Len(ss) : g[i] = f[i]
        <5>1. Sums(f, ss) /\ Sums(g, longer) BY <1>2, <1>3
        <5>2. Begins(ss, longer) BY <4>1, <1>1 DEF Begins
        <5>3. longer \in Seq(Seq(Byte)) BY <1>1
        <5> QED BY <5>1, <5>2, <5>3, SumsAgree
      <4> QED BY <3>1, <4>2
    <3> QED BY <2>1, <2>3, <3>2, <3>3, <1>1, <1>2
  <2> QED BY <2>2, <2>3
<1> QED BY <1>0, <1>4, <1>5

LEMMA FlattenEmpty == FlattenSeq(<< >>) = << >>
BY DEF FlattenSeq

\* The first j + 1 elements are the first j and one more.
LEMMA PrefixNext ==
    ASSUME NEW S, NEW ss \in Seq(S), NEW j \in 0 .. Len(ss) - 1
    PROVE  SubSeq(ss, 1, j + 1) = Append(SubSeq(ss, 1, j), ss[j + 1])
<1>0. Len(ss) \in Nat BY LenProperties
<1>1. j + 1 \in 1 .. Len(ss) /\ 1 \in 1 .. Len(ss) /\ ss[j + 1] \in S
  BY <1>0, ElementOfSeq
<1>2. \A i \in 1 .. j : ss[i] \in S BY <1>0, ElementOfSeq
<1>3. SubSeq(ss, 1, j) \in Seq(S) BY <1>2, SubSeqProperties
<1>4. SubSeq(ss, 1, j + 1) = SubSeq(ss, 1, (j + 1) - 1) \o <<ss[j + 1]>>
  <2>1. j + 1 \in 1 .. Len(ss) BY <1>1
  <2> QED BY <2>1, <1>1, SubSeqRecursiveSecond
<1>5. (j + 1) - 1 = j BY <1>0
<1> QED BY <1>1, <1>3, <1>4, <1>5, AppendIsConcat

LEMMA PrefixType ==
    ASSUME NEW S, NEW ss \in Seq(S), NEW j \in 0 .. Len(ss)
    PROVE  /\ SubSeq(ss, 1, j) \in Seq(S) /\ Len(SubSeq(ss, 1, j)) = j
           /\ \A i \in 1 .. j : SubSeq(ss, 1, j)[i] = ss[i]
<1>0. Len(ss) \in Nat BY LenProperties
<1>1. \A i \in 1 .. j : ss[i] \in S BY <1>0, ElementOfSeq
<1>2. /\ SubSeq(ss, 1, j) \in Seq(S)
      /\ Len(SubSeq(ss, 1, j)) = IF 1 <= j THEN j - 1 + 1 ELSE 0
      /\ \A i \in 1 .. j - 1 + 1 : SubSeq(ss, 1, j)[i] = ss[1 + i - 1]
  BY <1>0, <1>1, SubSeqProperties
<1>3. j \in Nat BY <1>0
<1> QED BY <1>2, <1>3

LEMMA OffsetNext ==
    ASSUME NEW ss \in Seq(Seq(Byte)), NEW j \in 0 .. Len(ss) - 1
    PROVE  /\ FlattenSeq(SubSeq(ss, 1, j)) \in Seq(Byte)
           /\ FlattenSeq(SubSeq(ss, 1, j + 1)) = FlattenSeq(SubSeq(ss, 1, j)) \o ss[j + 1]
           /\ Offset(ss, j) \in Nat
           /\ Offset(ss, j + 1) = Offset(ss, j) + Len(ss[j + 1])
<1>0. Len(ss) \in Nat BY LenProperties
<1>1. j \in 0 .. Len(ss) /\ j + 1 \in 1 .. Len(ss) BY <1>0
<1>2. SubSeq(ss, 1, j) \in Seq(Seq(Byte)) BY <1>1, PrefixType
<1>3. ss[j + 1] \in Seq(Byte) BY <1>1, ElementOfSeq
<1>4. SubSeq(ss, 1, j + 1) = Append(SubSeq(ss, 1, j), ss[j + 1]) BY PrefixNext
<1>5. /\ FlattenSeq(SubSeq(ss, 1, j)) \in Seq(Byte)
      /\ FlattenSeq(SubSeq(ss, 1, j + 1)) = FlattenSeq(SubSeq(ss, 1, j)) \o ss[j + 1]
  BY <1>2, <1>3, <1>4, FlattenAppend
<1> QED BY <1>3, <1>5, ConcatProperties, LenProperties DEF Offset

LEMMA OffsetEnds ==
    ASSUME NEW ss \in Seq(Seq(Byte))
    PROVE  /\ Offset(ss, 0) = 0
           /\ Offset(ss, Len(ss)) = Len(FlattenSeq(ss))
           /\ \A j \in 0 .. Len(ss) : Offset(ss, j) \in Nat
           /\ FlattenSeq(ss) \in Seq(Byte)
<1>0. Len(ss) \in Nat BY LenProperties
<1>1. SubSeq(ss, 1, 0) = << >> BY SubSeqEmpty
<1>2. Offset(ss, 0) = 0 BY <1>1, FlattenEmpty, EmptySeq DEF Offset
<1>3. SubSeq(ss, 1, Len(ss)) = ss BY SubSeqFull
<1>4. ASSUME NEW j \in 0 .. Len(ss) PROVE Offset(ss, j) \in Nat
  <2>1. << >> \in Seq(Byte) BY EmptySeq
  <2>2. SubSeq(ss, 1, j) \in Seq(Seq(Byte)) BY PrefixType
  <2>3. FlattenSeq(SubSeq(ss, 1, j)) \in Seq(Byte) BY <2>1, <2>2, FlattenAppend
  <2> QED BY <2>3, LenProperties DEF Offset
<1>5. FlattenSeq(ss) \in Seq(Byte)
  <2>1. << >> \in Seq(Byte) BY EmptySeq
  <2> QED BY <2>1, FlattenAppend
<1> QED BY <1>2, <1>3, <1>4, <1>5 DEF Offset

\* From the frame j + 1 on, the stream goes on with that frame.
LEMMA StreamAt ==
    ASSUME NEW ss \in Seq(Seq(Byte)), NEW j \in 0 .. Len(ss) - 1
    PROVE  /\ Offset(ss, j + 1) <= Len(FlattenSeq(ss))
           /\ \A i \in 1 .. Len(ss[j + 1]) :
                FlattenSeq(ss)[Offset(ss, j) + i] = ss[j + 1][i]
<1> DEFINE Flat(k) == FlattenSeq(SubSeq(ss, 1, k))
           a == Offset(ss, j)
           fr == ss[j + 1]
           S == {n \in Nat : j + 1 + n <= Len(ss) =>
                    /\ a + Len(fr) <= Len(Flat(j + 1 + n))
                    /\ \A i \in 1 .. Len(fr) : Flat(j + 1 + n)[a + i] = fr[i]}
<1>0. Len(ss) \in Nat /\ j \in Nat BY LenProperties
<1>1. fr \in Seq(Byte) /\ Len(fr) \in Nat
  <2>1. j + 1 \in 1 .. Len(ss) BY <1>0
  <2>2. fr \in Seq(Byte) BY <2>1, ElementOfSeq
  <2> QED BY <2>2, LenProperties
<1>2. /\ Flat(j) \in Seq(Byte) /\ Flat(j + 1) = Flat(j) \o fr
      /\ a = Len(Flat(j)) /\ a \in Nat /\ Offset(ss, j + 1) = a + Len(fr)
  BY OffsetNext DEF Offset
<1>3. 0 \in S
  <2>1. /\ Len(Flat(j) \o fr) = Len(Flat(j)) + Len(fr)
        /\ \A i \in 1 .. Len(Flat(j)) + Len(fr) : (Flat(j) \o fr)[i] =
                   IF i <= Len(Flat(j)) THEN Flat(j)[i] ELSE fr[i - Len(Flat(j))]
    BY <1>1, <1>2, ConcatProperties
  <2>2. a + Len(fr) <= Len(Flat(j + 1))
    <3> HIDE DEF Flat, a, fr
    <3> QED BY <2>1, <1>1, <1>2
  <2>3. ASSUME NEW i \in 1 .. Len(fr) PROVE Flat(j + 1)[a + i] = fr[i]
    <3>1. /\ a + i \in 1 .. Len(Flat(j)) + Len(fr) /\ ~(a + i <= Len(Flat(j)))
          /\ (a + i) - Len(Flat(j)) = i
      BY <1>1, <1>2
    <3> HIDE DEF Flat, a, fr
    <3> QED BY <3>1, <2>1, <1>2
  <2>4. j + 1 + 0 = j + 1 BY <1>0
  <2> HIDE DEF Flat, a, fr
  <2> QED BY <2>2, <2>3, <2>4
<1>4. ASSUME NEW n \in S PROVE n + 1 \in S
  <2>1. SUFFICES ASSUME j + 1 + (n + 1) <= Len(ss)
                 PROVE  /\ a + Len(fr) <= Len(Flat(j + 1 + (n + 1)))
                        /\ \A i \in 1 .. Len(fr) : Flat(j + 1 + (n + 1))[a + i] = fr[i]
    OBVIOUS
  <2> DEFINE k == j + 1 + n
  <2>2. k \in 0 .. Len(ss) - 1 /\ k + 1 = j + 1 + (n + 1) /\ k <= Len(ss)
        /\ k + 1 \in 1 .. Len(ss)
    BY <2>1, <1>0
  <2>3. a + Len(fr) <= Len(Flat(k)) /\ \A i \in 1 .. Len(fr) : Flat(k)[a + i] = fr[i]
    BY <2>2
  <2>4. Flat(k) \in Seq(Byte) /\ Flat(k + 1) = Flat(k) \o ss[k + 1]
    BY <2>2, OffsetNext
  <2>5. ss[k + 1] \in Seq(Byte) BY <2>2, ElementOfSeq
  <2> HIDE DEF Flat, a, fr, k
  <2>6. /\ Len(Flat(k + 1)) = Len(Flat(k)) + Len(ss[k + 1])
        /\ \A i \in 1 .. Len(Flat(k)) + Len(ss[k + 1]) : Flat(k + 1)[i] =
                   IF i <= Len(Flat(k)) THEN Flat(k)[i] ELSE ss[k + 1][i - Len(Flat(k))]
    BY <2>4, <2>5, ConcatProperties
  <2>7. Len(Flat(k)) \in Nat /\ Len(ss[k + 1]) \in Nat BY <2>4, <2>5, LenProperties
  <2>8. a + Len(fr) <= Len(Flat(k + 1)) BY <2>3, <2>6, <2>7, <1>1, <1>2
  <2>9. ASSUME NEW i \in 1 .. Len(fr) PROVE Flat(k + 1)[a + i] = fr[i]
    <3>1. a + i \in 1 .. Len(Flat(k)) + Len(ss[k + 1]) /\ a + i <= Len(Flat(k))
      <4>1. i \in Nat /\ 1 <= i /\ i <= Len(fr) /\ Len(fr) \in Nat BY <1>1
      <4>2. a + Len(fr) <= Len(Flat(k)) /\ a \in Nat BY <2>3, <1>2
      <4>3. a + i <= Len(Flat(k)) /\ a + i \in Nat /\ 1 <= a + i BY <4>1, <4>2, <2>7
      <4> QED BY <4>3, <2>7
    <3>2. Flat(k)[a + i] = fr[i] BY <2>3
    <3> QED BY <3>1, <3>2, <2>6
  <2> QED BY <2>2, <2>8, <2>9
<1>5. S = Nat
  <2> HIDE DEF S
  <2>1. S \in SUBSET Nat BY DEF S
  <2> QED BY <1>3, <1>4, <2>1, NatInduct
<1>6. Len(ss) - (j + 1) \in S
  <2>1. Len(ss) - (j + 1) \in Nat BY <1>0
  <2> HIDE DEF S
  <2> QED BY <2>1, <1>5
<1>7. j + 1 + (Len(ss) - (j + 1)) = Len(ss) BY <1>0
<1>8. Flat(Len(ss)) = FlattenSeq(ss) BY SubSeqFull
<1>9. a + Len(fr) <= Len(Flat(Len(ss))) /\ \A i \in 1 .. Len(fr) : Flat(Len(ss))[a + i] = fr[i]
  <2> HIDE DEF Flat, a, fr
  <2> QED BY <1>6, <1>7, <1>0
<1> HIDE DEF Flat, a, fr
<1>10. a = Offset(ss, j) /\ fr = ss[j + 1] BY DEF a, fr
<1> QED BY <1>2, <1>8, <1>9, <1>10

LEMMA OffsetGrows ==
    ASSUME NEW ss \in Seq(Seq(Byte)), NEW j \in 0 .. Len(ss), NEW k \in j .. Len(ss)
    PROVE  Offset(ss, j) <= Offset(ss, k)
<1> DEFINE S == {n \in Nat : j + n <= Len(ss) => Offset(ss, j) <= Offset(ss, j + n)}
<1>0. Len(ss) \in Nat /\ j \in Nat /\ Offset(ss, j) \in Nat BY LenProperties, OffsetEnds
<1>1. 0 \in S
  <2>1. j + 0 = j BY <1>0
  <2> QED BY <2>1, <1>0
<1>2. ASSUME NEW n \in S PROVE n + 1 \in S
  <2>1. SUFFICES ASSUME j + (n + 1) <= Len(ss) PROVE Offset(ss, j) <= Offset(ss, j + (n + 1))
    OBVIOUS
  <2>2. j + n \in 0 .. Len(ss) - 1 /\ j + n <= Len(ss) /\ (j + n) + 1 = j + (n + 1)
        /\ (j + n) + 1 \in 1 .. Len(ss)
    BY <2>1, <1>0
  <2>3. Offset(ss, (j + n) + 1) = Offset(ss, j + n) + Len(ss[(j + n) + 1])
        /\ Offset(ss, j + n) \in Nat
    BY <2>2, OffsetNext
  <2>4. ss[(j + n) + 1] \in Seq(Byte) BY <2>2, ElementOfSeq
  <2>5. Len(ss[(j + n) + 1]) \in Nat BY <2>4, LenProperties
  <2>6. Offset(ss, j) <= Offset(ss, j + n) BY <2>2
  <2> QED BY <2>2, <2>3, <2>5, <2>6, <1>0
<1>3. S = Nat
  <2> HIDE DEF S
  <2>1. S \in SUBSET Nat BY DEF S
  <2> QED BY <1>1, <1>2, <2>1, NatInduct
<1>4. k - j \in Nat /\ j + (k - j) = k /\ k <= Len(ss) BY <1>0
<1>5. k - j \in S BY <1>3, <1>4
<1> QED BY <1>4, <1>5

\* More frames behind do not move those before them.
LEMMA OffsetOfLonger ==
    ASSUME NEW ss \in Seq(Seq(Byte)), NEW tt \in Seq(Seq(Byte)), Begins(ss, tt),
           NEW j \in 0 .. Len(ss)
    PROVE  Offset(tt, j) = Offset(ss, j)
<1>0. Len(ss) \in Nat /\ Len(tt) \in Nat /\ j \in 0 .. Len(tt) BY LenProperties DEF Begins
<1>1. /\ SubSeq(ss, 1, j) \in Seq(Seq(Byte)) /\ Len(SubSeq(ss, 1, j)) = j
      /\ \A i \in 1 .. j : SubSeq(ss, 1, j)[i] = ss[i]
  BY PrefixType
<1>2. /\ SubSeq(tt, 1, j) \in Seq(Seq(Byte)) /\ Len(SubSeq(tt, 1, j)) = j
      /\ \A i \in 1 .. j : SubSeq(tt, 1, j)[i] = tt[i]
  BY <1>0, PrefixType
<1>3. \A i \in 1 .. j : tt[i] = ss[i]
  <2>1. ASSUME NEW i \in 1 .. j PROVE i \in 1 .. Len(ss) BY <1>0
  <2> QED BY <2>1 DEF Begins
<1>4. SubSeq(ss, 1, j) = SubSeq(tt, 1, j)
  <2>1. \A i \in 1 .. j : SubSeq(ss, 1, j)[i] = SubSeq(tt, 1, j)[i]
    BY <1>1, <1>2, <1>3
  <2> QED BY <1>1, <1>2, <2>1, SeqEqual
<1> QED BY <1>4 DEF Offset

-----------------------------------------------------------------------------
(***************************************************************************)
(* The frame of a packet and the bytes of its header.                      *)
(***************************************************************************)
LEMMA ByteOf == \A n \in Nat : n % 256 \in Byte
BY DEF Byte

LEMMA Div256 ==
    \A k \in Nat : k \div 256 \in Nat /\ k % 256 \in 0 .. 255 /\ k % 256 = k - 256 * (k \div 256)
BY SMT

LEMMA Digits ==
    ASSUME NEW n \in Nat, n < Unmodelled
    PROVE  /\ n \div 16777216 \in 0 .. 63
           /\ 16777216 * (n \div 16777216) + 65536 * ((n \div 65536) % 256)
                + 256 * ((n \div 256) % 256) + (n % 256) = n
<1>1. n \div 16777216 \in 0 .. 63 BY SMT DEF Unmodelled
<1>2. (n \div 256) \div 256 = n \div 65536 BY SMT
<1>3. (n \div 65536) \div 256 = n \div 16777216 BY SMT
<1>5. n \div 256 \in Nat /\ n \div 65536 \in Nat BY <1>2, Div256, SMT
<1>6. 256 * (n \div 256) + (n % 256) = n BY Div256, SMT
<1>7. 256 * (n \div 65536) + ((n \div 256) % 256) = n \div 256 BY <1>2, Div256, <1>5, SMT
<1>8. 256 * (n \div 16777216) + ((n \div 65536) % 256) = n \div 65536 BY <1>3, Div256, <1>5, SMT
<1> QED BY <1>1, <1>5, <1>6, <1>7, <1>8, SMT

LEMMA SizeRoundTrip ==
    ASSUME NEW n \in Nat, n < Unmodelled
    PROVE  U32(n) \in Seq(Byte) /\ Len(U32(n)) = 4 /\ SizeAt(U32(n), 1) = n
<1>1. n \div 16777216 \in 0 .. 63 BY Digits, SMT
<1>2. (n \div 65536) % 256 \in Byte /\ (n \div 256) % 256 \in Byte /\ n % 256 \in Byte
  BY ByteOf
<1>3. n \div 16777216 \in Byte BY <1>1 DEF Byte
<1>4. U32(n) \in Seq(Byte) /\ Len(U32(n)) = 4 BY <1>2, <1>3, SMT DEF U32
<1>5. /\ U32(n)[1] = n \div 16777216 /\ U32(n)[2] = (n \div 65536) % 256
      /\ U32(n)[3] = (n \div 256) % 256 /\ U32(n)[4] = n % 256
  BY SMT DEF U32
<1>6. SizeAt(U32(n), 1) = 16777216 * U32(n)[1] + 65536 * U32(n)[2]
                            + 256 * U32(n)[3] + U32(n)[4]
  BY <1>1, <1>5, SMT DEF SizeAt
<1> QED BY <1>4, <1>5, <1>6, Digits, SMT

LEMMA CodeRoundTrip ==
    ASSUME NEW type \in DOMAIN MsgType
    PROVE  /\ U16(MsgType[type]) \in Seq(Byte) /\ Len(U16(MsgType[type])) = 2
           /\ 256 * U16(MsgType[type])[1] + U16(MsgType[type])[2] = MsgType[type]
           /\ TypeOfCode(MsgType[type]) = type
<1>1. MsgType[type] \in 0 .. 24 BY DEF MsgType
<1>2. \A t, u \in DOMAIN MsgType : MsgType[t] = MsgType[u] => t = u BY DEF MsgType
<1>3. TypeOfCode(MsgType[type]) = type BY <1>2 DEF TypeOfCode
<1>4. MsgType[type] \div 256 = 0 /\ MsgType[type] % 256 = MsgType[type] BY <1>1
<1>5. U16(MsgType[type]) = <<0, MsgType[type]>> BY <1>4 DEF U16
<1>6. MsgType[type] \in Byte /\ 0 \in Byte BY <1>1 DEF Byte
<1> QED BY <1>1, <1>3, <1>5, <1>6

LEMMA Joined ==
    ASSUME NEW s \in Seq(Byte), NEW t \in Seq(Byte)
    PROVE  /\ s \o t \in Seq(Byte) /\ Len(s \o t) = Len(s) + Len(t)
           /\ \A i \in 1 .. Len(s) : (s \o t)[i] = s[i]
           /\ \A i \in 1 .. Len(t) : (s \o t)[Len(s) + i] = t[i]
<1>1. Len(s) \in Nat /\ Len(t) \in Nat BY LenProperties
<1>2. /\ s \o t \in Seq(Byte) /\ Len(s \o t) = Len(s) + Len(t)
      /\ \A i \in 1 .. Len(s) + Len(t) : (s \o t)[i] =
                     IF i <= Len(s) THEN s[i] ELSE t[i - Len(s)]
  BY ConcatProperties
<1>3. ASSUME NEW i \in 1 .. Len(s) PROVE (s \o t)[i] = s[i]
  <2>1. i \in 1 .. Len(s) + Len(t) /\ i <= Len(s) BY <1>1
  <2> QED BY <2>1, <1>2
<1>4. ASSUME NEW i \in 1 .. Len(t) PROVE (s \o t)[Len(s) + i] = t[i]
  <2>1. /\ Len(s) + i \in 1 .. Len(s) + Len(t) /\ ~(Len(s) + i <= Len(s))
        /\ (Len(s) + i) - Len(s) = i
    BY <1>1
  <2> QED BY <2>1, <1>2
<1> QED BY <1>2, <1>3, <1>4

\* A sequence of the frame's kind: what its header and its end say.
IsFrame(fr, type, ip, body) ==
    /\ fr \in Seq(Byte) /\ Len(fr) = Len(body) + 12
    /\ fr[1] = Magic /\ fr[Len(body) + 12] = TailByte
    /\ 256 * fr[2] + fr[3] = MsgType[type]
    /\ \A i \in 1 .. 4 : fr[3 + i] = ip[i]
    /\ SizeAt(fr, 8) = Len(body)
    /\ \A i \in 1 .. Len(body) : fr[11 + i] = body[i]

LEMMA WordIsSeq == \A w \in Word : w \in Seq(Byte) /\ Len(w) = 4
<1>1. TAKE w \in Word
<1>2. w \in [1 .. 4 -> Byte] BY DEF Word
<1>3. \A i \in 1 .. 4 : w[i] \in Byte BY <1>2
<1>4. w = [i \in 1 .. 4 |-> w[i]] BY <1>2
<1>5. [i \in 1 .. 4 |-> w[i]] \in Seq(Byte) BY <1>3, IsASeq
<1>6. w \in Seq(Byte) BY <1>4, <1>5
<1>7. Len(w) = 4
  <2>1. DOMAIN w = 1 .. Len(w) /\ Len(w) \in Nat BY <1>6, LenProperties
  <2>2. DOMAIN w = 1 .. 4 BY <1>2
  <2>3. 4 \in 1 .. Len(w) BY <2>1, <2>2
  <2>4. Len(w) \in 1 .. 4
    <3>1. Len(w) \in 1 .. Len(w) BY <2>1, <2>3
    <3> QED BY <3>1, <2>1, <2>2
  <2> QED BY <2>1, <2>3, <2>4
<1> QED BY <1>6, <1>7

LEMMA FrameIsFrame ==
    ASSUME NEW type \in DOMAIN MsgType, NEW ip \in Word, NEW body \in Seq(Byte),
           Len(body) < Unmodelled
    PROVE  IsFrame(Frame(type, ip, body), type, ip, body)
<1> DEFINE code == U16(MsgType[type])
           size == U32(Len(body))
<1>1. Len(body) \in Nat BY LenProperties
<1>2. /\ code \in Seq(Byte) /\ Len(code) = 2 /\ 256 * code[1] + code[2] = MsgType[type]
  BY CodeRoundTrip
<1>3. size \in Seq(Byte) /\ Len(size) = 4 /\ SizeAt(size, 1) = Len(body)
  BY <1>1, SizeRoundTrip
<1>4. ip \in Seq(Byte) /\ Len(ip) = 4 BY WordIsSeq
<1>5. Frame(type, ip, body)
        = <<Magic>> \o code \o ip \o size \o body \o <<TailByte>> BY DEF Frame
<1>6. /\ <<Magic>> \in Seq(Byte) /\ Len(<<Magic>>) = 1 /\ <<Magic>>[1] = Magic
      /\ <<TailByte>> \in Seq(Byte) /\ Len(<<TailByte>>) = 1 /\ <<TailByte>>[1] = TailByte
  BY DEF Magic, TailByte, Byte
<1> HIDE DEF code, size
<1>7. PICK a : a = <<Magic>> \o code OBVIOUS
<1>8. /\ a \in Seq(Byte) /\ Len(a) = 3
      /\ a[1] = Magic /\ a[2] = code[1] /\ a[3] = code[2]
  <2> DEFINE m == <<Magic>>
  <2>0. m \in Seq(Byte) /\ Len(m) = 1 /\ m[1] = Magic /\ a = m \o code BY <1>6, <1>7
  <2> HIDE DEF m
  <2>a. m \in Seq(Byte) /\ code \in Seq(Byte) BY <2>0, <1>2
  <2>b. /\ m \o code \in Seq(Byte) /\ Len(m \o code) = Len(m) + Len(code)
        /\ \A i \in 1 .. Len(m) : (m \o code)[i] = m[i]
        /\ \A i \in 1 .. Len(code) : (m \o code)[Len(m) + i] = code[i]
    BY <2>a, Joined
  <2>1. /\ a \in Seq(Byte) /\ Len(a) = Len(m) + Len(code)
        /\ \A i \in 1 .. Len(m) : a[i] = m[i]
        /\ \A i \in 1 .. Len(code) : a[Len(m) + i] = code[i]
    BY <2>b, <2>0
  <2>2. a[1] = Magic BY <2>0, <2>1
  <2>3. a[1 + 1] = code[1] /\ a[1 + 2] = code[2] BY <2>0, <2>1, <1>2
  <2>4. Len(a) = 3 BY <2>0, <2>1, <1>2
  <2>5. a[2] = code[1] /\ a[3] = code[2] BY <2>3
  <2> QED BY <2>1, <2>2, <2>4, <2>5
<1>9. PICK b : b = a \o ip OBVIOUS
<1>10. /\ b \in Seq(Byte) /\ Len(b) = 7
       /\ \A i \in 1 .. 3 : b[i] = a[i]
       /\ \A i \in 1 .. 4 : b[3 + i] = ip[i]
  <2>a. a \in Seq(Byte) /\ ip \in Seq(Byte) BY <1>4, <1>8
  <2>b. /\ a \o ip \in Seq(Byte) /\ Len(a \o ip) = Len(a) + Len(ip)
        /\ \A i \in 1 .. Len(a) : (a \o ip)[i] = a[i]
        /\ \A i \in 1 .. Len(ip) : (a \o ip)[Len(a) + i] = ip[i]
    BY <2>a, Joined
  <2>1. /\ b \in Seq(Byte) /\ Len(b) = Len(a) + Len(ip)
        /\ \A i \in 1 .. Len(a) : b[i] = a[i]
        /\ \A i \in 1 .. Len(ip) : b[Len(a) + i] = ip[i]
    BY <2>b, <1>9
  <2> QED BY <2>1, <1>4, <1>8
<1>11. PICK c : c = b \o size OBVIOUS
<1>12. /\ c \in Seq(Byte) /\ Len(c) = 11
       /\ \A i \in 1 .. 7 : c[i] = b[i]
       /\ \A i \in 1 .. 4 : c[7 + i] = size[i]
  <2>a. b \in Seq(Byte) /\ size \in Seq(Byte) BY <1>3, <1>10
  <2>b. /\ b \o size \in Seq(Byte) /\ Len(b \o size) = Len(b) + Len(size)
        /\ \A i \in 1 .. Len(b) : (b \o size)[i] = b[i]
        /\ \A i \in 1 .. Len(size) : (b \o size)[Len(b) + i] = size[i]
    BY <2>a, Joined
  <2>1. /\ c \in Seq(Byte) /\ Len(c) = Len(b) + Len(size)
        /\ \A i \in 1 .. Len(b) : c[i] = b[i]
        /\ \A i \in 1 .. Len(size) : c[Len(b) + i] = size[i]
    BY <2>b, <1>11
  <2> QED BY <2>1, <1>3, <1>10
<1>13. PICK d : d = c \o body OBVIOUS
<1>14. /\ d \in Seq(Byte) /\ Len(d) = 11 + Len(body)
       /\ \A i \in 1 .. 11 : d[i] = c[i]
       /\ \A i \in 1 .. Len(body) : d[11 + i] = body[i]
  <2>a. c \in Seq(Byte) /\ body \in Seq(Byte) BY <1>12
  <2>b. /\ c \o body \in Seq(Byte) /\ Len(c \o body) = Len(c) + Len(body)
        /\ \A i \in 1 .. Len(c) : (c \o body)[i] = c[i]
        /\ \A i \in 1 .. Len(body) : (c \o body)[Len(c) + i] = body[i]
    BY <2>a, Joined
  <2>1. /\ d \in Seq(Byte) /\ Len(d) = Len(c) + Len(body)
        /\ \A i \in 1 .. Len(c) : d[i] = c[i]
        /\ \A i \in 1 .. Len(body) : d[Len(c) + i] = body[i]
    BY <2>b, <1>13
  <2> QED BY <2>1, <1>12
<1>15. PICK e : e = d \o <<TailByte>> OBVIOUS
<1>16. /\ e \in Seq(Byte) /\ Len(e) = Len(body) + 12
       /\ \A i \in 1 .. Len(body) + 11 : e[i] = d[i]
       /\ e[Len(body) + 12] = TailByte
  <2> DEFINE m == <<TailByte>>
  <2>0. m \in Seq(Byte) /\ Len(m) = 1 /\ m[1] = TailByte /\ e = d \o m BY <1>6, <1>15
  <2> HIDE DEF m
  <2>a. d \in Seq(Byte) /\ m \in Seq(Byte) BY <2>0, <1>14
  <2>b. /\ d \o m \in Seq(Byte) /\ Len(d \o m) = Len(d) + Len(m)
        /\ \A i \in 1 .. Len(d) : (d \o m)[i] = d[i]
        /\ \A i \in 1 .. Len(m) : (d \o m)[Len(d) + i] = m[i]
    BY <2>a, Joined
  <2>1. /\ e \in Seq(Byte) /\ Len(e) = Len(d) + Len(m)
        /\ \A i \in 1 .. Len(d) : e[i] = d[i]
        /\ \A i \in 1 .. Len(m) : e[Len(d) + i] = m[i]
    BY <2>b, <2>0
  <2>2. e[Len(d) + 1] = TailByte BY <2>0, <2>1
  <2>3. Len(d) + 1 = Len(body) + 12 /\ Len(body) + 11 = Len(d) BY <1>1, <1>14
  <2>4. Len(e) = Len(body) + 12 BY <2>0, <2>1, <2>3
  <2>5. e[Len(body) + 12] = TailByte BY <2>2, <2>3
  <2>6. \A i \in 1 .. Len(body) + 11 : e[i] = d[i] BY <2>1, <2>3
  <2> QED BY <2>1, <2>4, <2>5, <2>6
<1>17. e = Frame(type, ip, body) BY <1>5, <1>7, <1>9, <1>11, <1>13, <1>15
<1>18. \A i \in 1 .. 11 : e[i] = c[i]
  <2>1. ASSUME NEW i \in 1 .. 11 PROVE e[i] = c[i]
    <3>1. i \in 1 .. Len(body) + 11 BY <1>1
    <3> QED BY <3>1, <1>14, <1>16
  <2> QED BY <2>1
<1>19. e[1] = Magic /\ 256 * e[2] + e[3] = MsgType[type]
  <2>1. e[1] = a[1] /\ e[2] = a[2] /\ e[3] = a[3] BY <1>10, <1>12, <1>18
  <2> QED BY <2>1, <1>2, <1>8
<1>20. \A i \in 1 .. 4 : e[3 + i] = ip[i]
  <2>1. ASSUME NEW i \in 1 .. 4 PROVE e[3 + i] = ip[i]
    <3>1. 3 + i \in 1 .. 7 /\ 3 + i \in 1 .. 11 OBVIOUS
    <3> QED BY <3>1, <1>10, <1>12, <1>18
  <2> QED BY <2>1
<1>21. SizeAt(e, 8) = Len(body)
  <2>1. e[8] = size[1] /\ e[8 + 1] = size[1 + 1] /\ e[8 + 2] = size[1 + 2]
        /\ e[8 + 3] = size[1 + 3]
    <3>1. c[7 + 1] = size[1] /\ c[7 + 2] = size[2] /\ c[7 + 3] = size[3]
          /\ c[7 + 4] = size[4]
      BY <1>12
    <3> QED BY <3>1, <1>18
  <2> QED BY <2>1, <1>3, SMT DEF SizeAt
<1>22. \A i \in 1 .. Len(body) : e[11 + i] = body[i]
  <2>1. ASSUME NEW i \in 1 .. Len(body) PROVE e[11 + i] = body[i]
    <3>1. 11 + i \in 1 .. Len(body) + 11 BY <1>1
    <3> QED BY <3>1, <1>14, <1>16
  <2> QED BY <2>1
<1> QED BY <1>16, <1>17, <1>19, <1>20, <1>21, <1>22 DEF IsFrame

\* What has arrived of a frame, perhaps with more behind it.
Agrees(bytes, fr) == \A i \in 1 .. Len(bytes) : i <= Len(fr) => bytes[i] = fr[i]

LEMMA HeaderOf ==
    ASSUME NEW type \in DOMAIN MsgType, NEW ip, NEW body \in Seq(Byte),
           NEW fr, IsFrame(fr, type, ip, body),
           NEW bytes \in Seq(Byte), Agrees(bytes, fr), Len(bytes) >= HeaderSize
    PROVE  /\ bytes[1] = Magic /\ SizeAt(bytes, 8) = Len(body)
           /\ TypeOfCode(256 * bytes[2] + bytes[3]) = type
<1>0. Len(body) \in Nat /\ Len(bytes) \in Nat BY LenProperties
<1>1. Len(fr) = Len(body) + 12 BY DEF IsFrame
<1>2. \A i \in 1 .. 11 : bytes[i] = fr[i]
  <2>1. ASSUME NEW i \in 1 .. 11 PROVE bytes[i] = fr[i]
    <3>1. i \in 1 .. Len(bytes) /\ i <= Len(fr) BY <1>0, <1>1 DEF HeaderSize
    <3> QED BY <3>1 DEF Agrees
  <2> QED BY <2>1
<1>3. bytes[1] = Magic BY <1>2 DEF IsFrame
<1>4. SizeAt(bytes, 8) = SizeAt(fr, 8)
  <2>1. /\ bytes[8] = fr[8] /\ bytes[8 + 1] = fr[8 + 1] /\ bytes[8 + 2] = fr[8 + 2]
        /\ bytes[8 + 3] = fr[8 + 3]
    BY <1>2
  <2> QED BY <2>1, SMT DEF SizeAt
<1>5. 256 * bytes[2] + bytes[3] = MsgType[type]
  <2>1. bytes[2] = fr[2] /\ bytes[3] = fr[3] BY <1>2
  <2> QED BY <2>1 DEF IsFrame
<1> QED BY <1>3, <1>4, <1>5, CodeRoundTrip DEF IsFrame

LEMMA BodyOf ==
    ASSUME NEW type \in DOMAIN MsgType, NEW ip \in Word, NEW body \in Seq(Byte),
           NEW fr, IsFrame(fr, type, ip, body),
           NEW bytes \in Seq(Byte), Agrees(bytes, fr), Len(bytes) >= Len(fr)
    PROVE  /\ Len(fr) = Len(body) + 12 /\ bytes[Len(fr)] = TailByte
           /\ U32At(bytes, 4) = ip /\ SubSeq(bytes, 12, Len(fr) - 1) = body
<1>0. Len(body) \in Nat /\ Len(bytes) \in Nat BY LenProperties
<1>1. Len(fr) = Len(body) + 12 BY DEF IsFrame
<1>2. \A i \in 1 .. Len(fr) : i \in 1 .. Len(bytes) /\ bytes[i] = fr[i]
  BY <1>0, <1>1 DEF Agrees
<1>3. bytes[Len(fr)] = TailByte
  <2>1. Len(fr) \in 1 .. Len(fr) BY <1>0, <1>1
  <2> QED BY <2>1, <1>1, <1>2 DEF IsFrame
<1>4. \A i \in 1 .. Len(fr) : bytes[i] \in Byte BY <1>2, ElementOfSeq
<1>5. U32At(bytes, 4) = ip
  <2>1. \A i \in 4 .. 7 : bytes[i] \in Byte BY <1>0, <1>1, <1>4
  <2>2. /\ SubSeq(bytes, 4, 7) \in Seq(Byte)
        /\ Len(SubSeq(bytes, 4, 7)) = IF 4 <= 7 THEN 7 - 4 + 1 ELSE 0
        /\ \A i \in 1 .. 7 - 4 + 1 : SubSeq(bytes, 4, 7)[i] = bytes[4 + i - 1]
    BY <2>1, SubSeqProperties
  <2>3. ip \in Seq(Byte) /\ Len(ip) = 4 BY WordIsSeq
  <2>4. \A i \in 1 .. 4 : SubSeq(bytes, 4, 7)[i] = ip[i]
    <3>1. ASSUME NEW i \in 1 .. 4 PROVE SubSeq(bytes, 4, 7)[i] = ip[i]
      <4>1. i \in 1 .. 7 - 4 + 1 /\ 4 + i - 1 = 3 + i /\ 3 + i \in 1 .. Len(fr)
        BY <1>0, <1>1
      <4>2. SubSeq(bytes, 4, 7)[i] = bytes[3 + i] BY <2>2, <4>1
      <4>3. bytes[3 + i] = fr[3 + i] BY <1>2, <4>1
      <4>4. fr[3 + i] = ip[i] BY DEF IsFrame
      <4> QED BY <4>2, <4>3, <4>4
    <3> QED BY <3>1
  <2>5. Len(SubSeq(bytes, 4, 7)) = 4 BY <2>2
  <2>6. SubSeq(bytes, 4, 7) = ip BY <2>2, <2>3, <2>4, <2>5, SeqEqual
  <2> QED BY <2>6 DEF U32At
<1>6. SubSeq(bytes, 12, Len(fr) - 1) = body
  <2> DEFINE n == Len(fr) - 1
             sub == SubSeq(bytes, 12, n)
  <2>0. n \in Int /\ n = Len(body) + 11 /\ n - 12 + 1 = Len(body)
    BY <1>0, <1>1
  <2>1. \A i \in 12 .. n : bytes[i] \in Byte BY <1>0, <1>1, <1>4
  <2>2. /\ sub \in Seq(Byte)
        /\ Len(sub) = IF 12 <= n THEN n - 12 + 1 ELSE 0
        /\ \A i \in 1 .. n - 12 + 1 : sub[i] = bytes[12 + i - 1]
    <3> HIDE DEF n
    <3> QED BY <2>0, <2>1, SubSeqProperties
  <2>3. Len(sub) = Len(body)
    <3> HIDE DEF n, sub
    <3> QED BY <2>0, <2>2, <1>0
  <2>4. \A i \in 1 .. Len(body) : sub[i] = body[i]
    <3>1. ASSUME NEW i \in 1 .. Len(body) PROVE sub[i] = body[i]
      <4>1. i \in 1 .. n - 12 + 1 /\ 12 + i - 1 = 11 + i /\ 11 + i \in 1 .. Len(fr)
        BY <1>0, <1>1, <2>0
      <4> HIDE DEF n, sub
      <4>2. sub[i] = bytes[11 + i] BY <2>2, <4>1
      <4>3. bytes[11 + i] = fr[11 + i] BY <1>2, <4>1
      <4>4. fr[11 + i] = body[i] BY DEF IsFrame
      <4> QED BY <4>2, <4>3, <4>4
    <3> QED BY <3>1
  <2> HIDE DEF n
  <2>5. sub \in Seq(Byte) BY <2>2
  <2> HIDE DEF sub
  <2>6. sub = body BY <2>3, <2>4, <2>5, SeqEqual
  <2> QED BY <2>6 DEF sub, n
<1> QED BY <1>1, <1>3, <1>5, <1>6
-----------------------------------------------------------------------------
(***************************************************************************)
(* A message to the server is decoded as soon as its frame is complete.    *)
(***************************************************************************)
BodyOfMessage(m) == IF m.type = "JoinMeeting" THEN m.numbers[1] ELSE m.body

LEMMA MessageFrame ==
    ASSUME NEW m \in Messages
    PROVE  /\ m.type \in DOMAIN MsgType /\ LocalIp \in Word
           /\ BodyOfMessage(m) \in Seq(Byte) /\ Len(BodyOfMessage(m)) < Unmodelled
           /\ IsFrame(FrameOf(m), m.type, LocalIp, BodyOfMessage(m))
           /\ AsPacket(m) = Packet(m.type, LocalIp, BodyOfMessage(m))
<1>1. /\ wire_frame_needs_length_field(m.type) /\ LocalIp \in Word
      /\ m.type = "JoinMeeting" => m.numbers[1] \in Word
      /\ m.body \in Seq(Byte) /\ Len(m.body) < Unmodelled
  BY UpAssumption
<1>0. m.type \in DOMAIN MsgType
  BY <1>1 DEF wire_frame_needs_length_field, MsgType
<1>2. BodyOfMessage(m) \in Seq(Byte) /\ Len(BodyOfMessage(m)) < Unmodelled
  <2>1. CASE m.type = "JoinMeeting"
    <3>1. m.numbers[1] \in Seq(Byte) /\ Len(m.numbers[1]) = 4 BY <1>1, <2>1, WordIsSeq
    <3>2. 4 < Unmodelled BY SMT DEF Unmodelled
    <3>3. BodyOfMessage(m) = m.numbers[1] BY <2>1 DEF BodyOfMessage
    <3> QED BY <3>1, <3>2, <3>3
  <2>2. CASE m.type # "JoinMeeting" BY <1>1, <2>2 DEF BodyOfMessage
  <2> QED BY <2>1, <2>2
<1>3. FrameOf(m) = Frame(m.type, LocalIp, BodyOfMessage(m))
  BY <1>1 DEF FrameOf, encode_wire_frame, BodyOfMessage
<1>4. IsFrame(FrameOf(m), m.type, LocalIp, BodyOfMessage(m))
  BY <1>0, <1>1, <1>2, <1>3, FrameIsFrame
<1>5. AsPacket(m) = Packet(m.type, LocalIp, BodyOfMessage(m)) BY DEF AsPacket, BodyOfMessage
<1> QED BY <1>0, <1>1, <1>2, <1>4, <1>5

LEMMA TryDecode ==
    ASSUME NEW m \in Messages, NEW bytes \in Seq(Byte), Agrees(bytes, FrameOf(m))
    PROVE  /\ Len(bytes) < Len(FrameOf(m)) => try_decode(bytes) = [status |-> "NeedMore"]
           /\ Len(bytes) >= Len(FrameOf(m)) =>
                try_decode(bytes) = [status |-> "Ok", frame_size |-> Len(FrameOf(m)),
                                     packet |-> AsPacket(m)]
<1> DEFINE fr == FrameOf(m)
           body == BodyOfMessage(m)
<1>1. /\ m.type \in DOMAIN MsgType /\ LocalIp \in Word /\ body \in Seq(Byte)
      /\ IsFrame(fr, m.type, LocalIp, body)
      /\ AsPacket(m) = Packet(m.type, LocalIp, body)
  BY MessageFrame
<1>2. Agrees(bytes, fr) OBVIOUS
<1> HIDE DEF fr, body
<1>3. Len(body) \in Nat /\ Len(bytes) \in Nat BY <1>1, LenProperties
<1>4. Len(fr) = Len(body) + 12 BY <1>1 DEF IsFrame
<1>5. CASE Len(bytes) < HeaderSize
  <2>1. try_decode(bytes) = [status |-> "NeedMore"] BY <1>5 DEF try_decode
  <2>2. Len(bytes) < Len(fr) BY <1>3, <1>4, <1>5 DEF HeaderSize
  <2> QED BY <2>1, <2>2, <1>3, <1>4 DEF fr
<1>6. CASE ~(Len(bytes) < HeaderSize)
  <2>1. Len(bytes) >= HeaderSize BY <1>3, <1>6 DEF HeaderSize
  <2>2. /\ bytes[1] = Magic /\ SizeAt(bytes, 8) = Len(body)
        /\ TypeOfCode(256 * bytes[2] + bytes[3]) = m.type
    BY <1>1, <1>2, <2>1, HeaderOf
  <2>3. HeaderSize + SizeAt(bytes, 8) + 1 = Len(fr) BY <2>2, <1>3, <1>4 DEF HeaderSize
  <2>4. CASE Len(bytes) < Len(fr)
    <3>1. try_decode(bytes) = [status |-> "NeedMore"]
      BY <1>6, <2>2, <2>3, <2>4 DEF try_decode
    <3> QED BY <3>1, <2>4, <1>3, <1>4 DEF fr
  <2>5. CASE ~(Len(bytes) < Len(fr))
    <3>0. Len(bytes) >= Len(fr) BY <2>5, <1>3, <1>4
    <3>1. /\ bytes[Len(fr)] = TailByte /\ U32At(bytes, 4) = LocalIp
          /\ SubSeq(bytes, 12, Len(fr) - 1) = body
      BY <1>1, <1>2, <3>0, BodyOf
    <3>2. try_decode(bytes) = [status |-> "Ok", frame_size |-> Len(fr),
                               packet |-> Packet(m.type, LocalIp, body)]
      BY <1>6, <2>2, <2>3, <2>5, <3>1 DEF try_decode
    <3> QED BY <3>2, <2>5, <1>1 DEF fr
  <2> QED BY <2>4, <2>5
<1> QED BY <1>5, <1>6

-----------------------------------------------------------------------------
(***************************************************************************)
(* Parts of a stream of frames.                                            *)
(***************************************************************************)
LEMMA Window ==
    ASSUME NEW s \in Seq(Byte), NEW a \in Nat, NEW b \in a .. Len(s)
    PROVE  /\ SubSeq(s, a + 1, b) \in Seq(Byte) /\ Len(SubSeq(s, a + 1, b)) = b - a
           /\ \A i \in 1 .. b - a : SubSeq(s, a + 1, b)[i] = s[a + i]
<1>0. Len(s) \in Nat /\ b \in Int /\ a + 1 \in Int BY LenProperties
<1>1. \A i \in a + 1 .. b : s[i] \in Byte
  <2>1. ASSUME NEW i \in a + 1 .. b PROVE s[i] \in Byte
    <3>1. i \in 1 .. Len(s) BY <1>0
    <3> QED BY <3>1, ElementOfSeq
  <2> QED BY <2>1
<1>2. /\ SubSeq(s, a + 1, b) \in Seq(Byte)
      /\ Len(SubSeq(s, a + 1, b)) = IF a + 1 <= b THEN b - (a + 1) + 1 ELSE 0
      /\ \A i \in 1 .. b - (a + 1) + 1 : SubSeq(s, a + 1, b)[i] = s[(a + 1) + i - 1]
  BY <1>0, <1>1, SubSeqProperties
<1>3. Len(SubSeq(s, a + 1, b)) = b - a BY <1>0, <1>2
<1>4. ASSUME NEW i \in 1 .. b - a PROVE SubSeq(s, a + 1, b)[i] = s[a + i]
  <2>1. i \in 1 .. b - (a + 1) + 1 /\ (a + 1) + i - 1 = a + i BY <1>0
  <2> QED BY <2>1, <1>2
<1> QED BY <1>2, <1>3, <1>4

\* A part of a part.
LEMMA WindowOfWindow ==
    ASSUME NEW s \in Seq(Byte), NEW a \in Nat, NEW b \in a .. Len(s), NEW c \in a .. b
    PROVE  SubSeq(SubSeq(s, a + 1, b), (c - a) + 1, b - a) = SubSeq(s, c + 1, b)
<1> DEFINE w == SubSeq(s, a + 1, b)
           u == SubSeq(w, (c - a) + 1, b - a)
           v == SubSeq(s, c + 1, b)
<1>0. Len(s) \in Nat /\ c \in Nat /\ c - a \in Nat /\ b \in c .. Len(s)
  BY LenProperties
<1>1. /\ w \in Seq(Byte) /\ Len(w) = b - a /\ \A i \in 1 .. b - a : w[i] = s[a + i]
  BY Window
<1>2. /\ v \in Seq(Byte) /\ Len(v) = b - c /\ \A i \in 1 .. b - c : v[i] = s[c + i]
  BY <1>0, Window
<1> HIDE DEF w, v
<1>3. b - a \in (c - a) .. Len(w) BY <1>0, <1>1
<1>4. /\ u \in Seq(Byte) /\ Len(u) = (b - a) - (c - a)
      /\ \A i \in 1 .. (b - a) - (c - a) : u[i] = w[(c - a) + i]
  BY <1>0, <1>1, <1>3, Window
<1> HIDE DEF u
<1>5. Len(u) = Len(v) BY <1>0, <1>2, <1>4
<1>6. ASSUME NEW i \in 1 .. Len(u) PROVE u[i] = v[i]
  <2>1. /\ i \in 1 .. (b - a) - (c - a) /\ i \in 1 .. b - c /\ (c - a) + i \in 1 .. b - a
        /\ a + ((c - a) + i) = c + i
    BY <1>0, <1>4
  <2> QED BY <2>1, <1>1, <1>2, <1>4
<1>7. u = v BY <1>2, <1>4, <1>5, <1>6, SeqEqual
<1> QED BY <1>7 DEF u, v, w

\* Two parts that follow each other.
LEMMA WindowsMeet ==
    ASSUME NEW S, NEW s \in Seq(S), NEW a \in 0 .. Len(s), NEW b \in a .. Len(s),
           NEW c \in b .. Len(s)
    PROVE  SubSeq(s, a + 1, b) \o SubSeq(s, b + 1, c) = SubSeq(s, a + 1, c)
<1>1. Len(s) \in Nat BY LenProperties
<1>2. /\ a + 1 \in 1 .. Len(s) + 1 /\ b \in (a + 1) - 1 .. Len(s) /\ c \in b .. Len(s)
  BY <1>1
<1> QED BY <1>2, ConcatAdjacentSubSeq

\* Behind the first j frames, the stream begins with the next frame.
LEMMA FrameAhead ==
    ASSUME NEW ss \in Seq(Seq(Byte)), NEW j \in 0 .. Len(ss) - 1,
           NEW x \in Offset(ss, j) .. Len(FlattenSeq(ss))
    PROVE  /\ SubSeq(FlattenSeq(ss), Offset(ss, j) + 1, x) \in Seq(Byte)
           /\ Len(SubSeq(FlattenSeq(ss), Offset(ss, j) + 1, x)) = x - Offset(ss, j)
           /\ Agrees(SubSeq(FlattenSeq(ss), Offset(ss, j) + 1, x), ss[j + 1])
<1> DEFINE s == FlattenSeq(ss)
           a == Offset(ss, j)
           w == SubSeq(s, a + 1, x)
           fr == ss[j + 1]
<1>0. Len(ss) \in Nat BY LenProperties
<1>1. s \in Seq(Byte) /\ a \in Nat BY <1>0, OffsetEnds, OffsetNext
<1>2. \A i \in 1 .. Len(fr) : s[a + i] = fr[i] BY StreamAt
<1>3. x \in a .. Len(s) OBVIOUS
<1>4. fr \in Seq(Byte) /\ Len(fr) \in Nat
  <2>1. j + 1 \in 1 .. Len(ss) BY <1>0
  <2>2. fr \in Seq(Byte) BY <2>1, ElementOfSeq
  <2> QED BY <2>2, LenProperties
<1> HIDE DEF s, a, fr
<1>5. /\ w \in Seq(Byte) /\ Len(w) = x - a
      /\ \A i \in 1 .. x - a : w[i] = s[a + i]
  BY <1>1, <1>3, Window
<1> HIDE DEF w
<1>6. Agrees(w, fr)
  <2>1. ASSUME NEW i \in 1 .. Len(w), i <= Len(fr) PROVE w[i] = fr[i]
    <3>1. i \in 1 .. x - a /\ i \in 1 .. Len(fr) BY <1>4, <1>5, <2>1
    <3> QED BY <3>1, <1>2, <1>5
  <2> QED BY <2>1 DEF Agrees
<1> QED BY <1>5, <1>6 DEF w, s, a, fr

\* How many frames are complete when x bytes have arrived.
LEMMA Reached ==
    ASSUME NEW ss \in Seq(Seq(Byte)), NEW d \in 0 .. Len(ss),
           NEW x \in Offset(ss, d) .. Len(FlattenSeq(ss))
    PROVE  \E j \in d .. Len(ss) :
              /\ Offset(ss, j) <= x
              /\ IF j < Len(ss) THEN x < Offset(ss, j + 1) ELSE x = Offset(ss, j)
<1> DEFINE T == {j \in d .. Len(ss) : Offset(ss, j) <= x}
<1>0. Len(ss) \in Nat /\ d \in Nat BY LenProperties
<1>1. /\ Offset(ss, Len(ss)) = Len(FlattenSeq(ss))
      /\ \A j \in 0 .. Len(ss) : Offset(ss, j) \in Nat
  BY OffsetEnds
<1>2. x \in Nat /\ x <= Len(FlattenSeq(ss)) /\ Offset(ss, d) <= x BY <1>0, <1>1
<1>3. T \in SUBSET Nat /\ d \in T /\ \A j \in T : j <= Len(ss) BY <1>0, <1>2
<1>4. PICK j \in T : \A k \in T : k <= j
  <2> HIDE DEF T
  <2>1. Max(T) \in T /\ \A k \in T : k <= Max(T) BY <1>0, <1>3, GreatestOf
  <2> QED BY <2>1
<1>5. j \in d .. Len(ss) /\ Offset(ss, j) <= x BY <1>4
<1>6. CASE j < Len(ss)
  <2>1. j + 1 \in d .. Len(ss) /\ ~(j + 1 <= j) BY <1>0, <1>5, <1>6
  <2>2. ~(Offset(ss, j + 1) <= x) BY <2>1, <1>4
  <2>3. Offset(ss, j + 1) \in Nat
    <3>1. j + 1 \in 0 .. Len(ss) BY <1>0, <2>1
    <3> QED BY <3>1, <1>1
  <2>4. x < Offset(ss, j + 1) BY <2>2, <2>3, <1>2
  <2> QED BY <1>5, <1>6, <2>4
<1>7. CASE ~(j < Len(ss))
  <2>1. j = Len(ss) BY <1>0, <1>5, <1>7
  <2>2. x = Offset(ss, j) BY <2>1, <1>0, <1>1, <1>2, <1>5
  <2> QED BY <1>5, <1>7, <2>2
<1> QED BY <1>6, <1>7
-----------------------------------------------------------------------------
(***************************************************************************)
(* The decoding loop of the server.                                        *)
(***************************************************************************)
LEMMA SizeType ==
    ASSUME NEW bytes \in Seq(Byte), Len(bytes) >= HeaderSize
    PROVE  SizeAt(bytes, 8) \in Nat
<1>1. bytes[8] \in Byte /\ bytes[8 + 1] \in Byte /\ bytes[8 + 2] \in Byte /\ bytes[8 + 3] \in Byte
  <2>1. 8 \in 1 .. Len(bytes) /\ 8 + 1 \in 1 .. Len(bytes) /\ 8 + 2 \in 1 .. Len(bytes)
        /\ 8 + 3 \in 1 .. Len(bytes)
    BY LenProperties DEF HeaderSize
  <2> QED BY <2>1, ElementOfSeq
<1>2. PICK a \in 0 .. 255, b \in 0 .. 255, c \in 0 .. 255, d \in 0 .. 255 :
         bytes[8] = a /\ bytes[8 + 1] = b /\ bytes[8 + 2] = c /\ bytes[8 + 3] = d
  BY <1>1 DEF Byte
<1>3. 16777216 * a + 65536 * b + 256 * c + d \in Nat BY SMT
<1>4. Unmodelled \in Nat BY SMT DEF Unmodelled
<1> QED BY <1>2, <1>3, <1>4, SMT DEF SizeAt

LEMMA DecodedFits ==
    ASSUME NEW bytes \in Seq(Byte), try_decode(bytes).status = "Ok"
    PROVE  try_decode(bytes).frame_size \in 1 .. Len(bytes)
<1>0. Len(bytes) \in Nat BY LenProperties
<1>1. ~(Len(bytes) < HeaderSize) BY DEF try_decode
<1>2. SizeAt(bytes, 8) \in Nat BY <1>0, <1>1, SizeType DEF HeaderSize
<1> DEFINE n == HeaderSize + SizeAt(bytes, 8) + 1
<1>3. ~(Len(bytes) < n) /\ try_decode(bytes).frame_size = n
  <2>1. bytes[1] = Magic BY <1>1 DEF try_decode
  <2>2. ~(Len(bytes) < n) BY <1>1, <2>1 DEF try_decode
  <2>3. bytes[n] = TailByte BY <1>1, <2>1, <2>2 DEF try_decode
  <2> QED BY <1>1, <2>1, <2>2, <2>3 DEF try_decode
<1>4. n \in Nat /\ 1 <= n BY <1>2 DEF HeaderSize
<1> HIDE DEF n
<1> QED BY <1>0, <1>3, <1>4

\* f is the function of decode_all(b).
Decodes(f, b) ==
    f = [r \in b.r .. b.w |->
           LET d == try_decode(SubSeq(b.memory, r + 1, b.w))
           IN  IF d.status # "Ok"
               THEN [buffer |-> [b EXCEPT !.r = r], packets |-> << >>,
                     status |-> d.status]
               ELSE [f[r + d.frame_size] EXCEPT !.packets = <<d.packet>> \o @]]

\* A buffer as the server has it.
IsBuf(b) ==
    /\ b.r \in Nat /\ b.w \in b.r .. Len(b.memory) /\ b.memory \in Seq(Byte)

LEMMA DecodesExists ==
    ASSUME NEW b, IsBuf(b)
    PROVE  \E f : Decodes(f, b)
<1> DEFINE bytes(r) == SubSeq(b.memory, r + 1, b.w)
           d(r) == try_decode(bytes(r))
           stop(r) == [buffer |-> [b EXCEPT !.r = r], packets |-> << >>,
                       status |-> d(r).status]
           go(r, rest) == [rest EXCEPT !.packets = <<d(r).packet>> \o @]
           R(f, lo) == f = [r \in lo .. b.w |->
                              IF d(r).status # "Ok" THEN stop(r)
                              ELSE go(r, f[r + d(r).frame_size])]
           S == {n \in Nat : n <= b.w - b.r => \E f : R(f, b.w - n)}
<1>0. b.r \in Nat /\ b.w \in Nat /\ b.r <= b.w /\ Len(b.memory) \in Nat /\ b.w <= Len(b.memory)
  BY LenProperties DEF IsBuf
<1>1. ASSUME NEW r \in b.r .. b.w, d(r).status = "Ok"
      PROVE  r + d(r).frame_size \in r + 1 .. b.w
  <2>1. r \in Nat /\ b.w \in r .. Len(b.memory) BY <1>0
  <2>2. bytes(r) \in Seq(Byte) /\ Len(bytes(r)) = b.w - r
    BY <2>1, Window DEF IsBuf
  <2>3. d(r).frame_size \in 1 .. Len(bytes(r)) BY <2>2, <1>1, DecodedFits
  <2> HIDE DEF d, bytes
  <2> QED BY <2>1, <2>2, <2>3, <1>0
<1> HIDE DEF d, stop, go
<1>2. 0 \in S
  <2>1. ASSUME NEW r \in b.w .. b.w PROVE d(r).status # "Ok"
    <3>1. r = b.w /\ r \in b.r .. b.w BY <1>0
    <3>2. SUFFICES ASSUME d(r).status = "Ok" PROVE FALSE OBVIOUS
    <3>3. r + d(r).frame_size \in r + 1 .. b.w BY <1>1, <3>1, <3>2
    <3> QED BY <3>1, <3>3, <1>0
  <2> DEFINE f == [r \in b.w .. b.w |-> stop(r)]
  <2>2. [r \in b.w .. b.w |-> IF d(r).status # "Ok" THEN stop(r)
                              ELSE go(r, f[r + d(r).frame_size])] = f
    BY <2>1
  <2>3. b.w - 0 = b.w BY <1>0
  <2> HIDE DEF f
  <2>4. R(f, b.w - 0) BY <2>2, <2>3
  <2> QED BY <2>4
<1>3. ASSUME NEW n \in S PROVE n + 1 \in S
  <2>1. SUFFICES ASSUME n + 1 <= b.w - b.r PROVE \E f : R(f, b.w - (n + 1))
    OBVIOUS
  <2>2. n <= b.w - b.r /\ n \in Nat BY <2>1, <1>0
  <2>3. PICK f : R(f, b.w - n) BY <2>2
  <2> DEFINE lo == b.w - (n + 1)
             val(r) == IF d(r).status # "Ok" THEN stop(r) ELSE go(r, f[r + d(r).frame_size])
             g == [r \in lo .. b.w |-> IF r = lo THEN val(r) ELSE f[r]]
  <2>4. /\ lo \in Nat /\ lo + 1 = b.w - n /\ b.r <= lo /\ lo < b.w
    <3>1. \A w, r \in Nat : n + 1 <= w - r =>
             /\ w - (n + 1) \in Nat /\ (w - (n + 1)) + 1 = w - n
             /\ r <= w - (n + 1) /\ w - (n + 1) < w
      BY <2>2
    <3> QED BY <2>1, <3>1, <1>0
  <2>5. ASSUME NEW r \in lo .. b.w PROVE g[r] = val(r)
    <3>1. CASE r = lo BY <3>1
    <3>2. CASE r # lo
      <4>1. r \in b.w - n .. b.w /\ g[r] = f[r]
        <5> HIDE DEF val
        <5>1. g[r] = f[r] BY <3>2
        <5> HIDE DEF g, lo
        <5> QED BY <5>1, <3>2, <2>4, <1>0
      <4>2. f[r] = val(r)
        <5> HIDE DEF lo
        <5> QED BY <2>3, <4>1
      <4> QED BY <4>1, <4>2
    <3> QED BY <3>1, <3>2
  <2>6. ASSUME NEW r \in lo .. b.w, d(r).status = "Ok"
        PROVE  g[r + d(r).frame_size] = f[r + d(r).frame_size]
    <3>1. r \in b.r .. b.w
      <4> HIDE DEF lo
      <4> QED BY <2>4, <1>0
    <3>2. r + d(r).frame_size \in r + 1 .. b.w BY <1>1, <2>6, <3>1
    <3> DEFINE q == r + d(r).frame_size
    <3>3. q \in lo .. b.w /\ q # lo
      <4> HIDE DEF lo, q
      <4>1. q \in r + 1 .. b.w BY <3>2 DEF q
      <4> QED BY <4>1, <2>4, <1>0
    <3> HIDE DEF lo, val, q
    <3>4. g[q] = f[q] BY <3>3
    <3> QED BY <3>4 DEF q
  <2>7. R(g, lo)
    <3> DEFINE h == [r \in lo .. b.w |->
                       IF d(r).status # "Ok" THEN stop(r)
                       ELSE go(r, g[r + d(r).frame_size])]
    <3>1. ASSUME NEW r \in lo .. b.w PROVE g[r] = h[r]
      <4>1. h[r] = IF d(r).status # "Ok" THEN stop(r)
                   ELSE go(r, g[r + d(r).frame_size])
        <5> HIDE DEF g, lo
        <5> QED OBVIOUS
      <4>2. g[r] = val(r) BY <2>5
      <4>3. d(r).status = "Ok" => g[r + d(r).frame_size] = f[r + d(r).frame_size]
        BY <2>6
      <4> HIDE DEF g, h, lo
      <4> QED BY <4>1, <4>2, <4>3 DEF val
    <3>2. g = [r \in lo .. b.w |-> g[r]] /\ h = [r \in lo .. b.w |-> h[r]]
      <4> HIDE DEF lo, val
      <4> QED OBVIOUS
    <3>3. g = h
      <4> HIDE DEF g, h, lo
      <4> QED BY <3>1, <3>2
    <3> QED BY <3>3
  <2> HIDE DEF g, R
  <2> QED BY <2>7
<1>4. S = Nat
  <2> HIDE DEF S
  <2>1. S \in SUBSET Nat BY DEF S
  <2> QED BY <1>2, <1>3, <2>1, NatInduct
<1>5. b.w - b.r \in Nat /\ b.w - (b.w - b.r) = b.r /\ b.w - b.r <= b.w - b.r BY <1>0
<1>6. b.w - b.r \in S
  <2> HIDE DEF S
  <2> QED BY <1>4, <1>5
<1>7. \E f : R(f, b.r)
  <2> HIDE DEF R
  <2> QED BY <1>5, <1>6
<1> QED BY <1>7 DEF Decodes, d, stop, go, bytes

FramesOf(ms) == [i \in DOMAIN ms |-> FrameOf(ms[i])]
PacketsOf(ms) == [i \in DOMAIN ms |-> AsPacket(ms[i])]
UpPackets == {AsPacket(m) : m \in Messages}

LEMMA FramesOfMessages ==
    ASSUME NEW ms \in Seq(Messages)
    PROVE  /\ FramesOf(ms) \in Seq(Seq(Byte)) /\ Len(FramesOf(ms)) = Len(ms)
           /\ \A i \in 1 .. Len(ms) : ms[i] \in Messages /\ FramesOf(ms)[i] = FrameOf(ms[i])
           /\ PacketsOf(ms) \in Seq(UpPackets) /\ Len(PacketsOf(ms)) = Len(ms)
           /\ \A i \in 1 .. Len(ms) : PacketsOf(ms)[i] = AsPacket(ms[i])
<1>0. Len(ms) \in Nat /\ DOMAIN ms = 1 .. Len(ms) BY LenProperties
<1>1. \A i \in 1 .. Len(ms) : ms[i] \in Messages BY ElementOfSeq
<1>2. \A i \in 1 .. Len(ms) : FrameOf(ms[i]) \in Seq(Byte)
  BY <1>1, MessageFrame DEF IsFrame
<1>3. \A i \in 1 .. Len(ms) : AsPacket(ms[i]) \in UpPackets BY <1>1 DEF UpPackets
<1>4. FramesOf(ms) = [i \in 1 .. Len(ms) |-> FrameOf(ms[i])] BY <1>0 DEF FramesOf
<1>5. PacketsOf(ms) = [i \in 1 .. Len(ms) |-> AsPacket(ms[i])] BY <1>0 DEF PacketsOf
<1>6. FramesOf(ms) \in Seq(Seq(Byte)) BY <1>0, <1>2, <1>4, IsASeq
<1>7. PacketsOf(ms) \in Seq(UpPackets) BY <1>0, <1>3, <1>5, IsASeq
<1>8. Len(FramesOf(ms)) = Len(ms)
  BY <1>0, <1>4, <1>6
<1>9. Len(PacketsOf(ms)) = Len(ms)
  BY <1>0, <1>5, <1>7
<1>10. \A i \in 1 .. Len(ms) : FramesOf(ms)[i] = FrameOf(ms[i]) BY <1>4
<1>11. \A i \in 1 .. Len(ms) : PacketsOf(ms)[i] = AsPacket(ms[i]) BY <1>5
<1> QED BY <1>1, <1>6, <1>7, <1>8, <1>9, <1>10, <1>11

\* What has arrived up to z of the stream behind the first d frames.
Behind(ss, d, z) == SubSeq(FlattenSeq(ss), Offset(ss, d) + 1, z)

\* Decoding takes the frames after the first d up to j out of the buffer.
Takes(b, ms, d, j, x) ==
    \E r \in b.r .. b.w :
        /\ SubSeq(b.memory, r + 1, b.w) = Behind(FramesOf(ms), j, x)
        /\ decode_all(b) = [buffer |-> [b EXCEPT !.r = r],
                            packets |-> SubSeq(PacketsOf(ms), d + 1, j),
                            status |-> "NeedMore"]

\* The loop takes the frames that are complete, and nothing else.
LEMMA DecodeAll ==
    ASSUME NEW ms \in Seq(Messages), NEW d \in 0 .. Len(ms), NEW j \in d .. Len(ms),
           NEW x \in Nat, Offset(FramesOf(ms), j) <= x,
           x <= Len(FlattenSeq(FramesOf(ms))),
           IF j < Len(ms) THEN x < Offset(FramesOf(ms), j + 1)
                          ELSE x = Offset(FramesOf(ms), j),
           NEW b, IsBuf(b),
           readable(b) = Behind(FramesOf(ms), d, x)
    PROVE  Takes(b, ms, d, j, x)
<1> DEFINE ss == FramesOf(ms)
           s == FlattenSeq(ss)
           o(k) == Offset(ss, k)
           at(k) == b.r + (o(k) - o(d))
           ps == PacketsOf(ms)
           bytes(k) == SubSeq(b.memory, at(k) + 1, b.w)
<1>0. Len(ms) \in Nat /\ d \in Nat /\ j \in Nat /\ d <= j /\ j <= Len(ms) BY LenProperties
<1>1. /\ ss \in Seq(Seq(Byte)) /\ Len(ss) = Len(ms) /\ s \in Seq(Byte) /\ Len(s) \in Nat
      /\ \A k \in 0 .. Len(ms) : o(k) \in Nat
  <2>1. ss \in Seq(Seq(Byte)) /\ Len(ss) = Len(ms) BY FramesOfMessages
  <2>2. s \in Seq(Byte) /\ \A k \in 0 .. Len(ms) : o(k) \in Nat
    <3> HIDE DEF ss
    <3> QED BY <2>1, OffsetEnds
  <2>3. Len(s) \in Nat
    <3> HIDE DEF s
    <3> QED BY <2>2, LenProperties
  <2> QED BY <2>1, <2>2, <2>3
<1>2. \A k \in d .. j : o(d) <= o(k) /\ o(k) <= o(j) /\ o(k) \in Nat
  <2>1. TAKE k \in d .. j
  <2>2. d \in 0 .. Len(ss) /\ k \in d .. Len(ss) /\ k \in 0 .. Len(ss) /\ j \in k .. Len(ss)
    BY <1>0, <1>1
  <2> HIDE DEF ss
  <2> QED BY <2>2, <1>1, OffsetGrows
<1>3. o(j) <= x /\ x <= Len(s) OBVIOUS
<1>4. readable(b) = SubSeq(s, o(d) + 1, x) BY DEF Behind
<1>5. IF j < Len(ms) THEN x < o(j + 1) ELSE x = o(j) OBVIOUS
<1>6. /\ b.r \in Nat /\ b.w \in Nat /\ b.w \in b.r .. Len(b.memory) /\ b.memory \in Seq(Byte)
  BY LenProperties DEF IsBuf
<1> HIDE DEF ss, s, o, ps
<1>7. b.w - b.r = x - o(d)
  <2>1. Len(readable(b)) = b.w - b.r BY <1>6, Window DEF readable
  <2>2. x \in o(d) .. Len(s) /\ o(d) \in Nat BY <1>0, <1>1, <1>2, <1>3
  <2>3. Len(SubSeq(s, o(d) + 1, x)) = x - o(d) BY <2>2, <1>1, Window
  <2> QED BY <2>1, <2>3, <1>4
<1>8. \A k \in d .. j : at(k) \in b.r .. b.w /\ at(k) \in Nat
  <2>1. TAKE k \in d .. j
  <2>2. o(d) <= o(k) /\ o(k) <= x /\ o(k) \in Nat /\ o(d) \in Nat
    BY <1>0, <1>1, <1>2, <1>3
  <2>3. b.w = b.r + (x - o(d)) BY <1>6, <1>7, <2>2
  <2>4. o(k) - o(d) \in 0 .. x - o(d) BY <2>2
  <2>5. b.r + (o(k) - o(d)) \in b.r .. b.r + (x - o(d)) 
    <3>1. \A p \in Nat, u, v \in Int : 0 <= u /\ u <= v => p + u \in p .. p + v
      OBVIOUS
    <3>2. o(k) - o(d) \in Int /\ x - o(d) \in Int BY <2>2
    <3> QED BY <2>4, <3>1, <3>2, <1>6
  <2> QED BY <2>3, <2>5, <1>6
<1>9. \A k \in d .. j : bytes(k) = SubSeq(s, o(k) + 1, x)
  <2>1. TAKE k \in d .. j
  <2>2. at(k) \in b.r .. b.w BY <1>8
  <2>3. SubSeq(readable(b), (at(k) - b.r) + 1, b.w - b.r) = bytes(k)
    <3> HIDE DEF at
    <3> QED BY <2>2, <1>6, WindowOfWindow DEF readable
  <2>4. /\ o(d) \in Nat /\ o(k) \in o(d) .. x /\ x \in o(d) .. Len(s)
    BY <1>0, <1>1, <1>2, <1>3
  <2>5. SubSeq(SubSeq(s, o(d) + 1, x), (o(k) - o(d)) + 1, x - o(d)) = SubSeq(s, o(k) + 1, x)
    BY <2>4, <1>1, WindowOfWindow
  <2>6. at(k) - b.r = o(k) - o(d) BY <2>4, <1>6
  <2> HIDE DEF at, bytes
  <2> QED BY <2>3, <2>5, <2>6, <1>4, <1>7
<1>10. PICK f : Decodes(f, b) /\ decode_all(b) = f[b.r]
  <2> DEFINE f == CHOOSE g : Decodes(g, b)
  <2>1. Decodes(f, b) BY DecodesExists
  <2>2. decode_all(b) = f[b.r] BY DEF decode_all, Decodes
  <2> QED BY <2>1, <2>2
<1> DEFINE result(k) == [buffer |-> [b EXCEPT !.r = at(j)],
                         packets |-> SubSeq(ps, k + 1, j), status |-> "NeedMore"]
           S == {n \in Nat : n <= j - d => f[at(j - n)] = result(j - n)}
<1>11. ASSUME NEW k \in d .. j
       PROVE  f[at(k)] = IF try_decode(bytes(k)).status # "Ok"
                         THEN [buffer |-> [b EXCEPT !.r = at(k)], packets |-> << >>,
                               status |-> try_decode(bytes(k)).status]
                         ELSE [f[at(k) + try_decode(bytes(k)).frame_size]
                                 EXCEPT !.packets = <<try_decode(bytes(k)).packet>> \o @]
  <2>1. at(k) \in b.r .. b.w BY <1>8
  <2> HIDE DEF at
  <2> QED BY <2>1, <1>10 DEF Decodes
<1>12. 0 \in S
  <2>1. j - 0 = j /\ j \in d .. j BY <1>0
  <2>2. try_decode(bytes(j)) = [status |-> "NeedMore"]
    <3>1. CASE j < Len(ms)
      <4>1. j \in 0 .. Len(ss) - 1 /\ j + 1 \in 1 .. Len(ms) BY <1>0, <1>1, <3>1
      <4>2. x \in o(j) .. Len(s) BY <1>0, <1>1, <1>3
      <4>3. /\ bytes(j) \in Seq(Byte) /\ Len(bytes(j)) = x - o(j)
            /\ Agrees(bytes(j), ss[j + 1])
        BY <1>1, <1>9, <2>1, <4>1, <4>2, FrameAhead DEF o, s
      <4>4. ms[j + 1] \in Messages /\ ss[j + 1] = FrameOf(ms[j + 1])
        BY <4>1, FramesOfMessages DEF ss
      <4>5. o(j + 1) = o(j) + Len(ss[j + 1]) /\ o(j) \in Nat
        BY <1>1, <4>1, OffsetNext DEF o
      <4>6. ss[j + 1] \in Seq(Byte) BY <1>1, <4>1, ElementOfSeq
      <4>7. Len(ss[j + 1]) \in Nat BY <4>6, LenProperties
      <4>8. Len(bytes(j)) < Len(FrameOf(ms[j + 1]))
        BY <4>3, <4>4, <4>5, <4>7, <1>5, <3>1
      <4> HIDE DEF bytes
      <4> QED BY <4>3, <4>4, <4>8, TryDecode
    <3>2. CASE ~(j < Len(ms))
      <4>1. x = o(j) /\ x \in Nat BY <1>5, <3>2
      <4>2. bytes(j) = SubSeq(s, o(j) + 1, x) BY <1>9, <2>1
      <4>3. o(j) \in Nat /\ x \in o(j) .. Len(s) BY <1>1, <1>3, <4>1
      <4> HIDE DEF bytes
      <4>4. Len(bytes(j)) = x - o(j)
        <5> HIDE DEF o, s
        <5>1. s \in Seq(Byte) BY <1>1
        <5>2. Len(SubSeq(s, o(j) + 1, x)) = x - o(j) BY <5>1, <4>3, Window
        <5> QED BY <5>2, <4>2
      <4>5. Len(bytes(j)) < HeaderSize BY <4>1, <4>3, <4>4 DEF HeaderSize
      <4> HIDE DEF bytes
      <4> QED BY <4>5 DEF try_decode
    <3> QED BY <3>1, <3>2
  <2>3. SubSeq(ps, j + 1, j) = << >> BY <1>0, SubSeqEmpty
  <2>4. f[at(j)] = result(j)
    <3>1. f[at(j)] = [buffer |-> [b EXCEPT !.r = at(j)], packets |-> << >>,
                      status |-> "NeedMore"]
      <4> HIDE DEF at, bytes
      <4>1. try_decode(bytes(j)).status = "NeedMore" BY <2>2
      <4>2. try_decode(bytes(j)).status # "Ok" BY <4>1
      <4> QED BY <1>11, <2>1, <4>1, <4>2
    <3> QED BY <3>1, <2>3
  <2> HIDE DEF at, result
  <2> QED BY <2>1, <2>4
<1>13. ASSUME NEW n \in S PROVE n + 1 \in S
  <2>1. SUFFICES ASSUME n + 1 <= j - d PROVE f[at(j - (n + 1))] = result(j - (n + 1))
    OBVIOUS
  <2>2. n \in Nat /\ n <= j - d BY <2>1, <1>0
  <2> HIDE DEF S
  <2>3. PICK k \in d .. j : k = j - (n + 1) /\ k + 1 = j - n /\ k < j /\ k \in Nat
    BY <2>1, <2>2, <1>0
  <2>4. f[at(k + 1)] = result(k + 1)
    <3> HIDE DEF at, result
    <3> QED BY <2>2, <2>3 DEF S
  <2>5. k + 1 \in d .. j /\ k \in 0 .. Len(ss) - 1 /\ k + 1 \in 1 .. Len(ms)
    <3>1. k + 1 \in Nat /\ d <= k + 1 /\ k + 1 <= j BY <2>3, <1>0
    <3>2. k + 1 <= Len(ms) /\ Len(ss) = Len(ms) BY <3>1, <1>0, <1>1
    <3> QED BY <3>1, <3>2, <2>3, <1>0
  <2>6. o(k) \in Nat /\ o(k + 1) = o(k) + Len(ss[k + 1]) BY <1>1, <2>5, OffsetNext DEF o
  <2>7. ms[k + 1] \in Messages /\ ss[k + 1] = FrameOf(ms[k + 1])
    BY <2>5, FramesOfMessages DEF ss
  <2>8. Len(ss[k + 1]) \in Nat
    <3>1. ss[k + 1] \in Seq(Byte) BY <1>1, <2>5, ElementOfSeq
    <3> QED BY <3>1, LenProperties
  <2>9. o(k + 1) <= x /\ x \in o(k) .. Len(s)
    <3>1. o(k + 1) <= o(j) /\ o(k) <= o(j) /\ o(j) \in Nat /\ o(k + 1) \in Nat
      <4>1. k \in d .. j /\ k + 1 \in d .. j /\ j \in d .. j BY <2>3, <2>5, <1>0
      <4> QED BY <4>1, <1>2
    <3>2. Len(s) \in Nat /\ o(k) \in Nat BY <1>1, <2>6
    <3> QED BY <3>1, <3>2, <1>3
  <2>10. /\ bytes(k) \in Seq(Byte) /\ Len(bytes(k)) = x - o(k)
         /\ Agrees(bytes(k), ss[k + 1])
    BY <1>1, <1>9, <2>3, <2>5, <2>9, FrameAhead DEF o, s
  <2>11. Len(bytes(k)) >= Len(FrameOf(ms[k + 1]))
    BY <2>6, <2>7, <2>8, <2>9, <2>10
  <2>12. try_decode(bytes(k)) = [status |-> "Ok", frame_size |-> Len(ss[k + 1]),
                                 packet |-> AsPacket(ms[k + 1])]
    <3> HIDE DEF bytes
    <3> QED BY <2>7, <2>10, <2>11, TryDecode
  <2>13. at(k) + Len(ss[k + 1]) = at(k + 1)
    <3>1. o(d) \in Nat BY <1>0, <1>1
    <3>2. o(k + 1) - o(d) = (o(k) - o(d)) + Len(ss[k + 1]) BY <2>6, <2>8, <3>1
    <3>3. o(k) - o(d) \in Int BY <2>6, <3>1
    <3>4. at(k) = b.r + (o(k) - o(d)) /\ at(k + 1) = b.r + (o(k + 1) - o(d)) OBVIOUS
    <3>5. b.r \in Nat BY <1>6
    <3> HIDE DEF at, o, ss
    <3> QED BY <2>8, <3>2, <3>3, <3>4, <3>5
  <2>14. f[at(k)] = [f[at(k + 1)] EXCEPT !.packets = <<AsPacket(ms[k + 1])>> \o @]
    <3> HIDE DEF at, bytes
    <3>1. try_decode(bytes(k)).status = "Ok" BY <2>12
    <3>2. try_decode(bytes(k)).frame_size = Len(ss[k + 1])
          /\ try_decode(bytes(k)).packet = AsPacket(ms[k + 1])
      BY <2>12
    <3> QED BY <1>11, <2>13, <3>1, <3>2
  <2>15. <<AsPacket(ms[k + 1])>> \o SubSeq(ps, (k + 1) + 1, j) = SubSeq(ps, k + 1, j)
    <3>1. /\ ps \in Seq(UpPackets) /\ Len(ps) = Len(ms) /\ ps[k + 1] = AsPacket(ms[k + 1])
      BY <2>5, FramesOfMessages DEF ps
    <3>2. k + 1 \in 1 .. Len(ps) /\ j \in k + 1 .. Len(ps) BY <3>1, <2>3, <2>5, <1>0
    <3> QED BY <3>1, <3>2, SubSeqRecursiveFirst
  <2>16. f[at(k)] = result(k)
    <3> HIDE DEF at
    <3>1. f[at(k)] = [result(k + 1) EXCEPT !.packets = <<AsPacket(ms[k + 1])>> \o @]
      <4> HIDE DEF result
      <4> QED BY <2>4, <2>14
    <3>2. f[at(k)] = [buffer |-> [b EXCEPT !.r = at(j)],
                      packets |-> <<AsPacket(ms[k + 1])>> \o SubSeq(ps, (k + 1) + 1, j),
                      status |-> "NeedMore"]
      BY <3>1
    <3> QED BY <2>15, <3>2
  <2> HIDE DEF at, result
  <2> QED BY <2>2, <2>3, <2>16 DEF S
<1>14. S = Nat
  <2> HIDE DEF S
  <2>1. S \in SUBSET Nat BY DEF S
  <2> QED BY <1>12, <1>13, <2>1, NatInduct
<1>15. f[at(d)] = result(d)
  <2>1. j - d \in Nat /\ j - (j - d) = d /\ j - d <= j - d BY <1>0
  <2>2. j - d \in S
    <3> HIDE DEF S
    <3> QED BY <1>14, <2>1
  <2> HIDE DEF at, result
  <2> QED BY <2>1, <2>2
<1>16. at(d) = b.r
  <2>1. o(d) \in Nat BY <1>0, <1>1
  <2> QED BY <2>1, <1>6
<1>17. decode_all(b) = result(d)
  <2> HIDE DEF at, result
  <2> QED BY <1>10, <1>15, <1>16
<1>18. at(j) \in b.r .. b.w /\ bytes(j) = SubSeq(s, o(j) + 1, x)
  <2>1. j \in d .. j BY <1>0
  <2> HIDE DEF at, bytes
  <2>2. at(j) \in b.r .. b.w BY <2>1, <1>8
  <2>3. bytes(j) = SubSeq(s, o(j) + 1, x) BY <2>1, <1>9
  <2> QED BY <2>2, <2>3
<1>19. bytes(j) = Behind(ss, j, x) BY <1>18 DEF Behind, o, s
<1> DEFINE r == at(j)
<1>20. /\ r \in b.r .. b.w /\ SubSeq(b.memory, r + 1, b.w) = Behind(ss, j, x)
       /\ decode_all(b) = [buffer |-> [b EXCEPT !.r = r],
                           packets |-> SubSeq(ps, d + 1, j), status |-> "NeedMore"]
  BY <1>17, <1>18, <1>19
<1> HIDE DEF r
<1> QED BY <1>20 DEF ss, ps, Takes

-----------------------------------------------------------------------------
(***************************************************************************)
(* The server's buffer.                                                    *)
(***************************************************************************)
\* What is behind does not matter.
LEMMA WindowOfFront ==
    ASSUME NEW s \in Seq(Byte), NEW t \in Seq(Byte), NEW a \in Nat, NEW b \in a .. Len(s)
    PROVE  SubSeq(s \o t, a + 1, b) = SubSeq(s, a + 1, b)
<1>0. Len(s) \in Nat /\ Len(t) \in Nat BY LenProperties
<1>1. /\ s \o t \in Seq(Byte) /\ Len(s \o t) = Len(s) + Len(t)
      /\ \A i \in 1 .. Len(s) : (s \o t)[i] = s[i]
  BY Joined
<1>2. b \in a .. Len(s \o t) BY <1>0, <1>1
<1> DEFINE u == SubSeq(s \o t, a + 1, b)
           v == SubSeq(s, a + 1, b)
<1>3. u \in Seq(Byte) /\ Len(u) = b - a /\ \A i \in 1 .. b - a : u[i] = (s \o t)[a + i]
  BY <1>1, <1>2, Window
<1>4. v \in Seq(Byte) /\ Len(v) = b - a /\ \A i \in 1 .. b - a : v[i] = s[a + i]
  BY Window
<1> HIDE DEF u, v
<1>5. ASSUME NEW i \in 1 .. Len(u) PROVE u[i] = v[i]
  <2>1. i \in 1 .. b - a /\ a + i \in 1 .. Len(s) BY <1>0, <1>3
  <2> QED BY <2>1, <1>1, <1>3, <1>4
<1>6. u = v BY <1>3, <1>4, <1>5, SeqEqual
<1> QED BY <1>6 DEF u, v

\* What is put behind comes out behind.
LEMMA WindowToEnd ==
    ASSUME NEW s \in Seq(Byte), NEW t \in Seq(Byte), NEW a \in 0 .. Len(s)
    PROVE  SubSeq(s \o t, a + 1, Len(s) + Len(t)) = SubSeq(s, a + 1, Len(s)) \o t
<1>0. Len(s) \in Nat /\ Len(t) \in Nat /\ a \in Nat BY LenProperties
<1>1. /\ s \o t \in Seq(Byte) /\ Len(s \o t) = Len(s) + Len(t)
      /\ \A i \in 1 .. Len(s) : (s \o t)[i] = s[i]
      /\ \A i \in 1 .. Len(t) : (s \o t)[Len(s) + i] = t[i]
  BY Joined
<1> DEFINE b == Len(s) + Len(t)
           u == SubSeq(s \o t, a + 1, b)
           v == SubSeq(s, a + 1, Len(s))
           k == Len(s) - a
<1>2. b \in a .. Len(s \o t) /\ Len(s) \in a .. Len(s) BY <1>0, <1>1
<1>3. u \in Seq(Byte) /\ Len(u) = b - a /\ \A i \in 1 .. b - a : u[i] = (s \o t)[a + i]
  <2> HIDE DEF b
  <2> QED BY <1>0, <1>1, <1>2, Window
<1>4. v \in Seq(Byte) /\ Len(v) = k /\ \A i \in 1 .. k : v[i] = s[a + i]
  BY <1>0, <1>2, Window
<1> HIDE DEF u, v
<1>5. /\ v \o t \in Seq(Byte) /\ Len(v \o t) = k + Len(t)
      /\ \A i \in 1 .. k : (v \o t)[i] = v[i]
      /\ \A i \in 1 .. Len(t) : (v \o t)[k + i] = t[i]
  <2> HIDE DEF k
  <2> QED BY <1>4, Joined
<1>6. k + Len(t) = b - a /\ k \in Nat BY <1>0
<1>7. ASSUME NEW i \in 1 .. Len(u) PROVE u[i] = (v \o t)[i]
  <2>1. i \in 1 .. b - a /\ i \in Nat BY <1>0, <1>3
  <2>2. CASE i <= k
    <3>1. i \in 1 .. k /\ a + i \in 1 .. Len(s) BY <2>1, <2>2, <1>0
    <3> HIDE DEF k, b
    <3> QED BY <3>1, <2>1, <1>1, <1>3, <1>4, <1>5
  <2>3. CASE ~(i <= k)
    <3> DEFINE l == i - k
    <3>1. l \in 1 .. Len(t) /\ k + l = i /\ Len(s) + l = a + i BY <2>1, <2>3, <1>0, <1>6
    <3> HIDE DEF k, b, l
    <3>2. (v \o t)[i] = t[l] BY <3>1, <1>5
    <3>3. (s \o t)[a + i] = t[l] BY <3>1, <1>1
    <3> QED BY <3>2, <3>3, <2>1, <1>3
  <2> QED BY <2>2, <2>3
<1>8. u = v \o t
  <2> HIDE DEF k, b
  <2> QED BY <1>3, <1>5, <1>6, <1>7, SeqEqual
<1> QED BY <1>8 DEF u, v, b

LEMMA Normalized ==
    ASSUME NEW b, IsBuf(b)
    PROVE  /\ IsBuf(normalize(b)) /\ readable(normalize(b)) = readable(b)
           /\ Len(normalize(b).memory) = Len(b.memory)
           /\ normalize(b).r = 0 /\ normalize(b).w = b.w - b.r
<1>0. /\ b.r \in Nat /\ b.w \in Nat /\ b.r <= b.w /\ b.w <= Len(b.memory)
      /\ Len(b.memory) \in Nat /\ b.memory \in Seq(Byte)
  BY LenProperties DEF IsBuf
<1>1. CASE b.r > 0
  <2> DEFINE k == b.w - b.r
             front == readable(b)
             back == SubSeq(b.memory, k + 1, Len(b.memory))
             n == normalize(b)
  <2>0. k \in Nat /\ k <= Len(b.memory) BY <1>0
  <2>1. n = Buf(front \o back, 0, k) BY <1>1 DEF normalize
  <2>2. n.memory = front \o back /\ n.r = 0 /\ n.w = k
    <3> HIDE DEF front, back, n, k
    <3> QED BY <2>1 DEF Buf
  <2>3. front \in Seq(Byte) /\ Len(front) = k
    <3>1. b.w \in b.r .. Len(b.memory) BY <1>0
    <3> QED BY <3>1, <1>0, Window DEF readable
  <2>4. back \in Seq(Byte) /\ Len(back) = Len(b.memory) - k
    <3>1. Len(b.memory) \in k .. Len(b.memory) BY <2>0, <1>0
    <3> HIDE DEF k
    <3> QED BY <3>1, <2>0, <1>0, Window
  <2> HIDE DEF front, back, n, k
  <2>5. n.memory \in Seq(Byte) /\ Len(n.memory) = Len(b.memory)
    <3>1. front \o back \in Seq(Byte) /\ Len(front \o back) = k + (Len(b.memory) - k)
      BY <2>3, <2>4, ConcatProperties
    <3> QED BY <3>1, <2>0, <2>2, <1>0
  <2>6. IsBuf(n) BY <2>0, <2>2, <2>5 DEF IsBuf
  <2>7. readable(n) = front
    <3>1. readable(n) = SubSeq(front \o back, 0 + 1, k) BY <2>2 DEF readable
    <3>2. k \in 0 .. Len(front) /\ 0 \in Nat BY <2>0, <2>3
    <3>3. SubSeq(front \o back, 0 + 1, k) = SubSeq(front, 0 + 1, k)
      BY <2>3, <2>4, <3>2, WindowOfFront
    <3>4. SubSeq(front, 1, k) = front BY <2>3, SubSeqFull
    <3>5. 0 + 1 = 1 OBVIOUS
    <3> QED BY <3>1, <3>3, <3>4, <3>5
  <2> QED BY <2>2, <2>5, <2>6, <2>7 DEF n, front, k
<1>2. CASE ~(b.r > 0)
  <2>1. normalize(b) = b BY <1>2 DEF normalize
  <2>2. b.r = 0 /\ b.w = b.w - b.r BY <1>0, <1>2
  <2> QED BY <2>1, <2>2
<1> QED BY <1>1, <1>2

LEMMA Resized ==
    ASSUME NEW b, IsBuf(b), NEW size \in Nat, Len(b.memory) < b.w + size
    PROVE  /\ IsBuf(resize(b, size)) /\ readable(resize(b, size)) = readable(b)
           /\ resize(b, size).w = b.w
           /\ Len(resize(b, size).memory) >= b.w + size
           /\ Len(resize(b, size).memory) <= 2 * (b.w + size)
<1>0. /\ b.r \in Nat /\ b.w \in Nat /\ b.r <= b.w /\ b.w <= Len(b.memory)
      /\ Len(b.memory) \in Nat /\ b.memory \in Seq(Byte)
  BY LenProperties DEF IsBuf
<1> DEFINE new == IF 2 * Len(b.memory) >= b.w + size THEN 2 * Len(b.memory) ELSE b.w + size
           zeros == Zeros(new - Len(b.memory))
           n == resize(b, size)
<1>1. new \in Nat /\ new >= b.w + size /\ new <= 2 * (b.w + size) /\ new - Len(b.memory) \in Nat
  <2>1. CASE 2 * Len(b.memory) >= b.w + size
    <3>1. new = 2 * Len(b.memory) BY <2>1
    <3> QED BY <3>1, <2>1, <1>0
  <2>2. CASE ~(2 * Len(b.memory) >= b.w + size)
    <3>1. new = b.w + size BY <2>2
    <3>2. b.w + size \in Nat BY <1>0
    <3> HIDE DEF new
    <3> QED BY <3>1, <3>2, <2>2, <1>0
  <2> QED BY <2>1, <2>2
<1>2. zeros \in Seq(Byte) /\ Len(zeros) = new - Len(b.memory)
  <2> HIDE DEF new
  <2>1. 0 \in Byte BY DEF Byte
  <2>2. zeros = [i \in 1 .. new - Len(b.memory) |-> 0] BY DEF Zeros
  <2> HIDE DEF zeros
  <2>3. zeros \in Seq(Byte) BY <2>1, <2>2, <1>1, IsASeq
  <2> QED BY <2>2, <2>3, <1>1
<1>3. n = Buf(b.memory \o zeros, b.r, b.w) BY DEF resize
<1> HIDE DEF new, zeros, n
<1>4. n.memory = b.memory \o zeros /\ n.r = b.r /\ n.w = b.w BY <1>3 DEF Buf
<1>5. n.memory \in Seq(Byte) /\ Len(n.memory) = new
  <2>1. /\ b.memory \o zeros \in Seq(Byte)
        /\ Len(b.memory \o zeros) = Len(b.memory) + Len(zeros)
    <3>1. b.memory \in Seq(Byte) /\ zeros \in Seq(Byte) BY <1>0, <1>2
    <3> QED BY <3>1, ConcatProperties
  <2>2. Len(b.memory) + Len(zeros) = new BY <1>0, <1>1, <1>2
  <2> QED BY <2>1, <2>2, <1>4
<1>6. IsBuf(n) BY <1>0, <1>1, <1>4, <1>5 DEF IsBuf
<1>7. readable(n) = readable(b)
  <2>1. b.w \in b.r .. Len(b.memory) BY <1>0
  <2>2. SubSeq(b.memory \o zeros, b.r + 1, b.w) = SubSeq(b.memory, b.r + 1, b.w)
    BY <2>1, <1>0, <1>2, WindowOfFront
  <2> QED BY <2>2, <1>4 DEF readable
<1> QED BY <1>1, <1>4, <1>5, <1>6, <1>7 DEF n

LEMMA Expanded ==
    ASSUME NEW b, IsBuf(b), NEW size \in Nat
    PROVE  LET e == expand_if_need(b, size)
           IN  /\ IsBuf(e) /\ readable(e) = readable(b)
               /\ e.w + size <= Len(e.memory)
               /\ \/ Len(e.memory) = Len(b.memory)
                  \/ Len(e.memory) <= 2 * ((b.w - b.r) + size)
<1>0. b.w \in Nat /\ Len(b.memory) \in Nat /\ b.r \in Nat BY LenProperties DEF IsBuf
<1>1. CASE writable_size(b) >= size
  <2>1. expand_if_need(b, size) = b BY <1>1 DEF expand_if_need
  <2>2. b.w + size <= Len(b.memory) BY <1>0, <1>1 DEF writable_size
  <2> QED BY <2>1, <2>2
<1>2. CASE ~(writable_size(b) >= size)
  <2> DEFINE n == normalize(b)
  <2>1. /\ IsBuf(n) /\ readable(n) = readable(b) /\ Len(n.memory) = Len(b.memory)
        /\ n.w = b.w - b.r
    BY Normalized
  <2>2. expand_if_need(b, size) = IF writable_size(n) >= size THEN n ELSE resize(n, size)
    BY <1>2 DEF expand_if_need
  <2> HIDE DEF n
  <2>3. n.w \in Nat /\ Len(n.memory) \in Nat BY <2>1, LenProperties DEF IsBuf
  <2>4. CASE writable_size(n) >= size
    <3>1. n.w + size <= Len(n.memory) BY <2>3, <2>4 DEF writable_size
    <3> QED BY <3>1, <2>1, <2>2, <2>4
  <2>5. CASE ~(writable_size(n) >= size)
    <3>1. Len(n.memory) < n.w + size BY <2>3, <2>5 DEF writable_size
    <3>2. /\ IsBuf(resize(n, size)) /\ readable(resize(n, size)) = readable(n)
          /\ resize(n, size).w = n.w
          /\ Len(resize(n, size).memory) >= n.w + size
          /\ Len(resize(n, size).memory) <= 2 * (n.w + size)
      BY <2>1, <3>1, Resized
    <3>3. Len(resize(n, size).memory) \in Nat BY <3>2, LenProperties DEF IsBuf
    <3>4. resize(n, size).w + size <= Len(resize(n, size).memory) BY <3>2, <3>3, <2>3
    <3> QED BY <3>2, <3>4, <2>1, <2>2, <2>5
  <2> QED BY <2>4, <2>5
<1> QED BY <1>1, <1>2

\* Writing puts the bytes behind those that can be read, and the memory grows
\* only when they do not fit.
LEMMA Written ==
    ASSUME NEW b, IsBuf(b), NEW data \in Seq(Byte)
    PROVE  LET e == write(b, data)
           IN  /\ IsBuf(e) /\ readable(e) = readable(b) \o data
               /\ \/ Len(e.memory) = Len(b.memory)
                  \/ Len(e.memory) <= 2 * ((b.w - b.r) + Len(data))
<1> DEFINE n == Len(data)
           e == expand_if_need(b, n)
           front == SubSeq(e.memory, 1, e.w)
           back == SubSeq(e.memory, e.w + n + 1, Len(e.memory))
           o == write(b, data)
<1>0. n \in Nat BY LenProperties
<1>1. /\ IsBuf(e) /\ readable(e) = readable(b) /\ e.w + n <= Len(e.memory)
      /\ \/ Len(e.memory) = Len(b.memory)
         \/ Len(e.memory) <= 2 * ((b.w - b.r) + n)
  BY <1>0, Expanded
<1>2. o = Buf(front \o data \o back, e.r, e.w + n) BY DEF write
<1> HIDE DEF e, o
<1>3. o.memory = front \o data \o back /\ o.r = e.r /\ o.w = e.w + n
  <2> HIDE DEF front, back, n
  <2> QED BY <1>2 DEF Buf
<1>4. /\ e.r \in Nat /\ e.w \in Nat /\ e.r <= e.w /\ e.w <= Len(e.memory)
      /\ Len(e.memory) \in Nat /\ e.memory \in Seq(Byte)
  BY <1>1, LenProperties DEF IsBuf
<1>5. front \in Seq(Byte) /\ Len(front) = e.w
  <2>1. e.w \in 0 .. Len(e.memory) /\ 0 \in Nat /\ 0 + 1 = 1 BY <1>4
  <2>2. SubSeq(e.memory, 0 + 1, e.w) \in Seq(Byte)
        /\ Len(SubSeq(e.memory, 0 + 1, e.w)) = e.w - 0
    BY <2>1, <1>4, Window
  <2> QED BY <2>1, <2>2, <1>4
<1>6. back \in Seq(Byte) /\ Len(back) = Len(e.memory) - (e.w + n)
  <2>1. e.w + n \in Nat /\ Len(e.memory) \in e.w + n .. Len(e.memory) BY <1>0, <1>1, <1>4
  <2> HIDE DEF n
  <2> QED BY <2>1, <1>4, Window
<1> HIDE DEF front, back
<1>7. front \o data \in Seq(Byte) /\ Len(front \o data) = e.w + n
  BY <1>5, ConcatProperties
<1>8. o.memory \in Seq(Byte) /\ Len(o.memory) = Len(e.memory)
  <2>1. /\ (front \o data) \o back \in Seq(Byte)
        /\ Len((front \o data) \o back) = (e.w + n) + (Len(e.memory) - (e.w + n))
    <3>1. PICK fd : fd = front \o data OBVIOUS
    <3>2. fd \in Seq(Byte) /\ Len(fd) = e.w + n BY <3>1, <1>7
    <3>3. fd \o back \in Seq(Byte) /\ Len(fd \o back) = Len(fd) + Len(back)
      BY <3>2, <1>6, ConcatProperties
    <3> QED BY <3>1, <3>2, <3>3, <1>6
  <2> QED BY <2>1, <1>0, <1>3, <1>4
<1>9. IsBuf(o)
  <2>1. e.w + n \in e.r .. Len(o.memory) BY <1>0, <1>1, <1>4, <1>8
  <2> QED BY <2>1, <1>3, <1>4, <1>8 DEF IsBuf
<1>10. readable(o) = readable(e) \o data
  <2>1. readable(o) = SubSeq((front \o data) \o back, e.r + 1, e.w + n)
    BY <1>3 DEF readable
  <2>2. e.w + n \in e.r .. Len(front \o data) BY <1>0, <1>4, <1>7
  <2>3. SubSeq((front \o data) \o back, e.r + 1, e.w + n)
          = SubSeq(front \o data, e.r + 1, e.w + n)
    <3> HIDE DEF n
    <3> QED BY <2>2, <1>4, <1>6, <1>7, WindowOfFront
  <2>4. e.r \in 0 .. Len(front) BY <1>4, <1>5
  <2>5. SubSeq(front \o data, e.r + 1, Len(front) + Len(data))
          = SubSeq(front, e.r + 1, Len(front)) \o data
    BY <2>4, <1>5, WindowToEnd
  <2>6. SubSeq(front, e.r + 1, e.w) = SubSeq(e.memory, e.r + 1, e.w)
    <3>1. /\ e.w \in 0 .. Len(e.memory) /\ 0 \in Nat /\ e.r \in 0 .. e.w
          /\ e.r - 0 = e.r /\ e.w - 0 = e.w /\ 0 + 1 = 1
      BY <1>4
    <3>2. SubSeq(SubSeq(e.memory, 0 + 1, e.w), (e.r - 0) + 1, e.w - 0)
            = SubSeq(e.memory, e.r + 1, e.w)
      BY <3>1, <1>4, WindowOfWindow
    <3> QED BY <3>1, <3>2 DEF front
  <2> QED BY <2>1, <2>3, <2>5, <2>6, <1>5 DEF readable
<1> QED BY <1>1, <1>8, <1>9, <1>10 DEF o

-----------------------------------------------------------------------------
(***************************************************************************)
(* The invariant both directions have in common.  ss are the frames put    *)
(* into the stream, of which y bytes have been written; d of them have     *)
(* been delivered, unread is what the receiver holds, net what is under    *)
(* way.                                                                    *)
(***************************************************************************)
Arrived(net, y) == y - Len(net)
Tracks(ss, d, unread, net, y) ==
    /\ d \in 0 .. Len(ss) /\ y \in 0 .. Len(FlattenSeq(ss)) /\ net \in Seq(Byte)
    /\ Arrived(net, y) \in Offset(ss, d) .. y
    /\ net = SubSeq(FlattenSeq(ss), Arrived(net, y) + 1, y)
    /\ unread = SubSeq(FlattenSeq(ss), Offset(ss, d) + 1, Arrived(net, y))
    /\ IF d < Len(ss) THEN Arrived(net, y) < Offset(ss, d + 1)
                      ELSE Arrived(net, y) = Offset(ss, d)

LEMMA TracksTypes ==
    ASSUME NEW ss \in Seq(Seq(Byte)), NEW d, NEW unread, NEW net, NEW y,
           Tracks(ss, d, unread, net, y)
    PROVE  /\ Len(ss) \in Nat /\ d \in Nat /\ d <= Len(ss)
           /\ FlattenSeq(ss) \in Seq(Byte) /\ Len(FlattenSeq(ss)) \in Nat
           /\ y \in Nat /\ y <= Len(FlattenSeq(ss)) /\ Len(net) \in Nat
           /\ Offset(ss, d) \in Nat /\ Arrived(net, y) \in Nat
           /\ Offset(ss, d) <= Arrived(net, y) /\ Arrived(net, y) <= y
           /\ Arrived(net, y) + Len(net) = y
           /\ unread \in Seq(Byte) /\ Len(unread) = Arrived(net, y) - Offset(ss, d)
<1>1. Len(ss) \in Nat /\ d \in Nat /\ d <= Len(ss) /\ d \in 0 .. Len(ss)
  BY LenProperties DEF Tracks
<1>2. FlattenSeq(ss) \in Seq(Byte) /\ Offset(ss, d) \in Nat BY <1>1, OffsetEnds
<1>3. Len(FlattenSeq(ss)) \in Nat BY <1>2, LenProperties
<1>4. y \in Nat /\ y <= Len(FlattenSeq(ss)) BY <1>3 DEF Tracks
<1>5. Len(net) \in Nat BY LenProperties DEF Tracks
<1>6. Arrived(net, y) \in Offset(ss, d) .. y BY DEF Tracks
<1>7. /\ Arrived(net, y) \in Nat /\ Offset(ss, d) <= Arrived(net, y)
      /\ Arrived(net, y) <= y
  BY <1>2, <1>4, <1>6
<1>8. Arrived(net, y) + Len(net) = y BY <1>4, <1>5 DEF Arrived
<1>9. Arrived(net, y) \in Offset(ss, d) .. Len(FlattenSeq(ss))
  BY <1>2, <1>3, <1>4, <1>7
<1>10. unread = SubSeq(FlattenSeq(ss), Offset(ss, d) + 1, Arrived(net, y)) BY DEF Tracks
<1>11. unread \in Seq(Byte) /\ Len(unread) = Arrived(net, y) - Offset(ss, d)
  BY <1>2, <1>9, <1>10, Window
<1> QED BY <1>1, <1>2, <1>3, <1>4, <1>5, <1>7, <1>8, <1>11

\* Another frame is put in.
LEMMA TracksMore ==
    ASSUME NEW ss \in Seq(Seq(Byte)), NEW d, NEW unread, NEW net, NEW y,
           Tracks(ss, d, unread, net, y), NEW fr \in Seq(Byte), Len(fr) > 0
    PROVE  Tracks(Append(ss, fr), d, unread, net, y)
<1>1. PICK tt : tt = Append(ss, fr) OBVIOUS
<1> DEFINE s == FlattenSeq(ss)
           t == FlattenSeq(tt)
           x == Arrived(net, y)
<1>2. /\ Len(ss) \in Nat /\ d \in Nat /\ d <= Len(ss) /\ s \in Seq(Byte) /\ Len(s) \in Nat
      /\ y \in Nat /\ y <= Len(s) /\ Offset(ss, d) \in Nat /\ x \in Nat
      /\ Offset(ss, d) <= x /\ x <= y
  BY TracksTypes
<1>3. /\ tt \in Seq(Seq(Byte)) /\ Len(tt) = Len(ss) + 1 /\ tt[Len(ss) + 1] = fr
      /\ \A i \in 1 .. Len(ss) : tt[i] = ss[i]
  BY <1>1, AppendProperties
<1>4. t = s \o fr BY <1>1, FlattenAppend
<1>5. Begins(ss, tt) BY <1>2, <1>3 DEF Begins
<1>6. \A j \in 0 .. Len(ss) : Offset(tt, j) = Offset(ss, j) BY <1>3, <1>5, OffsetOfLonger
<1>7. /\ y \in 0 .. Len(s) /\ net \in Seq(Byte) /\ x \in Offset(ss, d) .. y
      /\ net = SubSeq(s, x + 1, y)
      /\ unread = SubSeq(s, Offset(ss, d) + 1, x)
      /\ IF d < Len(ss) THEN x < Offset(ss, d + 1) ELSE x = Offset(ss, d)
  BY DEF Tracks
<1> HIDE DEF s, t, x
<1>8. Len(t) = Len(s) + Len(fr) /\ Len(fr) \in Nat BY <1>2, <1>4, ConcatProperties, LenProperties
<1>9. SubSeq(t, x + 1, y) = net
  <2>1. y \in x .. Len(s) BY <1>2
  <2> QED BY <2>1, <1>2, <1>4, <1>7, WindowOfFront
<1>10. SubSeq(t, Offset(ss, d) + 1, x) = unread
  <2>1. x \in Offset(ss, d) .. Len(s) /\ Offset(ss, d) \in Nat BY <1>2
  <2>2. SubSeq(t, Offset(ss, d) + 1, x) = SubSeq(s, Offset(ss, d) + 1, x)
    BY <2>1, <1>2, <1>4, WindowOfFront
  <2> QED BY <2>2, <1>7
<1>11. Offset(tt, d) = Offset(ss, d)
  <2>1. d \in 0 .. Len(ss) BY <1>2
  <2> QED BY <2>1, <1>6
<1>12. d < Len(tt) /\ x < Offset(tt, d + 1)
  <2>1. d < Len(tt) BY <1>2, <1>3
  <2>2. CASE d < Len(ss)
    <3>1. d + 1 \in 0 .. Len(ss) BY <1>2, <2>2
    <3>2. Offset(tt, d + 1) = Offset(ss, d + 1) BY <3>1, <1>6
    <3> QED BY <2>1, <2>2, <3>2, <1>7
  <2>3. CASE ~(d < Len(ss))
    <3>1. d = Len(ss) /\ d \in 0 .. Len(tt) - 1 BY <1>2, <1>3, <2>3
    <3>2. Offset(tt, d + 1) = Offset(tt, d) + Len(fr) BY <3>1, <1>3, OffsetNext
    <3>3. x = Offset(ss, d) BY <1>7, <2>3
    <3> QED BY <2>1, <3>2, <3>3, <1>2, <1>8, <1>11
  <2> QED BY <2>2, <2>3
<1>13. d \in 0 .. Len(tt) /\ y \in 0 .. Len(t) BY <1>2, <1>3, <1>8
<1>14. Tracks(tt, d, unread, net, y)
  BY <1>7, <1>9, <1>10, <1>11, <1>12, <1>13 DEF Tracks, x, t
<1> QED BY <1>1, <1>14

\* More of what is put in is written.
LEMMA TracksWrite ==
    ASSUME NEW ss \in Seq(Seq(Byte)), NEW d, NEW unread, NEW net, NEW y,
           Tracks(ss, d, unread, net, y), NEW z \in y .. Len(FlattenSeq(ss))
    PROVE  Tracks(ss, d, unread, net \o SubSeq(FlattenSeq(ss), y + 1, z), z)
<1> DEFINE s == FlattenSeq(ss)
           x == Arrived(net, y)
           more == SubSeq(s, y + 1, z)
           net2 == net \o more
<1>2. /\ Len(ss) \in Nat /\ d \in Nat /\ d <= Len(ss) /\ s \in Seq(Byte) /\ Len(s) \in Nat
      /\ y \in Nat /\ y <= Len(s) /\ Offset(ss, d) \in Nat /\ x \in Nat
      /\ Offset(ss, d) <= x /\ x <= y /\ Len(net) \in Nat /\ x + Len(net) = y
  BY TracksTypes
<1>3. /\ d \in 0 .. Len(ss) /\ net \in Seq(Byte)
      /\ net = SubSeq(s, x + 1, y)
      /\ unread = SubSeq(s, Offset(ss, d) + 1, x)
      /\ IF d < Len(ss) THEN x < Offset(ss, d + 1) ELSE x = Offset(ss, d)
  BY DEF Tracks
<1>4. z \in y .. Len(s) /\ z \in Nat /\ z \in 0 .. Len(s) BY <1>2
<1> HIDE DEF s, x
<1>5. more \in Seq(Byte) /\ Len(more) = z - y BY <1>2, <1>4, Window
<1> HIDE DEF more
<1>6. net2 \in Seq(Byte) /\ Len(net2) = Len(net) + (z - y) BY <1>3, <1>5, ConcatProperties
<1>7. net2 = SubSeq(s, x + 1, z)
  <2>1. x \in 0 .. Len(s) /\ y \in x .. Len(s) BY <1>2
  <2>2. SubSeq(s, x + 1, y) \o SubSeq(s, y + 1, z) = SubSeq(s, x + 1, z)
    BY <2>1, <1>2, <1>4, WindowsMeet
  <2> QED BY <2>2, <1>3 DEF more
<1> HIDE DEF net2
<1>8. Arrived(net2, z) = x BY <1>2, <1>4, <1>6 DEF Arrived
<1>9. x \in Offset(ss, d) .. z BY <1>2, <1>4
<1>10. Tracks(ss, d, unread, net2, z)
  BY <1>3, <1>4, <1>6, <1>7, <1>8, <1>9 DEF Tracks, s
<1> QED BY <1>10 DEF net2, more, s

\* n bytes are read: what the receiver then has to look at,
LEMMA TracksRead ==
    ASSUME NEW ss \in Seq(Seq(Byte)), NEW d, NEW unread, NEW net, NEW y,
           Tracks(ss, d, unread, net, y), NEW n \in 1 .. Len(net)
    PROVE  /\ Arrived(net, y) + n \in Arrived(net, y) .. y
           /\ SubSeq(net, 1, n) \in Seq(Byte) /\ Len(SubSeq(net, 1, n)) = n
           /\ unread \o SubSeq(net, 1, n) = Behind(ss, d, Arrived(net, y) + n)
<1> DEFINE s == FlattenSeq(ss)
           x == Arrived(net, y)
           o == Offset(ss, d)
<1>2. /\ s \in Seq(Byte) /\ Len(s) \in Nat
      /\ y \in Nat /\ y <= Len(s) /\ o \in Nat /\ x \in Nat
      /\ o <= x /\ x <= y /\ Len(net) \in Nat /\ x + Len(net) = y
  BY TracksTypes
<1>3. /\ net \in Seq(Byte) /\ net = SubSeq(s, x + 1, y) /\ unread = SubSeq(s, o + 1, x)
  BY DEF Tracks
<1> HIDE DEF s, x, o
<1>4. n \in Nat /\ x + n \in x .. y /\ x + n <= Len(s) /\ n \in 0 .. Len(net) BY <1>2
<1>5. SubSeq(net, 1, n) \in Seq(Byte) /\ Len(SubSeq(net, 1, n)) = n BY <1>3, <1>4, PrefixType
<1>6. SubSeq(net, 1, n) = SubSeq(s, x + 1, x + n)
  <2>1. y \in x .. Len(s) /\ x + n \in x .. Len(s) BY <1>2, <1>4
  <2>2. Len(net) = y - x /\ \A i \in 1 .. y - x : net[i] = s[x + i]
    BY <2>1, <1>2, <1>3, Window
  <2>3. /\ SubSeq(s, x + 1, x + n) \in Seq(Byte) /\ Len(SubSeq(s, x + 1, x + n)) = (x + n) - x
        /\ \A i \in 1 .. (x + n) - x : SubSeq(s, x + 1, x + n)[i] = s[x + i]
    BY <2>1, <1>2, Window
  <2>4. (x + n) - x = n BY <1>2, <1>4
  <2>5. \A i \in 1 .. n : SubSeq(net, 1, n)[i] = net[i] BY <1>3, <1>4, PrefixType
  <2>6. \A i \in 1 .. n : SubSeq(net, 1, n)[i] = SubSeq(s, x + 1, x + n)[i]
    <3>1. ASSUME NEW i \in 1 .. n
          PROVE  SubSeq(net, 1, n)[i] = SubSeq(s, x + 1, x + n)[i]
      <4>1. i \in 1 .. y - x BY <1>2, <1>4
      <4> QED BY <4>1, <2>2, <2>3, <2>4, <2>5
    <3> QED BY <3>1
  <2> QED BY <2>3, <2>4, <2>6, <1>5, SeqEqual
<1>7. unread \o SubSeq(net, 1, n) = SubSeq(s, o + 1, x + n)
  <2>1. o \in 0 .. Len(s) /\ x \in o .. Len(s) /\ x + n \in x .. Len(s) BY <1>2, <1>4
  <2>2. SubSeq(s, o + 1, x) \o SubSeq(s, x + 1, x + n) = SubSeq(s, o + 1, x + n)
    BY <2>1, <1>2, WindowsMeet
  <2> QED BY <2>2, <1>3, <1>6
<1> QED BY <1>4, <1>5, <1>7 DEF s, x, o, Behind

\* and what is left when it has taken the frames up to j.
LEMMA TracksDeliver ==
    ASSUME NEW ss \in Seq(Seq(Byte)), NEW d, NEW unread, NEW net, NEW y,
           Tracks(ss, d, unread, net, y), NEW n \in 1 .. Len(net),
           NEW j \in d .. Len(ss), Offset(ss, j) <= Arrived(net, y) + n,
           IF j < Len(ss) THEN Arrived(net, y) + n < Offset(ss, j + 1)
                          ELSE Arrived(net, y) + n = Offset(ss, j)
    PROVE  Tracks(ss, j, SubSeq(FlattenSeq(ss), Offset(ss, j) + 1, Arrived(net, y) + n),
                  SubSeq(net, n + 1, Len(net)), y)
<1> DEFINE s == FlattenSeq(ss)
           x == Arrived(net, y)
           z == x + n
           net2 == SubSeq(net, n + 1, Len(net))
<1>2. /\ s \in Seq(Byte) /\ Len(s) \in Nat /\ Len(ss) \in Nat /\ d \in Nat
      /\ y \in Nat /\ y <= Len(s) /\ x \in Nat
      /\ x <= y /\ Len(net) \in Nat /\ x + Len(net) = y
  BY TracksTypes
<1>3. /\ net \in Seq(Byte) /\ net = SubSeq(s, x + 1, y) /\ y \in 0 .. Len(s)
  BY DEF Tracks
<1>4. j \in 0 .. Len(ss) /\ Offset(ss, j) \in Nat
  <2>1. j \in 0 .. Len(ss) BY <1>2
  <2> QED BY <2>1, OffsetEnds
<1>5. Offset(ss, j) <= z /\ IF j < Len(ss) THEN z < Offset(ss, j + 1) ELSE z = Offset(ss, j)
  OBVIOUS
<1> HIDE DEF s, x
<1>6. n \in Nat /\ z \in Nat /\ z \in x .. y /\ z - x = n /\ y - x = Len(net)
      /\ Len(net) \in n .. Len(net)
  BY <1>2
<1>7. net2 \in Seq(Byte) /\ Len(net2) = Len(net) - n BY <1>3, <1>6, Window
<1>8. net2 = SubSeq(s, z + 1, y)
  <2>1. y \in x .. Len(s) BY <1>2
  <2>2. SubSeq(SubSeq(s, x + 1, y), (z - x) + 1, y - x) = SubSeq(s, z + 1, y)
    <3> HIDE DEF z
    <3> QED BY <2>1, <1>2, <1>6, WindowOfWindow
  <2> QED BY <2>2, <1>3, <1>6
<1> HIDE DEF net2
<1>9. Arrived(net2, y) = z BY <1>2, <1>6, <1>7 DEF Arrived
<1> HIDE DEF z
<1>10. z \in Offset(ss, j) .. y BY <1>2, <1>4, <1>5, <1>6
<1>11. Tracks(ss, j, SubSeq(s, Offset(ss, j) + 1, z), net2, y)
  BY <1>3, <1>4, <1>5, <1>7, <1>8, <1>9, <1>10 DEF Tracks, s
<1> QED BY <1>11 DEF s, z, x, net2

-----------------------------------------------------------------------------
(***************************************************************************)
(* The server's end: what the client has sent and has not been decoded is  *)
(* in the buffer or under way.                                             *)
(***************************************************************************)
TheBuf == Buf(memory, read_pos, write_pos)
UpInv ==
    /\ open = TRUE
    /\ sent \in Seq(Messages)
    /\ IsBuf(TheBuf)
    /\ Tracks(FramesOf(sent), Len(delivered), readable(TheBuf), network,
              Len(FlattenSeq(FramesOf(sent))))
    /\ delivered = SubSeq(PacketsOf(sent), 1, Len(delivered))
    /\ BufferBounded

LEMMA LongestMessageIs ==
    /\ LongestMessage \in Nat /\ LongestMessage >= 12
    /\ \A m \in Messages : Len(FrameOf(m)) <= LongestMessage
<1> DEFINE T == {Len(FrameOf(m)) : m \in Messages}
<1>0. Unmodelled \in Nat /\ Unmodelled + 12 \in Nat BY SMT DEF Unmodelled
<1>1. \A m \in Messages : /\ Len(FrameOf(m)) \in Nat /\ Len(FrameOf(m)) >= 12
                          /\ Len(FrameOf(m)) <= Unmodelled + 12
  <2>1. TAKE m \in Messages
  <2>2. /\ BodyOfMessage(m) \in Seq(Byte) /\ Len(BodyOfMessage(m)) < Unmodelled
        /\ Len(FrameOf(m)) = Len(BodyOfMessage(m)) + 12
    BY MessageFrame DEF IsFrame
  <2>3. Len(BodyOfMessage(m)) \in Nat BY <2>2, LenProperties
  <2> QED BY <2>2, <2>3, <1>0
<1>2. T \in SUBSET Nat /\ T # {} /\ \A x \in T : x <= Unmodelled + 12
  BY <1>1, UpAssumption
<1>3. Max(T) \in T /\ \A x \in T : x <= Max(T)
  <2> HIDE DEF T
  <2> QED BY <1>0, <1>2, GreatestOf
<1>4. LongestMessage = Max(T) BY DEF LongestMessage
<1>5. \A m \in Messages : Len(FrameOf(m)) \in T OBVIOUS
<1>6. LongestMessage \in T BY <1>3, <1>4
<1> QED BY <1>1, <1>2, <1>3, <1>4, <1>5, <1>6

LEMMA UpStart == Init => UpInv
<1> SUFFICES ASSUME Init PROVE UpInv OBVIOUS
<1>1. /\ network = << >> /\ sent = << >> /\ delivered = << >>
      /\ memory = Zeros(InitBufferSize) /\ read_pos = 0 /\ write_pos = 0 /\ open = TRUE
  BY DEF Init, StreamInit, UpInit
<1>2. InitBufferSize \in Nat /\ InitBufferSize >= 1 BY UpAssumption
<1>3. memory \in Seq(Byte) /\ Len(memory) = InitBufferSize
  <2>1. 0 \in Byte BY DEF Byte
  <2>2. memory = [i \in 1 .. InitBufferSize |-> 0] BY <1>1 DEF Zeros
  <2>3. memory \in Seq(Byte) BY <1>2, <2>1, <2>2, IsASeq
  <2> QED BY <1>2, <2>2, <2>3
<1>4. TheBuf.memory = memory /\ TheBuf.r = 0 /\ TheBuf.w = 0 BY <1>1 DEF TheBuf, Buf
<1>5. IsBuf(TheBuf) BY <1>2, <1>3, <1>4 DEF IsBuf
<1>6. readable(TheBuf) = << >>
  <2>1. readable(TheBuf) = SubSeq(memory, 0 + 1, 0) BY <1>4 DEF readable
  <2> QED BY <2>1, SubSeqEmpty
<1>7. sent \in Seq(Messages) /\ Len(sent) = 0 /\ Len(delivered) = 0 BY <1>1, EmptySeq
<1>8. FramesOf(sent) = << >> /\ PacketsOf(sent) = << >>
  <2>1. FramesOf(sent) \in Seq(Seq(Byte)) /\ Len(FramesOf(sent)) = 0
        /\ PacketsOf(sent) \in Seq(UpPackets) /\ Len(PacketsOf(sent)) = 0
    BY <1>7, FramesOfMessages
  <2> QED BY <2>1, EmptySeq
<1>9. Tracks(<< >>, 0, << >>, << >>, 0)
  <2> DEFINE e == << >>
  <2>1. e \in Seq(Seq(Byte)) /\ e \in Seq(Byte) /\ Len(e) = 0 BY EmptySeq
  <2>2. FlattenSeq(e) = e /\ Offset(e, 0) = 0 BY <2>1, FlattenEmpty, OffsetEnds
  <2>3. SubSeq(e, 0 + 1, 0) = e BY SubSeqEmpty
  <2> HIDE DEF e
  <2>4. Arrived(e, 0) = 0 BY <2>1 DEF Arrived
  <2>5. Tracks(e, 0, e, e, 0) BY <2>1, <2>2, <2>3, <2>4 DEF Tracks
  <2> QED BY <2>5 DEF e
<1>10. Tracks(FramesOf(sent), Len(delivered), readable(TheBuf), network,
              Len(FlattenSeq(FramesOf(sent))))
  BY <1>1, <1>6, <1>7, <1>8, <1>9, FlattenEmpty
<1>11. delivered = SubSeq(PacketsOf(sent), 1, Len(delivered))
  <2>1. SubSeq(PacketsOf(sent), 1, 0) = << >> BY SubSeqEmpty
  <2> QED BY <2>1, <1>1, <1>7
<1>12. BufferBounded
  BY <1>2, <1>3, LongestMessageIs DEF BufferBounded
<1> QED BY <1>1, <1>5, <1>7, <1>10, <1>11, <1>12 DEF UpInv

LEMMA UpSends == UpInv /\ sendWireData => UpInv'
<1> SUFFICES ASSUME UpInv, sendWireData PROVE UpInv' OBVIOUS
<1>1. PICK m \in Messages : /\ sent' = Append(sent, m)
                            /\ network' = network \o FrameOf(m)
  BY DEF sendWireData, FrameOf
<1>2. /\ memory' = memory /\ read_pos' = read_pos /\ write_pos' = write_pos
      /\ open' = open /\ delivered' = delivered
  BY DEF sendWireData
<1> DEFINE ss == FramesOf(sent)
           s == FlattenSeq(ss)
           fr == FrameOf(m)
           tt == Append(ss, fr)
           t == FlattenSeq(tt)
           d == Len(delivered)
           u == readable(TheBuf)
<1>3. /\ sent \in Seq(Messages) /\ Tracks(ss, d, u, network, Len(s))
      /\ delivered = SubSeq(PacketsOf(sent), 1, d)
  BY DEF UpInv
<1>4. sent' \in Seq(Messages) /\ Len(sent') = Len(sent) + 1 /\ Len(sent) \in Nat
      /\ sent'[Len(sent) + 1] = m /\ \A i \in 1 .. Len(sent) : sent'[i] = sent[i]
  BY <1>1, <1>3, AppendProperties, LenProperties
<1>5. ss \in Seq(Seq(Byte)) /\ Len(ss) = Len(sent) BY <1>3, FramesOfMessages
<1>6. fr \in Seq(Byte) /\ Len(fr) \in Nat /\ Len(fr) > 0
  <2>1. /\ fr \in Seq(Byte) /\ BodyOfMessage(m) \in Seq(Byte)
        /\ Len(fr) = Len(BodyOfMessage(m)) + 12
    BY MessageFrame DEF IsFrame
  <2>2. Len(BodyOfMessage(m)) \in Nat BY <2>1, LenProperties
  <2> HIDE DEF fr
  <2> QED BY <2>1, <2>2
<1>7. FramesOf(sent') = tt
  <2>1. /\ FramesOf(sent') \in Seq(Seq(Byte)) /\ Len(FramesOf(sent')) = Len(sent')
        /\ \A i \in 1 .. Len(sent') : FramesOf(sent')[i] = FrameOf(sent'[i])
    BY <1>4, FramesOfMessages
  <2>2. /\ tt \in Seq(Seq(Byte)) /\ Len(tt) = Len(ss) + 1 /\ tt[Len(ss) + 1] = fr
        /\ \A i \in 1 .. Len(ss) : tt[i] = ss[i]
    BY <1>5, <1>6, AppendProperties
  <2>3. \A i \in 1 .. Len(sent) : ss[i] = FrameOf(sent[i]) BY <1>3, FramesOfMessages
  <2> HIDE DEF tt, ss
  <2>4. \A i \in 1 .. Len(sent') : FramesOf(sent')[i] = tt[i]
    <3>1. ASSUME NEW i \in 1 .. Len(sent') PROVE FramesOf(sent')[i] = tt[i]
      <4>1. CASE i = Len(sent) + 1 BY <4>1, <3>1, <2>1, <2>2, <1>4, <1>5
      <4>2. CASE i # Len(sent) + 1
        <5>1. i \in 1 .. Len(sent) BY <4>2, <1>4
        <5> QED BY <5>1, <2>1, <2>2, <2>3, <1>4, <1>5
      <4> QED BY <4>1, <4>2
    <3> QED BY <3>1
  <2> QED BY <2>1, <2>2, <2>4, <1>4, <1>5, SeqEqual
<1>8. Tracks(tt, d, u, network, Len(s))
  <2> HIDE DEF ss, s, fr, u, d
  <2> QED BY <1>3, <1>5, <1>6, TracksMore
<1>9. t = s \o fr /\ Len(t) = Len(s) + Len(fr) /\ t \in Seq(Byte) /\ s \in Seq(Byte)
      /\ Len(s) \in Nat
  <2> HIDE DEF ss, fr
  <2>1. t = s \o fr /\ s \in Seq(Byte) BY <1>5, <1>6, FlattenAppend
  <2> HIDE DEF s, t
  <2> QED BY <2>1, <1>6, ConcatProperties, LenProperties
<1>10. SubSeq(t, Len(s) + 1, Len(t)) = fr
  <2> HIDE DEF s, t, fr
  <2>1. Len(s) \in 0 .. Len(s) BY <1>9
  <2>2. SubSeq(s \o fr, Len(s) + 1, Len(s) + Len(fr)) = SubSeq(s, Len(s) + 1, Len(s)) \o fr
    BY <2>1, <1>6, <1>9, WindowToEnd
  <2>3. SubSeq(s, Len(s) + 1, Len(s)) = << >>
    <3>1. Len(s) + 1 \in Int /\ Len(s) \in Int /\ Len(s) < Len(s) + 1 BY <1>9
    <3> QED BY <3>1, SubSeqEmpty
  <2>4. << >> \o fr = fr BY <1>6, ConcatEmptySeq
  <2> QED BY <2>2, <2>3, <2>4, <1>9
<1>11. Tracks(tt, d, u, network \o fr, Len(t))
  <2>1. Len(t) \in Len(s) .. Len(t) BY <1>6, <1>9
  <2>2. tt \in Seq(Seq(Byte)) BY <1>5, <1>6, AppendProperties
  <2> HIDE DEF ss, s, fr, u, d, tt
  <2>3. Tracks(tt, d, u, network \o SubSeq(t, Len(s) + 1, Len(t)), Len(t))
    BY <2>1, <2>2, <1>8, TracksWrite
  <2> QED BY <2>3, <1>10
<1>12. TheBuf' = TheBuf BY <1>2 DEF TheBuf
<1>13. Tracks(FramesOf(sent'), Len(delivered'), readable(TheBuf'), network',
              Len(FlattenSeq(FramesOf(sent'))))
  BY <1>1, <1>2, <1>7, <1>11, <1>12
<1>14. SubSeq(PacketsOf(sent'), 1, d) = SubSeq(PacketsOf(sent), 1, d)
  <2>1. d \in Nat /\ d <= Len(sent)
    <3> HIDE DEF ss, s, u, d
    <3> QED BY <1>3, <1>5, TracksTypes
  <2>2. /\ PacketsOf(sent) \in Seq(UpPackets) /\ Len(PacketsOf(sent)) = Len(sent)
        /\ \A i \in 1 .. Len(sent) : PacketsOf(sent)[i] = AsPacket(sent[i])
    BY <1>3, FramesOfMessages
  <2>3. /\ PacketsOf(sent') \in Seq(UpPackets) /\ Len(PacketsOf(sent')) = Len(sent')
        /\ \A i \in 1 .. Len(sent') : PacketsOf(sent')[i] = AsPacket(sent'[i])
    BY <1>4, FramesOfMessages
  <2>4. d \in 0 .. Len(PacketsOf(sent)) /\ d \in 0 .. Len(PacketsOf(sent'))
    BY <2>1, <2>2, <2>3, <1>4
  <2> HIDE DEF d
  <2>5. /\ SubSeq(PacketsOf(sent), 1, d) \in Seq(UpPackets)
        /\ Len(SubSeq(PacketsOf(sent), 1, d)) = d
        /\ \A i \in 1 .. d : SubSeq(PacketsOf(sent), 1, d)[i] = PacketsOf(sent)[i]
    BY <2>2, <2>4, PrefixType
  <2>6. /\ SubSeq(PacketsOf(sent'), 1, d) \in Seq(UpPackets)
        /\ Len(SubSeq(PacketsOf(sent'), 1, d)) = d
        /\ \A i \in 1 .. d : SubSeq(PacketsOf(sent'), 1, d)[i] = PacketsOf(sent')[i]
    BY <2>3, <2>4, PrefixType
  <2>7. \A i \in 1 .. d : SubSeq(PacketsOf(sent'), 1, d)[i] = SubSeq(PacketsOf(sent), 1, d)[i]
    <3>1. ASSUME NEW i \in 1 .. d
          PROVE  SubSeq(PacketsOf(sent'), 1, d)[i] = SubSeq(PacketsOf(sent), 1, d)[i]
      <4>1. i \in 1 .. Len(sent) /\ i \in 1 .. Len(sent') BY <2>1, <1>4
      <4> QED BY <4>1, <2>2, <2>3, <2>5, <2>6, <1>4
    <3> QED BY <3>1
  <2> QED BY <2>5, <2>6, <2>7, SeqEqual
<1>15. BufferBounded' BY <1>2 DEF UpInv, BufferBounded
<1>16. open' = TRUE /\ IsBuf(TheBuf') BY <1>2, <1>12 DEF UpInv
<1>17. delivered' = SubSeq(PacketsOf(sent'), 1, Len(delivered')) BY <1>2, <1>3, <1>14
<1> QED BY <1>4, <1>13, <1>15, <1>16, <1>17 DEF UpInv

LEMMA UpReads == UpInv /\ do_read => UpInv' /\ Len(delivered') >= Len(delivered)
<1> SUFFICES ASSUME UpInv, do_read PROVE UpInv' /\ Len(delivered') >= Len(delivered)
  OBVIOUS
<1> DEFINE ss == FramesOf(sent)
           s == FlattenSeq(ss)
           ps == PacketsOf(sent)
           d == Len(delivered)
           u == readable(TheBuf)
           y == Len(s)
           x == Arrived(network, y)
           o(k) == Offset(ss, k)
<1>1. PICK n \in 1 .. Len(network) :
        /\ n <= InitBufferSize
        /\ LET all == decode_all(write(TheBuf, SubSeq(network, 1, n)))
           IN  /\ memory' = all.buffer.memory
               /\ read_pos' = all.buffer.r
               /\ write_pos' = all.buffer.w
               /\ open' = (all.status # "Invalid")
               /\ delivered' = delivered \o all.packets
        /\ network' = SubSeq(network, n + 1, Len(network))
  BY DEF do_read, TheBuf
<1>2. sent' = sent BY DEF do_read
<1>3. /\ sent \in Seq(Messages) /\ IsBuf(TheBuf) /\ Tracks(ss, d, u, network, y)
      /\ delivered = SubSeq(ps, 1, d) /\ BufferBounded
  BY DEF UpInv
<1>4. ss \in Seq(Seq(Byte)) /\ Len(ss) = Len(sent) /\ ps \in Seq(UpPackets) /\ Len(ps) = Len(sent)
  BY <1>3, FramesOfMessages
<1> DEFINE data == SubSeq(network, 1, n)
           b == write(TheBuf, data)
<1> HIDE DEF ss, ps, u
<1>5. /\ Len(ss) \in Nat /\ d \in Nat /\ d <= Len(ss) /\ s \in Seq(Byte) /\ y \in Nat
      /\ Len(network) \in Nat /\ o(d) \in Nat /\ x \in Nat /\ o(d) <= x /\ x <= y
      /\ u \in Seq(Byte) /\ Len(u) = x - o(d)
  <2> HIDE DEF d
  <2> QED BY <1>3, <1>4, TracksTypes
<1>6. /\ x + n \in x .. y /\ data \in Seq(Byte) /\ Len(data) = n
      /\ u \o data = Behind(ss, d, x + n)
  <2>1. n \in 1 .. Len(network) OBVIOUS
  <2>2. /\ x + n \in x .. y
        /\ SubSeq(network, 1, n) \in Seq(Byte) /\ Len(SubSeq(network, 1, n)) = n
        /\ u \o SubSeq(network, 1, n) = Behind(ss, d, x + n)
    <3> HIDE DEF d, s
    <3> QED BY <2>1, <1>3, <1>4, TracksRead
  <2> QED BY <2>2
<1> HIDE DEF data, b
<1>7. /\ IsBuf(b) /\ readable(b) = u \o data
      /\ \/ Len(b.memory) = Len(TheBuf.memory)
         \/ Len(b.memory) <= 2 * ((TheBuf.w - TheBuf.r) + n)
  BY <1>3, <1>6, Written DEF b, u
<1>8. PICK j \in d .. Len(ss) :
        /\ o(j) <= x + n
        /\ IF j < Len(ss) THEN x + n < o(j + 1) ELSE x + n = o(j)
  <2>1. d \in 0 .. Len(ss) /\ x + n \in o(d) .. Len(s) BY <1>5, <1>6
  <2> HIDE DEF d, x
  <2> QED BY <2>1, <1>4, Reached
<1>9. PICK r \in b.r .. b.w :
        /\ SubSeq(b.memory, r + 1, b.w) = Behind(ss, j, x + n)
        /\ decode_all(b) = [buffer |-> [b EXCEPT !.r = r], packets |-> SubSeq(ps, d + 1, j),
                            status |-> "NeedMore"]
  <2> DEFINE z == x + n
  <2>1. d \in 0 .. Len(sent) /\ j \in d .. Len(sent) /\ z \in Nat /\ z <= y
    BY <1>4, <1>5, <1>6
  <2>2. /\ o(j) <= z /\ (IF j < Len(sent) THEN z < o(j + 1) ELSE z = o(j))
        /\ readable(b) = Behind(ss, d, z)
    BY <1>4, <1>6, <1>7, <1>8
  <2> HIDE DEF d, x, z
  <2>3. Takes(b, sent, d, j, z)
    <3> HIDE DEF o, s, y
    <3>1. /\ Offset(FramesOf(sent), j) <= z
          /\ z <= Len(FlattenSeq(FramesOf(sent)))
          /\ readable(b) = Behind(FramesOf(sent), d, z)
      BY <2>1, <2>2 DEF o, ss, y, s
    <3>2. IF j < Len(sent) THEN z < Offset(FramesOf(sent), j + 1)
                           ELSE z = Offset(FramesOf(sent), j)
      BY <2>2 DEF o, ss
    <3>3. IsBuf(b) /\ sent \in Seq(Messages) BY <1>3, <1>7
    <3> HIDE DEF TheBuf
    <3> QED BY ONLY <2>1, <3>1, <3>2, <3>3, DecodeAll
  <2> QED BY <2>3 DEF z, ss, ps, Takes
<1>10. /\ memory' = b.memory /\ read_pos' = r /\ write_pos' = b.w /\ open' = TRUE
       /\ delivered' = delivered \o SubSeq(ps, d + 1, j)
  <2>1. LET all == decode_all(b)
        IN  /\ memory' = all.buffer.memory
            /\ read_pos' = all.buffer.r
            /\ write_pos' = all.buffer.w
            /\ open' = (all.status # "Invalid")
            /\ delivered' = delivered \o all.packets
    BY <1>1 DEF b, data
  <2>2. /\ [b EXCEPT !.r = r].memory = b.memory /\ [b EXCEPT !.r = r].w = b.w
        /\ [b EXCEPT !.r = r].r = r
    BY DEF b, write, Buf
  <2> DEFINE c == [b EXCEPT !.r = r]
             taken == SubSeq(ps, d + 1, j)
  <2>3. decode_all(b) = [buffer |-> c, packets |-> taken, status |-> "NeedMore"]
    BY <1>9
  <2>4. c.memory = b.memory /\ c.r = r /\ c.w = b.w BY <2>2
  <2> HIDE DEF d, c, taken
  <2>5. /\ memory' = c.memory /\ read_pos' = c.r /\ write_pos' = c.w
        /\ open' = TRUE /\ delivered' = delivered \o taken
    <3> DEFINE all == decode_all(b)
    <3>1. all.buffer = c /\ all.packets = taken /\ all.status = "NeedMore"
      BY <2>3
    <3> HIDE DEF all, b
    <3>2. /\ memory' = all.buffer.memory /\ read_pos' = all.buffer.r
          /\ write_pos' = all.buffer.w /\ delivered' = delivered \o all.packets
      BY <2>1 DEF all
    <3>3. open' = (all.status # "Invalid") BY <2>1 DEF all
    <3> QED BY <3>1, <3>2, <3>3
  <2> QED BY <2>4, <2>5 DEF taken
<1>11. delivered' = SubSeq(ps, 1, j) /\ Len(delivered') = j
  <2>1. d \in 0 .. Len(ps) /\ j \in d .. Len(ps) /\ j \in 0 .. Len(ps) /\ 0 \in 0 .. Len(ps)
    BY <1>4, <1>5
  <2>2. SubSeq(ps, 0 + 1, d) \o SubSeq(ps, d + 1, j) = SubSeq(ps, 0 + 1, j)
    <3> HIDE DEF d
    <3> QED BY <2>1, <1>4, WindowsMeet
  <2>3. Len(SubSeq(ps, 1, j)) = j BY <2>1, <1>4, PrefixType
  <2>4. delivered = SubSeq(ps, 0 + 1, d) BY <1>3
  <2>5. delivered' = SubSeq(ps, 0 + 1, j) BY <2>2, <2>4, <1>10
  <2> QED BY <2>3, <2>5
<1>12. TheBuf'.memory = b.memory /\ TheBuf'.r = r /\ TheBuf'.w = b.w
  BY <1>10 DEF TheBuf, Buf
<1>13. IsBuf(TheBuf')
  <2>1. b.r \in Nat /\ b.w \in Nat /\ b.w <= Len(b.memory) /\ b.memory \in Seq(Byte)
        /\ Len(b.memory) \in Nat
    BY <1>7, LenProperties DEF IsBuf
  <2>2. r \in b.r .. b.w OBVIOUS
  <2>3. r \in Nat /\ r <= b.w BY <2>1, <2>2
  <2> QED BY <2>1, <2>3, <1>12 DEF IsBuf
<1>14. readable(TheBuf') = SubSeq(s, o(j) + 1, x + n)
  BY <1>9, <1>12 DEF readable, Behind
<1>15. Tracks(ss, j, SubSeq(s, o(j) + 1, x + n), network', y)
  <2> HIDE DEF d
  <2> QED BY <1>1, <1>3, <1>4, <1>8, TracksDeliver
<1>16. Tracks(FramesOf(sent'), Len(delivered'), readable(TheBuf'), network',
              Len(FlattenSeq(FramesOf(sent'))))
  BY <1>2, <1>11, <1>14, <1>15 DEF ss
<1>17. delivered' = SubSeq(PacketsOf(sent'), 1, Len(delivered'))
  BY <1>2, <1>11 DEF ps
<1>18. Len(u) <= LongestMessage - 1
  <2>1. LongestMessage \in Nat /\ LongestMessage >= 12 BY LongestMessageIs
  <2>2. CASE d < Len(ss)
    <3>1. d \in 0 .. Len(ss) - 1 /\ d + 1 \in 1 .. Len(sent) BY <2>2, <1>4, <1>5
    <3>2. x < o(d + 1)
      <4> HIDE DEF d, x
      <4> QED BY <2>2, <1>3 DEF Tracks, x
    <3>3. sent[d + 1] \in Messages /\ ss[d + 1] = FrameOf(sent[d + 1])
      BY <3>1, <1>3, FramesOfMessages DEF ss
    <3>4. o(d + 1) = o(d) + Len(ss[d + 1])
      <4> HIDE DEF d
      <4> QED BY <3>1, <1>4, OffsetNext
    <3>5. Len(ss[d + 1]) <= LongestMessage BY <3>3, LongestMessageIs
    <3>6. Len(ss[d + 1]) \in Nat
      <4>1. d + 1 \in 1 .. Len(ss) BY <3>1, <1>4
      <4>2. ss[d + 1] \in Seq(Byte) BY <4>1, <1>4, ElementOfSeq
      <4> QED BY <4>2, LenProperties
    <3>7. Len(u) = x - o(d) /\ o(d) \in Nat /\ x \in Nat BY <1>5
    <3> HIDE DEF d, x, o, u, ss
    <3> QED BY <3>2, <3>4, <3>5, <3>6, <3>7, <2>1
  <2>3. CASE ~(d < Len(ss))
    <3>1. x = o(d)
      <4> HIDE DEF d, x
      <4> QED BY <2>3, <1>3 DEF Tracks, x
    <3> HIDE DEF d, x, o
    <3> QED BY <3>1, <2>1, <1>5
  <2> QED BY <2>2, <2>3
<1>19. TheBuf.w - TheBuf.r = Len(u) /\ TheBuf.memory = memory
  <2>1. TheBuf.r \in Nat /\ TheBuf.w \in TheBuf.r .. Len(TheBuf.memory)
        /\ TheBuf.memory \in Seq(Byte)
    BY <1>3 DEF IsBuf
  <2>2. Len(u) = TheBuf.w - TheBuf.r BY <2>1, Window DEF u, readable
  <2> QED BY <2>2 DEF TheBuf, Buf
<1>20. BufferBounded'
  <2>1. /\ LongestMessage \in Nat /\ InitBufferSize \in Nat /\ n \in Nat
        /\ n <= InitBufferSize
    BY <1>1, <1>5, LongestMessageIs, UpAssumption
  <2>2. Len(memory) <= 2 * (LongestMessage - 1 + InitBufferSize)
    BY <1>3 DEF BufferBounded
  <2>3. Len(u) \in Nat BY <1>5
  <2>4. 2 * (Len(u) + n) <= 2 * (LongestMessage - 1 + InitBufferSize)
    BY <2>1, <2>3, <1>18
  <2>5. Len(b.memory) \in Nat BY <1>7, LenProperties DEF IsBuf
  <2>6. Len(b.memory) <= 2 * (LongestMessage - 1 + InitBufferSize)
    <3>1. CASE Len(b.memory) = Len(TheBuf.memory) BY <3>1, <2>2, <1>19
    <3>2. CASE Len(b.memory) <= 2 * ((TheBuf.w - TheBuf.r) + n)
      <4>1. Len(b.memory) <= 2 * (Len(u) + n) BY <3>2, <1>19
      <4> QED BY <4>1, <2>1, <2>3, <2>4, <2>5
    <3> QED BY <3>1, <3>2, <1>7
  <2>7. LongestMessage' = LongestMessage BY DEF LongestMessage
  <2> QED BY <2>6, <1>10 DEF BufferBounded
<1>21. Len(delivered') >= Len(delivered) BY <1>5, <1>11
<1>22. UpInv' BY <1>2, <1>3, <1>10, <1>13, <1>16, <1>17, <1>20 DEF UpInv
<1> QED BY <1>21, <1>22

-----------------------------------------------------------------------------
(***************************************************************************)
(* The client's parser.                                                    *)
(***************************************************************************)
\* The address a packet carries on the wire, and what the client makes of it.
IpOf(p) == IF header_includes_ip(p.type) THEN p.ip ELSE Zero32
Decoded(p) == decode_wire_packet(p.type, IpOf(p), p.payload)

LEMMA PacketFrame ==
    ASSUME NEW p \in Packets
    PROVE  /\ p.type \in DOMAIN MsgType /\ IpOf(p) \in Word
           /\ p.payload \in Seq(Byte) /\ Len(p.payload) < Unmodelled
           /\ IsFrame(encode(p), p.type, IpOf(p), p.payload)
<1>1. /\ p.type \in ServerTypes /\ p.ip \in Word /\ p.payload \in Seq(Byte)
      /\ Len(p.payload) < Unmodelled
  BY DownAssumption
<1>2. p.type \in DOMAIN MsgType
  BY <1>1 DEF ServerTypes, Media, IpEvents, MsgType
<1>3. Zero32 \in Word BY DEF Zero32, Word, Byte
<1>4. IpOf(p) \in Word BY <1>1, <1>3 DEF IpOf
<1>5. encode(p) = Frame(p.type, IpOf(p), p.payload) BY DEF encode, IpOf
<1>6. IsFrame(encode(p), p.type, IpOf(p), p.payload)
  BY <1>1, <1>2, <1>4, <1>5, FrameIsFrame
<1> QED BY <1>1, <1>2, <1>4, <1>6

\* The size of the frame in front, and its packet.
SizeOf(bytes) == HeaderSize + SizeAt(bytes, 8) + 1
PacketIn(bytes) ==
    decode_wire_packet(TypeOfCode(256 * bytes[2] + bytes[3]), U32At(bytes, 4),
                       SubSeq(bytes, 12, SizeOf(bytes) - 1))

LEMMA TakesPacket ==
    ASSUME NEW p \in Packets, NEW bytes \in Seq(Byte), Agrees(bytes, encode(p))
    PROVE  /\ Len(bytes) < Len(encode(p)) => ~TakesFrame(bytes)
           /\ Len(bytes) >= Len(encode(p)) =>
                /\ TakesFrame(bytes) /\ SizeOf(bytes) = Len(encode(p))
                /\ WellFormed(bytes, SizeOf(bytes)) /\ PacketIn(bytes) = Decoded(p)
<1> DEFINE fr == encode(p)
           ip == IpOf(p)
<1>1. /\ p.type \in DOMAIN MsgType /\ ip \in Word /\ p.payload \in Seq(Byte)
      /\ IsFrame(fr, p.type, ip, p.payload)
  BY PacketFrame
<1>2. Agrees(bytes, fr) OBVIOUS
<1> HIDE DEF fr, ip
<1>3. Len(p.payload) \in Nat /\ Len(bytes) \in Nat BY <1>1, LenProperties
<1>4. Len(fr) = Len(p.payload) + 12 BY <1>1 DEF IsFrame
<1>5. CASE Len(bytes) < HeaderSize
  <2>1. ~TakesFrame(bytes) BY <1>3, <1>5 DEF TakesFrame, HeaderSize
  <2>2. Len(bytes) < Len(fr) BY <1>3, <1>4, <1>5 DEF HeaderSize
  <2> QED BY <2>1, <2>2, <1>3, <1>4 DEF fr
<1>6. CASE ~(Len(bytes) < HeaderSize)
  <2>1. Len(bytes) >= HeaderSize BY <1>3, <1>6 DEF HeaderSize
  <2>2. /\ bytes[1] = Magic /\ SizeAt(bytes, 8) = Len(p.payload)
        /\ TypeOfCode(256 * bytes[2] + bytes[3]) = p.type
    BY <1>1, <1>2, <2>1, HeaderOf
  <2>3. SizeOf(bytes) = Len(fr) BY <2>2, <1>3, <1>4 DEF HeaderSize, SizeOf
  <2>4. CASE Len(bytes) < Len(fr)
    <3>1. ~TakesFrame(bytes) BY <2>3, <2>4, <1>3, <1>4 DEF TakesFrame, SizeOf
    <3> QED BY <3>1, <2>4, <1>3, <1>4 DEF fr
  <2>5. CASE ~(Len(bytes) < Len(fr))
    <3>0. Len(bytes) >= Len(fr) BY <2>5, <1>3, <1>4
    <3>1. /\ bytes[Len(fr)] = TailByte /\ U32At(bytes, 4) = ip
          /\ SubSeq(bytes, 12, Len(fr) - 1) = p.payload
      BY <1>1, <1>2, <3>0, BodyOf
    <3>2. TakesFrame(bytes) BY <2>1, <2>3, <3>0 DEF TakesFrame, SizeOf
    <3>3. WellFormed(bytes, SizeOf(bytes)) BY <2>2, <2>3, <3>1 DEF WellFormed
    <3>4. PacketIn(bytes) = Decoded(p) BY <2>2, <2>3, <3>1 DEF PacketIn, Decoded, ip
    <3> QED BY <2>3, <2>5, <3>2, <3>3, <3>4 DEF fr
  <2> QED BY <2>4, <2>5
<1> QED BY <1>5, <1>6

LEMMA TakenFits ==
    ASSUME NEW bytes \in Seq(Byte), TakesFrame(bytes)
    PROVE  SizeOf(bytes) \in 1 .. Len(bytes)
<1>1. Len(bytes) \in Nat /\ Len(bytes) >= HeaderSize /\ SizeOf(bytes) <= Len(bytes)
  <2>1. Len(bytes) \in Nat /\ Len(bytes) >= HeaderSize
        /\ Len(bytes) >= HeaderSize + SizeAt(bytes, 8) + 1
    BY LenProperties DEF TakesFrame
  <2>2. SizeAt(bytes, 8) \in Nat BY <2>1, SizeType
  <2> QED BY <2>1, <2>2 DEF SizeOf, HeaderSize
<1>2. SizeAt(bytes, 8) \in Nat BY <1>1, SizeType
<1>3. SizeOf(bytes) \in Nat /\ 1 <= SizeOf(bytes) BY <1>2 DEF SizeOf, HeaderSize
<1> QED BY <1>1, <1>3

\* f is the function of extract_all(b).
Extracts(f, b) ==
    f = [i \in 0 .. Len(b) |->
           LET buf == SubSeq(b, i + 1, Len(b))
           IN  IF ~TakesFrame(buf) THEN [rest |-> buf, packets |-> << >>]
               ELSE IF WellFormed(buf, SizeOf(buf))
                    THEN [f[i + SizeOf(buf)] EXCEPT !.packets = <<PacketIn(buf)>> \o @]
                    ELSE f[i + SizeOf(buf)]]

LEMMA ExtractsExists ==
    ASSUME NEW b \in Seq(Byte)
    PROVE  \E f : Extracts(f, b)
<1> DEFINE bytes(r) == SubSeq(b, r + 1, Len(b))
           takes(r) == TakesFrame(bytes(r))
           stop(r) == [rest |-> bytes(r), packets |-> << >>]
           go(r, rest) == IF WellFormed(bytes(r), SizeOf(bytes(r)))
                          THEN [rest EXCEPT !.packets = <<PacketIn(bytes(r))>> \o @]
                          ELSE rest
           size(r) == SizeOf(bytes(r))
           R(f, lo) == f = [r \in lo .. Len(b) |->
                              IF ~takes(r) THEN stop(r)
                              ELSE go(r, f[r + size(r)])]
           S == {n \in Nat : n <= Len(b) => \E f : R(f, Len(b) - n)}
<1>0. Len(b) \in Nat BY LenProperties
<1>1. ASSUME NEW r \in 0 .. Len(b), takes(r)
      PROVE  r + size(r) \in r + 1 .. Len(b)
  <2>1. r \in Nat /\ Len(b) \in r .. Len(b) BY <1>0
  <2>2. bytes(r) \in Seq(Byte) /\ Len(bytes(r)) = Len(b) - r BY <2>1, Window
  <2>3. size(r) \in 1 .. Len(bytes(r)) BY <2>2, <1>1, TakenFits
  <2> HIDE DEF size, bytes
  <2> QED BY <2>1, <2>2, <2>3, <1>0
<1> HIDE DEF takes, size, stop, go
<1>2. 0 \in S
  <2>1. ASSUME NEW r \in Len(b) .. Len(b) PROVE ~takes(r)
    <3>1. r = Len(b) /\ r \in 0 .. Len(b) BY <1>0
    <3>2. SUFFICES ASSUME takes(r) PROVE FALSE OBVIOUS
    <3>3. r + size(r) \in r + 1 .. Len(b) BY <1>1, <3>1, <3>2
    <3> QED BY <3>1, <3>3, <1>0
  <2> DEFINE f == [r \in Len(b) .. Len(b) |-> stop(r)]
  <2>2. [r \in Len(b) .. Len(b) |-> IF ~takes(r) THEN stop(r)
                              ELSE go(r, f[r + size(r)])] = f
    BY <2>1
  <2>3. Len(b) - 0 = Len(b) BY <1>0
  <2> HIDE DEF f
  <2>4. R(f, Len(b) - 0) BY <2>2, <2>3
  <2> QED BY <2>4
<1>3. ASSUME NEW n \in S PROVE n + 1 \in S
  <2>1. SUFFICES ASSUME n + 1 <= Len(b) PROVE \E f : R(f, Len(b) - (n + 1))
    OBVIOUS
  <2>2. n <= Len(b) /\ n \in Nat BY <2>1, <1>0
  <2>3. PICK f : R(f, Len(b) - n) BY <2>2
  <2> DEFINE lo == Len(b) - (n + 1)
             val(r) == IF ~takes(r) THEN stop(r) ELSE go(r, f[r + size(r)])
             g == [r \in lo .. Len(b) |-> IF r = lo THEN val(r) ELSE f[r]]
  <2>4. /\ lo \in Nat /\ lo + 1 = Len(b) - n /\ 0 <= lo /\ lo < Len(b)
    <3>1. \A w, r \in Nat : n + 1 <= w - r =>
             /\ w - (n + 1) \in Nat /\ (w - (n + 1)) + 1 = w - n
             /\ r <= w - (n + 1) /\ w - (n + 1) < w
      BY <2>2
    <3> QED BY <2>1, <3>1, <1>0
  <2>5. ASSUME NEW r \in lo .. Len(b) PROVE g[r] = val(r)
    <3>1. CASE r = lo BY <3>1
    <3>2. CASE r # lo
      <4>1. r \in Len(b) - n .. Len(b) /\ g[r] = f[r]
        <5> HIDE DEF val
        <5>1. g[r] = f[r] BY <3>2
        <5> HIDE DEF g, lo
        <5> QED BY <5>1, <3>2, <2>4, <1>0
      <4>2. f[r] = val(r)
        <5> HIDE DEF lo
        <5> QED BY <2>3, <4>1
      <4> QED BY <4>1, <4>2
    <3> QED BY <3>1, <3>2
  <2>6. ASSUME NEW r \in lo .. Len(b), takes(r)
        PROVE  g[r + size(r)] = f[r + size(r)]
    <3>1. r \in 0 .. Len(b)
      <4> HIDE DEF lo
      <4> QED BY <2>4, <1>0
    <3>2. r + size(r) \in r + 1 .. Len(b) BY <1>1, <2>6, <3>1
    <3> DEFINE q == r + size(r)
    <3>3. q \in lo .. Len(b) /\ q # lo
      <4> HIDE DEF lo, q
      <4>1. q \in r + 1 .. Len(b) BY <3>2 DEF q
      <4> QED BY <4>1, <2>4, <1>0
    <3> HIDE DEF lo, val, q
    <3>4. g[q] = f[q] BY <3>3
    <3> QED BY <3>4 DEF q
  <2>7. R(g, lo)
    <3> DEFINE h == [r \in lo .. Len(b) |->
                       IF ~takes(r) THEN stop(r)
                       ELSE go(r, g[r + size(r)])]
    <3>1. ASSUME NEW r \in lo .. Len(b) PROVE g[r] = h[r]
      <4>1. h[r] = IF ~takes(r) THEN stop(r)
                   ELSE go(r, g[r + size(r)])
        <5> HIDE DEF g, lo
        <5> QED OBVIOUS
      <4>2. g[r] = val(r) BY <2>5
      <4>3. takes(r) => g[r + size(r)] = f[r + size(r)]
        BY <2>6
      <4> HIDE DEF g, h, lo
      <4> QED BY <4>1, <4>2, <4>3 DEF val
    <3>2. g = [r \in lo .. Len(b) |-> g[r]] /\ h = [r \in lo .. Len(b) |-> h[r]]
      <4> HIDE DEF lo, val
      <4> QED OBVIOUS
    <3>3. g = h
      <4> HIDE DEF g, h, lo
      <4> QED BY <3>1, <3>2
    <3> QED BY <3>3
  <2> HIDE DEF g, R
  <2> QED BY <2>7
<1>4. S = Nat
  <2> HIDE DEF S
  <2>1. S \in SUBSET Nat BY DEF S
  <2> QED BY <1>2, <1>3, <2>1, NatInduct
<1>5. Len(b) \in Nat /\ Len(b) - Len(b) = 0 /\ Len(b) <= Len(b) BY <1>0
<1>6. Len(b) \in S
  <2> HIDE DEF S
  <2> QED BY <1>4, <1>5
<1>7. \E f : R(f, 0)
  <2> HIDE DEF R
  <2> QED BY <1>5, <1>6
<1> QED BY <1>7 DEF Extracts, takes, size, stop, go, bytes

EncodedOf(ps) == [i \in DOMAIN ps |-> encode(ps[i])]
DecodedOf(ps) == [i \in DOMAIN ps |-> Decoded(ps[i])]
DownPackets == {Decoded(p) : p \in Packets}

LEMMA FramesOfPackets ==
    ASSUME NEW ps \in Seq(Packets)
    PROVE  /\ EncodedOf(ps) \in Seq(Seq(Byte)) /\ Len(EncodedOf(ps)) = Len(ps)
           /\ \A i \in 1 .. Len(ps) : ps[i] \in Packets /\ EncodedOf(ps)[i] = encode(ps[i])
           /\ DecodedOf(ps) \in Seq(DownPackets) /\ Len(DecodedOf(ps)) = Len(ps)
           /\ \A i \in 1 .. Len(ps) : DecodedOf(ps)[i] = Decoded(ps[i])
<1>0. Len(ps) \in Nat /\ DOMAIN ps = 1 .. Len(ps) BY LenProperties
<1>1. \A i \in 1 .. Len(ps) : ps[i] \in Packets BY ElementOfSeq
<1>2. \A i \in 1 .. Len(ps) : encode(ps[i]) \in Seq(Byte)
  BY <1>1, PacketFrame DEF IsFrame
<1>3. \A i \in 1 .. Len(ps) : Decoded(ps[i]) \in DownPackets BY <1>1 DEF DownPackets
<1>4. EncodedOf(ps) = [i \in 1 .. Len(ps) |-> encode(ps[i])] BY <1>0 DEF EncodedOf
<1>5. DecodedOf(ps) = [i \in 1 .. Len(ps) |-> Decoded(ps[i])] BY <1>0 DEF DecodedOf
<1>6. EncodedOf(ps) \in Seq(Seq(Byte)) BY <1>0, <1>2, <1>4, IsASeq
<1>7. DecodedOf(ps) \in Seq(DownPackets) BY <1>0, <1>3, <1>5, IsASeq
<1>8. Len(EncodedOf(ps)) = Len(ps)
  BY <1>0, <1>4, <1>6
<1>9. Len(DecodedOf(ps)) = Len(ps)
  BY <1>0, <1>5, <1>7
<1>10. \A i \in 1 .. Len(ps) : EncodedOf(ps)[i] = encode(ps[i]) BY <1>4
<1>11. \A i \in 1 .. Len(ps) : DecodedOf(ps)[i] = Decoded(ps[i]) BY <1>5
<1> QED BY <1>1, <1>6, <1>7, <1>8, <1>9, <1>10, <1>11

\* The loop takes the frames that are complete, and nothing else.
Extracted(bytes, ps, d, j, x) ==
    extract_all(bytes) = [rest |-> Behind(EncodedOf(ps), j, x),
                          packets |-> SubSeq(DecodedOf(ps), d + 1, j)]

LEMMA ExtractAll ==
    ASSUME NEW ms \in Seq(Packets), NEW d \in 0 .. Len(ms), NEW j \in d .. Len(ms),
           NEW x \in Nat, Offset(EncodedOf(ms), j) <= x,
           x <= Len(FlattenSeq(EncodedOf(ms))),
           IF j < Len(ms) THEN x < Offset(EncodedOf(ms), j + 1)
                          ELSE x = Offset(EncodedOf(ms), j),
           NEW b \in Seq(Byte), b = Behind(EncodedOf(ms), d, x)
    PROVE  Extracted(b, ms, d, j, x)
<1> DEFINE ss == EncodedOf(ms)
           s == FlattenSeq(ss)
           o(k) == Offset(ss, k)
           at(k) == o(k) - o(d)
           ps == DecodedOf(ms)
           bytes(k) == SubSeq(b, at(k) + 1, Len(b))
<1>0. Len(ms) \in Nat /\ d \in Nat /\ j \in Nat /\ d <= j /\ j <= Len(ms) BY LenProperties
<1>1. /\ ss \in Seq(Seq(Byte)) /\ Len(ss) = Len(ms) /\ s \in Seq(Byte) /\ Len(s) \in Nat
      /\ \A k \in 0 .. Len(ms) : o(k) \in Nat
  <2>1. ss \in Seq(Seq(Byte)) /\ Len(ss) = Len(ms) BY FramesOfPackets
  <2>2. s \in Seq(Byte) /\ \A k \in 0 .. Len(ms) : o(k) \in Nat
    <3> HIDE DEF ss
    <3> QED BY <2>1, OffsetEnds
  <2>3. Len(s) \in Nat
    <3> HIDE DEF s
    <3> QED BY <2>2, LenProperties
  <2> QED BY <2>1, <2>2, <2>3
<1>2. \A k \in d .. j : o(d) <= o(k) /\ o(k) <= o(j) /\ o(k) \in Nat
  <2>1. TAKE k \in d .. j
  <2>2. d \in 0 .. Len(ss) /\ k \in d .. Len(ss) /\ k \in 0 .. Len(ss) /\ j \in k .. Len(ss)
    BY <1>0, <1>1
  <2> HIDE DEF ss
  <2> QED BY <2>2, <1>1, OffsetGrows
<1>3. o(j) <= x /\ x <= Len(s) OBVIOUS
<1>4. b = SubSeq(s, o(d) + 1, x) BY DEF Behind
<1>5. IF j < Len(ms) THEN x < o(j + 1) ELSE x = o(j) OBVIOUS
<1>6. Len(b) \in Nat BY LenProperties
<1> HIDE DEF ss, s, o, ps
<1>7. Len(b) = x - o(d)
  <2>1. x \in o(d) .. Len(s) /\ o(d) \in Nat BY <1>0, <1>1, <1>2, <1>3
  <2> QED BY <2>1, <1>1, <1>4, Window
<1>8. \A k \in d .. j : at(k) \in 0 .. Len(b) /\ at(k) \in Nat
  <2>1. TAKE k \in d .. j
  <2>2. o(d) <= o(k) /\ o(k) <= x /\ o(k) \in Nat /\ o(d) \in Nat
    BY <1>0, <1>1, <1>2, <1>3
  <2> QED BY <2>2, <1>7
<1>9. \A k \in d .. j : bytes(k) = SubSeq(s, o(k) + 1, x)
  <2>1. TAKE k \in d .. j
  <2>2. /\ o(d) \in Nat /\ o(k) \in o(d) .. x /\ x \in o(d) .. Len(s)
    BY <1>0, <1>1, <1>2, <1>3
  <2>3. SubSeq(SubSeq(s, o(d) + 1, x), (o(k) - o(d)) + 1, x - o(d)) = SubSeq(s, o(k) + 1, x)
    BY <2>2, <1>1, WindowOfWindow
  <2> QED BY <2>3, <1>4, <1>7
<1>10. PICK f : Extracts(f, b) /\ extract_all(b) = f[0]
  <2> DEFINE f == CHOOSE g : Extracts(g, b)
  <2>1. Extracts(f, b) BY ExtractsExists
  <2>2. extract_all(b) = f[0] BY DEF extract_all, Extracts, SizeOf, PacketIn
  <2> QED BY <2>1, <2>2
<1> DEFINE result(k) == [rest |-> bytes(j), packets |-> SubSeq(ps, k + 1, j)]
           S == {n \in Nat : n <= j - d => f[at(j - n)] = result(j - n)}
<1>11. ASSUME NEW k \in d .. j
       PROVE  f[at(k)] = IF ~TakesFrame(bytes(k)) THEN [rest |-> bytes(k), packets |-> << >>]
                         ELSE IF WellFormed(bytes(k), SizeOf(bytes(k)))
                         THEN [f[at(k) + SizeOf(bytes(k))]
                                 EXCEPT !.packets = <<PacketIn(bytes(k))>> \o @]
                         ELSE f[at(k) + SizeOf(bytes(k))]
  <2>1. at(k) \in 0 .. Len(b) BY <1>8
  <2> HIDE DEF at
  <2> QED BY <2>1, <1>10 DEF Extracts
<1>12. 0 \in S
  <2>1. j - 0 = j /\ j \in d .. j BY <1>0
  <2>2. ~TakesFrame(bytes(j))
    <3>1. CASE j < Len(ms)
      <4>1. j \in 0 .. Len(ss) - 1 /\ j + 1 \in 1 .. Len(ms) BY <1>0, <1>1, <3>1
      <4>2. x \in o(j) .. Len(s) BY <1>0, <1>1, <1>3
      <4>3. /\ bytes(j) \in Seq(Byte) /\ Len(bytes(j)) = x - o(j)
            /\ Agrees(bytes(j), ss[j + 1])
        BY <1>1, <1>9, <2>1, <4>1, <4>2, FrameAhead DEF o, s
      <4>4. ms[j + 1] \in Packets /\ ss[j + 1] = encode(ms[j + 1])
        BY <4>1, FramesOfPackets DEF ss
      <4>5. o(j + 1) = o(j) + Len(ss[j + 1]) /\ o(j) \in Nat
        BY <1>1, <4>1, OffsetNext DEF o
      <4>6. ss[j + 1] \in Seq(Byte) BY <1>1, <4>1, ElementOfSeq
      <4>7. Len(ss[j + 1]) \in Nat BY <4>6, LenProperties
      <4>8. Len(bytes(j)) < Len(encode(ms[j + 1]))
        BY <4>3, <4>4, <4>5, <4>7, <1>5, <3>1
      <4> HIDE DEF bytes
      <4> QED BY <4>3, <4>4, <4>8, TakesPacket
    <3>2. CASE ~(j < Len(ms))
      <4>1. x = o(j) /\ x \in Nat BY <1>5, <3>2
      <4>2. bytes(j) = SubSeq(s, o(j) + 1, x) BY <1>9, <2>1
      <4>3. o(j) \in Nat /\ x \in o(j) .. Len(s) BY <1>1, <1>3, <4>1
      <4> HIDE DEF bytes
      <4>4. Len(bytes(j)) = x - o(j)
        <5> HIDE DEF o, s
        <5>1. s \in Seq(Byte) BY <1>1
        <5>2. Len(SubSeq(s, o(j) + 1, x)) = x - o(j) BY <5>1, <4>3, Window
        <5> QED BY <5>2, <4>2
      <4>5. ~(Len(bytes(j)) >= HeaderSize) BY <4>1, <4>3, <4>4 DEF HeaderSize
      <4> HIDE DEF bytes
      <4> QED BY <4>5 DEF TakesFrame
    <3> QED BY <3>1, <3>2
  <2>3. SubSeq(ps, j + 1, j) = << >> BY <1>0, SubSeqEmpty
  <2>4. f[at(j)] = result(j)
    <3>1. f[at(j)] = [rest |-> bytes(j), packets |-> << >>]
      <4> HIDE DEF at, bytes
      <4> QED BY <1>11, <2>1, <2>2
    <3> QED BY <3>1, <2>3
  <2> HIDE DEF at, result
  <2> QED BY <2>1, <2>4
<1>13. ASSUME NEW n \in S PROVE n + 1 \in S
  <2>1. SUFFICES ASSUME n + 1 <= j - d PROVE f[at(j - (n + 1))] = result(j - (n + 1))
    <3> HIDE DEF at, result
    <3>1. n \in Nat /\ n + 1 \in Nat OBVIOUS
    <3> QED BY <3>1
  <2>2. n \in Nat /\ n <= j - d BY <2>1, <1>0
  <2> HIDE DEF S
  <2>3. PICK k \in d .. j : k = j - (n + 1) /\ k + 1 = j - n /\ k < j /\ k \in Nat
    BY <2>1, <2>2, <1>0
  <2>4. f[at(k + 1)] = result(k + 1)
    <3> HIDE DEF at, result
    <3> QED BY <2>2, <2>3 DEF S
  <2>5. k + 1 \in d .. j /\ k \in 0 .. Len(ss) - 1 /\ k + 1 \in 1 .. Len(ms)
    <3>1. k + 1 \in Nat /\ d <= k + 1 /\ k + 1 <= j BY <2>3, <1>0
    <3>2. k + 1 <= Len(ms) /\ Len(ss) = Len(ms) BY <3>1, <1>0, <1>1
    <3> QED BY <3>1, <3>2, <2>3, <1>0
  <2>6. o(k) \in Nat /\ o(k + 1) = o(k) + Len(ss[k + 1]) BY <1>1, <2>5, OffsetNext DEF o
  <2>7. ms[k + 1] \in Packets /\ ss[k + 1] = encode(ms[k + 1])
    BY <2>5, FramesOfPackets DEF ss
  <2>8. Len(ss[k + 1]) \in Nat
    <3>1. ss[k + 1] \in Seq(Byte) BY <1>1, <2>5, ElementOfSeq
    <3> QED BY <3>1, LenProperties
  <2>9. o(k + 1) <= x /\ x \in o(k) .. Len(s)
    <3>1. o(k + 1) <= o(j) /\ o(k) <= o(j) /\ o(j) \in Nat /\ o(k + 1) \in Nat
      <4>1. k \in d .. j /\ k + 1 \in d .. j /\ j \in d .. j BY <2>3, <2>5, <1>0
      <4> QED BY <4>1, <1>2
    <3>2. Len(s) \in Nat /\ o(k) \in Nat BY <1>1, <2>6
    <3> QED BY <3>1, <3>2, <1>3
  <2>10. /\ bytes(k) \in Seq(Byte) /\ Len(bytes(k)) = x - o(k)
         /\ Agrees(bytes(k), ss[k + 1])
    BY <1>1, <1>9, <2>3, <2>5, <2>9, FrameAhead DEF o, s
  <2>11. Len(bytes(k)) >= Len(encode(ms[k + 1]))
    BY <2>6, <2>7, <2>8, <2>9, <2>10
  <2>12. /\ TakesFrame(bytes(k)) /\ SizeOf(bytes(k)) = Len(ss[k + 1])
         /\ WellFormed(bytes(k), SizeOf(bytes(k))) /\ PacketIn(bytes(k)) = Decoded(ms[k + 1])
    <3> HIDE DEF bytes
    <3> QED BY <2>7, <2>10, <2>11, TakesPacket
  <2>13. at(k) + Len(ss[k + 1]) = at(k + 1)
    <3>1. o(d) \in Nat BY <1>0, <1>1
    <3>2. o(k + 1) - o(d) = (o(k) - o(d)) + Len(ss[k + 1]) BY <2>6, <2>8, <3>1
    <3>3. o(k) - o(d) \in Int BY <2>6, <3>1
    <3> QED BY <2>8, <3>2, <3>3, <1>6
  <2>14. f[at(k)] = [f[at(k + 1)] EXCEPT !.packets = <<Decoded(ms[k + 1])>> \o @]
    <3> HIDE DEF at, bytes
    <3> QED BY <1>11, <2>12, <2>13
  <2>15. <<Decoded(ms[k + 1])>> \o SubSeq(ps, (k + 1) + 1, j) = SubSeq(ps, k + 1, j)
    <3>1. /\ ps \in Seq(DownPackets) /\ Len(ps) = Len(ms) /\ ps[k + 1] = Decoded(ms[k + 1])
      BY <2>5, FramesOfPackets DEF ps
    <3>2. k + 1 \in 1 .. Len(ps) /\ j \in k + 1 .. Len(ps) BY <3>1, <2>3, <2>5, <1>0
    <3> QED BY <3>1, <3>2, SubSeqRecursiveFirst
  <2>16. f[at(k)] = result(k)
    <3> HIDE DEF at
    <3>1. f[at(k)] = [result(k + 1) EXCEPT !.packets = <<Decoded(ms[k + 1])>> \o @]
      <4> HIDE DEF result
      <4> QED BY <2>4, <2>14
    <3>2. f[at(k)] = [rest |-> bytes(j),
                      packets |-> <<Decoded(ms[k + 1])>> \o SubSeq(ps, (k + 1) + 1, j)]
      BY <3>1
    <3> QED BY <2>15, <3>2
  <2> HIDE DEF at, result
  <2> QED BY <2>2, <2>3, <2>16 DEF S
<1>14. S = Nat
  <2> HIDE DEF S
  <2>1. S \in SUBSET Nat BY DEF S
  <2> QED BY <1>12, <1>13, <2>1, NatInduct
<1>15. f[at(d)] = result(d)
  <2>1. j - d \in Nat /\ j - (j - d) = d /\ j - d <= j - d BY <1>0
  <2>2. j - d \in S
    <3> HIDE DEF S
    <3> QED BY <1>14, <2>1
  <2> HIDE DEF at, result
  <2> QED BY <2>1, <2>2
<1>16. at(d) = 0
  <2>1. o(d) \in Nat BY <1>0, <1>1
  <2> QED BY <2>1
<1>17. extract_all(b) = result(d)
  <2> HIDE DEF at, result
  <2> QED BY <1>10, <1>15, <1>16
<1>18. bytes(j) = Behind(ss, j, x)
  <2>1. j \in d .. j BY <1>0
  <2> HIDE DEF bytes
  <2>2. bytes(j) = SubSeq(s, o(j) + 1, x) BY <2>1, <1>9
  <2> QED BY <2>2 DEF Behind, o, s
<1>19. extract_all(b) = [rest |-> Behind(ss, j, x), packets |-> SubSeq(ps, d + 1, j)]
  <2> HIDE DEF bytes
  <2> QED BY <1>17, <1>18
<1> QED BY <1>19 DEF ss, ps, Extracted

-----------------------------------------------------------------------------
(***************************************************************************)
(* The client's end: what the server has sent and has not been parsed is   *)
(* in the queue, under way or in the parser.                               *)
(***************************************************************************)
LEMMA FirstOfWindow ==
    ASSUME NEW s \in Seq(Byte), NEW a \in Nat, NEW b \in a .. Len(s), NEW n \in 0 .. b - a
    PROVE  SubSeq(SubSeq(s, a + 1, b), 1, n) = SubSeq(s, a + 1, a + n)
<1> DEFINE w == SubSeq(s, a + 1, b)
           u == SubSeq(w, 1, n)
           v == SubSeq(s, a + 1, a + n)
<1>0. Len(s) \in Nat /\ b \in Nat /\ n \in Nat /\ a + n \in a .. Len(s) /\ (a + n) - a = n
  BY LenProperties
<1>1. w \in Seq(Byte) /\ Len(w) = b - a /\ \A i \in 1 .. b - a : w[i] = s[a + i]
  BY Window
<1>2. v \in Seq(Byte) /\ Len(v) = n /\ \A i \in 1 .. n : v[i] = s[a + i]
  <2>1. /\ v \in Seq(Byte) /\ Len(v) = (a + n) - a
        /\ \A i \in 1 .. (a + n) - a : v[i] = s[a + i]
    BY <1>0, Window
  <2> HIDE DEF v
  <2> QED BY <2>1, <1>0
<1> HIDE DEF w
<1>3. u \in Seq(Byte) /\ Len(u) = n /\ \A i \in 1 .. n : u[i] = w[i]
  <2>1. n \in 0 .. Len(w) BY <1>1
  <2> QED BY <2>1, <1>1, PrefixType
<1> HIDE DEF u, v
<1>4. \A i \in 1 .. n : u[i] = v[i]
  <2>1. ASSUME NEW i \in 1 .. n PROVE u[i] = v[i]
    <3>1. i \in 1 .. b - a BY <1>0
    <3> QED BY <3>1, <1>1, <1>2, <1>3
  <2> QED BY <2>1
<1>5. u = v BY <1>2, <1>3, <1>4, SeqEqual
<1> QED BY <1>5 DEF u, v, w

\* A frame is where its offsets say.
LEMMA FrameWindow ==
    ASSUME NEW ss \in Seq(Seq(Byte)), NEW j \in 0 .. Len(ss) - 1
    PROVE  SubSeq(FlattenSeq(ss), Offset(ss, j) + 1, Offset(ss, j + 1)) = ss[j + 1]
<1> DEFINE s == FlattenSeq(ss)
           a == Offset(ss, j)
           b == Offset(ss, j + 1)
           v == SubSeq(s, a + 1, b)
<1>0. Len(ss) \in Nat /\ j + 1 \in 1 .. Len(ss) BY LenProperties
<1>1. ss[j + 1] \in Seq(Byte) BY <1>0, ElementOfSeq
<1>2. Len(ss[j + 1]) \in Nat BY <1>1, LenProperties
<1>3. a \in Nat /\ b = a + Len(ss[j + 1]) BY OffsetNext
<1>4. b <= Len(s) /\ \A i \in 1 .. Len(ss[j + 1]) : s[a + i] = ss[j + 1][i] BY StreamAt
<1>5. s \in Seq(Byte) BY OffsetEnds
<1> HIDE DEF s, a, b
<1>6. Len(s) \in Nat BY <1>5, LenProperties
<1>7. v \in Seq(Byte) /\ Len(v) = b - a /\ \A i \in 1 .. b - a : v[i] = s[a + i]
  <2>1. b \in a .. Len(s) BY <1>2, <1>3, <1>4, <1>6
  <2> QED BY <2>1, <1>3, <1>5, Window
<1>8. b - a = Len(ss[j + 1]) BY <1>2, <1>3
<1> HIDE DEF v
<1>9. v = ss[j + 1]
  <2>1. /\ v \in Seq(Byte) /\ Len(v) = Len(ss[j + 1])
        /\ \A i \in 1 .. Len(v) : v[i] = ss[j + 1][i]
    BY <1>4, <1>7, <1>8
  <2> QED BY <2>1, <1>1, SeqEqual
<1> QED BY <1>9 DEF v, s, a, b

LEMMA LongestPacketIs ==
    /\ LongestPacket \in Nat /\ LongestPacket >= 12
    /\ \A p \in Packets : /\ Len(encode(p)) <= LongestPacket
                          /\ encode(p) \in Seq(Byte) /\ Len(encode(p)) >= 12
<1> DEFINE T == {Len(encode(p)) : p \in Packets}
<1>0. Unmodelled \in Nat /\ Unmodelled + 12 \in Nat BY SMT DEF Unmodelled
<1>1. \A p \in Packets : /\ Len(encode(p)) \in Nat /\ Len(encode(p)) >= 12
                         /\ Len(encode(p)) <= Unmodelled + 12 /\ encode(p) \in Seq(Byte)
  <2>1. TAKE p \in Packets
  <2>2. /\ p.payload \in Seq(Byte) /\ Len(p.payload) < Unmodelled
        /\ Len(encode(p)) = Len(p.payload) + 12 /\ encode(p) \in Seq(Byte)
    BY PacketFrame DEF IsFrame
  <2>3. Len(p.payload) \in Nat BY <2>2, LenProperties
  <2> QED BY <2>2, <2>3, <1>0
<1>2. T \in SUBSET Nat /\ T # {} /\ \A x \in T : x <= Unmodelled + 12
  BY <1>1, DownAssumption
<1>3. Max(T) \in T /\ \A x \in T : x <= Max(T)
  <2> HIDE DEF T
  <2> QED BY <1>0, <1>2, GreatestOf
<1>4. LongestPacket = Max(T) BY DEF LongestPacket
<1>5. \A p \in Packets : Len(encode(p)) \in T OBVIOUS
<1>6. LongestPacket \in T BY <1>3, <1>4
<1> QED BY <1>1, <1>2, <1>3, <1>4, <1>5, <1>6

\* The queue holds what has not been written of the stream, frame by frame; the
\* write under way is that of its front.
Queued(ss, queue, length, y) ==
    /\ queue \in Seq(Seq(Byte)) /\ Len(queue) <= Len(ss)
    /\ IF Len(queue) = 0 THEN length = 0 /\ y = Len(FlattenSeq(ss))
       ELSE LET k == Len(ss) - Len(queue)
            IN  /\ length = Len(queue[1]) /\ length > 0
                /\ y + length = Offset(ss, k + 1)
                /\ queue[1] = SubSeq(FlattenSeq(ss), y + 1, y + length)
                /\ \A i \in 2 .. Len(queue) : queue[i] = ss[k + i]

DownInv ==
    /\ resets = FALSE
    /\ sent \in Seq(Packets)
    /\ \E y \in Nat : /\ Queued(EncodedOf(sent), write_queue, write_length, y)
                      /\ Tracks(EncodedOf(sent), Len(delivered), parser, network, y)
    /\ delivered = SubSeq(DecodedOf(sent), 1, Len(delivered))

LEMMA DownStart == Init => DownInv
<1> SUFFICES ASSUME Init PROVE DownInv OBVIOUS
<1>1. /\ network = << >> /\ sent = << >> /\ delivered = << >>
      /\ write_queue = << >> /\ write_length = 0 /\ parser = << >> /\ resets = FALSE
  BY DEF Init, StreamInit, DownInit
<1>2. sent \in Seq(Packets) /\ Len(sent) = 0 /\ Len(delivered) = 0 BY <1>1, EmptySeq
<1>3. EncodedOf(sent) = << >> /\ DecodedOf(sent) = << >>
  <2>1. EncodedOf(sent) \in Seq(Seq(Byte)) /\ Len(EncodedOf(sent)) = 0
        /\ DecodedOf(sent) \in Seq(DownPackets) /\ Len(DecodedOf(sent)) = 0
    BY <1>2, FramesOfPackets
  <2> QED BY <2>1, EmptySeq
<1>4. Queued(<< >>, << >>, 0, 0) /\ Tracks(<< >>, 0, << >>, << >>, 0)
  <2> DEFINE e == << >>
  <2>1. e \in Seq(Seq(Byte)) /\ e \in Seq(Byte) /\ Len(e) = 0 BY EmptySeq
  <2>2. FlattenSeq(e) = e /\ Offset(e, 0) = 0 BY <2>1, FlattenEmpty, OffsetEnds
  <2>3. SubSeq(e, 0 + 1, 0) = e BY SubSeqEmpty
  <2> HIDE DEF e
  <2>4. Arrived(e, 0) = 0 BY <2>1 DEF Arrived
  <2>5. Tracks(e, 0, e, e, 0) BY <2>1, <2>2, <2>3, <2>4 DEF Tracks
  <2>6. Queued(e, e, 0, 0) BY <2>1, <2>2 DEF Queued
  <2> QED BY <2>5, <2>6 DEF e
<1>5. delivered = SubSeq(DecodedOf(sent), 1, Len(delivered))
  <2>1. SubSeq(DecodedOf(sent), 1, 0) = << >> BY SubSeqEmpty
  <2> QED BY <2>1, <1>1, <1>2
<1> QED BY <1>1, <1>2, <1>3, <1>4, <1>5 DEF DownInv

\* One more packet at the end: what the stream was so far it still is.
LEMMA EncodedMore ==
    ASSUME NEW ps \in Seq(Packets), NEW p \in Packets
    PROVE  EncodedOf(Append(ps, p)) = Append(EncodedOf(ps), encode(p))
<1>1. PICK qs : qs = Append(ps, p) OBVIOUS
<1> DEFINE ss == EncodedOf(ps)
           fr == encode(p)
           tt == Append(ss, fr)
<1>2. /\ qs \in Seq(Packets) /\ Len(qs) = Len(ps) + 1 /\ Len(ps) \in Nat
      /\ qs[Len(ps) + 1] = p /\ \A i \in 1 .. Len(ps) : qs[i] = ps[i]
  BY <1>1, AppendProperties, LenProperties
<1>3. /\ ss \in Seq(Seq(Byte)) /\ Len(ss) = Len(ps)
      /\ \A i \in 1 .. Len(ps) : ss[i] = encode(ps[i])
  BY FramesOfPackets
<1>4. /\ EncodedOf(qs) \in Seq(Seq(Byte)) /\ Len(EncodedOf(qs)) = Len(qs)
      /\ \A i \in 1 .. Len(qs) : EncodedOf(qs)[i] = encode(qs[i])
  BY <1>2, FramesOfPackets
<1>5. fr \in Seq(Byte) BY LongestPacketIs
<1> HIDE DEF ss
<1>6. /\ tt \in Seq(Seq(Byte)) /\ Len(tt) = Len(ss) + 1 /\ tt[Len(ss) + 1] = fr
      /\ \A i \in 1 .. Len(ss) : tt[i] = ss[i]
  BY <1>3, <1>5, AppendProperties
<1> HIDE DEF tt
<1>7. \A i \in 1 .. Len(qs) : EncodedOf(qs)[i] = tt[i]
  <2>1. ASSUME NEW i \in 1 .. Len(qs) PROVE EncodedOf(qs)[i] = tt[i]
    <3>1. CASE i = Len(ps) + 1 BY <3>1, <2>1, <1>2, <1>3, <1>4, <1>6
    <3>2. CASE i # Len(ps) + 1
      <4>1. i \in 1 .. Len(ps) BY <3>2, <1>2
      <4> QED BY <4>1, <2>1, <1>2, <1>3, <1>4, <1>6
    <3> QED BY <3>1, <3>2
  <2> QED BY <2>1
<1>8. EncodedOf(qs) = tt BY <1>2, <1>3, <1>4, <1>6, <1>7, SeqEqual
<1> QED BY <1>1, <1>8 DEF tt, ss

LEMMA DecodedMore ==
    ASSUME NEW ps \in Seq(Packets), NEW p \in Packets, NEW d \in 0 .. Len(ps)
    PROVE  SubSeq(DecodedOf(Append(ps, p)), 1, d) = SubSeq(DecodedOf(ps), 1, d)
<1>1. PICK qs : qs = Append(ps, p) OBVIOUS
<1>2. /\ qs \in Seq(Packets) /\ Len(qs) = Len(ps) + 1 /\ Len(ps) \in Nat
      /\ \A i \in 1 .. Len(ps) : qs[i] = ps[i]
  BY <1>1, AppendProperties, LenProperties
<1>3. /\ DecodedOf(ps) \in Seq(DownPackets) /\ Len(DecodedOf(ps)) = Len(ps)
      /\ \A i \in 1 .. Len(ps) : DecodedOf(ps)[i] = Decoded(ps[i])
  BY FramesOfPackets
<1>4. /\ DecodedOf(qs) \in Seq(DownPackets) /\ Len(DecodedOf(qs)) = Len(qs)
      /\ \A i \in 1 .. Len(qs) : DecodedOf(qs)[i] = Decoded(qs[i])
  BY <1>2, FramesOfPackets
<1> DEFINE u == SubSeq(DecodedOf(qs), 1, d)
           v == SubSeq(DecodedOf(ps), 1, d)
<1>5. d \in 0 .. Len(DecodedOf(ps)) /\ d \in 0 .. Len(DecodedOf(qs)) BY <1>2, <1>3, <1>4
<1>6. v \in Seq(DownPackets) /\ Len(v) = d /\ \A i \in 1 .. d : v[i] = DecodedOf(ps)[i]
  BY <1>3, <1>5, PrefixType
<1>7. u \in Seq(DownPackets) /\ Len(u) = d /\ \A i \in 1 .. d : u[i] = DecodedOf(qs)[i]
  BY <1>4, <1>5, PrefixType
<1> HIDE DEF u, v
<1>8. \A i \in 1 .. d : u[i] = v[i]
  <2>1. ASSUME NEW i \in 1 .. d PROVE u[i] = v[i]
    <3>1. i \in 1 .. Len(ps) /\ i \in 1 .. Len(qs) BY <1>2
    <3> QED BY <3>1, <1>2, <1>3, <1>4, <1>6, <1>7
  <2> QED BY <2>1
<1>9. u = v BY <1>6, <1>7, <1>8, SeqEqual
<1> QED BY <1>1, <1>9 DEF u, v

\* Appending to the queue what is appended to the stream.
LEMMA QueuedMore ==
    ASSUME NEW ss \in Seq(Seq(Byte)), NEW queue, NEW length, NEW y \in 0 .. Len(FlattenSeq(ss)),
           Queued(ss, queue, length, y), NEW fr \in Seq(Byte), Len(fr) > 0
    PROVE  Queued(Append(ss, fr), Append(queue, fr), StartWrite(Append(queue, fr), length), y)
<1>1. PICK tt : tt = Append(ss, fr) OBVIOUS
<1>2. PICK q : q = Append(queue, fr) OBVIOUS
<1> DEFINE s == FlattenSeq(ss)
           t == FlattenSeq(tt)
           k == Len(ss) - Len(queue)
<1>3. /\ tt \in Seq(Seq(Byte)) /\ Len(tt) = Len(ss) + 1 /\ Len(ss) \in Nat
      /\ tt[Len(ss) + 1] = fr /\ \A i \in 1 .. Len(ss) : tt[i] = ss[i]
  BY <1>1, AppendProperties, LenProperties
<1>4. queue \in Seq(Seq(Byte)) /\ Len(queue) <= Len(ss) BY DEF Queued
<1>5. /\ q \in Seq(Seq(Byte)) /\ Len(q) = Len(queue) + 1 /\ Len(queue) \in Nat
      /\ q[Len(queue) + 1] = fr /\ \A i \in 1 .. Len(queue) : q[i] = queue[i]
  BY <1>2, <1>4, AppendProperties, LenProperties
<1>6. /\ t = s \o fr /\ s \in Seq(Byte) /\ Len(s) \in Nat /\ Len(fr) \in Nat
      /\ Len(t) = Len(s) + Len(fr) /\ t \in Seq(Byte)
  <2>1. t = s \o fr /\ s \in Seq(Byte) BY <1>1, FlattenAppend
  <2> HIDE DEF s, t
  <2> QED BY <2>1, ConcatProperties, LenProperties
<1>7. q # << >> /\ Head(q) = q[1]
  <2>1. Len(q) # 0 BY <1>5
  <2> QED BY <2>1, <1>5, EmptySeq, HeadTailProperties
<1>8. k \in Nat /\ Len(tt) - Len(q) = k BY <1>3, <1>4, <1>5
<1> HIDE DEF k, s, t
<1>9. CASE Len(queue) = 0
  <2>1. length = 0 /\ y = Len(s) BY <1>9 DEF Queued, s
  <2>2. k = Len(ss) BY <1>3, <1>9 DEF k
  <2>3. Offset(tt, k + 1) = Len(t)
    <3>1. Offset(tt, Len(tt)) = Len(t) BY <1>3, OffsetEnds DEF t
    <3> QED BY <3>1, <2>2, <1>3
  <2>4. StartWrite(q, length) = Len(fr) /\ q[1] = fr /\ Len(q) = 1
    <3>1. q[1] = fr /\ Len(q) = 1 BY <1>5, <1>9
    <3> QED BY <3>1, <2>1, <1>7 DEF StartWrite
  <2>5. SubSeq(t, y + 1, y + Len(fr)) = fr
    <3>1. Len(s) \in 0 .. Len(s) BY <1>6
    <3>2. SubSeq(s \o fr, Len(s) + 1, Len(s) + Len(fr)) = SubSeq(s, Len(s) + 1, Len(s)) \o fr
      BY <3>1, <1>6, WindowToEnd
    <3>3. SubSeq(s, Len(s) + 1, Len(s)) = << >>
      <4>1. Len(s) + 1 \in Int /\ Len(s) \in Int /\ Len(s) < Len(s) + 1 BY <1>6
      <4> QED BY <4>1, SubSeqEmpty
    <3>4. << >> \o fr = fr BY ConcatEmptySeq
    <3> QED BY <3>2, <3>3, <3>4, <2>1, <1>6
  <2>6. Queued(tt, q, Len(fr), y)
    <3>1. Len(q) <= Len(tt) /\ Len(q) # 0 BY <2>4, <1>3
    <3>2. y + Len(fr) = Offset(tt, k + 1) BY <2>1, <2>3, <1>6
    <3>3. \A i \in 2 .. Len(q) : q[i] = tt[k + i] BY <2>4
    <3> QED BY <3>1, <3>2, <3>3, <2>4, <2>5, <1>5, <1>8 DEF Queued, t
  <2> QED BY <2>4, <2>6, <1>1, <1>2
<1>10. CASE Len(queue) # 0
  <2>1. /\ length = Len(queue[1]) /\ length > 0 /\ y + length = Offset(ss, k + 1)
        /\ queue[1] = SubSeq(s, y + 1, y + length)
        /\ \A i \in 2 .. Len(queue) : queue[i] = ss[k + i]
    BY <1>10 DEF Queued, s, k
  <2>2. q[1] = queue[1] /\ length \in Nat
    <3>1. 1 \in 1 .. Len(queue) BY <1>5, <1>10
    <3>2. queue[1] \in Seq(Byte) BY <3>1, <1>4, ElementOfSeq
    <3> QED BY <3>1, <3>2, <2>1, <1>5, LenProperties
  <2>3. StartWrite(q, length) = length BY <2>1, <2>2 DEF StartWrite
  <2>4. k + 1 \in 0 .. Len(ss) BY <1>3, <1>5, <1>8, <1>10 DEF k
  <2>5. Offset(tt, k + 1) = Offset(ss, k + 1)
    <3>1. Begins(ss, tt) BY <1>3 DEF Begins
    <3> QED BY <3>1, <2>4, <1>3, OffsetOfLonger
  <2>6. y + length \in y .. Len(s)
    <3>1. Offset(ss, k + 1) <= Offset(ss, Len(ss)) /\ Offset(ss, Len(ss)) = Len(s)
      <4>1. Len(ss) \in k + 1 .. Len(ss) BY <2>4, <1>3
      <4>2. Offset(ss, k + 1) <= Offset(ss, Len(ss)) BY <4>1, <2>4, OffsetGrows
      <4> QED BY <4>2, OffsetEnds DEF s
    <3> QED BY <3>1, <2>1, <2>2, <1>6
  <2>7. SubSeq(t, y + 1, y + length) = SubSeq(s, y + 1, y + length)
    <3>1. y \in Nat BY <1>6 DEF s
    <3> QED BY <3>1, <2>6, <1>6, WindowOfFront
  <2>8. \A i \in 2 .. Len(q) : q[i] = tt[k + i]
    <3>1. ASSUME NEW i \in 2 .. Len(q) PROVE q[i] = tt[k + i]
      <4>1. CASE i = Len(q)
        <5>1. k + i = Len(ss) + 1 BY <4>1, <1>3, <1>5 DEF k
        <5> QED BY <5>1, <4>1, <1>3, <1>5
      <4>2. CASE i # Len(q)
        <5>1. i \in 2 .. Len(queue) /\ i \in 1 .. Len(queue) BY <4>2, <1>5
        <5>2. k + i \in 1 .. Len(ss) BY <5>1, <1>3, <1>5, <1>8 DEF k
        <5> QED BY <5>1, <5>2, <2>1, <1>3, <1>5
      <4> QED BY <4>1, <4>2
    <3> QED BY <3>1
  <2>9. Len(q) # 0 /\ Len(q) <= Len(tt) BY <1>3, <1>4, <1>5
  <2>10. Queued(tt, q, length, y)
    BY <2>1, <2>2, <2>5, <2>7, <2>8, <2>9, <1>5, <1>8 DEF Queued, t
  <2> QED BY <2>3, <2>10, <1>1, <1>2
<1> QED BY <1>9, <1>10

LEMMA DownSends == DownInv /\ send => DownInv'
<1> SUFFICES ASSUME DownInv, send PROVE DownInv' OBVIOUS
<1>1. PICK p \in Packets : /\ sent' = Append(sent, p)
                           /\ write_queue' = Append(write_queue, encode(p))
                           /\ write_length' = StartWrite(write_queue', write_length)
  BY DEF send
<1>2. network' = network /\ parser' = parser /\ resets' = resets /\ delivered' = delivered
  BY DEF send
<1>3. PICK y \in Nat : /\ Queued(EncodedOf(sent), write_queue, write_length, y)
                       /\ Tracks(EncodedOf(sent), Len(delivered), parser, network, y)
  BY DEF DownInv
<1> DEFINE ss == EncodedOf(sent)
           fr == encode(p)
           d == Len(delivered)
<1>4. resets = FALSE /\ sent \in Seq(Packets) /\ delivered = SubSeq(DecodedOf(sent), 1, d)
  BY DEF DownInv
<1>5. ss \in Seq(Seq(Byte)) /\ Len(ss) = Len(sent) BY <1>4, FramesOfPackets
<1>6. fr \in Seq(Byte) /\ Len(fr) > 0
  <2>1. fr \in Seq(Byte) /\ Len(fr) >= 12 BY LongestPacketIs
  <2> HIDE DEF fr
  <2> QED BY <2>1, LenProperties
<1>7. sent' \in Seq(Packets) /\ EncodedOf(sent') = Append(ss, fr)
  BY <1>1, <1>4, EncodedMore, AppendProperties
<1> HIDE DEF ss, fr, d
<1>8. /\ y \in 0 .. Len(FlattenSeq(ss)) /\ d \in 0 .. Len(sent)
  <2>1. d \in Nat /\ d <= Len(ss) /\ y <= Len(FlattenSeq(ss)) /\ Len(FlattenSeq(ss)) \in Nat
        /\ Len(ss) \in Nat
    BY <1>3, <1>5, TracksTypes DEF ss, d
  <2> QED BY <2>1, <1>5
<1>9. Queued(Append(ss, fr), write_queue', write_length', y)
  <2>1. Queued(ss, write_queue, write_length, y) BY <1>3 DEF ss
  <2>2. Queued(Append(ss, fr), Append(write_queue, fr),
               StartWrite(Append(write_queue, fr), write_length), y)
    BY <2>1, <1>5, <1>6, <1>8, QueuedMore
  <2> QED BY <2>2, <1>1 DEF fr
<1>10. Tracks(Append(ss, fr), d, parser, network, y)
  <2>1. Tracks(ss, d, parser, network, y) BY <1>3 DEF ss, d
  <2> QED BY <2>1, <1>5, <1>6, TracksMore
<1>11. Len(delivered') = d BY <1>2 DEF d
<1>12. delivered' = SubSeq(DecodedOf(sent'), 1, Len(delivered'))
  BY <1>1, <1>2, <1>4, <1>8, <1>11, DecodedMore
<1> QED BY <1>2, <1>4, <1>7, <1>9, <1>10, <1>11, <1>12 DEF DownInv

\* After a write of n bytes, the queue begins n bytes later.
NoEmpty(ss) == \A i \in 1 .. Len(ss) : Len(ss[i]) > 0
Shortened(queue, n) ==
    LET front == Head(queue)
        rest == SubSeq(front, n + 1, Len(front))
    IN  IF rest = << >> THEN Tail(queue) ELSE <<rest>> \o Tail(queue)

Advanced(ss, queue, y, n, z) ==
    /\ z \in y .. Len(FlattenSeq(ss))
    /\ SubSeq(Head(queue), 1, n) = SubSeq(FlattenSeq(ss), y + 1, z)
    /\ Queued(ss, Shortened(queue, n), StartWrite(Shortened(queue, n), 0), z)

LEMMA HeadIs == ASSUME NEW S, NEW q \in Seq(S), q # << >> PROVE Head(q) = q[1]
OBVIOUS

LEMMA QueuedLess ==
    ASSUME NEW ss \in Seq(Seq(Byte)), NoEmpty(ss), NEW queue, NEW length,
           NEW y \in 0 .. Len(FlattenSeq(ss)), Queued(ss, queue, length, y), length > 0,
           NEW n \in 1 .. length, NEW z, z = y + n
    PROVE  Advanced(ss, queue, y, n, z)
<1> DEFINE s == FlattenSeq(ss)
           k == Len(ss) - Len(queue)
           front == Head(queue)
           rest == SubSeq(front, n + 1, Len(front))
           tail == Tail(queue)
<1>1. /\ queue \in Seq(Seq(Byte)) /\ Len(queue) <= Len(ss) /\ Len(queue) # 0
      /\ length = Len(queue[1]) /\ y + length = Offset(ss, k + 1)
      /\ queue[1] = SubSeq(s, y + 1, y + length)
      /\ \A i \in 2 .. Len(queue) : queue[i] = ss[k + i]
  <2>1. Len(queue) # 0 BY DEF Queued
  <2> QED BY <2>1 DEF Queued
<1>2. Len(queue) \in Nat /\ Len(ss) \in Nat /\ 1 \in 1 .. Len(queue) BY <1>1, LenProperties
<1>3. front = queue[1] /\ front \in Seq(Byte) /\ length \in Nat /\ Len(front) = length
  <2>1. queue # << >> BY <1>1, EmptySeq
  <2>2. queue[1] \in Seq(Byte) BY <1>1, <1>2, ElementOfSeq
  <2>3. Head(queue) = queue[1] BY <1>1, <2>1, HeadIs
  <2> HIDE DEF front
  <2>4. Len(queue[1]) \in Nat BY <2>2, LenProperties
  <2> QED BY <2>2, <2>3, <2>4, <1>1 DEF front
<1>4. /\ tail \in Seq(Seq(Byte)) /\ Len(tail) = Len(queue) - 1
      /\ \A i \in 1 .. Len(tail) : tail[i] = queue[i + 1]
  <2>1. queue # << >> BY <1>1, EmptySeq
  <2> QED BY <2>1, <1>1, HeadTailProperties
<1>5. s \in Seq(Byte) /\ Len(s) \in Nat
  <2>1. s \in Seq(Byte) BY OffsetEnds
  <2> HIDE DEF s
  <2> QED BY <2>1, LenProperties
<1>6. k \in Nat /\ k + 1 \in 1 .. Len(ss) /\ k + Len(queue) = Len(ss) BY <1>1, <1>2
<1> HIDE DEF s, k, front, tail
<1>7. /\ y \in Nat /\ y + length \in y .. Len(s) /\ z \in y .. y + length /\ z \in Nat
      /\ n \in Nat /\ n <= length
  <2>1. Offset(ss, k + 1) <= Len(s)
    <3>1. Len(ss) \in k + 1 .. Len(ss) /\ k + 1 \in 0 .. Len(ss) BY <1>2, <1>6
    <3>2. Offset(ss, k + 1) <= Offset(ss, Len(ss)) BY <3>1, OffsetGrows
    <3> QED BY <3>2, OffsetEnds DEF s
  <2>2. y \in Nat /\ n \in Nat /\ n <= length /\ length \in Nat BY <1>3, <1>5 DEF s
  <2>3. y + length <= Len(s) /\ Len(s) \in Nat BY <2>1, <1>1, <1>5
  <2>4. z = y + n OBVIOUS
  <2> QED BY ONLY <2>2, <2>3, <2>4
<1>8. z \in y .. Len(s) BY <1>5, <1>7
<1>9. SubSeq(front, 1, n) = SubSeq(s, y + 1, z)
  <2> DEFINE b == y + length
  <2>1. b \in y .. Len(s) /\ n \in 0 .. b - y /\ z = y + n BY <1>3, <1>7
  <2> HIDE DEF b
  <2>2. SubSeq(SubSeq(s, y + 1, b), 1, n) = SubSeq(s, y + 1, y + n)
    BY <2>1, <1>5, <1>7, FirstOfWindow
  <2> QED BY <2>1, <2>2, <1>1, <1>3 DEF b
<1>10. rest = SubSeq(s, z + 1, y + length) /\ Len(rest) = length - n /\ rest \in Seq(Byte)
  <2> DEFINE b == y + length
  <2>1. b \in y .. Len(s) /\ z \in y .. b /\ z - y = n /\ b - y = length /\ b \in z .. Len(s)
        /\ b - z = length - n
    BY <1>3, <1>5, <1>7
  <2> HIDE DEF b
  <2>2. SubSeq(SubSeq(s, y + 1, b), (z - y) + 1, b - y) = SubSeq(s, z + 1, b)
    BY <2>1, <1>5, <1>7, WindowOfWindow
  <2>3. front = SubSeq(s, y + 1, b) BY <1>1, <1>3 DEF b
  <2>4. rest = SubSeq(s, z + 1, b) BY <2>1, <2>2, <2>3, <1>3
  <2> HIDE DEF rest
  <2>5. Len(rest) = b - z /\ rest \in Seq(Byte) BY <2>1, <2>4, <1>5, <1>7, Window
  <2> QED BY <2>1, <2>4, <2>5 DEF b
<1>11. Shortened(queue, n) = IF rest = << >> THEN tail ELSE <<rest>> \o tail
  BY DEF Shortened, front, tail
<1> HIDE DEF rest
<1>12. CASE n # length
  <2>1. rest # << >> /\ Len(rest) > 0 /\ Len(rest) \in Nat
    <3>1. Len(rest) > 0 BY <1>3, <1>7, <1>10, <1>12
    <3>2. Len(rest) \in Nat BY <1>10, LenProperties
    <3>3. Len(rest) # 0 BY <3>1, <3>2
    <3> QED BY <3>1, <3>2, <3>3, EmptySeq
  <2> DEFINE q == <<rest>> \o tail
  <2>2. /\ q \in Seq(Seq(Byte)) /\ Len(q) = Len(queue) /\ q[1] = rest
        /\ \A i \in 2 .. Len(queue) : q[i] = queue[i]
    <3>1. <<rest>> \in Seq(Seq(Byte)) /\ Len(<<rest>>) = 1 /\ <<rest>>[1] = rest
      BY <1>10
    <3>2. /\ q \in Seq(Seq(Byte)) /\ Len(q) = 1 + Len(tail)
          /\ \A i \in 1 .. 1 + Len(tail) : q[i] = IF i <= 1 THEN <<rest>>[i] ELSE tail[i - 1]
      BY <3>1, <1>4, ConcatProperties
    <3> HIDE DEF q
    <3>3. Len(q) = Len(queue) BY <3>2, <1>2, <1>4
    <3>4. q[1] = rest
      <4>1. 1 \in 1 .. 1 + Len(tail) BY <1>2, <1>4
      <4> QED BY <4>1, <3>1, <3>2
    <3>5. ASSUME NEW i \in 2 .. Len(queue) PROVE q[i] = queue[i]
      <4>1. /\ i \in 1 .. 1 + Len(tail) /\ ~(i <= 1) /\ i - 1 \in 1 .. Len(tail)
            /\ (i - 1) + 1 = i
        BY <1>2, <1>4
      <4> QED BY <4>1, <3>2, <1>4
    <3> QED BY <3>2, <3>3, <3>4, <3>5
  <2>3. Shortened(queue, n) = q BY <2>1, <1>11
  <2> HIDE DEF q
  <2>4. q # << >> /\ Head(q) = q[1]
    <3>1. Len(q) # 0 BY <2>2, <1>1
    <3>2. q # << >> BY <3>1, EmptySeq
    <3> QED BY <3>2, <2>2, HeadTailProperties
  <2>5. StartWrite(q, 0) = Len(rest) BY <2>2, <2>4 DEF StartWrite
  <2>6. z + Len(rest) = y + length BY <1>3, <1>7, <1>10
  <2>7. Queued(ss, q, Len(rest), z)
    <3>1. /\ q \in Seq(Seq(Byte)) /\ Len(q) <= Len(ss) /\ Len(q) # 0 /\ Len(ss) - Len(q) = k
      BY <2>2, <1>1 DEF k
    <3>2. Len(rest) = Len(q[1]) BY <2>2
    <3>3. z + Len(rest) = Offset(ss, k + 1) BY <2>6, <1>1
    <3>4. q[1] = SubSeq(s, z + 1, z + Len(rest)) BY <2>2, <2>6, <1>10
    <3>5. \A i \in 2 .. Len(q) : q[i] = ss[k + i] BY <2>2, <1>1
    <3> QED BY <3>1, <3>2, <3>3, <3>4, <3>5, <2>1 DEF Queued, s
  <2> QED BY <2>3, <2>5, <2>7, <1>8, <1>9 DEF s, front, Advanced
<1>13. CASE n = length
  <2>1. rest = << >>
    <3>1. Len(rest) = 0 BY <1>3, <1>10, <1>13
    <3> QED BY <3>1, <1>10, EmptySeq
  <2>2. Shortened(queue, n) = tail BY <2>1, <1>11
  <2>3. z = Offset(ss, k + 1) BY <1>1, <1>13
  <2>4. CASE Len(queue) = 1
    <3>1. Len(tail) = 0 /\ tail = << >>
      <4>1. Len(tail) = 0 BY <2>4, <1>4
      <4> QED BY <4>1, <1>4, EmptySeq
    <3>2. StartWrite(tail, 0) = 0 BY <3>1 DEF StartWrite
    <3>3. z = Len(s)
      <4>1. k + 1 = Len(ss) BY <2>4, <1>6
      <4> QED BY <4>1, <2>3, OffsetEnds DEF s
    <3>4. Queued(ss, tail, 0, z) BY <3>1, <3>3, <1>2, <1>4 DEF Queued, s
    <3> QED BY <2>2, <3>2, <3>4, <1>8, <1>9 DEF s, front, Advanced
  <2>5. CASE Len(queue) # 1
    <3>1. /\ Len(tail) # 0 /\ 1 \in 1 .. Len(tail) /\ 2 \in 2 .. Len(queue)
          /\ Len(ss) - Len(tail) = k + 1 /\ Len(tail) <= Len(ss)
          /\ k + 1 \in 0 .. Len(ss) - 1 /\ k + 2 \in 1 .. Len(ss)
      <4>0. \A a, b, c \in Nat : a + b = c /\ b # 0 /\ b # 1 =>
               /\ b - 1 # 0 /\ 1 \in 1 .. b - 1 /\ 2 \in 2 .. b /\ c - (b - 1) = a + 1
               /\ b - 1 <= c /\ a + 1 \in 0 .. c - 1 /\ a + 2 \in 1 .. c
        OBVIOUS
      <4>1. k \in Nat /\ Len(queue) \in Nat /\ Len(ss) \in Nat /\ k + Len(queue) = Len(ss)
            /\ Len(queue) # 0 /\ Len(queue) # 1
        BY <2>5, <1>1, <1>2, <1>6
      <4>2. Len(tail) = Len(queue) - 1 BY <1>4
      <4>3. /\ Len(queue) - 1 # 0 /\ 1 \in 1 .. Len(queue) - 1 /\ 2 \in 2 .. Len(queue)
            /\ Len(ss) - (Len(queue) - 1) = k + 1 /\ Len(queue) - 1 <= Len(ss)
            /\ k + 1 \in 0 .. Len(ss) - 1 /\ k + 2 \in 1 .. Len(ss)
        BY ONLY <4>0, <4>1
      <4> QED BY <4>2, <4>3
    <3>2. tail[1] = ss[k + 2] BY <3>1, <1>1, <1>4
    <3>3. tail # << >> /\ Head(tail) = tail[1]
      <4>1. tail # << >> BY <3>1, EmptySeq
      <4> QED BY <4>1, <1>4, HeadTailProperties
    <3> DEFINE m == Len(ss[k + 2])
    <3>4. m \in Nat /\ m > 0
      <4>1. ss[k + 2] \in Seq(Byte) BY <3>1, ElementOfSeq
      <4>2. m > 0 BY <3>1 DEF NoEmpty
      <4> QED BY <4>1, <4>2, LenProperties
    <3>5. StartWrite(tail, 0) = m BY <3>2, <3>3 DEF StartWrite
    <3>6. z + m = Offset(ss, (k + 1) + 1) /\ ss[k + 2] = SubSeq(s, z + 1, z + m)
      <4>1. (k + 1) + 1 = k + 2 BY <1>6
      <4>2. /\ Offset(ss, (k + 1) + 1) = Offset(ss, k + 1) + Len(ss[(k + 1) + 1])
        BY <3>1, OffsetNext
      <4>3. SubSeq(s, Offset(ss, k + 1) + 1, Offset(ss, (k + 1) + 1)) = ss[(k + 1) + 1]
        BY <3>1, FrameWindow DEF s
      <4> QED BY <4>1, <4>2, <4>3, <2>3
    <3>7. \A i \in 2 .. Len(tail) : tail[i] = ss[(k + 1) + i]
      <4>1. ASSUME NEW i \in 2 .. Len(tail) PROVE tail[i] = ss[(k + 1) + i]
        <5>1. /\ i \in 1 .. Len(tail) /\ i + 1 \in 2 .. Len(queue) /\ k + (i + 1) = (k + 1) + i
          <6>0. \A a, b \in Nat : \A e \in 2 .. b - 1 :
                   e \in 1 .. b - 1 /\ e + 1 \in 2 .. b /\ a + (e + 1) = (a + 1) + e
            OBVIOUS
          <6>1. i \in 2 .. Len(queue) - 1 BY <1>4
          <6> QED BY ONLY <6>0, <6>1, <1>2, <1>4, <1>6
        <5> QED BY <5>1, <1>1, <1>4
      <4> QED BY <4>1
    <3> HIDE DEF m
    <3>8. Queued(ss, tail, m, z)
      <4>1. m = Len(tail[1]) BY <3>2 DEF m
      <4>2. tail[1] = SubSeq(s, z + 1, z + m) BY <3>2, <3>6
      <4> QED BY <4>1, <4>2, <3>1, <3>4, <3>6, <3>7, <1>4 DEF Queued, s
    <3> QED BY <2>2, <3>5, <3>8, <1>8, <1>9 DEF s, front, Advanced
  <2> QED BY <2>4, <2>5
<1> QED BY <1>12, <1>13

LEMMA DownWrites == DownInv /\ write_handler => DownInv'
<1> SUFFICES ASSUME DownInv, write_handler PROVE DownInv' OBVIOUS
<1>1. PICK n \in 1 .. write_length :
        /\ network' = network \o SubSeq(Head(write_queue), 1, n)
        /\ write_queue' = Shortened(write_queue, n)
  BY DEF write_handler, Shortened
<1>2. /\ write_length > 0 /\ write_length' = StartWrite(write_queue', 0)
      /\ sent' = sent /\ parser' = parser /\ resets' = resets /\ delivered' = delivered
  BY DEF write_handler
<1>3. PICK y \in Nat : /\ Queued(EncodedOf(sent), write_queue, write_length, y)
                       /\ Tracks(EncodedOf(sent), Len(delivered), parser, network, y)
  BY DEF DownInv
<1> DEFINE ss == EncodedOf(sent)
           s == FlattenSeq(ss)
           d == Len(delivered)
<1>4. resets = FALSE /\ sent \in Seq(Packets) /\ delivered = SubSeq(DecodedOf(sent), 1, d)
  BY DEF DownInv
<1>5. ss \in Seq(Seq(Byte)) /\ NoEmpty(ss)
  <2>1. /\ ss \in Seq(Seq(Byte)) /\ Len(ss) = Len(sent)
        /\ \A i \in 1 .. Len(sent) : sent[i] \in Packets /\ ss[i] = encode(sent[i])
    BY <1>4, FramesOfPackets
  <2> HIDE DEF ss
  <2>2. ASSUME NEW i \in 1 .. Len(ss) PROVE Len(ss[i]) > 0
    <3>1. ss[i] \in Seq(Byte) /\ Len(ss[i]) >= 12 BY <2>1, LongestPacketIs
    <3> QED BY <3>1, LenProperties
  <2> QED BY <2>1, <2>2 DEF NoEmpty
<1> HIDE DEF ss, s, d
<1>6. y \in 0 .. Len(s)
  <2>1. y <= Len(s) /\ Len(s) \in Nat BY <1>3, <1>5, TracksTypes DEF ss, s
  <2> QED BY <2>1
<1>7. PICK z : z = y + n OBVIOUS
<1>8. /\ z \in y .. Len(s) /\ SubSeq(Head(write_queue), 1, n) = SubSeq(s, y + 1, z)
      /\ Queued(ss, write_queue', write_length', z)
  <2>1. Queued(ss, write_queue, write_length, y) BY <1>3 DEF ss
  <2>2. /\ z \in y .. Len(FlattenSeq(ss))
        /\ SubSeq(Head(write_queue), 1, n) = SubSeq(FlattenSeq(ss), y + 1, z)
        /\ Queued(ss, Shortened(write_queue, n), StartWrite(Shortened(write_queue, n), 0), z)
    <3>1. y \in 0 .. Len(FlattenSeq(ss)) BY <1>6 DEF s
    <3>2. n \in 1 .. write_length /\ write_length > 0 BY <1>2
    <3>3. Advanced(ss, write_queue, y, n, z)
      BY ONLY <2>1, <3>1, <3>2, <1>5, <1>7, QueuedLess
    <3> QED BY <3>3 DEF Advanced
  <2> QED BY <2>2, <1>1, <1>2 DEF s
<1>9. Tracks(ss, d, parser, network', z)
  <2>1. Tracks(ss, d, parser, network, y) BY <1>3 DEF ss, d
  <2>2. Tracks(ss, d, parser, network \o SubSeq(FlattenSeq(ss), y + 1, z), z)
    BY <2>1, <1>5, <1>8, TracksWrite DEF s
  <2> QED BY <2>2, <1>1, <1>8 DEF s
<1>10. z \in Nat BY <1>6, <1>8
<1>11. /\ Queued(EncodedOf(sent'), write_queue', write_length', z)
       /\ Tracks(EncodedOf(sent'), Len(delivered'), parser', network', z)
  BY <1>2, <1>8, <1>9 DEF ss, d
<1>12. delivered' = SubSeq(DecodedOf(sent'), 1, Len(delivered')) BY <1>2, <1>4 DEF d
<1> QED BY <1>2, <1>4, <1>10, <1>11, <1>12 DEF DownInv

\* Between two reads, the parser holds less than a frame.
LEMMA DownReads ==
    FitsParser /\ DownInv /\ onReadyRead
    => DownInv' /\ Len(delivered') >= Len(delivered)
<1> SUFFICES ASSUME FitsParser, DownInv, onReadyRead
             PROVE  DownInv' /\ Len(delivered') >= Len(delivered)
  OBVIOUS
<1>1. PICK n \in 1 .. Len(network) :
        /\ n <= MaxChunk
        /\ feed(SubSeq(network, 1, n))
        /\ network' = SubSeq(network, n + 1, Len(network))
  BY DEF onReadyRead
<1>2. write_queue' = write_queue /\ write_length' = write_length /\ sent' = sent
  BY DEF onReadyRead
<1>3. PICK y \in Nat : /\ Queued(EncodedOf(sent), write_queue, write_length, y)
                       /\ Tracks(EncodedOf(sent), Len(delivered), parser, network, y)
  BY DEF DownInv
<1> DEFINE ss == EncodedOf(sent)
           s == FlattenSeq(ss)
           ps == DecodedOf(sent)
           d == Len(delivered)
           x == Arrived(network, y)
           o(k) == Offset(ss, k)
           data == SubSeq(network, 1, n)
           b == parser \o data
<1>4. resets = FALSE /\ sent \in Seq(Packets) /\ delivered = SubSeq(ps, 1, d)
  BY DEF DownInv
<1>5. ss \in Seq(Seq(Byte)) /\ Len(ss) = Len(sent) /\ ps \in Seq(DownPackets) /\ Len(ps) = Len(sent)
  BY <1>4, FramesOfPackets
<1>6. Tracks(ss, d, parser, network, y) BY <1>3
<1> HIDE DEF ss, ps
<1>7. /\ Len(ss) \in Nat /\ d \in Nat /\ d <= Len(ss) /\ s \in Seq(Byte) /\ Len(s) \in Nat
      /\ y <= Len(s) /\ Len(network) \in Nat /\ o(d) \in Nat /\ x \in Nat /\ o(d) <= x /\ x <= y
      /\ parser \in Seq(Byte) /\ Len(parser) = x - o(d)
  <2> HIDE DEF d
  <2> QED BY <1>5, <1>6, TracksTypes
<1>8. /\ x + n \in x .. y /\ data \in Seq(Byte) /\ Len(data) = n
      /\ b = Behind(ss, d, x + n)
  <2>1. n \in 1 .. Len(network) OBVIOUS
  <2> HIDE DEF d, s
  <2> QED BY <2>1, <1>5, <1>6, TracksRead
<1> HIDE DEF data
<1>9. Len(parser) <= LongestPacket - 1
  <2>1. LongestPacket \in Nat /\ LongestPacket >= 12 BY LongestPacketIs
  <2>2. CASE d < Len(ss)
    <3>1. d \in 0 .. Len(ss) - 1 /\ d + 1 \in 1 .. Len(sent) BY <2>2, <1>5, <1>7
    <3>2. x < o(d + 1)
      <4> HIDE DEF d, x
      <4> QED BY <2>2, <1>6 DEF Tracks, x
    <3>3. sent[d + 1] \in Packets /\ ss[d + 1] = encode(sent[d + 1])
      BY <3>1, <1>4, FramesOfPackets DEF ss
    <3>4. o(d + 1) = o(d) + Len(ss[d + 1])
      <4> HIDE DEF d
      <4> QED BY <3>1, <1>5, OffsetNext
    <3>5. Len(ss[d + 1]) <= LongestPacket BY <3>3, LongestPacketIs
    <3>6. Len(ss[d + 1]) \in Nat
      <4>1. d + 1 \in 1 .. Len(ss) BY <3>1, <1>5
      <4>2. ss[d + 1] \in Seq(Byte) BY <4>1, <1>5, ElementOfSeq
      <4> QED BY <4>2, LenProperties
    <3>7. Len(parser) = x - o(d) /\ o(d) \in Nat /\ x \in Nat BY <1>7
    <3> HIDE DEF d, x, o, ss
    <3> QED BY <3>2, <3>4, <3>5, <3>6, <3>7, <2>1
  <2>3. CASE ~(d < Len(ss))
    <3>1. x = o(d)
      <4> HIDE DEF d, x
      <4> QED BY <2>3, <1>6 DEF Tracks, x
    <3> HIDE DEF d, x, o
    <3> QED BY <3>1, <2>1, <1>7
  <2> QED BY <2>2, <2>3
<1>10. ~(Len(parser) + Len(data) > MaxBuffer)
  <2>1. /\ LongestPacket \in Nat /\ MaxChunk \in Nat /\ MaxBuffer \in Nat
        /\ LongestPacket - 1 + MaxChunk <= MaxBuffer
    BY LongestPacketIs, DownAssumption DEF FitsParser
  <2>2. Len(parser) \in Nat /\ n \in Nat /\ n <= MaxChunk BY <1>1, <1>7, LenProperties
  <2> QED BY <2>1, <2>2, <1>8, <1>9
<1>11. PICK j \in d .. Len(ss) :
         /\ o(j) <= x + n
         /\ IF j < Len(ss) THEN x + n < o(j + 1) ELSE x + n = o(j)
  <2>1. d \in 0 .. Len(ss) /\ x + n \in o(d) .. Len(s) BY <1>7, <1>8
  <2> HIDE DEF d, x
  <2> QED BY <2>1, <1>5, Reached
<1>12. b \in Seq(Byte) BY <1>7, <1>8, ConcatProperties
<1> HIDE DEF b
<1>13. extract_all(b) = [rest |-> Behind(ss, j, x + n), packets |-> SubSeq(ps, d + 1, j)]
  <2> DEFINE z == x + n
  <2>1. d \in 0 .. Len(sent) /\ j \in d .. Len(sent) /\ z \in Nat /\ z <= Len(s)
    BY <1>5, <1>7, <1>8
  <2>2. /\ o(j) <= z /\ (IF j < Len(sent) THEN z < o(j + 1) ELSE z = o(j))
        /\ b = Behind(ss, d, z)
    BY <1>5, <1>8, <1>11
  <2> HIDE DEF d, x, z
  <2>3. Extracted(b, sent, d, j, z)
    <3> HIDE DEF o, s
    <3>1. /\ Offset(EncodedOf(sent), j) <= z
          /\ z <= Len(FlattenSeq(EncodedOf(sent)))
          /\ b = Behind(EncodedOf(sent), d, z)
      BY <2>1, <2>2 DEF o, ss, s
    <3>2. IF j < Len(sent) THEN z < Offset(EncodedOf(sent), j + 1)
                           ELSE z = Offset(EncodedOf(sent), j)
      BY <2>2 DEF o, ss
    <3> QED BY ONLY <2>1, <3>1, <3>2, <1>4, <1>12, ExtractAll
  <2> QED BY <2>3 DEF z, ss, ps, Extracted
<1>14. /\ parser' = Behind(ss, j, x + n) /\ delivered' = delivered \o SubSeq(ps, d + 1, j)
       /\ resets' = FALSE
  <2>1. LET overflow == Len(parser) + Len(data) > MaxBuffer
            all == extract_all((IF overflow THEN << >> ELSE parser) \o data)
        IN  /\ parser' = all.rest
            /\ delivered' = delivered \o all.packets
            /\ resets' = (resets \/ overflow)
    BY <1>1 DEF feed, data
  <2>2. /\ parser' = extract_all(b).rest /\ delivered' = delivered \o extract_all(b).packets
    BY <2>1, <1>10 DEF b
  <2>3. resets' = FALSE BY <2>1, <1>4, <1>10
  <2> DEFINE all == extract_all(b)
  <2>4. all.rest = Behind(ss, j, x + n) /\ all.packets = SubSeq(ps, d + 1, j)
    BY <1>13
  <2>5. parser' = all.rest /\ delivered' = delivered \o all.packets BY <2>2
  <2> HIDE DEF d, x, all
  <2> QED BY <2>3, <2>4, <2>5
<1>15. delivered' = SubSeq(ps, 1, j) /\ Len(delivered') = j
  <2>1. d \in 0 .. Len(ps) /\ j \in d .. Len(ps) /\ j \in 0 .. Len(ps) /\ 0 \in 0 .. Len(ps)
    BY <1>5, <1>7
  <2>2. SubSeq(ps, 0 + 1, d) \o SubSeq(ps, d + 1, j) = SubSeq(ps, 0 + 1, j)
    <3> HIDE DEF d
    <3> QED BY <2>1, <1>5, WindowsMeet
  <2>3. Len(SubSeq(ps, 1, j)) = j BY <2>1, <1>5, PrefixType
  <2>4. delivered = SubSeq(ps, 0 + 1, d) BY <1>4
  <2>5. delivered' = SubSeq(ps, 0 + 1, j) BY <2>2, <2>4, <1>14
  <2> QED BY <2>3, <2>5
<1>16. Tracks(ss, j, parser', network', y)
  <2>1. Tracks(ss, j, SubSeq(s, o(j) + 1, x + n), network', y)
    <3> HIDE DEF d
    <3> QED BY <1>1, <1>5, <1>6, <1>11, TracksDeliver
  <2>2. parser' = SubSeq(s, o(j) + 1, x + n) BY <1>14 DEF Behind
  <2> QED BY <2>1, <2>2
<1>17. /\ Queued(EncodedOf(sent'), write_queue', write_length', y)
       /\ Tracks(EncodedOf(sent'), Len(delivered'), parser', network', y)
  BY <1>2, <1>3, <1>15, <1>16 DEF ss
<1>18. delivered' = SubSeq(DecodedOf(sent'), 1, Len(delivered'))
  BY <1>2, <1>15 DEF ps
<1>19. Len(delivered') >= Len(delivered) BY <1>7, <1>15
<1>20. DownInv' BY <1>2, <1>4, <1>14, <1>17, <1>18 DEF DownInv
<1> QED BY <1>19, <1>20

-----------------------------------------------------------------------------
(***************************************************************************)
(* Both directions.  Without FitsParser nothing is claimed of the client's *)
(* end: a parser that empties its buffer in the middle of a frame takes    *)
(* what follows for the beginning of another.                              *)
(***************************************************************************)
WireInv ==
    /\ direction \in {"down", "up"}
    /\ direction = "up" => UpInv
    /\ direction = "down" /\ FitsParser => DownInv

LEMMA WireInvStep == WireInv /\ [Next]_wireVars => WireInv'
<1> SUFFICES ASSUME WireInv, [Next]_wireVars PROVE WireInv' OBVIOUS
<1>0. FitsParser' = FitsParser BY DEF FitsParser, LongestPacket
<1>1. CASE SendDown
  <2>1. direction = "down" /\ direction' = direction /\ send
    BY <1>1 DEF SendDown, Downwards
  <2> QED BY <2>1, <1>0, DownSends DEF WireInv
<1>2. CASE WriteDown
  <2>1. direction = "down" /\ direction' = direction /\ write_handler
    BY <1>2 DEF WriteDown, Downwards
  <2> QED BY <2>1, <1>0, DownWrites DEF WireInv
<1>3. CASE ReadDown
  <2>1. direction = "down" /\ direction' = direction /\ onReadyRead
    BY <1>3 DEF ReadDown, Downwards
  <2> QED BY <2>1, <1>0, DownReads DEF WireInv
<1>4. CASE SendUp
  <2>1. direction = "up" /\ direction' = direction /\ sendWireData
    BY <1>4 DEF SendUp, Upwards
  <2> QED BY <2>1, UpSends DEF WireInv
<1>5. CASE ReadUp
  <2>1. direction = "up" /\ direction' = direction /\ do_read
    BY <1>5 DEF ReadUp, Upwards
  <2> QED BY <2>1, UpReads DEF WireInv
<1>6. CASE UNCHANGED wireVars
  <2>1. /\ direction' = direction /\ network' = network /\ sent' = sent
        /\ delivered' = delivered /\ memory' = memory /\ read_pos' = read_pos
        /\ write_pos' = write_pos /\ open' = open /\ write_queue' = write_queue
        /\ write_length' = write_length /\ parser' = parser /\ resets' = resets
    BY <1>6 DEF wireVars, downVars, upVars, buffer
  <2>2. UpInv => UpInv'
    <3>1. TheBuf' = TheBuf BY <2>1 DEF TheBuf
    <3>2. BufferBounded => BufferBounded' BY <2>1 DEF BufferBounded
    <3> QED BY <2>1, <3>1, <3>2 DEF UpInv
  <2>3. DownInv => DownInv' BY <2>1 DEF DownInv
  <2> QED BY <2>1, <2>2, <2>3, <1>0 DEF WireInv
<1> QED BY <1>1, <1>2, <1>3, <1>4, <1>5, <1>6 DEF Next

LEMMA WireInvAlways == Spec => []WireInv
<1>1. Init => WireInv
  <2>1. Init => direction \in {"down", "up"} BY DEF Init
  <2> QED BY <2>1, UpStart, DownStart DEF WireInv
<1> QED BY <1>1, WireInvStep, PTL DEF Spec

\* What can be read from the server's buffer is what has arrived since the last
\* complete frame, through every compaction and growth, whatever the messages,
\* the sizes of the reads and the first size of the buffer.
THEOREM WireReadableIsUnread == Spec => []ReadableIsUnread
<1>1. WireInv => ReadableIsUnread
  <2>1. SUFFICES ASSUME UpInv PROVE UnreadOnly BY DEF WireInv, ReadableIsUnread
  <2>2. UpFrames = FramesOf(sent) BY DEF UpFrames, FramesOf
  <2> DEFINE ss == FramesOf(sent)
  <2>3. Tracks(ss, Len(delivered), readable(TheBuf), network, Len(FlattenSeq(ss)))
    BY <2>1 DEF UpInv
  <2> HIDE DEF ss
  <2>4. readable(TheBuf) = SubSeq(FlattenSeq(ss), Offset(ss, Len(delivered)) + 1,
                                  Len(FlattenSeq(ss)) - Len(network))
    BY <2>3 DEF Tracks, Arrived
  <2> QED BY <2>2, <2>4 DEF UnreadOnly, TheBuf, ss
<1> QED BY <1>1, WireInvAlways, PTL

\* The client's parser throws nothing away as long as the longest frame and a
\* chunk fit together, and the server's buffer never grows beyond a size that
\* the longest frame decides.
THEOREM WireBuffersSuffice == Spec => []BuffersSuffice
<1>1. WireInv => BuffersSuffice
  BY DEF WireInv, BuffersSuffice, NoReset, UpInv, DownInv
<1> QED BY <1>1, WireInvAlways, PTL

\* The types of either direction, and the assertions of move_read_pos and
\* move_write_pos.
THEOREM WireTypeOK == ASSUME FitsParser PROVE Spec => []TypeOK
<1>1. WireInv => TypeOK
  <2> SUFFICES ASSUME WireInv PROVE TypeOK OBVIOUS
  <2>1. CASE direction = "up"
    <3>1. UpInv BY <2>1 DEF WireInv
    <3> DEFINE ss == FramesOf(sent)
    <3>2. /\ sent \in Seq(Messages) /\ open = TRUE /\ IsBuf(TheBuf)
          /\ Tracks(ss, Len(delivered), readable(TheBuf), network, Len(FlattenSeq(ss)))
      BY <3>1 DEF UpInv
    <3>3. ss \in Seq(Seq(Byte)) /\ Len(ss) = Len(sent) BY <3>2, FramesOfMessages
    <3> HIDE DEF ss
    <3>4. Len(delivered) <= Len(sent) BY <3>2, <3>3, TracksTypes
    <3>5. network \in Seq(Byte) BY <3>2 DEF Tracks
    <3>6. /\ memory \in Seq(Byte) /\ 0 <= read_pos /\ read_pos <= write_pos
          /\ write_pos <= Len(memory)
      <4>1. TheBuf.memory = memory /\ TheBuf.r = read_pos /\ TheBuf.w = write_pos
        BY DEF TheBuf, Buf
      <4>2. memory \in Seq(Byte) /\ read_pos \in Nat /\ write_pos \in read_pos .. Len(memory)
        BY <4>1, <3>2 DEF IsBuf
      <4> QED BY <4>2, LenProperties
    <3> QED BY <2>1, <3>2, <3>4, <3>5, <3>6 DEF TypeOK, UpTypeOK
  <2>2. CASE direction = "down"
    <3>1. DownInv BY <2>2 DEF WireInv
    <3> DEFINE ss == EncodedOf(sent)
    <3>2. sent \in Seq(Packets) /\ resets = FALSE BY <3>1 DEF DownInv
    <3>3. PICK y \in Nat : /\ Queued(ss, write_queue, write_length, y)
                           /\ Tracks(ss, Len(delivered), parser, network, y)
      BY <3>1 DEF DownInv
    <3>4. ss \in Seq(Seq(Byte)) /\ Len(ss) = Len(sent) BY <3>2, FramesOfPackets
    <3> HIDE DEF ss
    <3>5. Len(delivered) <= Len(sent) /\ parser \in Seq(Byte) BY <3>3, <3>4, TracksTypes
    <3>6. network \in Seq(Byte) BY <3>3 DEF Tracks
    <3>7. write_queue \in Seq(Seq(Byte)) BY <3>3 DEF Queued
    <3>8. write_length \in Nat /\ (write_length > 0 =>
              write_queue # << >> /\ write_length <= Len(Head(write_queue)))
      <4>1. CASE Len(write_queue) = 0
        <5>1. write_length = 0 BY <3>3, <4>1 DEF Queued
        <5> QED BY <5>1
      <4>2. CASE Len(write_queue) # 0
        <5>1. write_length = Len(write_queue[1]) BY <3>3, <4>2 DEF Queued
        <5>2. write_queue # << >> BY <3>7, <4>2, EmptySeq
        <5>3. Head(write_queue) = write_queue[1] /\ Head(write_queue) \in Seq(Byte)
          BY <3>7, <5>2, HeadIs, HeadTailProperties
        <5>4. Len(Head(write_queue)) \in Nat BY <5>3, LenProperties
        <5>5. write_length = Len(Head(write_queue)) BY <5>1, <5>3
        <5> HIDE DEF ss
        <5> QED BY <5>2, <5>4, <5>5
      <4> QED BY <4>1, <4>2
    <3>9. resets \in BOOLEAN BY <3>2
    <3>10. DownTypeOK BY <3>2, <3>5, <3>6, <3>7, <3>8, <3>9 DEF DownTypeOK
    <3> QED BY <3>10, <2>2 DEF TypeOK
  <2> QED BY <2>1, <2>2 DEF WireInv
<1> QED BY <1>1, WireInvAlways, PTL

-----------------------------------------------------------------------------
(***************************************************************************)
(* The channel that either direction implements.                           *)
(***************************************************************************)
\* The client reads a packet as it was meant, but for the number of a join
\* response.
LEMMA Understood ==
    ASSUME NEW p \in Packets
    PROVE  Blurred(Decoded(p)) = Blurred(Meaning(p))
<1>1. /\ p.type \in ServerTypes /\ p.payload \in Seq(Byte)
      /\ p.type \in {"CreateMeetingResponse", "JoinMeetingResponse"} => Len(p.payload) = 4
  BY DownAssumption
<1>2. CASE p.type = "CreateMeetingResponse"
  <2>1. Decoded(p) = Message(p.type, Zero32, <<U32At(p.payload, 1)>>, << >>)
    <3>1. Decoded(p) = Message(p.type, Zero32,
                       <<IF Len(p.payload) >= 4 THEN U32At(p.payload, 1) ELSE Zero32>>,
                       << >>)
      BY <1>2 DEF Decoded, decode_wire_packet, Media, IpEvents
    <3>2. Len(p.payload) = 4 BY <1>1, <1>2
    <3>3. Len(p.payload) >= 4 BY <3>2
    <3> QED BY <3>1, <3>3
  <2>2. [i \in 1 .. Len(p.payload) \div 4 |-> U32At(p.payload, 4 * i - 3)]
          = <<U32At(p.payload, 1)>>
    <3>1. 4 \div 4 = 1 BY SMT
    <3>2. Len(p.payload) = 4 BY <1>1, <1>2
    <3>3. Len(p.payload) \div 4 = 1 BY <3>1, <3>2
    <3>4. \A i \in 1 .. 1 : 4 * i - 3 = 1 OBVIOUS
    <3> DEFINE first == U32At(p.payload, 1)
    <3>5. [i \in 1 .. Len(p.payload) \div 4 |-> U32At(p.payload, 4 * i - 3)]
            = [i \in 1 .. 1 |-> first]
      BY <3>3, <3>4
    <3> HIDE DEF first
    <3>6. [i \in 1 .. 1 |-> first] = <<first>> OBVIOUS
    <3> QED BY <3>5, <3>6 DEF first
  <2>3. Meaning(p) = Message(p.type, Zero32, <<U32At(p.payload, 1)>>, << >>)
    BY <1>2, <2>2 DEF Meaning, header_includes_ip, Media, IpEvents
  <2> QED BY <2>1, <2>3
<1>3. CASE p.type = "JoinMeetingResponse"
  <2>1. PICK n : Decoded(p) = Message(p.type, Zero32, n, << >>)
    BY <1>1, <1>3 DEF Decoded, decode_wire_packet, Media, IpEvents
  <2>2. PICK m : Meaning(p) = Message(p.type, Zero32, m, << >>)
    BY <1>3 DEF Meaning, header_includes_ip, Media, IpEvents
  <2>3. \A k : Blurred(Message(p.type, Zero32, k, << >>))
                 = Message(p.type, Zero32, << >>, << >>)
    BY <1>3 DEF Blurred, Message
  <2> QED BY <2>1, <2>2, <2>3
<1>4. CASE p.type = "PartnerJoin2"
  <2>1. Decoded(p) = Meaning(p)
    BY <1>4 DEF Decoded, decode_wire_packet, Meaning, header_includes_ip, Media, IpEvents
  <2> QED BY <2>1
<1>5. CASE p.type \in Media
  <2>1. Decoded(p) = Message(p.type, p.ip, << >>, p.payload)
    BY <1>5 DEF Decoded, IpOf, decode_wire_packet, header_includes_ip, Media, IpEvents
  <2>2. Meaning(p) = Message(p.type, p.ip, << >>, p.payload)
    BY <1>5 DEF Meaning, header_includes_ip, Media
  <2> QED BY <2>1, <2>2
<1>6. CASE p.type \in IpEvents
  <2>1. Decoded(p) = Message(p.type, p.ip, << >>, << >>)
    BY <1>6 DEF Decoded, IpOf, decode_wire_packet, header_includes_ip, Media, IpEvents
  <2>2. Meaning(p) = Message(p.type, p.ip, << >>, << >>)
    BY <1>6 DEF Meaning, header_includes_ip, Media, IpEvents
  <2> QED BY <2>1, <2>2
<1> QED BY <1>1, <1>2, <1>3, <1>4, <1>5, <1>6 DEF ServerTypes

MeantDown(ps) == [i \in DOMAIN ps |-> Blurred(Meaning(ps[i]))]
BlurredAll(ms) == [i \in DOMAIN ms |-> Blurred(ms[i])]
ChPackets == {Blurred(Meaning(p)) : p \in Packets} \cup {AsPacket(m) : m \in Messages}
ChSent == IF direction = "down" THEN MeantDown(sent) ELSE PacketsOf(sent)
ChDelivered == IF direction = "down" THEN BlurredAll(delivered) ELSE delivered

LEMMA MeantDownIs ==
    ASSUME NEW ps \in Seq(Packets)
    PROVE  /\ MeantDown(ps) \in Seq(ChPackets) /\ Len(MeantDown(ps)) = Len(ps)
           /\ \A i \in 1 .. Len(ps) :
                MeantDown(ps)[i] = Blurred(Meaning(ps[i]))
<1>0. Len(ps) \in Nat /\ DOMAIN ps = 1 .. Len(ps) BY LenProperties
<1>1. \A i \in 1 .. Len(ps) : ps[i] \in Packets BY ElementOfSeq
<1>2. \A i \in 1 .. Len(ps) : Blurred(Meaning(ps[i])) \in ChPackets BY <1>1 DEF ChPackets
<1>3. MeantDown(ps) = [i \in 1 .. Len(ps) |-> Blurred(Meaning(ps[i]))]
  BY <1>0 DEF MeantDown
<1>4. MeantDown(ps) \in Seq(ChPackets) BY <1>0, <1>2, <1>3, IsASeq
<1>5. Len(MeantDown(ps)) = Len(ps) BY <1>0, <1>3, <1>4
<1>6. \A i \in 1 .. Len(ps) : MeantDown(ps)[i] = Blurred(Meaning(ps[i])) BY <1>3
<1> QED BY <1>4, <1>5, <1>6

\* What has been delivered is a prefix of what has been sent.
Mapped ==
    /\ ChSent \in Seq(ChPackets) /\ Len(ChSent) = Len(sent)
    /\ Len(delivered) \in 0 .. Len(ChSent)
    /\ ChDelivered = SubSeq(ChSent, 1, Len(delivered))
    /\ Len(ChDelivered) = Len(delivered)

LEMMA ChannelMapped == FitsParser /\ WireInv => Mapped
<1> SUFFICES ASSUME FitsParser, WireInv PROVE Mapped OBVIOUS
<1>1. CASE direction = "up"
  <2>1. UpInv BY <1>1 DEF WireInv
  <2> DEFINE ss == FramesOf(sent)
             d == Len(delivered)
  <2>2. /\ sent \in Seq(Messages) /\ delivered = SubSeq(PacketsOf(sent), 1, d)
        /\ Tracks(ss, d, readable(TheBuf), network, Len(FlattenSeq(ss)))
    BY <2>1 DEF UpInv
  <2>3. /\ ss \in Seq(Seq(Byte)) /\ Len(ss) = Len(sent)
        /\ PacketsOf(sent) \in Seq(UpPackets) /\ Len(PacketsOf(sent)) = Len(sent)
    BY <2>2, FramesOfMessages
  <2> HIDE DEF ss, d
  <2>4. d \in 0 .. Len(sent)
    <3>1. d \in Nat /\ d <= Len(ss) /\ Len(ss) \in Nat BY <2>2, <2>3, TracksTypes
    <3> QED BY <3>1, <2>3
  <2>5. ChSent = PacketsOf(sent) /\ ChDelivered = delivered
    BY <1>1 DEF ChSent, ChDelivered
  <2>6. PacketsOf(sent) \in Seq(ChPackets)
    <3>1. \A i \in 1 .. Len(sent) : PacketsOf(sent)[i] \in ChPackets
      BY <2>2, FramesOfMessages DEF ChPackets
    <3>2. Len(PacketsOf(sent)) \in Nat
          /\ PacketsOf(sent) = [i \in 1 .. Len(PacketsOf(sent)) |-> PacketsOf(sent)[i]]
      BY <2>3, LenProperties
    <3>3. [i \in 1 .. Len(PacketsOf(sent)) |-> PacketsOf(sent)[i]] \in Seq(ChPackets)
      BY <2>3, <3>1, <3>2, IsASeq
    <3> QED BY <3>2, <3>3
  <2> QED BY <2>2, <2>3, <2>4, <2>5, <2>6 DEF d, Mapped
<1>2. CASE direction = "down"
  <2>1. DownInv BY <1>2 DEF WireInv
  <2> DEFINE ss == EncodedOf(sent)
             ps == DecodedOf(sent)
             cs == MeantDown(sent)
             d == Len(delivered)
  <2>2. sent \in Seq(Packets) /\ delivered = SubSeq(ps, 1, d) BY <2>1 DEF DownInv
  <2>3. PICK y \in Nat : Tracks(ss, d, parser, network, y) BY <2>1 DEF DownInv
  <2>4. /\ ss \in Seq(Seq(Byte)) /\ Len(ss) = Len(sent)
        /\ ps \in Seq(DownPackets) /\ Len(ps) = Len(sent)
        /\ \A i \in 1 .. Len(sent) : sent[i] \in Packets /\ ps[i] = Decoded(sent[i])
    BY <2>2, FramesOfPackets
  <2>5. /\ cs \in Seq(ChPackets) /\ Len(cs) = Len(sent)
        /\ \A i \in 1 .. Len(sent) : cs[i] = Blurred(Meaning(sent[i]))
    BY <2>2, MeantDownIs
  <2>6. ChSent = cs /\ ChDelivered = BlurredAll(delivered)
    BY <1>2 DEF ChSent, ChDelivered
  <2> HIDE DEF ss, ps, cs, d
  <2>7. d \in Nat /\ d <= Len(sent) /\ Len(sent) \in Nat BY <2>3, <2>4, TracksTypes
  <2>8. d \in 0 .. Len(ps) /\ d \in 0 .. Len(cs) BY <2>4, <2>5, <2>7
  <2>9. /\ delivered \in Seq(DownPackets) /\ Len(delivered) = d
        /\ \A i \in 1 .. d : delivered[i] = ps[i]
    BY <2>2, <2>4, <2>8, PrefixType
  <2> DEFINE u == SubSeq(cs, 1, d)
             v == BlurredAll(delivered)
  <2>10. u \in Seq(ChPackets) /\ Len(u) = d /\ \A i \in 1 .. d : u[i] = cs[i]
    BY <2>5, <2>8, PrefixType
  <2>11. v = [i \in 1 .. d |-> Blurred(delivered[i])]
    <3>1. DOMAIN delivered = 1 .. d BY <2>9, LenProperties
    <3> QED BY <3>1 DEF BlurredAll
  <2> HIDE DEF u, v
  <2>12. \A i \in 1 .. d : v[i] = u[i]
    <3>1. ASSUME NEW i \in 1 .. d PROVE v[i] = u[i]
      <4>1. i \in 1 .. Len(sent) BY <2>7
      <4>2. v[i] = Blurred(delivered[i]) BY <2>11
      <4>3. delivered[i] = Decoded(sent[i]) BY <4>1, <2>4, <2>9
      <4>4. u[i] = Blurred(Meaning(sent[i])) BY <4>1, <2>5, <2>10
      <4>5. sent[i] \in Packets BY <4>1, <2>4
      <4> QED BY <4>2, <4>3, <4>4, <4>5, Understood
    <3> QED BY <3>1
  <2>13. v = u
    <3>1. u = [i \in 1 .. d |-> u[i]] BY <2>10, LenProperties
    <3>2. v = [i \in 1 .. d |-> v[i]] BY <2>11
    <3> QED BY <3>1, <3>2, <2>12
  <2> QED BY <2>5, <2>6, <2>8, <2>10, <2>13 DEF u, v, d, Mapped
<1> QED BY <1>1, <1>2 DEF WireInv

LEMMA MeantMore ==
    ASSUME NEW ps \in Seq(Packets), NEW p \in Packets
    PROVE  MeantDown(Append(ps, p)) = Append(MeantDown(ps), Blurred(Meaning(p)))
<1>1. PICK qs : qs = Append(ps, p) OBVIOUS
<1> DEFINE c == Blurred(Meaning(p))
           cs == MeantDown(ps)
           ds == Append(cs, c)
<1>2. /\ qs \in Seq(Packets) /\ Len(qs) = Len(ps) + 1 /\ Len(ps) \in Nat
      /\ qs[Len(ps) + 1] = p /\ \A i \in 1 .. Len(ps) : qs[i] = ps[i]
  BY <1>1, AppendProperties, LenProperties
<1>3. /\ cs \in Seq(ChPackets) /\ Len(cs) = Len(ps)
      /\ \A i \in 1 .. Len(ps) : cs[i] = Blurred(Meaning(ps[i]))
  BY MeantDownIs
<1>4. /\ MeantDown(qs) \in Seq(ChPackets) /\ Len(MeantDown(qs)) = Len(qs)
      /\ \A i \in 1 .. Len(qs) : MeantDown(qs)[i] = Blurred(Meaning(qs[i]))
  BY <1>2, MeantDownIs
<1>5. c \in ChPackets BY DEF ChPackets
<1> HIDE DEF cs
<1>6. /\ ds \in Seq(ChPackets) /\ Len(ds) = Len(cs) + 1 /\ ds[Len(cs) + 1] = c
      /\ \A i \in 1 .. Len(cs) : ds[i] = cs[i]
  <2> HIDE DEF c
  <2> QED BY <1>3, <1>5, AppendProperties
<1> HIDE DEF ds
<1>7. \A i \in 1 .. Len(qs) : MeantDown(qs)[i] = ds[i]
  <2>1. ASSUME NEW i \in 1 .. Len(qs) PROVE MeantDown(qs)[i] = ds[i]
    <3>1. CASE i = Len(ps) + 1 BY <3>1, <2>1, <1>2, <1>3, <1>4, <1>6
    <3>2. CASE i # Len(ps) + 1
      <4>1. i \in 1 .. Len(ps) BY <3>2, <1>2
      <4> QED BY <4>1, <2>1, <1>2, <1>3, <1>4, <1>6
    <3> QED BY <3>1, <3>2
  <2> QED BY <2>1
<1>8. MeantDown(qs) = ds BY <1>2, <1>3, <1>4, <1>6, <1>7, SeqEqual
<1> QED BY <1>1, <1>8 DEF ds, cs

LEMMA PacketsMore ==
    ASSUME NEW ms \in Seq(Messages), NEW m \in Messages
    PROVE  PacketsOf(Append(ms, m)) = Append(PacketsOf(ms), AsPacket(m))
<1>1. PICK ns : ns = Append(ms, m) OBVIOUS
<1> DEFINE c == AsPacket(m)
           cs == PacketsOf(ms)
           ds == Append(cs, c)
<1>2. /\ ns \in Seq(Messages) /\ Len(ns) = Len(ms) + 1 /\ Len(ms) \in Nat
      /\ ns[Len(ms) + 1] = m /\ \A i \in 1 .. Len(ms) : ns[i] = ms[i]
  BY <1>1, AppendProperties, LenProperties
<1>3. /\ cs \in Seq(UpPackets) /\ Len(cs) = Len(ms)
      /\ \A i \in 1 .. Len(ms) : cs[i] = AsPacket(ms[i])
  BY FramesOfMessages
<1>4. /\ PacketsOf(ns) \in Seq(UpPackets) /\ Len(PacketsOf(ns)) = Len(ns)
      /\ \A i \in 1 .. Len(ns) : PacketsOf(ns)[i] = AsPacket(ns[i])
  BY <1>2, FramesOfMessages
<1>5. c \in UpPackets BY DEF UpPackets
<1> HIDE DEF cs
<1>6. /\ ds \in Seq(UpPackets) /\ Len(ds) = Len(cs) + 1 /\ ds[Len(cs) + 1] = c
      /\ \A i \in 1 .. Len(cs) : ds[i] = cs[i]
  <2> HIDE DEF c
  <2> QED BY <1>3, <1>5, AppendProperties
<1> HIDE DEF ds
<1>7. \A i \in 1 .. Len(ns) : PacketsOf(ns)[i] = ds[i]
  <2>1. ASSUME NEW i \in 1 .. Len(ns) PROVE PacketsOf(ns)[i] = ds[i]
    <3>1. CASE i = Len(ms) + 1 BY <3>1, <2>1, <1>2, <1>3, <1>4, <1>6
    <3>2. CASE i # Len(ms) + 1
      <4>1. i \in 1 .. Len(ms) BY <3>2, <1>2
      <4> QED BY <4>1, <2>1, <1>2, <1>3, <1>4, <1>6
    <3> QED BY <3>1, <3>2
  <2> QED BY <2>1
<1>8. PacketsOf(ns) = ds BY <1>2, <1>3, <1>4, <1>6, <1>7, SeqEqual
<1> QED BY <1>1, <1>8 DEF ds, cs

\* One more is sent.
LEMMA SendMaps ==
    ASSUME NEW p \in ChPackets, ChSent' = Append(ChSent, p), ChDelivered' = ChDelivered
    PROVE  Channel!Next
<1>1. Channel!Send BY DEF Channel!Send, ChPackets, ChSent, ChDelivered, MeantDown, PacketsOf,
                         BlurredAll
<1> QED BY <1>1 DEF Channel!Next

\* A read delivers nothing, or some of what has been sent.
LEMMA ReadMaps ==
    ASSUME Mapped, Mapped', direction' = direction, sent' = sent,
           Len(delivered') >= Len(delivered)
    PROVE  Channel!Next \/ (ChSent' = ChSent /\ ChDelivered' = ChDelivered)
<1>1. ChSent' = ChSent BY DEF ChSent
<1>2. /\ Len(delivered) \in 0 .. Len(ChSent) /\ Len(delivered') \in 0 .. Len(ChSent)
      /\ ChDelivered = SubSeq(ChSent, 1, Len(delivered))
      /\ ChDelivered' = SubSeq(ChSent, 1, Len(delivered'))
      /\ Len(ChDelivered) = Len(delivered) /\ Len(ChSent) \in Nat
  BY <1>1, LenProperties DEF Mapped
<1>3. CASE Len(delivered') = Len(delivered) BY <1>1, <1>2, <1>3
<1>4. CASE Len(delivered') # Len(delivered)
  <2>1. /\ Len(ChDelivered) < Len(ChSent)
        /\ Len(delivered') \in Len(ChDelivered) + 1 .. Len(ChSent)
    BY <1>2, <1>4
  <2>2. \E n \in Len(ChDelivered) + 1 .. Len(ChSent) : ChDelivered' = SubSeq(ChSent, 1, n)
    BY <2>1, <1>2
  <2>3. Channel!Deliver
    BY <2>1, <2>2, <1>1
    DEF Channel!Deliver, ChSent, ChDelivered, MeantDown, PacketsOf, BlurredAll
  <2> QED BY <2>3 DEF Channel!Next
<1> QED BY <1>3, <1>4

LEMMA ChannelStep ==
    ASSUME FitsParser, WireInv, WireInv', [Next]_wireVars
    PROVE  [Channel!Next]_<<ChSent, ChDelivered>>
<1>0. Mapped BY ChannelMapped
<1>1. Mapped'
  <2>1. FitsParser' BY DEF FitsParser, LongestPacket
  <2> QED BY <2>1, ChannelMapped, PTL
<1>2. CASE SendDown
  <2>1. direction = "down" /\ direction' = direction /\ send
    BY <1>2 DEF SendDown, Downwards
  <2>2. PICK p \in Packets : sent' = Append(sent, p) BY <2>1 DEF send
  <2>3. delivered' = delivered BY <2>1 DEF send
  <2>4. sent \in Seq(Packets) BY <2>1 DEF WireInv, DownInv
  <2>5. MeantDown(sent') = Append(MeantDown(sent), Blurred(Meaning(p)))
    BY <2>2, <2>4, MeantMore
  <2>6. ChSent' = Append(ChSent, Blurred(Meaning(p))) /\ ChDelivered' = ChDelivered
    BY <2>1, <2>3, <2>5 DEF ChSent, ChDelivered
  <2>7. Blurred(Meaning(p)) \in ChPackets BY DEF ChPackets
  <2> QED BY <2>6, <2>7, SendMaps
<1>3. CASE WriteDown
  <2>1. direction' = direction /\ sent' = sent /\ delivered' = delivered
    BY <1>3 DEF WriteDown, Downwards, write_handler
  <2>2. ChSent' = ChSent /\ ChDelivered' = ChDelivered
    BY <2>1 DEF ChSent, ChDelivered
  <2> QED BY <2>2
<1>4. CASE ReadDown
  <2>1. direction = "down" /\ direction' = direction /\ onReadyRead
    BY <1>4 DEF ReadDown, Downwards
  <2>2. Len(delivered') >= Len(delivered) BY <2>1, DownReads DEF WireInv
  <2>3. sent' = sent BY <2>1 DEF onReadyRead
  <2>4. Channel!Next \/ (ChSent' = ChSent /\ ChDelivered' = ChDelivered)
    BY <2>1, <2>2, <2>3, <1>0, <1>1, ReadMaps
  <2> QED BY <2>4
<1>5. CASE SendUp
  <2>1. direction = "up" /\ direction' = direction /\ sendWireData
    BY <1>5 DEF SendUp, Upwards
  <2>2. PICK m \in Messages : sent' = Append(sent, m) BY <2>1 DEF sendWireData
  <2>3. delivered' = delivered BY <2>1 DEF sendWireData
  <2>4. sent \in Seq(Messages) BY <2>1 DEF WireInv, UpInv
  <2>5. PacketsOf(sent') = Append(PacketsOf(sent), AsPacket(m))
    BY <2>2, <2>4, PacketsMore
  <2>6. ChSent' = Append(ChSent, AsPacket(m)) /\ ChDelivered' = ChDelivered
    BY <2>1, <2>3, <2>5 DEF ChSent, ChDelivered
  <2>7. AsPacket(m) \in ChPackets BY DEF ChPackets
  <2> QED BY <2>6, <2>7, SendMaps
<1>6. CASE ReadUp
  <2>1. direction = "up" /\ direction' = direction /\ do_read
    BY <1>6 DEF ReadUp, Upwards
  <2>2. Len(delivered') >= Len(delivered) BY <2>1, UpReads DEF WireInv
  <2>3. sent' = sent BY <2>1 DEF do_read
  <2>4. Channel!Next \/ (ChSent' = ChSent /\ ChDelivered' = ChDelivered)
    BY <2>1, <2>2, <2>3, <1>0, <1>1, ReadMaps
  <2> QED BY <2>4
<1>7. CASE UNCHANGED wireVars
  <2>1. direction' = direction /\ sent' = sent /\ delivered' = delivered
    BY <1>7 DEF wireVars
  <2>2. ChSent' = ChSent /\ ChDelivered' = ChDelivered
    BY <2>1 DEF ChSent, ChDelivered
  <2> QED BY <2>2
<1> QED BY <1>2, <1>3, <1>4, <1>5, <1>6, <1>7 DEF Next

\* Either direction implements PacketChannel: however the packets are cut into
\* writes and reads, they come out whole, as they were meant, once and in order.
THEOREM WireImplementsChannel == ASSUME FitsParser PROVE Spec => ImplementsChannel
<1>1. Init => Channel!Init
  <2> SUFFICES ASSUME Init PROVE Channel!Init OBVIOUS
  <2>1. sent = << >> /\ delivered = << >> BY DEF Init, StreamInit
  <2>2. DOMAIN sent = {} /\ DOMAIN delivered = {} BY <2>1
  <2>3. ChSent = << >> /\ ChDelivered = << >>
    BY <2>1, <2>2 DEF ChSent, ChDelivered, MeantDown, PacketsOf, BlurredAll
  <2> QED BY <2>3 DEF Channel!Init, ChSent, ChDelivered, MeantDown, PacketsOf, BlurredAll
<1>2. WireInv /\ WireInv' /\ [Next]_wireVars => [Channel!Next]_<<ChSent, ChDelivered>>
  BY ChannelStep
<1>3. Channel!Spec <=> Channel!Init /\ [][Channel!Next]_<<ChSent, ChDelivered>>
  BY DEF Channel!Spec, ChSent, ChDelivered, MeantDown, PacketsOf, BlurredAll
<1> QED BY <1>1, <1>2, <1>3, WireInvAlways, PTL DEF Spec, ImplementsChannel
=============================================================================
