------------------------------ MODULE WSPRNet_proofs ------------------------------
(***************************************************************************)
(* The upload of spots, for any number of periods and spots and whatever   *)
(* goes wrong.                                                             *)
(*                                                                         *)
(* What holds in any case: nothing is of a period to come (InTime), so     *)
(* that the spots of a period that begins were not sent before.  And what  *)
(* holds in a period without trouble (Smooth): it has two phases, in the   *)
(* first of which, up to the upload, nothing is sent and what is queued is *)
(* the decoder's (Prepared), and in the second of which what was not sent  *)
(* is in the queue (Uploaded).                                             *)
(***************************************************************************)
EXTENDS WSPRNet, TLAPS, SequenceTheorems, FiniteSetTheorems

\* the upload of the period is still to come
Waiting == decoding # "no" \/ uploadTimer

Types ==
  /\ mode \in Modes /\ period \in 0..MaxPeriods
  /\ decoding \in {"no", "jt9", "wsprd", "unlinked"}
  /\ audio \in 0..MaxPeriods /\ unprinted \subseteq Spots /\ file \subseteq Lines
  /\ spotQueue \in Seq(Items)
  /\ uploadTimer \in BOOLEAN /\ uploading \in BOOLEAN /\ spotsToSend \in BOOLEAN
  /\ timer \in BOOLEAN /\ failed \in BOOLEAN /\ trouble \in BOOLEAN
  /\ uploadType \in 0..3
  /\ outstanding \subseteq [spot : Items, nth : Nat]
  /\ again \in 0..MaxAgain /\ sent \in [Items -> Nat]

InTime ==
  /\ decoding # "no" => period # 0
  /\ audio <= period
  /\ \A x \in file \cup unprinted \cup Range(spotQueue) : x[1] <= period
  /\ \A s \in Spots : period < s[1] => sent[s] = 0

\* the first phase of a period without trouble
Prepared ==
  /\ ~timer /\ ~uploading /\ outstanding = {} /\ IsInjective(spotQueue)
  /\ \A s \in Of(period) : sent[s] = 0
  /\ Range(spotQueue) \subseteq Of(period) /\ file \subseteq {period} \X Nat
  /\ file = {} \/ spotQueue = <<>>
  /\ decoding # "no" => file = {} /\ ~uploadTimer
  /\ decoding = "jt9" => unprinted \subseteq Of(period) \ Range(spotQueue)
  /\ decoding = "wsprd" => spotQueue = <<>>
  /\ decoding # "unlinked"

\* the second
Uploaded ==
  /\ IsInjective(spotQueue)
  /\ spotQueue # <<>> => timer /\ spotsToSend
  /\ uploading => spotQueue # <<>> \/ outstanding # {} \/ failed
  /\ ~uploading => spotQueue = <<>> /\ file = {}
  /\ \A s \in Spots : s \in Range(spotQueue) => sent[s] = 0
  /\ \A s \in Spots : s \in file => sent[s] # 0 \/ s \in Range(spotQueue)

Smooth ==
  ~trouble =>
    /\ uploadType # 3
    /\ Waiting => Prepared
    /\ ~Waiting => Uploaded

Inv == Types /\ InTime /\ Smooth
-----------------------------------------------------------------------------
(* Queues. *)

\* What is queued.
LEMMA Enqueued ==
  ASSUME NEW T, NEW q \in Seq(T), NEW x \in T
  PROVE  /\ Append(q, x) \in Seq(T) /\ Append(q, x) # <<>>
         /\ Range(Append(q, x)) = Range(q) \cup {x}
         /\ IsInjective(q) /\ x \notin Range(q) => IsInjective(Append(q, x))
<1> DEFINE a == Append(q, x)
           n == Len(q)
<1>1. /\ a \in Seq(T) /\ a # <<>> /\ n \in Nat /\ Len(a) = n + 1
      /\ \A i \in 1 .. n : a[i] = q[i]
      /\ a[n + 1] = x
  BY AppendProperties, LenProperties
<1>2. DOMAIN q = 1 .. n BY LenProperties
<1> HIDE DEF a, n
<1>3. DOMAIN a = 1 .. n + 1 BY <1>1, LenProperties
<1>4. Range(a) = Range(q) \cup {x}
  <2>1. Range(a) = {a[i] : i \in 1 .. n + 1} BY <1>3 DEF Range
  <2>2. Range(q) = {q[i] : i \in 1 .. n} BY <1>2 DEF Range
  <2>3. \A y \in Range(a) : y \in Range(q) \cup {x} BY <1>1, <2>1, <2>2
  <2>4. \A y \in Range(q) : y \in Range(a) BY <1>1, <2>1, <2>2
  <2>5. x \in Range(a) BY <1>1, <2>1
  <2> QED BY <2>3, <2>4, <2>5
<1>5. ASSUME IsInjective(q), x \notin Range(q) PROVE IsInjective(a)
  <2>1. \A i \in 1 .. n : q[i] # x BY <1>2, <1>5 DEF Range
  <2>2. \A i, j \in 1 .. n : q[i] = q[j] => i = j BY <1>2, <1>5 DEF IsInjective
  <2>3. ASSUME NEW i \in 1 .. n + 1, NEW j \in 1 .. n + 1, a[i] = a[j] PROVE i = j
    <3>1. i = n + 1 \/ i \in 1 .. n BY <1>1
    <3>2. j = n + 1 \/ j \in 1 .. n BY <1>1
    <3> QED BY <1>1, <2>1, <2>2, <2>3, <3>1, <3>2
  <2> QED BY <1>3, <2>3 DEF IsInjective
<1> QED BY <1>1, <1>4, <1>5 DEF a

\* What is taken from the queue.
LEMMA Dequeued ==
  ASSUME NEW T, NEW q \in Seq(T), q # <<>>
  PROVE  /\ Tail(q) \in Seq(T) /\ Head(q) \in T
         /\ Range(q) = Range(Tail(q)) \cup {Head(q)}
         /\ IsInjective(q) => IsInjective(Tail(q)) /\ Head(q) \notin Range(Tail(q))
<1> DEFINE t == Tail(q)
           h == Head(q)
           n == Len(q)
<1>1. /\ t \in Seq(T) /\ h \in T /\ n \in Nat /\ n # 0 /\ Len(t) = n - 1
      /\ h = q[1] /\ \A i \in 1 .. n - 1 : t[i] = q[i + 1]
  BY HeadTailProperties, EmptySeq, LenProperties
<1>2. DOMAIN q = 1 .. n BY LenProperties
<1> HIDE DEF t, h, n
<1>3. DOMAIN t = 1 .. n - 1 BY <1>1, LenProperties
<1>4. \A y \in Range(q) : y \in Range(t) \cup {h}
  <2> SUFFICES ASSUME NEW i \in 1 .. n PROVE q[i] \in Range(t) \cup {h}
    BY <1>2 DEF Range
  <2>1. CASE i = 1 BY <1>1, <2>1
  <2>2. CASE i # 1
    <3>1. i - 1 \in 1 .. n - 1 /\ (i - 1) + 1 = i BY <1>1, <2>2
    <3>2. t[i - 1] = q[i] BY <1>1, <3>1
    <3> QED BY <1>3, <3>1, <3>2 DEF Range
  <2> QED BY <2>1, <2>2
<1>5. \A y \in Range(t) : y \in Range(q)
  <2> SUFFICES ASSUME NEW i \in 1 .. n - 1 PROVE t[i] \in Range(q)
    BY <1>3 DEF Range
  <2>1. i + 1 \in 1 .. n BY <1>1
  <2> QED BY <1>1, <1>2, <2>1 DEF Range
<1>6. h \in Range(q)
  <2>1. 1 \in 1 .. n BY <1>1
  <2> QED BY <1>1, <1>2, <2>1 DEF Range
<1>7. ASSUME IsInjective(q) PROVE IsInjective(t) /\ h \notin Range(t)
  <2>1. \A i, j \in 1 .. n : q[i] = q[j] => i = j BY <1>2, <1>7 DEF IsInjective
  <2>2. ASSUME NEW i \in 1 .. n - 1, NEW j \in 1 .. n - 1, t[i] = t[j] PROVE i = j
    <3>1. i + 1 \in 1 .. n /\ j + 1 \in 1 .. n BY <1>1
    <3>2. i + 1 = j + 1 BY <1>1, <2>1, <2>2, <3>1
    <3> QED BY <3>2
  <2>3. ASSUME NEW i \in 1 .. n - 1, t[i] = h PROVE FALSE
    <3>1. i + 1 \in 1 .. n /\ 1 \in 1 .. n BY <1>1
    <3>2. i + 1 = 1 BY <1>1, <2>1, <2>3, <3>1
    <3> QED BY <3>2
  <2> QED BY <1>3, <2>2, <2>3 DEF IsInjective, Range
<1>8. Range(q) = Range(t) \cup {h} BY <1>4, <1>5, <1>6
<1> QED BY <1>1, <1>7, <1>8 DEF t, h

\* A queue behind another.
LEMMA Joined ==
  ASSUME NEW T, NEW q \in Seq(T), NEW r \in Seq(T)
  PROVE  /\ q \o r \in Seq(T) /\ Range(q \o r) = Range(q) \cup Range(r)
         /\ IsInjective(q) /\ IsInjective(r) /\ Range(q) \cap Range(r) = {}
            => IsInjective(q \o r)
<1> DEFINE c == q \o r
           m == Len(q)
           n == Len(r)
<1>1. /\ c \in Seq(T) /\ m \in Nat /\ n \in Nat /\ Len(c) = m + n
      /\ \A i \in 1 .. m + n : c[i] = IF i <= m THEN q[i] ELSE r[i - m]
  BY ConcatProperties, LenProperties
<1>2. Range(c) = Range(q) \cup Range(r) BY RangeConcatenation
<1>3. DOMAIN q = 1 .. m /\ DOMAIN r = 1 .. n BY LenProperties
<1> HIDE DEF c, m, n
<1>4. DOMAIN c = 1 .. m + n BY <1>1, LenProperties
<1>5. ASSUME IsInjective(q), IsInjective(r), Range(q) \cap Range(r) = {}
      PROVE  IsInjective(c)
  <2>1. \A i, j \in 1 .. m : q[i] = q[j] => i = j BY <1>3, <1>5 DEF IsInjective
  <2>2. \A i, j \in 1 .. n : r[i] = r[j] => i = j BY <1>3, <1>5 DEF IsInjective
  <2>3. \A i \in 1 .. m : \A j \in 1 .. n : q[i] # r[j] BY <1>3, <1>5 DEF Range
  <2>4. ASSUME NEW i \in 1 .. m + n, NEW j \in 1 .. m + n, c[i] = c[j] PROVE i = j
    <3>1. CASE i <= m /\ j <= m
      <4>1. i \in 1 .. m /\ j \in 1 .. m /\ c[i] = q[i] /\ c[j] = q[j] BY <1>1, <3>1
      <4> QED BY <2>1, <2>4, <4>1
    <3>2. CASE i <= m /\ ~(j <= m)
      <4>1. i \in 1 .. m /\ j - m \in 1 .. n /\ c[i] = q[i] /\ c[j] = r[j - m]
        BY <1>1, <3>2
      <4> QED BY <2>3, <2>4, <4>1
    <3>3. CASE ~(i <= m) /\ j <= m
      <4>1. j \in 1 .. m /\ i - m \in 1 .. n /\ c[j] = q[j] /\ c[i] = r[i - m]
        BY <1>1, <3>3
      <4> QED BY <2>3, <2>4, <4>1
    <3>4. CASE ~(i <= m) /\ ~(j <= m)
      <4>1. i - m \in 1 .. n /\ j - m \in 1 .. n /\ c[i] = r[i - m] /\ c[j] = r[j - m]
        BY <1>1, <3>4
      <4>2. i - m = j - m BY <2>2, <2>4, <4>1
      <4> QED BY <1>1, <4>2
    <3> QED BY <1>1, <3>1, <3>2, <3>3, <3>4
  <2> QED BY <1>4, <2>4 DEF IsInjective
<1> QED BY <1>1, <1>2, <1>5 DEF c

\* The empty queue.
LEMMA NoneQueued ==
  ASSUME NEW T
  PROVE  /\ <<>> \in Seq(T) /\ Range(<<>>) = {} /\ IsInjective(<<>>)
         /\ \A q \in Seq(T) : Range(q) = {} => q = <<>>
         /\ \A q \in Seq(T) : q \o <<>> = q /\ <<>> \o q = q
<1>1. DOMAIN <<>> = {} OBVIOUS
<1>2. ASSUME NEW q \in Seq(T), Range(q) = {} PROVE q = <<>>
  <2>1. ASSUME q # <<>> PROVE FALSE
    <3>1. Range(q) = Range(Tail(q)) \cup {Head(q)} BY <2>1, Dequeued
    <3> QED BY <1>2, <3>1
  <2> QED BY <2>1
<1> QED BY <1>1, <1>2, EmptySeq, ConcatEmptySeq DEF Range, IsInjective

\* A finite set as a queue.
LEMMA SetQueued ==
  ASSUME NEW T, NEW S \in SUBSET T, IsFiniteSet(S)
  PROVE  SetToSeq(S) \in Seq(T) /\ Range(SetToSeq(S)) = S /\ IsInjective(SetToSeq(S))
<1> DEFINE n == Cardinality(S)
           f == SetToSeq(S)
<1>1. n \in Nat /\ ExistsBijection(1 .. n, S) BY FS_CardinalityType
<1>2. \E g \in [1 .. n -> S] : IsInjective(g)
  BY <1>1 DEF ExistsBijection, Bijection, Injection
<1>3. f \in [1 .. n -> S] /\ IsInjective(f) BY <1>2 DEF SetToSeq
<1> HIDE DEF f
<1>4. f \in Injection(1 .. n, S) BY <1>3 DEF Injection
<1>5. IsFiniteSet(1 .. n) /\ Cardinality(1 .. n) = n
  <2>1. Cardinality(1 .. n) = IF 1 <= n THEN n - 1 + 1 ELSE 0
    BY <1>1, FS_Interval
  <2>2. IsFiniteSet(1 .. n) BY <1>1, FS_Interval
  <2> HIDE DEF n
  <2> QED BY <1>1, <2>1, <2>2
<1>6. f \in Surjection(1 .. n, S)
  <2> HIDE DEF n
  <2>1. Cardinality(S) = n BY DEF n
  <2> QED BY <1>4, <1>5, <2>1, FS_Injection
<1>7. \A s \in S : \E i \in 1 .. n : f[i] = s BY <1>6 DEF Surjection
<1> HIDE DEF n
<1>8. Range(f) = S BY <1>3, <1>7 DEF Range
<1>9. f \in Seq(T)
  <2>1. \A i \in 1 .. n : f[i] \in T BY <1>3
  <2>2. f = [i \in 1 .. n |-> f[i]] BY <1>3
  <2> QED BY <1>1, <2>1, <2>2, IsASeq
<1> QED BY <1>3, <1>8, <1>9 DEF f

-----------------------------------------------------------------------------
(* Spots and lines. *)

\* A spot knows its period, and NoSpot is of none.
LEMMA SpotParts ==
  /\ MaxPeriods \in Nat \ {0} /\ MaxSpots \in Nat \ {0}
  /\ \A x \in Lines : x[1] \in 1..MaxPeriods /\ x[2] \in 0..MaxSpots
  /\ Spots \subseteq Lines
  /\ \A p \in 1..MaxPeriods : Of(p) \subseteq Spots
  /\ \A p \in Nat : \A x \in Of(p) : x[1] = p
  /\ \A s \in Spots : s \in Of(s[1])
  /\ NoSpot \notin Lines /\ NoSpot[1] = 0
  /\ \A x \in Items : x[1] \in 0..MaxPeriods
<1>1. MaxPeriods \in Nat \ {0} /\ MaxSpots \in Nat \ {0} BY WSPRNetAssumption
<1>2. \A x \in Lines : x[1] \in 1..MaxPeriods /\ x[2] \in 0..MaxSpots BY DEF Lines
<1>3. Spots \subseteq Lines BY <1>1 DEF Spots, Lines
<1>4. \A p \in 1..MaxPeriods : Of(p) \subseteq Spots BY DEF Of, Spots
<1>5. \A p \in Nat : \A x \in Of(p) : x[1] = p BY DEF Of
<1>6. \A s \in Spots : s \in Of(s[1]) BY DEF Of, Spots
<1>7. NoSpot[1] = 0 BY DEF NoSpot
<1>8. NoSpot \notin Lines BY <1>2, <1>7
<1>9. \A x \in Items : x[1] \in 0..MaxPeriods BY <1>1, <1>2, <1>3, <1>7 DEF Items
<1> QED BY <1>1, <1>2, <1>3, <1>4, <1>5, <1>6, <1>7, <1>8, <1>9

\* There are finitely many lines.
LEMMA LinesFinite == IsFiniteSet(Lines)
<1>1. IsFiniteSet(1..MaxPeriods) BY SpotParts, FS_Interval
<1>2. IsFiniteSet(0..MaxSpots) BY SpotParts, FS_Interval
<1> QED BY <1>1, <1>2, FS_Product DEF Lines

\* What wsprd writes are lines of the period, if there is one.
LEMMA WrittenLines ==
  ASSUME period \in 1..MaxPeriods, NEW lines \in Written
  PROVE  lines \subseteq Lines /\ (\A x \in lines : x[1] = period) /\ lines \subseteq {period} \X Nat
<1> DEFINE a == <<period, 0>>
           b == <<period, 1>>
<1>1. lines = {} \/ lines \in SUBSET Of(period) \/ lines = {a} \/ lines = {a, b}
  <2> DEFINE own == SUBSET Of(period)
             c == IF May("unreadable") THEN {a} ELSE {}
             d == {a, b}
  <2>1. Written = IF decoding # "wsprd" THEN {{}} ELSE own \cup {c, d} BY DEF Written
  <2>2. c = {a} \/ c = {} OBVIOUS
  <2> HIDE DEF own, c, d
  <2>3. lines = {} \/ lines \in own \/ lines = c \/ lines = d BY <2>1
  <2> QED BY <2>2, <2>3 DEF own, d
<1>2. <<period, 0>> \in Lines /\ <<period, 1>> \in Lines
  BY SpotParts DEF Lines
<1>3. lines \subseteq Lines
  <2>1. Of(period) \subseteq Lines BY SpotParts
  <2> QED BY <1>1, <1>2, <2>1
<1>4. \A x \in lines : x[1] = period
  <2>1. period \in Nat OBVIOUS
  <2>2. \A x \in Of(period) : x[1] = period BY <2>1, SpotParts
  <2> QED BY <1>1, <2>2
<1>5. \A x \in Lines : x[1] = period => x \in {period} \X Nat
  BY DEF Lines
<1> QED BY <1>3, <1>4, <1>5

-----------------------------------------------------------------------------
(* The inductive invariant, step by step. *)

\* Initially there is nothing.
LEMMA Initially == Init => Inv
<1> SUFFICES ASSUME Init PROVE Inv
  OBVIOUS
<1>1. <<>> \in Seq(Items) /\ Range(<<>>) = {} /\ IsInjective(<<>>) BY NoneQueued
<1>2. Types
  <2>1. uploadType \in 0..3
    <3>1. uploadType = 0 \/ uploadType = 3 BY DEF Init
    <3> QED BY <3>1
  <2>2. trouble \in BOOLEAN /\ failed \in BOOLEAN BY DEF Init
  <2>3. sent \in [Items -> Nat] BY DEF Init
  <2>4. 0 \in 0..MaxPeriods /\ 0 \in 0..MaxAgain BY SpotParts, WSPRNetAssumption
  <2>5. /\ mode \in Modes /\ period \in 0..MaxPeriods /\ decoding = "no" /\ file \subseteq Lines
        /\ audio \in 0..MaxPeriods /\ unprinted \subseteq Spots /\ again \in 0..MaxAgain
        /\ spotQueue \in Seq(Items) /\ outstanding \subseteq [spot : Items, nth : Nat]
    BY <1>1, <2>4 DEF Init
  <2>6. /\ uploadTimer \in BOOLEAN /\ uploading \in BOOLEAN /\ spotsToSend \in BOOLEAN
        /\ timer \in BOOLEAN
    BY DEF Init
  <2> QED BY <2>1, <2>2, <2>3, <2>5, <2>6 DEF Types
<1>3. InTime
  <2>1. \A s \in Spots : sent[s] = 0 BY DEF Init, Items
  <2> QED BY <1>1, <2>1 DEF Init, InTime
<1>4. Smooth BY <1>1 DEF Init, Smooth, Waiting, Uploaded
<1> QED BY <1>2, <1>3, <1>4 DEF Inv

\* A period begins.
LEMMA DecodeStartKeeps == ASSUME Inv, DecodeStart PROVE Inv'
<1> USE DEF Inv
<1>1. /\ decoding = "no" /\ period < MaxPeriods /\ period' = period + 1
      /\ failed' = FALSE /\ trouble' = (uploadTimer \/ timer \/ ~Clean)
      /\ UNCHANGED <<mode, again, uploadTimer, uploading, spotQueue, spotsToSend, timer,
                     uploadType, outstanding, sent>>
  BY DEF DecodeStart
<1>2. \/ /\ mode = "WSPR" /\ decoding' = "wsprd" /\ file' = {}
         /\ audio' = audio /\ unprinted' = unprinted
      \/ /\ mode = "FST4W" /\ decoding' = "jt9" /\ audio' = period' /\ unprinted' = Of(period')
         /\ file' = file
  BY WSPRNetAssumption DEF DecodeStart, Types
<1>3. period \in Nat /\ period' \in 1..MaxPeriods BY <1>1, SpotParts DEF Types
<1>4. Of(period') \subseteq Spots /\ \A s \in Of(period') : s[1] = period' BY <1>3, SpotParts
<1>5. Types'
  <2>1. trouble' \in BOOLEAN BY <1>1 DEF Types, Clean
  <2>2. audio' \in 0..MaxPeriods BY <1>2, <1>3 DEF Types
  <2>3. unprinted' \subseteq Spots /\ file' \subseteq Lines
    BY <1>2, <1>4 DEF Types
  <2>4. decoding' \in {"no", "jt9", "wsprd", "unlinked"} /\ period' \in 0..MaxPeriods
    BY <1>2, <1>3
  <2> QED BY <1>1, <2>1, <2>2, <2>3, <2>4 DEF Types
<1>6. InTime'
  <2>1. \A x \in file' \cup unprinted' \cup Range(spotQueue') : x[1] <= period'
    <3>1. Range(spotQueue) \subseteq Items BY RangeOfSeq DEF Types
    <3>2. \A x \in file \cup unprinted \cup Range(spotQueue) : x[1] \in Nat
      BY <3>1, SpotParts DEF Types
    <3>3. \A x \in file \cup unprinted \cup Range(spotQueue) : x[1] <= period'
      BY <1>1, <1>3, <3>2 DEF InTime
    <3> QED BY <1>1, <1>2, <1>3, <1>4, <3>3
  <2>2. \A s \in Spots : period' < s[1] => sent'[s] = 0
    <3>1. \A s \in Spots : s[1] \in Nat BY SpotParts
    <3> QED BY <1>1, <1>3, <3>1 DEF InTime
  <2>3. audio' <= period' BY <1>1, <1>2, <1>3 DEF InTime, Types
  <2> QED BY <1>3, <2>1, <2>2, <2>3 DEF InTime
<1>7. Smooth'
  <2> SUFFICES ASSUME ~trouble' PROVE uploadType' # 3 /\ Waiting' /\ Prepared'
    BY DEF Smooth
  <2>1. Clean /\ ~uploadTimer /\ ~timer BY <1>1 DEF Types
  <2>2. file' = {} BY <1>2, <2>1 DEF Clean
  <2>3. Range(spotQueue) = {} /\ IsInjective(spotQueue) BY <2>1, NoneQueued DEF Clean
  <2>4. \A s \in Of(period') : sent'[s] = 0 BY <1>1, <1>3, <1>4 DEF InTime
  <2>5. decoding' = "jt9" \/ decoding' = "wsprd" BY <1>2
  <2>6. decoding' = "jt9" => unprinted' = Of(period') BY <1>2
  <2> QED BY <1>1, <2>1, <2>2, <2>3, <2>4, <2>5, <2>6 DEF Clean, Prepared, Waiting
<1> QED BY <1>5, <1>6, <1>7

\* A period is decoded again.
LEMMA DecodeAgainKeeps == ASSUME Inv, DecodeAgain PROVE Inv'
<1> USE DEF Inv
<1>1. /\ period # 0 /\ again < MaxAgain /\ again' = again + 1
      /\ decoding' = "jt9" /\ unprinted' = (IF audio = 0 THEN {} ELSE Of(audio))
      /\ trouble' = TRUE
      /\ UNCHANGED <<mode, period, audio, file, uploadTimer, uploading, spotQueue, spotsToSend,
                     timer, uploadType, outstanding, sent, failed>>
  BY DEF DecodeAgain
<1>2. unprinted' \subseteq Spots /\ \A x \in unprinted' : x[1] = audio
  BY <1>1, SpotParts DEF Types
<1>3. again' \in 0..MaxAgain BY <1>1, WSPRNetAssumption DEF Types
<1>4. Types' BY <1>1, <1>2, <1>3 DEF Types
<1>5. InTime'
  <2>1. \A x \in unprinted' : x[1] <= period BY <1>2 DEF InTime
  <2> QED BY <1>1, <2>1 DEF InTime
<1>6. Smooth' BY <1>1 DEF Smooth
<1> QED BY <1>4, <1>5, <1>6

\* A spot is posted as it is decoded.
LEMMA PostKeeps == ASSUME Inv, NEW spot \in Spots, Post(spot) PROVE Inv'
<1> USE DEF Inv
<1>1. /\ decoding = "jt9" /\ spot \in unprinted /\ unprinted' = unprinted \ {spot}
      /\ spotQueue' = Append(spotQueue, spot) /\ uploadType' = 2
      /\ UNCHANGED <<mode, period, decoding, audio, again, file, uploadTimer, uploading,
                     spotsToSend, timer, outstanding, sent, failed, trouble>>
  BY DEF Post
<1>2. spot[1] <= period /\ spot \in Items BY <1>1 DEF Items, InTime
<1>3. /\ spotQueue' \in Seq(Items) /\ spotQueue' # <<>>
      /\ Range(spotQueue') = Range(spotQueue) \cup {spot}
      /\ IsInjective(spotQueue) /\ spot \notin Range(spotQueue) => IsInjective(spotQueue')
  BY <1>1, <1>2, Enqueued DEF Types
<1>4. Types' BY <1>1, <1>3 DEF Types
<1>5. InTime' BY <1>1, <1>2, <1>3 DEF InTime
<1>6. Smooth'
  <2> SUFFICES ASSUME ~trouble' PROVE uploadType' # 3 /\ Prepared' /\ Waiting'
    BY <1>1 DEF Smooth
  <2>1. Prepared BY <1>1 DEF Smooth, Waiting
  <2>2. spot \in Of(period) /\ spot \notin Range(spotQueue) BY <1>1, <2>1 DEF Prepared
  <2>3. IsInjective(spotQueue') BY <1>3, <2>1, <2>2 DEF Prepared
  <2>4. Range(spotQueue') \subseteq Of(period) BY <1>3, <2>1, <2>2 DEF Prepared
  <2>5. unprinted' \subseteq Of(period) \ Range(spotQueue')
    BY <1>1, <1>3, <2>1 DEF Prepared
  <2> QED BY <1>1, <2>1, <2>3, <2>4, <2>5 DEF Prepared, Waiting
<1> QED BY <1>4, <1>5, <1>6

\* The decoder finished.
LEMMA DecodeEndKeeps ==
  ASSUME Inv, NEW lines \in Written, NEW upload \in BOOLEAN, DecodeEnd(lines, upload)
  PROVE  Inv'
<1> USE DEF Inv
<1> DEFINE starts == upload /\ (decoding = "jt9" => mode = "FST4W")
<1>1. /\ decoding # "no" /\ decoding' = "no" /\ unprinted' = {}
      /\ uploadTimer' = (uploadTimer \/ starts) /\ trouble' = (trouble \/ ~starts)
      /\ UNCHANGED <<mode, period, audio, again, uploading, spotQueue, spotsToSend, timer,
                     uploadType, outstanding, sent, failed>>
  BY DEF DecodeEnd
<1>2. file' = IF decoding = "jt9" THEN file
              ELSE IF decoding = "wsprd" /\ upload THEN lines ELSE {}
  BY DEF DecodeEnd
<1>3. period \in 1..MaxPeriods BY <1>1 DEF Types, InTime
<1>4. lines \subseteq Lines /\ (\A x \in lines : x[1] = period) /\ lines \subseteq {period} \X Nat
  BY <1>3, WrittenLines
<1>5. starts \in BOOLEAN OBVIOUS
<1> HIDE DEF starts
<1>6. Types'
  <2>1. uploadTimer' \in BOOLEAN /\ trouble' \in BOOLEAN BY <1>1, <1>5 DEF Types
  <2>2. file' \subseteq Lines BY <1>2, <1>4 DEF Types
  <2> QED BY <1>1, <2>1, <2>2 DEF Types
<1>7. InTime'
  <2>1. \A x \in file' : x[1] <= period BY <1>2, <1>3, <1>4 DEF InTime
  <2> QED BY <1>1, <2>1 DEF InTime
<1>8. Smooth'
  <2> SUFFICES ASSUME ~trouble' PROVE uploadType # 3 /\ Waiting' /\ Prepared'
    BY <1>1 DEF Smooth
  <2>1. ~trouble /\ starts BY <1>1, <1>5 DEF Types
  <2>2. Prepared /\ uploadType # 3 BY <1>1, <2>1 DEF Smooth, Waiting
  <2>3. Waiting' BY <1>1, <2>1 DEF Waiting
  <2>4. file' \subseteq {period} \X Nat BY <1>2, <1>4, <2>2 DEF Prepared
  <2>5. file' = {} \/ spotQueue = <<>> BY <1>1, <1>2, <2>2 DEF Prepared
  <2> QED BY <1>1, <2>2, <2>3, <2>4, <2>5 DEF Prepared
<1> QED BY <1>6, <1>7, <1>8

\* The operator changes the mode, or an upload is skipped.
LEMMA NoUploadKeeps == ASSUME Inv, ChangeMode \/ UploadSkipped PROVE Inv'
<1> USE DEF Inv
<1>1. CASE ChangeMode
  <2>1. /\ mode' \in Modes
        /\ UNCHANGED <<period, decoding, audio, unprinted, again, file, uploadTimer, uploading,
                       spotQueue, spotsToSend, timer, uploadType, outstanding, sent, failed, trouble>>
    BY <1>1 DEF ChangeMode
  <2>2. Types' BY <2>1 DEF Types
  <2>3. InTime' BY <2>1 DEF InTime
  <2>4. Smooth' BY <2>1 DEF Smooth, Waiting, Prepared, Uploaded
  <2> QED BY <2>2, <2>3, <2>4
<1>2. CASE UploadSkipped
  <2>1. /\ uploadTimer /\ uploadTimer' = FALSE /\ trouble' = TRUE
        /\ UNCHANGED <<mode, period, decoding, audio, unprinted, again, file, uploading, spotQueue,
                       spotsToSend, timer, uploadType, outstanding, sent, failed>>
    BY <1>2 DEF UploadSkipped, decoder
  <2>2. Types' BY <2>1 DEF Types
  <2>3. InTime' BY <2>1 DEF InTime
  <2>4. Smooth' BY <2>1 DEF Smooth
  <2> QED BY <2>2, <2>3, <2>4
<1> QED BY <1>1, <1>2

\* What an upload queues, after what is queued already, is the file's or NoSpot.
LEMMA QueuedAfterIs ==
  ASSUME Types, NEW q \in Seq(Items), NEW onBand \in OnBand
  PROVE  /\ onBand \subseteq file \cap Spots
         /\ file \subseteq {period} \X Nat => onBand = file \cap Spots
         /\ QueuedAfter(q, onBand) \in Seq(Items)
         /\ Range(q) \subseteq Range(QueuedAfter(q, onBand))
         /\ Range(QueuedAfter(q, onBand)) \subseteq Range(q) \cup file \cup {NoSpot}
         /\ /\ IsInjective(q) /\ NoSpot \notin Range(q) /\ Range(q) \cap file = {}
            => IsInjective(QueuedAfter(q, onBand))
         /\ uploadType # 3 => onBand \subseteq Range(QueuedAfter(q, onBand))
<1> DEFINE r == QueuedAfter(q, onBand)
           z == SetToSeq(onBand)
<1>1. onBand \subseteq file \cap Spots BY DEF OnBand
<1>2. file \subseteq {period} \X Nat => onBand = file \cap Spots BY DEF OnBand, Types
<1>3. /\ z \in Seq(Items) /\ Range(z) = onBand /\ IsInjective(z)
  <2>1. IsFiniteSet(onBand)
    <3>1. onBand \subseteq Lines BY <1>1 DEF Types
    <3> QED BY <3>1, LinesFinite, FS_Subset
  <2>2. onBand \in SUBSET Items BY <1>1 DEF Items
  <2> QED BY <2>1, <2>2, SetQueued
<1> HIDE DEF z
<1>4. r = IF uploadType = 3 THEN q ELSE IF file = {} THEN Append(q, NoSpot) ELSE q \o z
  BY DEF QueuedAfter, z
<1> HIDE DEF r
<1>5. NoSpot \in Items BY DEF Items
<1>6. CASE uploadType = 3
  BY <1>1, <1>2, <1>4, <1>6 DEF r
<1>7. CASE uploadType # 3 /\ file = {}
  <2>1. r = Append(q, NoSpot) BY <1>4, <1>7
  <2>2. /\ r \in Seq(Items) /\ Range(r) = Range(q) \cup {NoSpot}
        /\ IsInjective(q) /\ NoSpot \notin Range(q) => IsInjective(r)
    BY <1>5, <2>1, Enqueued
  <2> QED BY <1>1, <1>2, <1>7, <2>2 DEF r
<1>8. CASE uploadType # 3 /\ file # {}
  <2>1. r = q \o z BY <1>4, <1>8
  <2>2. /\ r \in Seq(Items) /\ Range(r) = Range(q) \cup onBand
        /\ IsInjective(q) /\ Range(q) \cap onBand = {} => IsInjective(r)
    BY <1>3, <2>1, Joined
  <2> QED BY <1>1, <1>2, <2>2 DEF r
<1> QED BY <1>6, <1>7, <1>8

\* The upload begins; one that is under way is aborted.
LEMMA UploadKeeps ==
  ASSUME Inv, NEW onBand \in OnBand, uploadWSPRSpots(onBand)
  PROVE  Inv'
<1> USE DEF Inv
<1> DEFINE q == IF uploading THEN <<>> ELSE spotQueue
           r == QueuedAfter(q, onBand)
<1>1. /\ uploadTimer /\ uploadTimer' = FALSE /\ spotQueue' = r
      /\ trouble' = (trouble \/ (uploading /\ outstanding # {}) \/ spotQueue' = <<>>)
      /\ uploading' = TRUE
      /\ outstanding' = IF uploading THEN {} ELSE outstanding
      /\ uploadType' = IF uploadType = 3 THEN 3
                       ELSE IF file = {} THEN 1
                       ELSE IF onBand = {} THEN uploadType ELSE 2
      /\ spotsToSend' = (spotQueue' # <<>>) /\ timer' = TRUE
      /\ UNCHANGED <<mode, period, decoding, audio, unprinted, again, file, sent, failed>>
  BY DEF uploadWSPRSpots, decoder
<1>2. q \in Seq(Items) /\ Range(q) \subseteq Range(spotQueue)
  <2>1. CASE uploading
    BY <2>1, NoneQueued
  <2>2. CASE ~uploading
    BY <2>2 DEF Types
  <2> QED BY <2>1, <2>2
<1> HIDE DEF q
<1>3. /\ onBand \subseteq file \cap Spots
      /\ file \subseteq {period} \X Nat => onBand = file \cap Spots
      /\ r \in Seq(Items)
      /\ Range(q) \subseteq Range(r)
      /\ Range(r) \subseteq Range(q) \cup file \cup {NoSpot}
      /\ /\ IsInjective(q) /\ NoSpot \notin Range(q) /\ Range(q) \cap file = {}
         => IsInjective(r)
      /\ uploadType # 3 => onBand \subseteq Range(r)
  BY <1>2, QueuedAfterIs
<1> HIDE DEF r
<1>4. Types'
  <2>1. uploadType' \in 0..3 BY <1>1 DEF Types
  <2> QED BY <1>1, <1>3, <2>1 DEF Types
<1>5. InTime'
  <2>1. NoSpot[1] <= period BY SpotParts DEF Types
  <2>2. \A x \in Range(spotQueue') : x[1] <= period'
    BY <1>1, <1>2, <1>3, <2>1 DEF InTime
  <2> QED BY <1>1, <2>2 DEF InTime
<1>6. Smooth'
  <2> SUFFICES ASSUME ~trouble' PROVE uploadType' # 3 /\ ~Waiting' /\ Uploaded'
    BY DEF Smooth
  <2>1. ~trouble /\ spotQueue' # <<>> BY <1>1 DEF Types
  <2>2. uploadType # 3 /\ Prepared BY <1>1, <2>1 DEF Smooth, Waiting
  <2>3. ~Waiting' BY <1>1, <2>2 DEF Prepared, Waiting
  <2>4. uploadType' # 3 BY <1>1, <2>2
  <2>5. q = spotQueue BY <2>2 DEF q, Prepared
  <2>6. onBand = file \cap Spots BY <1>3, <2>2 DEF Prepared
  <2>7. period \in Nat /\ NoSpot \notin Spots /\ NoSpot \notin Of(period)
    BY SpotParts DEF Types, InTime, NoSpot, Of
  <2>8. \A s \in Spots : s \in file => s \in Of(period) BY <2>2, SpotParts DEF Prepared
  <2>9. \A s \in Spots : s \in Range(spotQueue') => sent'[s] = 0
    BY <1>1, <1>3, <2>2, <2>5, <2>7, <2>8 DEF Prepared
  <2>10. IsInjective(spotQueue')
    <3>1. Range(spotQueue) \cap file = {}
      BY <2>2, NoneQueued DEF Prepared
    <3> QED BY <1>1, <1>3, <2>2, <2>5, <2>7, <3>1 DEF Prepared
  <2>11. \A s \in Spots : s \in file' => s \in Range(spotQueue')
    BY <1>1, <1>3, <2>2, <2>6
  <2> QED BY <1>1, <2>1, <2>3, <2>4, <2>9, <2>10, <2>11 DEF Uploaded
<1> QED BY <1>4, <1>5, <1>6

\* The timer posts the first spot of the queue, or stops.
LEMMA WorkKeeps == ASSUME Inv, work PROVE Inv'
<1> USE DEF Inv
<1>1. /\ timer
      /\ UNCHANGED <<mode, period, decoding, audio, unprinted, again, file, uploadTimer, uploading,
                     spotsToSend, uploadType, failed, trouble>>
  BY DEF work, decoder
<1>2. ~trouble => ~Waiting /\ ~Waiting' /\ uploadType # 3 /\ Uploaded
  BY <1>1 DEF Smooth, Prepared, Waiting
<1>3. CASE spotsToSend /\ spotQueue # <<>>
  <2> DEFINE spot == Head(spotQueue)
             n == sent[spot] + 1
             request == [spot |-> spot, nth |-> n]
             t == Tail(spotQueue)
  <2>1. /\ t \in Seq(Items) /\ spot \in Items /\ Range(spotQueue) = Range(t) \cup {spot}
        /\ IsInjective(spotQueue) => IsInjective(t) /\ spot \notin Range(t)
    BY <1>3, Dequeued DEF Types
  <2>2. /\ spotQueue' = t /\ timer' = timer
        /\ sent' = [sent EXCEPT ![spot] = @ + 1]
        /\ outstanding' = outstanding \cup {[spot |-> spot, nth |-> sent'[spot]]}
    BY <1>3 DEF work
  <2> HIDE DEF spot, t
  <2>3. /\ sent' \in [Items -> Nat] /\ sent'[spot] = n /\ n \in Nat
        /\ \A s \in Items : s # spot => sent'[s] = sent[s]
    BY <2>1, <2>2 DEF Types
  <2>4. outstanding' = outstanding \cup {request} /\ request \in [spot : Items, nth : Nat]
    BY <2>1, <2>2, <2>3
  <2> HIDE DEF request
  <2>5. Types' BY <1>1, <2>1, <2>2, <2>3, <2>4 DEF Types
  <2>6. InTime'
    <3>1. \A s \in Spots : period < s[1] => s # spot
      <4>1. spot \in Range(spotQueue) BY <2>1
      <4>2. spot[1] <= period BY <4>1 DEF InTime
      <4>3. spot[1] \in Nat /\ period \in Nat BY <2>1, SpotParts DEF Types
      <4> QED BY <4>2, <4>3
    <3>2. \A s \in Spots : period' < s[1] => sent'[s] = 0
      BY <1>1, <2>3, <3>1 DEF InTime, Items
    <3> QED BY <1>1, <2>1, <2>2, <3>2 DEF InTime
  <2>7. Smooth'
    <3> SUFFICES ASSUME ~trouble PROVE Uploaded'
      BY <1>1, <1>2 DEF Smooth
    <3>1. Uploaded BY <1>2
    <3>2. outstanding' # {} BY <2>4
    <3>3. uploading' BY <1>1, <1>3, <3>1 DEF Uploaded, Types
    <3>4. \A s \in Spots : s \in Range(spotQueue') => sent'[s] = 0
      BY <2>1, <2>2, <2>3, <3>1 DEF Uploaded, Items
    <3>5. \A s \in Spots : s \in file' => sent'[s] # 0 \/ s \in Range(spotQueue')
      BY <1>1, <2>1, <2>2, <2>3, <3>1 DEF Uploaded, Items, Types
    <3> QED BY <1>1, <1>3, <2>1, <2>2, <3>1, <3>2, <3>3, <3>4, <3>5 DEF Uploaded
  <2> QED BY <2>5, <2>6, <2>7
<1>4. CASE ~(spotsToSend /\ spotQueue # <<>>)
  <2>1. timer' = FALSE /\ UNCHANGED <<spotQueue, outstanding, sent>> BY <1>4 DEF work
  <2>2. Types' BY <1>1, <2>1 DEF Types
  <2>3. InTime' BY <1>1, <2>1 DEF InTime
  <2>4. Smooth' BY <1>1, <1>2, <1>4, <2>1 DEF Smooth, Uploaded
  <2> QED BY <2>2, <2>3, <2>4
<1> QED BY <1>3, <1>4

\* A request failed.
LEMMA ErrorKeeps ==
  ASSUME Inv, NEW request \in outstanding, networkError(request) PROVE Inv'
<1> USE DEF Inv
<1>1. /\ outstanding' = outstanding \ {request} /\ failed' = TRUE
      /\ UNCHANGED <<mode, period, decoding, audio, unprinted, again, file, uploadTimer, uploading,
                     spotQueue, spotsToSend, timer, uploadType, sent, trouble>>
  BY DEF networkError, decoder
<1>2. Types' BY <1>1 DEF Types
<1>3. InTime' BY <1>1 DEF InTime
<1>4. Smooth' BY <1>1 DEF Smooth, Waiting, Prepared, Uploaded
<1> QED BY <1>2, <1>3, <1>4

\* A request was answered; with nothing left to send the upload is done.
LEMMA ReplyKeeps ==
  ASSUME Inv, NEW request \in outstanding, NEW added \in BOOLEAN, networkReply(request, added)
  PROVE  Inv'
<1> USE DEF Inv
<1> DEFINE refused == uploadType = 2 /\ ~added
           q == IF refused THEN <<>> ELSE spotQueue
<1>1. /\ outstanding' = outstanding \ {request} /\ spotQueue' = q
      /\ trouble' = (trouble \/ refused)
      /\ UNCHANGED <<mode, period, audio, unprinted, again, uploadTimer, spotsToSend, uploadType,
                     sent, failed>>
  BY DEF networkReply
<1>2. q # <<>> => UNCHANGED <<uploading, timer, file, decoding>> BY DEF networkReply
<1>3. q = <<>> =>
        /\ uploading' = FALSE /\ timer' = FALSE
        /\ \/ /\ decoding = "wsprd"
              /\ file' = file /\ decoding' \in {"wsprd", "unlinked"}
           \/ decoding # "wsprd" /\ file' = {} /\ decoding' = decoding
  BY DEF networkReply
<1>4. /\ q \in Seq(Items) /\ Range(q) \subseteq Range(spotQueue)
      /\ IsInjective(<<>>) /\ Range(<<>>) = {}
      /\ ~refused => q = spotQueue
  <2>1. CASE refused
    BY <2>1, NoneQueued
  <2>2. CASE ~refused
    BY <2>2, NoneQueued DEF Types
  <2> QED BY <2>1, <2>2
<1> HIDE DEF q
<1>5. /\ file' = file \/ file' = {}
      /\ decoding' \in {"no", "jt9", "wsprd", "unlinked"} /\ (decoding' = "no" <=> decoding = "no")
      /\ uploading' \in BOOLEAN /\ timer' \in BOOLEAN
  BY <1>2, <1>3 DEF Types
<1>6. refused \in BOOLEAN OBVIOUS
<1> HIDE DEF refused
<1>7. Types'
  <2>1. trouble' \in BOOLEAN BY <1>1, <1>6 DEF Types
  <2> QED BY <1>1, <1>4, <1>5, <2>1 DEF Types
<1>8. InTime' BY <1>1, <1>4, <1>5 DEF InTime
<1>9. Smooth'
  <2> SUFFICES ASSUME ~trouble' PROVE uploadType # 3 /\ ~Waiting' /\ Uploaded'
    BY <1>1 DEF Smooth
  <2>1. ~trouble /\ ~refused BY <1>1, <1>6 DEF Types
  <2>2. uploadType # 3 /\ ~Waiting /\ Uploaded /\ decoding = "no"
    BY <2>1 DEF Smooth, Prepared, Waiting
  <2>3. spotQueue' = spotQueue /\ ~Waiting' BY <1>1, <1>4, <1>5, <2>1, <2>2 DEF Waiting
  <2>4. CASE q = <<>>
    <3>1. uploading' = FALSE /\ file' = {} /\ spotQueue' = <<>> /\ Range(spotQueue') = {}
      BY <1>1, <1>3, <1>4, <2>2, <2>4
    <3> QED BY <1>4, <2>2, <2>3, <3>1 DEF Uploaded
  <2>5. CASE q # <<>>
    BY <1>1, <1>2, <2>2, <2>3, <2>5 DEF Uploaded
  <2> QED BY <2>4, <2>5
<1> QED BY <1>7, <1>8, <1>9

\* Every step keeps the invariant.
LEMMA StepKeeps == Inv /\ [Next]_vars => Inv'
<1> SUFFICES ASSUME Inv, [Next]_vars PROVE Inv'
  OBVIOUS
<1>1. CASE UNCHANGED vars
  <2>1. UNCHANGED <<mode, period, decoding, audio, unprinted, again, file, uploadTimer, uploading,
                    spotQueue, spotsToSend, timer, uploadType, outstanding, sent, failed, trouble>>
    BY <1>1 DEF vars, decoder
  <2> QED BY <2>1 DEF Inv, Types, InTime, Smooth, Waiting, Prepared, Uploaded
<1>2. CASE \E spot \in Spots : Post(spot)
  BY <1>2, PostKeeps
<1>3. CASE \E lines \in Written, upload \in BOOLEAN : DecodeEnd(lines, upload)
  BY <1>3, DecodeEndKeeps
<1>4. CASE \E onBand \in OnBand : uploadWSPRSpots(onBand)
  BY <1>4, UploadKeeps
<1>5. CASE \E request \in outstanding :
             networkError(request) \/ \E added \in Answers(request) : networkReply(request, added)
  <2>1. PICK request \in outstanding :
          networkError(request) \/ \E added \in Answers(request) : networkReply(request, added)
    BY <1>5
  <2>2. Answers(request) \subseteq BOOLEAN BY DEF Answers
  <2> QED BY <2>1, <2>2, ErrorKeeps, ReplyKeeps
<1> QED BY <1>1, <1>2, <1>3, <1>4, <1>5, DecodeStartKeeps, DecodeAgainKeeps, NoUploadKeeps, WorkKeeps
        DEF Next

\* So the invariant holds always.
LEMMA Always == Spec => []Inv
BY Initially, StepKeeps, PTL DEF Spec

-----------------------------------------------------------------------------
(* What the invariant is for. *)

\* The types follow.
LEMMA TypesSuffice == Inv => TypeOK
BY DEF Inv, Types, TypeOK

\* A period without trouble, once it is answered, has left nothing.
LEMMA SmoothRecovers == Inv => Recovers
<1> SUFFICES ASSUME Inv, ~trouble, ~failed, decoding = "no", ~uploadTimer, ~timer,
                    outstanding = {}
             PROVE  Clean
  BY DEF Recovers
<1>1. uploadType # 3 /\ Uploaded BY DEF Inv, Smooth, Waiting
<1> QED BY <1>1 DEF Uploaded, Clean

LossStep == \A s \in Unsent \ Unsent' : sent'[s] > 0 \/ trouble \/ trouble'

TwiceStep == \A s \in Spots : sent'[s] > sent[s] /\ sent[s] > 0 => trouble

\* Only the timer sends, and only what was not sent.
LEMMA StepSendsOnce == Inv /\ [Next]_vars => TwiceStep
<1> SUFFICES ASSUME Inv, [Next]_vars PROVE TwiceStep
  OBVIOUS
<1>1. CASE sent' = sent
  <2>1. \A s \in Spots : sent[s] \in Nat BY DEF Inv, Types, Items
  <2> QED BY <1>1, <2>1 DEF TwiceStep
<1>2. CASE sent' # sent
  <2>1. work
    BY <1>2 DEF Next, vars, DecodeStart, DecodeAgain, Post, DecodeEnd, ChangeMode, UploadSkipped,
       uploadWSPRSpots, networkError, networkReply
  <2>2. timer /\ spotQueue # <<>> /\ sent' = [sent EXCEPT ![Head(spotQueue)] = @ + 1]
    BY <1>2, <2>1 DEF work
  <2>3. Head(spotQueue) \in Range(spotQueue) /\ sent \in [Items -> Nat]
    BY <2>2, Dequeued DEF Inv, Types
  <2>4. \A s \in Spots : s # Head(spotQueue) => sent'[s] = sent[s] BY <2>2, <2>3 DEF Items
  <2>5. \A s \in Spots : s \in Range(spotQueue) => sent[s] = 0 \/ trouble
    BY <2>2 DEF Inv, Smooth, Uploaded, Prepared, Types
  <2> HIDE DEF Inv
  <2>6. ASSUME NEW s \in Spots, sent'[s] > sent[s], sent[s] > 0 PROVE trouble
    <3>1. sent[s] \in Nat BY <2>3 DEF Items
    <3>2. s = Head(spotQueue) BY <2>4, <2>6, <3>1
    <3> QED BY <2>3, <2>5, <2>6, <3>1, <3>2
  <2> QED BY <2>6 DEF TwiceStep
<1> QED BY <1>1, <1>2

\* A spot that is not sent stays in the file or the queue, or is sent.
LEMMA StepLosesNothing == Inv /\ [Next]_vars => LossStep
<1> SUFFICES ASSUME Inv, [Next]_vars, ~trouble, ~trouble',
                    NEW s \in Spots, sent[s] = 0, s \in file \cup Range(spotQueue),
                    s \notin Unsent', ~(sent'[s] > 0)
             PROVE  FALSE
  BY DEF LossStep, Unsent
<1>1. Types /\ uploadType # 3 /\ (Waiting => Prepared) /\ (~Waiting => Uploaded)
  BY DEF Inv, Smooth
<1>2. s \in Items BY DEF Items
<1>3. Inv' BY StepKeeps
<1>4. sent'[s] = 0
  <2>1. sent'[s] \in Nat BY <1>2, <1>3 DEF Inv, Types
  <2> QED BY <2>1
<1>5. s \notin file' \cup Range(spotQueue') BY <1>4 DEF Unsent
<1>6. CASE UNCHANGED vars \/ ChangeMode \/ UploadSkipped
  <2>1. file' = file /\ spotQueue' = spotQueue
    BY <1>6 DEF vars, ChangeMode, UploadSkipped
  <2> QED BY <1>5, <2>1
<1>7. CASE DecodeStart
  <2>1. Clean /\ ~Waiting BY <1>7 DEF DecodeStart, Waiting, Types
  <2>2. file = {} /\ spotQueue = <<>> BY <1>1, <2>1 DEF Clean, Uploaded
  <2> QED BY <2>2, NoneQueued
<1>8. CASE \E spot \in Spots : Post(spot)
  <2>1. PICK spot \in Spots : Post(spot) BY <1>8
  <2>2. file' = file /\ spotQueue' = Append(spotQueue, spot) BY <2>1 DEF Post
  <2>3. Range(spotQueue') = Range(spotQueue) \cup {spot}
    BY <1>1, <2>2, Enqueued DEF Types, Items
  <2> QED BY <1>5, <2>2, <2>3
<1>9. CASE \E lines \in Written, upload \in BOOLEAN : DecodeEnd(lines, upload)
  <2>1. decoding # "no" /\ spotQueue' = spotQueue BY <1>9 DEF DecodeEnd
  <2>2. file = {} BY <1>1, <2>1 DEF Prepared, Waiting
  <2> QED BY <1>5, <2>1, <2>2
<1>10. CASE \E onBand \in OnBand : uploadWSPRSpots(onBand)
  <2>1. PICK onBand \in OnBand : uploadWSPRSpots(onBand) BY <1>10
  <2>2. uploadTimer /\ file' = file BY <2>1 DEF uploadWSPRSpots
  <2>3. ~uploading BY <1>1, <2>2 DEF Prepared, Waiting
  <2>4. spotQueue' = QueuedAfter(spotQueue, onBand) BY <2>1, <2>3 DEF uploadWSPRSpots
  <2>5. Range(spotQueue) \subseteq Range(spotQueue')
    BY <1>1, <2>4, QueuedAfterIs DEF Types
  <2> QED BY <1>5, <2>2, <2>5
<1>11. CASE work
  <2>1. CASE spotsToSend /\ spotQueue # <<>>
    <3>1. /\ spotQueue' = Tail(spotQueue) /\ sent' = [sent EXCEPT ![Head(spotQueue)] = @ + 1]
      BY <1>11, <2>1 DEF work
    <3>2. file' = file BY <1>11 DEF work
    <3>3. Range(spotQueue) = Range(spotQueue') \cup {Head(spotQueue)}
      BY <1>1, <2>1, <3>1, Dequeued DEF Types
    <3>4. s = Head(spotQueue) BY <1>5, <3>2, <3>3
    <3>5. sent'[s] = sent[s] + 1 BY <1>1, <1>2, <3>1, <3>4 DEF Types
    <3> QED BY <1>4, <3>5
  <2>2. CASE ~(spotsToSend /\ spotQueue # <<>>)
    <3>1. spotQueue' = spotQueue /\ file' = file BY <1>11, <2>2 DEF work
    <3> QED BY <1>5, <3>1
  <2> QED BY <2>1, <2>2
<1>12. CASE \E request \in outstanding :
              networkError(request) \/ \E added \in Answers(request) : networkReply(request, added)
  <2>1. PICK request \in outstanding :
          networkError(request) \/ \E added \in Answers(request) : networkReply(request, added)
    BY <1>12
  <2>2. CASE networkError(request)
    <3>1. file' = file /\ spotQueue' = spotQueue BY <2>2 DEF networkError
    <3> QED BY <1>5, <3>1
  <2>3. CASE \E added \in Answers(request) : networkReply(request, added)
    <3>1. PICK added \in Answers(request) : networkReply(request, added) BY <2>3
    <3>2. ~Waiting /\ Uploaded BY <1>1 DEF Prepared
    <3>3. /\ spotQueue' = (IF uploadType = 2 /\ ~added THEN <<>> ELSE spotQueue)
          /\ trouble' = (trouble \/ (uploadType = 2 /\ ~added))
      BY <3>1 DEF networkReply
    <3>4. spotQueue' = spotQueue BY <3>3
    <3>5. CASE spotQueue = <<>>
      <4>1. Range(spotQueue) = {} BY <3>5, NoneQueued
      <4> QED BY <3>2, <4>1 DEF Uploaded
    <3>6. CASE spotQueue # <<>>
      <4>1. file' = file BY <3>1, <3>3, <3>4, <3>6 DEF networkReply
      <4> QED BY <1>5, <3>4, <4>1
    <3> QED BY <3>5, <3>6
  <2> QED BY <2>1, <2>2, <2>3
<1>13. CASE DecodeAgain
  <2>1. file' = file /\ spotQueue' = spotQueue BY <1>13 DEF DecodeAgain
  <2> QED BY <1>5, <2>1
<1> QED BY <1>6, <1>7, <1>8, <1>9, <1>10, <1>11, <1>12, <1>13 DEF Next

-----------------------------------------------------------------------------
\* Every variable keeps its type, whatever the operator and the server do.
THEOREM TypeCorrect == Spec => []TypeOK
BY Always, TypesSuffice, PTL

\* A period without trouble whose requests did not fail leaves nothing behind once they are
\* answered: the effects of a fault, of a change of mode while jt9 decodes and of a period
\* decoded again end with it.
THEOREM FaultsPass == Spec => []Recovers
BY Always, SmoothRecovers, PTL

\* No spot of a period without trouble is dropped before it is sent, also when requests fail.
THEOREM NoSpotLost == Spec => NothingLost
<1>1. Inv /\ [Next]_vars => [LossStep]_vars BY StepLosesNothing
<1>2. Spec => [][LossStep]_vars BY <1>1, Always, PTL DEF Spec
<1> QED BY <1>2 DEF NothingLost, LossStep

\* No spot is sent twice in a period without trouble, one decoded once only.
THEOREM NoSpotTwice == Spec => SentOnce
<1>1. Inv /\ [Next]_vars => [TwiceStep]_vars BY StepSendsOnce
<1>2. Spec => [][TwiceStep]_vars BY <1>1, Always, PTL DEF Spec
<1> QED BY <1>2 DEF SentOnce, TwiceStep
=============================================================================
