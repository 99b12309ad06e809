------------------------ MODULE FoxSequencer_proofs ------------------------
(***************************************************************************)
(* That Fox mode keeps its lists and its map of QSOs together, for any     *)
(* Hounds, bands and limits: a call is waiting or in QSO, and once         *)
(* (CalledOnce), a transmission fits its slots (SlotsFit), RR73 answers a  *)
(* report (RR73AnswersReport), is not sent beside one (OneMessageEach)     *)
(* and logs it (LoggedWithReport), a Hound is called until it answers      *)
(* (StillCalled), and every QSO ends once all are silent (EveryQSOEnds).   *)
(* An operator who double-clicks an empty list is left out (~EmptyClicks). *)
(*                                                                         *)
(* Lists is inductive: who is in QSO has an entry in m_foxQSO, so that     *)
(* nothing that reads the map adds to it; taking a call off a list leaves  *)
(* none of it, for it is there once; and so the entry may go with it.      *)
(* Answered, Apart and CallInv, each inductive with it, say what the map   *)
(* knows of those on the lists: that an R+rpt was received, that a call    *)
(* that waits has no QSO, and that a QSO the timer ends was answered, or   *)
(* began while the timer ran (rushed).                                     *)
(*                                                                         *)
(* Ending, inductive with these, is the last part: after idle silent       *)
(* transmissions enough of the Deadline is left for the calls still to be  *)
(* made (CallsEnd), or for whoever is in the map (OthersEnd), as who is    *)
(* in QSO with no call to be made is timed (Timed).                        *)
(*                                                                         *)
(* A loop that keeps some entries of a list (Pick) is the first part: the  *)
(* entries kept are numbered in their order, and each number is taken.     *)
(***************************************************************************)
EXTENDS FoxSequencer, TLAPS, SequenceTheorems, FiniteSetTheorems

-----------------------------------------------------------------------------
(* Picking from a sequence. *)

\* There are n numbers from 1 to n.
LEMMA CountTo ==
    ASSUME NEW n \in Nat
    PROVE  IsFiniteSet(1 .. n) /\ Cardinality(1 .. n) = n
<1>1. 1 \in Int /\ n \in Int OBVIOUS
<1> QED BY <1>1, FS_Interval

\* The members of a finite set of numbers are numbered in their order: of two the larger
\* has the larger number.
LEMMA RankGrows ==
    ASSUME NEW K \in SUBSET Int, IsFiniteSet(K), NEW k \in K, NEW l \in K, k < l
    PROVE  Cardinality({j \in K : j <= k}) < Cardinality({j \in K : j <= l})
<1> DEFINE A == {j \in K : j <= k}
           B == {j \in K : j <= l}
<1>1. B \in SUBSET K /\ A \in SUBSET B /\ A # B
  <2>1. ASSUME NEW j \in A PROVE j \in B
    <3>1. j \in Int /\ k \in Int /\ l \in Int /\ j <= k OBVIOUS
    <3> QED BY <3>1
  <2>2. l \in B /\ l \notin A OBVIOUS
  <2> QED BY <2>1, <2>2
<1>2. IsFiniteSet(B) BY <1>1, FS_Subset
<1> HIDE DEF A, B
<1>3. Cardinality(A) <= Cardinality(B) /\ Cardinality(A) # Cardinality(B)
  BY <1>1, <1>2, FS_Subset
<1>4. Cardinality(A) \in Nat /\ Cardinality(B) \in Nat
  BY <1>1, <1>2, FS_Subset, FS_CardinalityType
<1>5. Cardinality(A) < Cardinality(B) BY <1>3, <1>4
<1> QED BY <1>5 DEF A, B

\* The numbers are 1 to how many there are, each that of one member.
LEMMA RankIsOneToOne ==
    ASSUME NEW K \in SUBSET Int, IsFiniteSet(K)
    PROVE  LET rank(k) == Cardinality({j \in K : j <= k}) IN
           /\ Cardinality(K) \in Nat
           /\ \A k \in K : rank(k) \in 1 .. Cardinality(K)
           /\ \A i \in 1 .. Cardinality(K) : \E k \in K : rank(k) = i
           /\ \A k, l \in K : rank(k) = rank(l) => k = l
<1> DEFINE rank(k) == Cardinality({j \in K : j <= k})
           n == Cardinality(K)
           f == [k \in K |-> rank(k)]
<1>1. n \in Nat BY FS_CardinalityType
<1>2. ASSUME NEW k \in K PROVE rank(k) \in 1 .. n
  <2> DEFINE A == {j \in K : j <= k}
  <2>1. A \in SUBSET K /\ k \in A OBVIOUS
  <2> HIDE DEF A
  <2>2. IsFiniteSet(A) /\ Cardinality(A) <= n BY <2>1, FS_Subset
  <2>3. Cardinality(A) \in Nat /\ Cardinality(A) # 0
    BY <2>1, <2>2, FS_CardinalityType, FS_EmptySet
  <2>4. Cardinality(A) \in 1 .. n BY <1>1, <2>2, <2>3
  <2> QED BY <2>4 DEF A
<1>3. ASSUME NEW k \in K, NEW l \in K, rank(k) = rank(l) PROVE k = l
  <2>1. rank(k) \in Int /\ rank(l) \in Int BY <1>1, <1>2
  <2>2. ~(k < l) BY <1>3, <2>1, RankGrows
  <2>3. ~(l < k) BY <1>3, <2>1, RankGrows
  <2> QED BY <2>2, <2>3
<1> HIDE DEF rank, n
<1>4. f \in Injection(K, 1 .. n) BY <1>2, <1>3 DEF Injection, IsInjective
<1>5. IsFiniteSet(1 .. n) /\ Cardinality(1 .. n) = n BY <1>1, CountTo
<1>6. f \in Surjection(K, 1 .. n) BY <1>4, <1>5, FS_Injection DEF n
<1>7. \A i \in 1 .. n : \E k \in K : rank(k) = i BY <1>6 DEF Surjection
<1> QED BY <1>1, <1>2, <1>3, <1>7 DEF n, rank

\* What is picked are the entries at K, each once.
LEMMA PickFacts ==
    ASSUME NEW S, NEW s \in Seq(S), NEW K \in SUBSET (DOMAIN s)
    PROVE  /\ IsFiniteSet(K) /\ Cardinality(K) \in Nat /\ Cardinality(K) <= Len(s)
           /\ Pick(s, K) \in Seq(S) /\ Len(Pick(s, K)) = Cardinality(K)
           /\ Range(Pick(s, K)) = {s[k] : k \in K}
           /\ IsInjective(s) => IsInjective(Pick(s, K))
<1> DEFINE rank(k) == Cardinality({j \in K : j <= k})
           n == Cardinality(K)
           at == [i \in 1 .. n |-> CHOOSE k \in K : rank(k) = i]
           p == [i \in 1 .. n |-> s[at[i]]]
<1>1. DOMAIN s = 1 .. Len(s) /\ Len(s) \in Nat BY LenProperties
<1>2. IsFiniteSet(1 .. Len(s)) /\ Cardinality(1 .. Len(s)) = Len(s) BY <1>1, CountTo
<1>3. IsFiniteSet(K) /\ n \in Nat /\ n <= Len(s)
  <2>1. IsFiniteSet(K) /\ n <= Cardinality(1 .. Len(s)) BY <1>1, <1>2, FS_Subset
  <2> QED BY <1>2, <2>1, FS_CardinalityType
<1>4. K \in SUBSET Int BY <1>1
<1>5. /\ \A k \in K : rank(k) \in 1 .. n
      /\ \A i \in 1 .. n : \E k \in K : rank(k) = i
      /\ \A k, l \in K : rank(k) = rank(l) => k = l
  BY <1>3, <1>4, RankIsOneToOne
<1>6. Pick(s, K) = p BY DEF Pick
<1> HIDE DEF rank, n
<1>7. /\ \A i \in 1 .. n : at[i] \in K /\ rank(at[i]) = i
      /\ \A k \in K : \E i \in 1 .. n : at[i] = k
  <2>1. ASSUME NEW i \in 1 .. n PROVE at[i] \in K /\ rank(at[i]) = i
    <3>1. \E k \in K : rank(k) = i BY <1>5
    <3> QED BY <3>1
  <2> HIDE DEF at
  <2> QED BY <1>5, <2>1
<1>8. \A i, j \in 1 .. n : at[i] = at[j] => i = j BY <1>7
<1> HIDE DEF at
<1>9. p \in [1 .. n -> S] BY <1>1, <1>7, LenProperties
<1>10. p \in Seq(S) /\ Len(p) = n
  <2> HIDE DEF p
  <2>1. p \in Seq(S) BY <1>3, <1>9, SeqDef
  <2> QED BY <1>3, <1>9, <2>1, LenProperties
<1>11. Range(p) = {s[k] : k \in K} BY <1>7 DEF Range
<1>12. IsInjective(s) => IsInjective(p)
  <2> SUFFICES ASSUME IsInjective(s), NEW i \in 1 .. n, NEW j \in 1 .. n, p[i] = p[j]
               PROVE  i = j
    BY DEF IsInjective
  <2>1. s[at[i]] = s[at[j]] /\ at[i] \in DOMAIN s /\ at[j] \in DOMAIN s BY <1>7
  <2>2. at[i] = at[j] BY <2>1 DEF IsInjective
  <2> QED BY <1>8, <2>2
<1> HIDE DEF p
<1> QED BY <1>3, <1>6, <1>10, <1>11, <1>12 DEF n

\* The first of a sequence are a part of it, no more than asked for.
LEMMA FirstFacts ==
    ASSUME NEW S, NEW s \in Seq(S), NEW n \in Int
    PROVE  /\ First(s, n) \in Seq(S)
           /\ Len(First(s, n)) = IF Len(s) < n THEN Len(s) ELSE IF n > 0 THEN n ELSE 0
           /\ \A i \in DOMAIN First(s, n) : i \in DOMAIN s /\ First(s, n)[i] = s[i]
           /\ Range(First(s, n)) \subseteq Range(s)
<1> DEFINE m == IF Len(s) < n THEN Len(s) ELSE n
           f == First(s, n)
<1>1. /\ m \in Int /\ Len(s) \in Nat /\ m <= Len(s)
      /\ \A i \in 1 .. m : i \in DOMAIN s /\ s[i] \in S
  BY LenProperties
<1>2. f = SubSeq(s, 1, m) BY DEF First
<1>3. /\ SubSeq(s, 1, m) \in Seq(S)
      /\ Len(SubSeq(s, 1, m)) = IF 1 <= m THEN m - 1 + 1 ELSE 0
      /\ \A i \in 1 .. m - 1 + 1 : SubSeq(s, 1, m)[i] = s[1 + i - 1]
  <2>1. 1 \in Int /\ \A i \in 1 .. m : s[i] \in S BY <1>1
  <2> HIDE DEF m
  <2> QED BY <1>1, <2>1, SubSeqProperties
<1>4. f \in Seq(S) /\ Len(f) = (IF m > 0 THEN m ELSE 0)
  <2> HIDE DEF m, f
  <2> QED BY <1>1, <1>2, <1>3
<1>5. \A i \in DOMAIN f : i \in 1 .. m /\ i \in DOMAIN s /\ f[i] = s[i]
  <2> HIDE DEF m, f
  <2>1. DOMAIN f = 1 .. Len(f) BY <1>4, LenProperties
  <2> QED BY <1>1, <1>2, <1>3, <1>4, <2>1
<1>6. Len(f) = IF Len(s) < n THEN Len(s) ELSE IF n > 0 THEN n ELSE 0
  <2> HIDE DEF f
  <2> QED BY <1>1, <1>4
<1>7. Range(f) \subseteq Range(s)
  <2> HIDE DEF m, f
  <2> QED BY <1>5 DEF Range
<1> QED BY <1>4, <1>5, <1>6, <1>7

\* A sequence has no more values than entries.
LEMMA RangeCount ==
    ASSUME NEW S, NEW s \in Seq(S)
    PROVE  /\ IsFiniteSet(Range(s)) /\ Cardinality(Range(s)) \in Nat
           /\ Cardinality(Range(s)) <= Len(s)
<1>1. DOMAIN s = 1 .. Len(s) /\ Len(s) \in Nat /\ s \in [1 .. Len(s) -> S] BY LenProperties
<1>2. IsFiniteSet(1 .. Len(s)) /\ Cardinality(1 .. Len(s)) = Len(s) BY <1>1, CountTo
<1>3. s \in Surjection(1 .. Len(s), Range(s)) BY <1>1 DEF Surjection, Range
<1>4. IsFiniteSet(Range(s)) /\ Cardinality(Range(s)) <= Cardinality(1 .. Len(s))
  BY <1>2, <1>3, FS_Surjection
<1> QED BY <1>2, <1>4, FS_CardinalityType

\* removeOne () of calls, from a list that has each once, leaves the others.
LEMMA WithoutFacts ==
    ASSUME NEW S, NEW s \in Seq(S), IsInjective(s), NEW calls
    PROVE  /\ Without(s, calls) \in Seq(S)
           /\ IsInjective(Without(s, calls))
           /\ Range(Without(s, calls)) = Range(s) \ calls
<1> DEFINE K == {i \in DOMAIN s : s[i] \in calls => \E j \in 1 .. i - 1 : s[j] = s[i]}
<1>1. DOMAIN s = 1 .. Len(s) /\ Len(s) \in Nat BY LenProperties
<1>2. K = {i \in DOMAIN s : s[i] \notin calls}
  <2> SUFFICES ASSUME NEW i \in DOMAIN s, NEW j \in 1 .. i - 1, s[j] = s[i] PROVE FALSE
    OBVIOUS
  <2>1. i \in 1 .. Len(s) /\ j \in 1 .. Len(s) /\ j # i BY <1>1
  <2> QED BY <1>1, <2>1 DEF IsInjective
<1>3. Without(s, calls) = Pick(s, K) BY DEF Without
<1>4. {s[k] : k \in K} = Range(s) \ calls BY <1>2 DEF Range
<1>5. K \in SUBSET (DOMAIN s) OBVIOUS
<1> HIDE DEF K
<1> QED BY <1>3, <1>4, <1>5, PickFacts

-----------------------------------------------------------------------------
(* Who a transmission is for. *)

\* A pass adds no more than there is room for.
LEMMA PassCount ==
    ASSUME NEW list \in SUBSET Nat, IsFiniteSet(list), NEW due \in SUBSET Nat, IsFiniteSet(due),
           NEW room \in Nat, Cardinality(list) <= room
    PROVE  /\ IsFiniteSet(Pass(list, due, room))
           /\ Cardinality(Pass(list, due, room)) <= room
<1> DEFINE more == {c \in due \ list : QSO(c).tFoxRrpt >= 0}
           before(c) == {d \in more : d < c}
           M == {c \in more : Cardinality(list) + Cardinality(before(c)) < room}
<1>1. more \in SUBSET due /\ M \in SUBSET more /\ M \cap list = {} OBVIOUS
<1>2. IsFiniteSet(more) /\ IsFiniteSet(M) BY <1>1, FS_Subset
<1>3. Cardinality(list) \in Nat /\ Cardinality(M) \in Nat BY <1>2, FS_CardinalityType
<1>4. Pass(list, due, room) = list \cup M BY DEF Pass
<1>5. M \in SUBSET Int /\ more \in SUBSET Int
  <2> HIDE DEF more, M
  <2> QED BY <1>1
<1>6. \A c \in M : Cardinality(list) + Cardinality(before(c)) < room OBVIOUS
<1>7. \A c : before(c) \in SUBSET more OBVIOUS
<1>8. Cardinality(list) + Cardinality(M) <= room
  <2> SUFFICES ASSUME Cardinality(M) # 0 PROVE Cardinality(list) + Cardinality(M) <= room
    BY <1>3
  <2>1. Cardinality(M) \in 1 .. Cardinality(M) BY <1>3
  <2> HIDE DEF M
  <2>2. PICK c \in M : Cardinality({j \in M : j <= c}) = Cardinality(M)
    BY <1>2, <1>5, <2>1, RankIsOneToOne
  <2>3. {j \in M : j <= c} \in SUBSET M OBVIOUS
  <2>4. M = {j \in M : j <= c} BY <1>2, <2>2, <2>3, FS_Subset
  <2>5. M \ {c} \in SUBSET before(c)
    <3> SUFFICES ASSUME NEW j \in M \ {c} PROVE j \in more /\ j < c OBVIOUS
    <3>1. j <= c /\ j \in Int /\ c \in Int BY <1>5, <2>4
    <3> QED BY <1>1, <3>1
  <2>6. IsFiniteSet(before(c)) BY <1>2, <1>7, FS_Subset
  <2> HIDE DEF before
  <2>7. IsFiniteSet(M \ {c}) /\ Cardinality(M \ {c}) = Cardinality(M) - 1
    BY <1>2, <2>2, FS_RemoveElement
  <2>8. Cardinality(M \ {c}) <= Cardinality(before(c)) BY <2>5, <2>6, FS_Subset
  <2>9. Cardinality(before(c)) \in Nat BY <2>6, FS_CardinalityType
  <2> QED BY <1>3, <1>6, <2>2, <2>7, <2>8, <2>9
<1> HIDE DEF M
<1>9. IsFiniteSet(list \cup M)
      /\ Cardinality(list \cup M) = Cardinality(list) + Cardinality(M) - Cardinality(list \cap M)
  BY <1>2, FS_Union
<1>10. Cardinality(list \cap M) = 0 BY <1>1, FS_EmptySet
<1> QED BY <1>3, <1>4, <1>8, <1>9, <1>10

\* A pass adds those who are due RR73 and of whom a report was received.
LEMMA PassRange ==
    ASSUME NEW list, NEW due, NEW room
    PROVE  Pass(list, due, room) \subseteq list \cup {c \in due : QSO(c).tFoxRrpt >= 0}
BY DEF Pass

\* RR73 is for Hounds in m_foxQSO of whom a report was received.
LEMMA List1Range ==
    ASSUME NEW room
    PROVE  \A c \in List1(room) : c \in DOMAIN foxQSO /\ foxQSO[c].tFoxRrpt >= 0
<1> DEFINE one == {c \in DOMAIN foxQSO : QSO(c).tFoxRrpt - QSO(c).tFoxTxRR73 > 3}
           two == {c \in DOMAIN foxQSO : QSO(c).tFoxTxRR73 < 0}
           three == {c \in DOMAIN foxQSO : QSO(c).tFoxTxRR73 <= QSO(c).tFoxRrpt}
           first == Pass({}, one, room)
           second == Pass(first, two, room)
           answered == {c \in DOMAIN foxQSO : QSO(c).tFoxRrpt >= 0}
<1>1. List1(room) = Pass(second, three, room) BY DEF List1
<1>2. /\ one \subseteq DOMAIN foxQSO /\ two \subseteq DOMAIN foxQSO
      /\ three \subseteq DOMAIN foxQSO
  OBVIOUS
<1>3. \A c \in answered : c \in DOMAIN foxQSO /\ foxQSO[c].tFoxRrpt >= 0 BY DEF QSO
<1> HIDE DEF one, two, three
<1>4. first \subseteq answered BY <1>2, PassRange
<1> HIDE DEF first
<1>5. second \subseteq answered BY <1>2, <1>4, PassRange
<1> HIDE DEF second
<1>6. Pass(second, three, room) \subseteq answered BY <1>2, <1>5, PassRange
<1> QED BY <1>1, <1>3, <1>6

\* They are no more than there is room for.
LEMMA List1Count ==
    ASSUME TypeOK, NEW room \in Nat
    PROVE  IsFiniteSet(List1(room)) /\ Cardinality(List1(room)) \in Nat
           /\ Cardinality(List1(room)) <= room
<1> DEFINE one == {c \in DOMAIN foxQSO : QSO(c).tFoxRrpt - QSO(c).tFoxTxRR73 > 3}
           two == {c \in DOMAIN foxQSO : QSO(c).tFoxTxRR73 < 0}
           three == {c \in DOMAIN foxQSO : QSO(c).tFoxTxRR73 <= QSO(c).tFoxRrpt}
           first == Pass({}, one, room)
           second == Pass(first, two, room)
<1>1. List1(room) = Pass(second, three, room) BY DEF List1
<1>2. IsFiniteSet(DOMAIN foxQSO) /\ DOMAIN foxQSO \in SUBSET Nat
  <2>1. IsFiniteSet(Calls \cup {NoCall}) BY FoxAssumption, FS_AddElement
  <2>2. DOMAIN foxQSO \in SUBSET (Calls \cup {NoCall}) BY DEF TypeOK
  <2>3. Calls \cup {NoCall} \in SUBSET Nat BY FoxAssumption DEF NoCall
  <2> QED BY <2>1, <2>2, <2>3, FS_Subset
<1>3. /\ one \in SUBSET DOMAIN foxQSO /\ two \in SUBSET DOMAIN foxQSO
      /\ three \in SUBSET DOMAIN foxQSO
  OBVIOUS
<1>4. first \subseteq DOMAIN foxQSO
  <2> HIDE DEF one
  <2> QED BY <1>3, PassRange
<1>5. second \subseteq DOMAIN foxQSO
  <2> HIDE DEF first, two
  <2> QED BY <1>3, <1>4, PassRange
<1> HIDE DEF one, two, three
<1>6. /\ IsFiniteSet(one) /\ IsFiniteSet(two) /\ IsFiniteSet(three)
      /\ one \in SUBSET Nat /\ two \in SUBSET Nat /\ three \in SUBSET Nat
  <2>1. IsFiniteSet(one) /\ IsFiniteSet(two) /\ IsFiniteSet(three) BY <1>2, <1>3, FS_Subset
  <2> QED BY <1>2, <1>3, <2>1
<1>7. IsFiniteSet(first) /\ Cardinality(first) <= room
  <2>1. IsFiniteSet({}) /\ Cardinality({}) <= room BY FS_EmptySet
  <2> QED BY <1>6, <2>1, PassCount
<1> HIDE DEF first
<1>8. IsFiniteSet(second) /\ Cardinality(second) <= room BY <1>2, <1>4, <1>6, <1>7, PassCount
<1> HIDE DEF second
<1>9. IsFiniteSet(List1(room)) /\ Cardinality(List1(room)) <= room
  BY <1>1, <1>2, <1>5, <1>6, <1>8, PassCount
<1> QED BY <1>9, FS_CardinalityType

\* The settings are numbers of slots.
LEMMA SettingsTypes ==
    ASSUME NEW set \in Settings
    PROVE  /\ set.slots \in Nat \ {0} /\ set.reports \in Nat /\ set.first \in Nat
           /\ set.first = 0 \/ set.reports = set.slots
BY FoxAssumption DEF Settings

\* A sequence has a value exactly if it has an entry.
LEMMA SomeEntry ==
    ASSUME NEW S, NEW s \in Seq(S)
    PROVE  Len(s) \in Nat /\ (Range(s) # {} <=> Len(s) > 0)
<1>1. DOMAIN s = 1 .. Len(s) /\ Len(s) \in Nat BY LenProperties
<1>2. Len(s) > 0 <=> 1 .. Len(s) # {} BY <1>1
<1> QED BY <1>1, <1>2 DEF Range

\* Those called again are in QSO, once, and no report of them was received.
LEMMA AgainFacts ==
    ASSUME TypeOK, ~EmptyClicks, NEW room \in Int
    PROVE  /\ CallAgain(room) \in Seq(Calls) /\ Len(CallAgain(room)) \in Nat
           /\ room >= 0 => Len(CallAgain(room)) <= room
           /\ \A c \in Range(CallAgain(room)) :
                c \in Range(inProgress) /\ QSO(c).tFoxRrpt < 0 /\ QSO(c).ncall < MaxStrikes
           /\ \A c \in Range(inProgress) :
                QSO(c).tFoxRrpt < 0 /\ QSO(c).ncall < MaxStrikes /\ room > 0
                  => Len(CallAgain(room)) > 0
<1> DEFINE K == {i \in DOMAIN inProgress :
                   QSO(inProgress[i]).tFoxRrpt < 0 /\ QSO(inProgress[i]).ncall < MaxStrikes}
           again == Pick(inProgress, K)
<1>1. inProgress \in Seq(Calls) BY DEF TypeOK, Entries
<1>2. K \in SUBSET (DOMAIN inProgress) OBVIOUS
<1>3. /\ \A k \in K : /\ inProgress[k] \in Range(inProgress) /\ QSO(inProgress[k]).tFoxRrpt < 0
                     /\ QSO(inProgress[k]).ncall < MaxStrikes
      /\ \A c \in Range(inProgress) :
           QSO(c).tFoxRrpt < 0 /\ QSO(c).ncall < MaxStrikes => K # {}
  BY DEF Range
<1>4. CallAgain(room) = First(again, room) BY DEF CallAgain
<1> HIDE DEF K
<1>5. again \in Seq(Calls) /\ Range(again) = {inProgress[k] : k \in K} BY <1>1, <1>2, PickFacts
<1> HIDE DEF again
<1>6. /\ First(again, room) \in Seq(Calls) /\ Range(First(again, room)) \subseteq Range(again)
      /\ Len(First(again, room)) = IF Len(again) < room THEN Len(again)
                                   ELSE IF room > 0 THEN room ELSE 0
  BY <1>5, FirstFacts
<1>7. Len(again) \in Nat /\ Len(First(again, room)) \in Nat BY <1>5, <1>6, LenProperties
<1>8. K # {} => Len(again) > 0
  <2>1. K # {} => Range(again) # {} BY <1>5
  <2>2. Range(again) # {} => Len(again) > 0 BY <1>5, <1>7, SomeEntry
  <2> QED BY <2>1, <2>2
<1>9. K # {} /\ room > 0 => Len(First(again, room)) > 0 BY <1>6, <1>7, <1>8
<1> QED BY <1>3, <1>4, <1>5, <1>6, <1>7, <1>9

\* Whatever is set, the plan takes Hounds from the head of the queue, and calls them and
\* those still to be called.
LEMMA PlanFacts ==
    ASSUME TypeOK, ~EmptyClicks, NEW set \in Settings
    PROVE  LET plan == Plan(set) IN
           /\ plan.fresh \in Seq(Calls) /\ Len(plan.fresh) <= Len(houndQueue)
           /\ \A i \in DOMAIN plan.fresh : i \in DOMAIN houndQueue /\ plan.fresh[i] = houndQueue[i]
           /\ \A c \in plan.list1 : c \in DOMAIN foxQSO /\ foxQSO[c].tFoxRrpt >= 0
           /\ \A c \in plan.called : \/ c \in Range(plan.fresh)
                                     \/ /\ c \in Range(inProgress) /\ QSO(c).tFoxRrpt < 0
                                        /\ QSO(c).ncall < MaxStrikes
           /\ plan.cqAlone => plan.fresh = <<>> /\ plan.list1 = {} /\ plan.called = {}
<1> DEFINE room == set.reports - set.first
           again == CallAgain(room)
           fresh == First(houndQueue, room - Len(again))
           called == Range(First(again \o fresh, set.slots))
           list1 == List1(set.slots - set.first)
<1>1. set.slots \in Int /\ room \in Int BY SettingsTypes
<1> HIDE DEF room
<1>2. /\ again \in Seq(Calls) /\ Len(again) \in Nat
      /\ \A c \in Range(again) :
           c \in Range(inProgress) /\ QSO(c).tFoxRrpt < 0 /\ QSO(c).ncall < MaxStrikes
  BY <1>1, AgainFacts
<1> HIDE DEF again
<1>3. houndQueue \in Seq(Calls) /\ Len(houndQueue) \in Nat BY LenProperties DEF TypeOK, Entries
<1>4. /\ fresh \in Seq(Calls)
      /\ \A i \in DOMAIN fresh : i \in DOMAIN houndQueue /\ fresh[i] = houndQueue[i]
      /\ Len(fresh) <= Len(houndQueue)
  <2>1. room - Len(again) \in Int BY <1>1, <1>2
  <2> DEFINE n == room - Len(again)
  <2> HIDE DEF n
  <2>2. /\ First(houndQueue, n) \in Seq(Calls)
        /\ Len(First(houndQueue, n)) = IF Len(houndQueue) < n THEN Len(houndQueue)
                                       ELSE IF n > 0 THEN n ELSE 0
        /\ \A i \in DOMAIN First(houndQueue, n) :
             i \in DOMAIN houndQueue /\ First(houndQueue, n)[i] = houndQueue[i]
    BY <1>3, <2>1, FirstFacts DEF n
  <2>3. Len(First(houndQueue, n)) <= Len(houndQueue) BY <1>3, <2>1, <2>2 DEF n
  <2> QED BY <2>2, <2>3 DEF n
<1> HIDE DEF fresh
<1>5. called \subseteq Range(again) \cup Range(fresh)
  <2>1. again \o fresh \in Seq(Calls) /\ Range(again \o fresh) = Range(again) \cup Range(fresh)
    BY <1>2, <1>4, ConcatProperties, RangeConcatenation
  <2> QED BY <1>1, <2>1, FirstFacts
<1>6. \A c \in list1 : c \in DOMAIN foxQSO /\ foxQSO[c].tFoxRrpt >= 0 BY List1Range
<1> HIDE DEF called, list1
<1>7. Plan(set) = IF set.moreCQs /\ tFoxTxSinceCQ >= FoxCQTime
                    THEN [cqAlone |-> TRUE, list1 |-> {}, fresh |-> <<>>, called |-> {}]
                    ELSE [cqAlone |-> FALSE, list1 |-> list1, fresh |-> fresh, called |-> called]
  BY DEF Plan, room, again, fresh, called, list1
<1>8. CASE Plan(set) = [cqAlone |-> TRUE, list1 |-> {}, fresh |-> <<>>, called |-> {}]
  <2>1. <<>> \in Seq(Calls) /\ Len(<<>>) = 0 /\ DOMAIN <<>> = {} BY EmptySeq
  <2> QED BY <1>3, <1>8, <2>1
<1>9. CASE Plan(set) = [cqAlone |-> FALSE, list1 |-> list1, fresh |-> fresh, called |-> called]
  BY <1>2, <1>4, <1>5, <1>6, <1>9
<1> QED BY <1>7, <1>8, <1>9

\* The hidden counts: messages for those on list1, and for those called, are within the slots.
LEMMA PlanCounts ==
    ASSUME TypeOK, ~EmptyClicks, NEW set \in Settings, set.first <= set.slots
    PROVE  LET plan == Plan(set) IN
           /\ Cardinality(plan.list1) \in Nat /\ Cardinality(plan.called) \in Nat
           /\ set.first + Cardinality(plan.list1) <= set.slots
           /\ set.first + Cardinality(plan.called) <= set.slots
<1> DEFINE room == set.reports - set.first
           again == CallAgain(room)
           fresh == First(houndQueue, room - Len(again))
           sent == First(again \o fresh, set.slots)
           called == Range(sent)
           list1 == List1(set.slots - set.first)
<1>1. /\ set.slots \in Nat \ {0} /\ set.reports \in Nat /\ set.first \in Nat
      /\ set.first = 0 \/ set.reports = set.slots
  BY SettingsTypes
<1>2. room \in Int /\ (set.first # 0 => room = set.slots - set.first /\ room >= 0) BY <1>1
<1>3. set.slots - set.first \in Nat BY <1>1
<1>4. Cardinality(list1) \in Nat /\ Cardinality(list1) <= set.slots - set.first
  BY <1>3, List1Count
<1> HIDE DEF room, list1
<1>5. /\ again \in Seq(Calls) /\ Len(again) \in Nat
      /\ room >= 0 => Len(again) <= room
  BY <1>2, AgainFacts
<1> HIDE DEF again
<1>6. fresh \in Seq(Calls) /\ Len(fresh) \in Nat /\ (room >= 0 => Len(fresh) <= room - Len(again))
  <2> DEFINE n == room - Len(again)
  <2>1. n \in Int /\ (room >= 0 => n >= 0) BY <1>2, <1>5
  <2>2. houndQueue \in Seq(Calls) /\ Len(houndQueue) \in Nat BY LenProperties DEF TypeOK, Entries
  <2> HIDE DEF n
  <2>3. /\ First(houndQueue, n) \in Seq(Calls)
        /\ Len(First(houndQueue, n)) = IF Len(houndQueue) < n THEN Len(houndQueue)
                                       ELSE IF n > 0 THEN n ELSE 0
    BY <2>1, <2>2, FirstFacts
  <2>4. Len(First(houndQueue, n)) \in Nat /\ (room >= 0 => Len(First(houndQueue, n)) <= n)
    BY <2>1, <2>2, <2>3
  <2> QED BY <2>3, <2>4 DEF n
<1> HIDE DEF fresh
<1>7. again \o fresh \in Seq(Calls) /\ Len(again \o fresh) = Len(again) + Len(fresh)
  BY <1>5, <1>6, ConcatProperties
<1>8. /\ sent \in Seq(Calls) /\ Len(sent) \in Nat /\ Len(sent) <= set.slots
      /\ Len(sent) <= Len(again) + Len(fresh)
  <2> DEFINE s == again \o fresh
  <2>1. s \in Seq(Calls) /\ Len(s) \in Nat /\ Len(s) = Len(again) + Len(fresh)
    BY <1>5, <1>6, <1>7
  <2> HIDE DEF s
  <2>2. /\ First(s, set.slots) \in Seq(Calls)
        /\ Len(First(s, set.slots)) = IF Len(s) < set.slots THEN Len(s)
                                      ELSE IF set.slots > 0 THEN set.slots ELSE 0
    BY <1>1, <2>1, FirstFacts
  <2>3. /\ Len(First(s, set.slots)) \in Nat /\ Len(First(s, set.slots)) <= set.slots
        /\ Len(First(s, set.slots)) <= Len(s)
    BY <1>1, <2>1, <2>2
  <2> QED BY <2>1, <2>2, <2>3 DEF s
<1> HIDE DEF sent
<1>9. Cardinality(called) \in Nat /\ Cardinality(called) <= Len(sent) BY <1>8, RangeCount
<1> HIDE DEF called
<1>10. set.first + Cardinality(called) <= set.slots
  BY <1>1, <1>2, <1>5, <1>6, <1>8, <1>9
<1>11. Plan(set) = IF set.moreCQs /\ tFoxTxSinceCQ >= FoxCQTime
                     THEN [cqAlone |-> TRUE, list1 |-> {}, fresh |-> <<>>, called |-> {}]
                     ELSE [cqAlone |-> FALSE, list1 |-> list1, fresh |-> fresh, called |-> called]
  BY DEF Plan, room, again, fresh, sent, called, list1
<1>12. CASE Plan(set) = [cqAlone |-> TRUE, list1 |-> {}, fresh |-> <<>>, called |-> {}]
  <2>1. Cardinality({}) = 0 BY FS_EmptySet
  <2>2. Plan(set).list1 = {} /\ Plan(set).called = {} BY <1>12
  <2>3. set.first + 0 <= set.slots BY <1>1
  <2> QED BY <2>1, <2>2, <2>3
<1>13. CASE Plan(set) = [cqAlone |-> FALSE, list1 |-> list1, fresh |-> fresh, called |-> called]
  <2>1. Plan(set).list1 = list1 /\ Plan(set).called = called BY <1>13
  <2>2. set.first + Cardinality(list1) <= set.slots BY <1>1, <1>4
  <2> QED BY <1>4, <1>9, <1>10, <2>1, <2>2
<1> QED BY <1>11, <1>12, <1>13

-----------------------------------------------------------------------------
(* The lists and the map. *)

\* Who is in QSO has an entry, and only there is one made by reading.
InMap == Range(inProgress) \subseteq DOMAIN foxQSO

\* The lists while nobody double-clicks an empty one.
Lists == ~EmptyClicks /\ TypeOK /\ CalledOnce /\ InMap

\* The same with the queue and those in progress apart.
Once(queue, progress, callers) ==
  /\ IsInjective(queue) /\ IsInjective(progress)
  /\ Range(queue) \cap Range(progress) = {}
  /\ callers \cap (Range(queue) \cup Range(progress)) = {}

LEMMA OnceParts ==
    ASSUME NEW q \in Seq(Calls), NEW p \in Seq(Calls)
    PROVE  /\ IsInjective(q \o p)
                <=> IsInjective(q) /\ IsInjective(p) /\ Range(q) \cap Range(p) = {}
           /\ q \o p \in Seq(Calls) /\ Range(q \o p) = Range(q) \cup Range(p)
<1> DEFINE s == q \o p
<1>1. /\ DOMAIN q = 1 .. Len(q) /\ DOMAIN p = 1 .. Len(p)
      /\ Len(q) \in Nat /\ Len(p) \in Nat
  BY LenProperties
<1>2. /\ s \in Seq(Calls) /\ Len(s) = Len(q) + Len(p)
      /\ \A i \in 1 .. Len(q) + Len(p) : s[i] = IF i <= Len(q) THEN q[i] ELSE p[i - Len(q)]
  BY ConcatProperties
<1> HIDE DEF s
<1>3. DOMAIN s = 1 .. Len(q) + Len(p) BY <1>2, LenProperties
<1>4. /\ \A i \in DOMAIN q : i \in DOMAIN s /\ s[i] = q[i]
      /\ \A i \in DOMAIN p : Len(q) + i \in DOMAIN s /\ s[Len(q) + i] = p[i]
      /\ \A i \in DOMAIN s : \/ i \in DOMAIN q
                             \/ i - Len(q) \in DOMAIN p /\ i = Len(q) + (i - Len(q))
  BY <1>1, <1>2, <1>3
<1>5. ASSUME IsInjective(s)
      PROVE  IsInjective(q) /\ IsInjective(p) /\ Range(q) \cap Range(p) = {}
  <2>1. IsInjective(q) BY <1>4, <1>5 DEF IsInjective
  <2>2. IsInjective(p)
    <3> SUFFICES ASSUME NEW i \in DOMAIN p, NEW j \in DOMAIN p, p[i] = p[j] PROVE i = j
      BY DEF IsInjective
    <3>1. Len(q) + i = Len(q) + j BY <1>4, <1>5 DEF IsInjective
    <3> QED BY <1>1, <3>1
  <2>3. ASSUME NEW i \in DOMAIN q, NEW j \in DOMAIN p, q[i] = p[j] PROVE FALSE
    <3>1. i = Len(q) + j BY <1>4, <1>5, <2>3 DEF IsInjective
    <3> QED BY <1>1, <3>1
  <2> QED BY <2>1, <2>2, <2>3 DEF Range
<1>6. ASSUME IsInjective(q), IsInjective(p), Range(q) \cap Range(p) = {}
      PROVE  IsInjective(s)
  <2> SUFFICES ASSUME NEW i \in DOMAIN s, NEW j \in DOMAIN s, s[i] = s[j] PROVE i = j
    BY DEF IsInjective
  <2>1. CASE i \in DOMAIN q /\ j \in DOMAIN q BY <1>4, <1>6, <2>1 DEF IsInjective
  <2>2. ASSUME NEW k \in DOMAIN q, NEW l \in DOMAIN p PROVE q[k] # p[l] BY <1>6 DEF Range
  <2>3. CASE i - Len(q) \in DOMAIN p /\ j - Len(q) \in DOMAIN p
    <3>1. s[i] = p[i - Len(q)] /\ s[j] = p[j - Len(q)] BY <1>1, <1>3, <1>4, <2>3
    <3>2. i - Len(q) = j - Len(q) BY <1>6, <2>3, <3>1 DEF IsInjective
    <3> QED BY <1>1, <1>3, <3>2
  <2>4. CASE i \in DOMAIN q /\ j - Len(q) \in DOMAIN p
    <3>1. s[i] = q[i] /\ s[j] = p[j - Len(q)] BY <1>1, <1>3, <1>4, <2>4
    <3> QED BY <2>2, <2>4, <3>1
  <2>5. CASE i - Len(q) \in DOMAIN p /\ j \in DOMAIN q
    <3>1. s[j] = q[j] /\ s[i] = p[i - Len(q)] BY <1>1, <1>3, <1>4, <2>5
    <3> QED BY <2>2, <2>5, <3>1
  <2> QED BY <1>4, <2>1, <2>3, <2>4, <2>5
<1> QED BY <1>2, <1>5, <1>6, RangeConcatenation DEF s

\* What there is to show of the lists, of the map and of the rest.
ListTypes(queue, progress, callers) ==
  /\ queue \in Seq(Calls) /\ Len(queue) <= MaxHounds /\ progress \in Seq(Calls)
  /\ callers \subseteq Calls /\ Once(queue, progress, callers)

MapTypes(qso) == DOMAIN qso \subseteq Calls \cup {NoCall} /\ \A c \in DOMAIN qso : qso[c] \in QSOs

RestTypes ==
  /\ ~EmptyClicks
  /\ loggedByFox \subseteq Calls \X Bands /\ lastBand \in Bands
  /\ tFoxTxSinceCQ \in 0..FoxCQTime /\ removals \in [Calls -> Nat] /\ idle \in -1..Deadline

Rushed == rushed \subseteq Calls \cap DOMAIN foxQSO

LEMMA ListsParts ==
    /\ Lists <=> /\ ListTypes(houndQueue, inProgress, houndCallers)
                 /\ MapTypes(foxQSO) /\ RestTypes /\ InMap /\ Rushed
    /\ Lists' <=> /\ ListTypes(houndQueue', inProgress', houndCallers')
                  /\ MapTypes(foxQSO') /\ RestTypes' /\ InMap' /\ Rushed'
BY OnceParts DEF Lists, Rushed, Entries, ListTypes, MapTypes, RestTypes, TypeOK, CalledOnce, Once

\* A transmission moves the head of the queue, each call once, to those in progress.
LEMMA Dequeues ==
    ASSUME NEW q \in Seq(Calls), IsInjective(q), NEW fresh \in Seq(Calls), Len(fresh) <= Len(q),
           \A i \in DOMAIN fresh : i \in DOMAIN q /\ fresh[i] = q[i]
    PROVE  LET rest == SubSeq(q, Len(fresh) + 1, Len(q)) IN
           /\ rest \in Seq(Calls) /\ IsInjective(rest) /\ Len(rest) <= Len(q)
           /\ IsInjective(fresh) /\ Range(fresh) \subseteq Range(q)
           /\ Range(rest) \subseteq Range(q) /\ Range(rest) \cap Range(fresh) = {}
<1> DEFINE m == Len(fresh)
           rest == SubSeq(q, m + 1, Len(q))
<1>1. /\ DOMAIN q = 1 .. Len(q) /\ DOMAIN fresh = 1 .. m /\ Len(q) \in Nat /\ m \in Nat
      /\ m <= Len(q)
  BY LenProperties
<1> HIDE DEF m
<1>2. /\ rest \in Seq(Calls) /\ Len(rest) = (IF m + 1 <= Len(q) THEN Len(q) - (m + 1) + 1 ELSE 0)
      /\ \A i \in 1 .. Len(q) - (m + 1) + 1 : rest[i] = q[m + 1 + i - 1]
  <2>1. m + 1 \in Int /\ Len(q) \in Int /\ \A i \in m + 1 .. Len(q) : q[i] \in Calls
    BY <1>1, ElementOfSeq
  <2> DEFINE a == m + 1
             b == Len(q)
  <2> HIDE DEF a, b
  <2> QED BY <2>1, SubSeqProperties DEF a, b
<1> HIDE DEF rest
<1>3. /\ Len(rest) = Len(q) - m /\ DOMAIN rest = 1 .. Len(q) - m
      /\ \A i \in DOMAIN rest : m + i \in DOMAIN q /\ rest[i] = q[m + i]
  <2>1. /\ Len(q) - (m + 1) + 1 = Len(q) - m
        /\ ~(m + 1 <= Len(q)) => Len(q) - m = 0
        /\ \A i \in 1 .. Len(q) - m : m + 1 + i - 1 = m + i /\ m + i \in 1 .. Len(q)
    <3> DEFINE b == Len(q)
    <3>1. b \in Nat /\ m \in Nat /\ m <= b BY <1>1
    <3> HIDE DEF b
    <3>2. b - (m + 1) + 1 = b - m /\ (~(m + 1 <= b) => b - m = 0) BY <3>1
    <3>3. \A i \in 1 .. b - m : m + 1 + i - 1 = m + i /\ m + i \in 1 .. b BY <3>1
    <3> QED BY <3>2, <3>3 DEF b
  <2>2. Len(rest) = Len(q) - m BY <1>2, <2>1
  <2>3. DOMAIN rest = 1 .. Len(q) - m BY <1>2, <2>2, LenProperties
  <2> QED BY <1>1, <1>2, <2>1, <2>2, <2>3
<1>4. IsInjective(rest)
  <2> SUFFICES ASSUME NEW i \in DOMAIN rest, NEW j \in DOMAIN rest, rest[i] = rest[j]
               PROVE  i = j
    BY DEF IsInjective
  <2>1. m + i = m + j BY <1>3 DEF IsInjective
  <2> QED BY <1>1, <1>3, <2>1
<1>5. IsInjective(fresh)
  <2> SUFFICES ASSUME NEW i \in DOMAIN fresh, NEW j \in DOMAIN fresh, fresh[i] = fresh[j]
               PROVE  i = j
    BY DEF IsInjective
  <2>1. i \in DOMAIN q /\ j \in DOMAIN q /\ q[i] = q[j] OBVIOUS
  <2> QED BY <2>1 DEF IsInjective
<1>6. ASSUME NEW i \in DOMAIN rest, NEW j \in DOMAIN fresh PROVE rest[i] # fresh[j]
  <2>1. i \in Nat \ {0} /\ j \in 1 .. m BY <1>1, <1>3
  <2>2. m + i # j BY <1>1, <2>1
  <2>3. m + i \in DOMAIN q /\ j \in DOMAIN q /\ rest[i] = q[m + i] /\ fresh[j] = q[j]
    BY <1>3
  <2> QED BY <2>2, <2>3 DEF IsInjective
<1>7. Len(rest) <= Len(q) BY <1>1, <1>3
<1> QED BY <1>2, <1>3, <1>4, <1>5, <1>6, <1>7 DEF Range, rest, m

\* The bound on the transmissions of a silent Fox is a number of them.
LEMMA DeadlineType == Deadline \in Nat \ {0}
<1>1. /\ MaxStrikes \in Nat /\ MaxFoxWait \in Nat \ {0} /\ Cardinality(Calls) \in Nat
  BY FoxAssumption, FS_CardinalityType
<1>2. 2 * MaxStrikes * Cardinality(Calls) \in Nat BY <1>1
<1> QED BY <1>1, <1>2 DEF Deadline

\* What is read of the map, and what is begun, is a QSO.
LEMMA QSOTypes ==
    ASSUME TypeOK
    PROVE  /\ DefaultQSO \in QSOs /\ NewQSO \in QSOs /\ tFoxTx \in Nat /\ 2 <= tFoxTx
           /\ DefaultQSO.tFoxRrpt = 0 /\ NewQSO.tFoxRrpt = -1
           /\ \A c : QSO(c) \in QSOs
           /\ \A c : c \in DOMAIN foxQSO => QSO(c) = foxQSO[c]
<1>1. MaxStrikes \in Nat \ {0} /\ MaxFoxWait \in Nat \ {0} BY FoxAssumption
<1>2. tFoxTx \in Nat /\ 2 <= tFoxTx BY <1>1 DEF tFoxTx
<1>3. DefaultQSO \in QSOs /\ DefaultQSO.tFoxRrpt = 0
  BY <1>1, <1>2 DEF DefaultQSO, QSOs, NoReport
<1>4. NewQSO \in QSOs /\ NewQSO.tFoxRrpt = -1
  <2>1. -1 \in -1 .. tFoxTx BY <1>2
  <2>2. NewQSO = [DefaultQSO EXCEPT !.tFoxRrpt = -1, !.tFoxTxRR73 = -1] BY DEF NewQSO
  <2> QED BY <1>3, <2>1, <2>2 DEF QSOs
<1>5. \A c : QSO(c) \in QSOs BY <1>3 DEF QSO, TypeOK
<1>6. \A c : c \in DOMAIN foxQSO => QSO(c) = foxQSO[c] BY DEF QSO
<1> QED BY <1>2, <1>3, <1>4, <1>5, <1>6

\* After a transmission a QSO of the plan is a new one, and any other one has its report and
\* calls no fewer; what is not over, counted, is a QSO again.
LEMMA AfterTxFacts ==
    ASSUME TypeOK, NEW plan, NEW c,
           ~Over(AfterTx(c, plan), tFoxTx + 1)
    PROVE  LET q == Counted(AfterTx(c, plan)) IN
           /\ q \in QSOs
           /\ q.ncall < MaxStrikes => c \in Range(plan.fresh) \/ QSO(c).ncall < MaxStrikes
           /\ IF c \in Range(plan.fresh)
                THEN q.tFoxRrpt < 0
                ELSE (q.tFoxRrpt < 0 <=> QSO(c).tFoxRrpt < 0) /\ q.rcvd = QSO(c).rcvd
           /\ LET calls == (IF c \in Range(plan.fresh) THEN 0 ELSE QSO(c).ncall)
                           + (IF c \in plan.called THEN 1 ELSE 0)
              IN q.ncall = (IF calls >= MaxStrikes THEN calls + 1 ELSE calls)
           /\ q.ncall < MaxStrikes + MaxFoxWait
           /\ c \notin Range(plan.fresh) =>
                /\ q.tFoxRrpt = Back(QSO(c).tFoxRrpt)
                /\ QSO(c).tFoxRrpt > 0 => QSO(c).tFoxRrpt > 5
<1> DEFINE begun == IF c \in Range(plan.fresh) THEN NewQSO
                    ELSE IF c \in plan.list1
                      THEN [QSO(c) EXCEPT !.tFoxTxRR73 = tFoxTx + 1, !.nRR73 = @ + 1]
                      ELSE QSO(c)
           calls == begun.ncall + (IF c \in plan.called THEN 1 ELSE 0)
           n == IF calls >= MaxStrikes THEN calls + 1 ELSE calls
           Begun == [rcvd : {NoReport, Report}, ncall : Nat, nRR73 : Nat,
                     tFoxRrpt : -1 .. tFoxTx, tFoxTxRR73 : -1 .. tFoxTx + 1]
           a == AfterTx(c, plan)
           q == Counted(a)
<1>1. /\ MaxStrikes \in Nat \ {0} /\ MaxFoxWait \in Nat \ {0} /\ tFoxTx \in Nat
      /\ QSO(c) \in QSOs /\ NewQSO \in QSOs /\ NewQSO.tFoxRrpt = -1 /\ NewQSO.ncall = 0
  BY QSOTypes, FoxAssumption DEF NewQSO, DefaultQSO
<1>2. /\ begun \in Begun
      /\ IF c \in Range(plan.fresh)
           THEN begun.tFoxRrpt = -1 /\ begun.ncall = 0
           ELSE /\ begun.tFoxRrpt = QSO(c).tFoxRrpt /\ begun.rcvd = QSO(c).rcvd
                /\ begun.ncall = QSO(c).ncall
  <2>1. CASE c \in Range(plan.fresh) BY <1>1, <2>1 DEF QSOs
  <2>2. CASE c \notin Range(plan.fresh) /\ c \in plan.list1
    <3> DEFINE r == QSO(c)
           x == tFoxTx + 1
           y == r.nRR73 + 1
    <3>1. begun = [r EXCEPT !.tFoxTxRR73 = x, !.nRR73 = y] BY <2>2
    <3> HIDE DEF r, begun
    <3>2. r \in QSOs BY <1>1 DEF r
    <3>3. x \in -1 .. x /\ y \in Nat BY <1>1, <3>2 DEF QSOs
    <3>4. r \in Begun
      <4>1. -1 .. tFoxTx \subseteq -1 .. x BY <1>1
      <4>2. 0 .. MaxStrikes + MaxFoxWait \subseteq Nat /\ 0 .. MaxStrikes \subseteq Nat BY <1>1
      <4> QED BY <3>2, <4>1, <4>2 DEF QSOs
    <3> HIDE DEF y
    <3>5. /\ begun \in Begun /\ begun.tFoxRrpt = r.tFoxRrpt /\ begun.rcvd = r.rcvd
          /\ begun.ncall = r.ncall
      BY <3>1, <3>3, <3>4
    <3> HIDE DEF Begun
    <3> QED BY <2>2, <3>5 DEF r
  <2>3. CASE c \notin Range(plan.fresh) /\ c \notin plan.list1 BY <1>1, <2>3 DEF QSOs
  <2> QED BY <2>1, <2>2, <2>3
<1>3. a = [begun EXCEPT !.ncall = n] BY DEF AfterTx
<1> HIDE DEF begun
<1>4. /\ n \in Nat /\ begun.ncall <= n BY <1>1, <1>2
<1> HIDE DEF n, a
<1>5. /\ a \in Begun /\ a.ncall = n /\ a.tFoxRrpt = begun.tFoxRrpt /\ a.rcvd = begun.rcvd
  BY <1>2, <1>3, <1>4
<1>6. a.ncall < MaxStrikes + MaxFoxWait /\ a.nRR73 < MaxStrikes
  BY <1>1, <1>5 DEF Over, a
<1>7. q = [a EXCEPT !.tFoxRrpt = Back(@), !.tFoxTxRR73 = Back(@)] BY DEF Counted
<1>8. /\ Back(a.tFoxRrpt) \in -1 .. tFoxTx /\ Back(a.tFoxTxRR73) \in -1 .. tFoxTx
      /\ Back(a.tFoxRrpt) < 0 <=> a.tFoxRrpt < 0
  BY <1>1, <1>5 DEF Back
<1> HIDE DEF q
<1>9. /\ q \in QSOs /\ q.ncall = a.ncall /\ q.rcvd = a.rcvd
      /\ q.tFoxRrpt = Back(a.tFoxRrpt)
      /\ q.tFoxRrpt < 0 <=> a.tFoxRrpt < 0
  <2> DEFINE x == Back(a.tFoxRrpt)
             y == Back(a.tFoxTxRR73)
  <2>1. q = [a EXCEPT !.tFoxRrpt = x, !.tFoxTxRR73 = y] BY <1>7
  <2>2. x \in -1 .. tFoxTx /\ y \in -1 .. tFoxTx BY <1>8
  <2>3. x < 0 <=> a.tFoxRrpt < 0 BY <1>8
  <2> HIDE DEF x, y
  <2>4. q.ncall = a.ncall /\ q.rcvd = a.rcvd /\ q.tFoxRrpt = x BY <1>5, <2>1
  <2>5. q \in [rcvd : {NoReport, Report}, ncall : Nat, nRR73 : Nat, tFoxRrpt : -1 .. tFoxTx,
               tFoxTxRR73 : -1 .. tFoxTx]
        /\ q.nRR73 = a.nRR73
    BY <1>5, <2>1, <2>2
  <2>6. q.ncall \in 0 .. MaxStrikes + MaxFoxWait /\ q.nRR73 \in 0 .. MaxStrikes
    BY <1>1, <1>6, <2>4, <2>5
  <2>7. q \in QSOs BY <2>5, <2>6 DEF QSOs
  <2> QED BY <2>3, <2>4, <2>7 DEF x
<1>10. q.ncall < MaxStrikes => c \in Range(plan.fresh) \/ QSO(c).ncall < MaxStrikes
  <2>1. QSO(c).ncall \in Nat BY <1>1 DEF QSOs
  <2> QED BY <1>1, <1>2, <1>4, <1>5, <1>9, <2>1
<1>11. IF c \in Range(plan.fresh)
         THEN q.tFoxRrpt < 0
         ELSE (q.tFoxRrpt < 0 <=> QSO(c).tFoxRrpt < 0) /\ q.rcvd = QSO(c).rcvd
  BY <1>2, <1>5, <1>9
<1>12. /\ begun.ncall = (IF c \in Range(plan.fresh) THEN 0 ELSE QSO(c).ncall)
       /\ q.ncall = n
  BY <1>2, <1>5, <1>9
<1>13. q.ncall < MaxStrikes + MaxFoxWait BY <1>6, <1>9
<1>14. ASSUME c \notin Range(plan.fresh)
       PROVE  /\ q.tFoxRrpt = Back(QSO(c).tFoxRrpt)
              /\ QSO(c).tFoxRrpt > 0 => QSO(c).tFoxRrpt > 5
  <2>1. a.tFoxRrpt = QSO(c).tFoxRrpt BY <1>2, <1>5, <1>14
  <2>2. ~Over(a, tFoxTx + 1) BY DEF a
  <2>3. tFoxTx = 2 * MaxFoxWait + 5 BY DEF tFoxTx
  <2>4. a.tFoxRrpt \in Int BY <1>1, <1>5
  <2>5. a.tFoxRrpt > 0 => a.tFoxRrpt > 5 BY <1>1, <2>2, <2>3, <2>4 DEF Over
  <2> QED BY <1>9, <2>1, <2>5
<1> QED BY <1>9, <1>10, <1>11, <1>12, <1>13, <1>14 DEF q, a, n

\* Reading and displaying those in QSO makes no entry.
LEMMA TouchKnown ==
    ASSUME NEW qso, NEW calls, calls \subseteq DOMAIN qso
    PROVE  /\ DOMAIN Touch(qso, calls) = DOMAIN qso
           /\ \A c \in DOMAIN qso : Touch(qso, calls)[c] = qso[c]
BY DEF Touch

\* Those known to a transmission, and those it finds to be over.
Known(set) == DOMAIN foxQSO \cup Range(Plan(set).fresh)
OverIn(set) == {c \in Known(set) : Over(AfterTx(c, Plan(set)), tFoxTx + 1)}

\* What a transmission does to the lists and to the map.
LEMMA FoxTxFacts ==
    ASSUME Lists, NEW set \in Settings, FoxTx(set)
    PROVE  LET plan == Plan(set)
               fresh == Range(plan.fresh)
           IN /\ houndQueue' \in Seq(Calls) /\ Len(houndQueue') <= MaxHounds
              /\ inProgress' \in Seq(Calls)
              /\ Once(houndQueue', inProgress', houndCallers')
              /\ houndCallers' = houndCallers
              /\ fresh \subseteq Range(houndQueue) /\ fresh \subseteq Calls
              /\ Range(houndQueue') \subseteq Range(houndQueue) \ fresh
              /\ Range(inProgress') = (Range(inProgress) \cup fresh) \ OverIn(set)
              /\ DOMAIN foxQSO' = Known(set) \ OverIn(set)
              /\ \A c \in Known(set) \ OverIn(set) : foxQSO'[c] = Counted(AfterTx(c, plan))
              /\ loggedByFox' = loggedByFox \cup {<<c, lastBand>> : c \in ToLog(plan)}
              /\ \A c \in Calls : removals'[c] = removals[c] \/ c \in ToLog(plan)
              /\ rushed' = DOMAIN foxQSO' \cap ((rushed \ fresh)
                                                 \cup {c \in fresh \cap Calls : removals[c] > 0})
<1> DEFINE plan == Plan(set)
           fresh == plan.fresh
           known == DOMAIN foxQSO \cup Range(fresh)
                    \cup (IF plan.cqAlone THEN {} ELSE Range(inProgress))
           over == {c \in known : Over(AfterTx(c, plan), tFoxTx + 1)}
           rest == SubSeq(houndQueue, Len(fresh) + 1, Len(houndQueue))
           before == inProgress \o fresh
           map == [c \in known \ over |-> Counted(AfterTx(c, plan))]
<1>1. /\ houndQueue' = rest /\ inProgress' = Without(before, over)
      /\ foxQSO' = Touch(map, Range(inProgress'))
      /\ loggedByFox' = loggedByFox \cup {<<c, lastBand>> : c \in ToLog(plan)}
      /\ houndCallers' = houndCallers
      /\ \E added \in SUBSET ToLog(plan) :
           removals' = [c \in Calls |-> removals[c] + (IF c \in added THEN 1 ELSE 0)]
      /\ rushed' = DOMAIN foxQSO' \cap ((rushed \ Range(fresh))
                                         \cup {c \in Range(fresh) \cap Calls : removals[c] > 0})
  BY DEF FoxTx, Sent
<1>2. /\ fresh \in Seq(Calls) /\ Len(fresh) <= Len(houndQueue)
      /\ \A i \in DOMAIN fresh : i \in DOMAIN houndQueue /\ fresh[i] = houndQueue[i]
  BY PlanFacts DEF Lists
<1>3. known = Known(set) /\ over = OverIn(set)
  BY DEF Known, OverIn, Lists, InMap
<1>4. /\ houndQueue \in Seq(Calls) /\ Len(houndQueue) <= MaxHounds /\ inProgress \in Seq(Calls)
      /\ Once(houndQueue, inProgress, houndCallers)
      /\ Range(inProgress) \subseteq DOMAIN foxQSO
      /\ removals \in [Calls -> Nat]
  BY ListsParts DEF ListTypes, RestTypes, InMap
<1> HIDE DEF plan, over, map
<1>5. /\ rest \in Seq(Calls) /\ IsInjective(rest) /\ Len(rest) <= Len(houndQueue)
      /\ IsInjective(fresh) /\ Range(fresh) \subseteq Range(houndQueue)
      /\ Range(rest) \subseteq Range(houndQueue) /\ Range(rest) \cap Range(fresh) = {}
  BY <1>2, <1>4, Dequeues DEF Once
<1> HIDE DEF fresh, rest
<1>6. /\ before \in Seq(Calls) /\ IsInjective(before)
      /\ Range(before) = Range(inProgress) \cup Range(fresh)
  <2>1. Range(inProgress) \cap Range(fresh) = {} BY <1>4, <1>5 DEF Once
  <2> QED BY <1>2, <1>4, <1>5, <2>1, OnceParts DEF Once
<1> HIDE DEF before
<1>7. /\ inProgress' \in Seq(Calls) /\ IsInjective(inProgress')
      /\ Range(inProgress') = (Range(inProgress) \cup Range(fresh)) \ over
  BY <1>1, <1>6, WithoutFacts
<1>8. Once(houndQueue', inProgress', houndCallers') BY <1>1, <1>4, <1>5, <1>7 DEF Once
<1>9. Len(houndQueue') <= MaxHounds
  <2>1. Len(rest) \in Nat /\ Len(houndQueue) \in Nat /\ MaxHounds \in Nat
    BY <1>4, <1>5, LenProperties, FoxAssumption
  <2> QED BY <1>1, <1>4, <1>5, <2>1
<1>10. Range(inProgress') \subseteq known \ over BY <1>4, <1>7
<1> HIDE DEF known
<1>11. DOMAIN map = known \ over /\ \A c \in known \ over : map[c] = Counted(AfterTx(c, plan))
  BY DEF map
<1>12. /\ DOMAIN foxQSO' = known \ over
       /\ \A c \in known \ over : foxQSO'[c] = Counted(AfterTx(c, plan))
  BY <1>1, <1>10, <1>11, TouchKnown
<1>13. \A c \in Calls : removals'[c] = removals[c] \/ c \in ToLog(plan)
  <2>1. PICK added \in SUBSET ToLog(plan) :
          removals' = [c \in Calls |-> removals[c] + (IF c \in added THEN 1 ELSE 0)]
    BY <1>1
  <2> SUFFICES ASSUME NEW c \in Calls, c \notin ToLog(plan) PROVE removals'[c] = removals[c]
    OBVIOUS
  <2>2. removals'[c] = removals[c] + 0 /\ removals[c] \in Nat BY <1>4, <2>1
  <2> QED BY <2>2
<1>14. Range(fresh) \subseteq Calls BY <1>2, RangeOfSeq
<1>15. Range(houndQueue') \subseteq Range(houndQueue) \ Range(fresh) BY <1>1, <1>5
<1>16. houndQueue' \in Seq(Calls) BY <1>1, <1>5
<1>17. rushed' = DOMAIN foxQSO' \cap ((rushed \ Range(fresh))
                                       \cup {c \in Range(fresh) \cap Calls : removals[c] > 0})
  BY <1>1
<1> QED BY <1>1, <1>3, <1>5, <1>7, <1>8, <1>9, <1>12, <1>13, <1>14, <1>15, <1>16, <1>17 DEF plan, fresh

\* A call that joins the queue is in it once.
LEMMA Joins ==
    ASSUME NEW q \in Seq(Calls), IsInjective(q), NEW c \in Calls, c \notin Range(q)
    PROVE  \A r \in {<<c>> \o q, Append(q, c)} :
             /\ r \in Seq(Calls) /\ IsInjective(r)
             /\ Range(r) = Range(q) \cup {c} /\ Len(r) = Len(q) + 1
<1>1. /\ <<c>> \in Seq(Calls) /\ IsInjective(<<c>>) /\ Range(<<c>>) = {c} /\ Len(<<c>>) = 1
  <2> DEFINE s == <<c>>
  <2>1. s \in Seq(Calls) /\ Len(s) = 1 /\ s[1] = c OBVIOUS
  <2>2. DOMAIN s = {1}
    <3>1. 1 .. 1 = {1} OBVIOUS
    <3> HIDE DEF s
    <3> QED BY <2>1, <3>1, LenProperties
  <2> HIDE DEF s
  <2>3. s \in Seq(Calls) /\ IsInjective(s) /\ Range(s) = {c} /\ Len(s) = 1
    BY <2>1, <2>2 DEF IsInjective, Range
  <2> QED BY <2>3 DEF s
<1> DEFINE s == <<c>>
<1>2. Append(q, c) = q \o s BY AppendIsConcat
<1>3. Len(q) \in Nat BY LenProperties
<1> HIDE DEF s
<1>4. s \in Seq(Calls) /\ IsInjective(s) /\ Range(s) = {c} /\ Len(s) = 1 BY <1>1 DEF s
<1>5. /\ s \o q \in Seq(Calls) /\ IsInjective(s \o q) /\ Range(s \o q) = Range(q) \cup {c}
      /\ q \o s \in Seq(Calls) /\ IsInjective(q \o s) /\ Range(q \o s) = Range(q) \cup {c}
  BY <1>4, OnceParts
<1>6. Len(s \o q) = Len(s) + Len(q) /\ Len(q \o s) = Len(q) + Len(s)
  BY ZenonT(30), <1>4, ConcatProperties
<1>7. Len(s \o q) = Len(q) + 1 /\ Len(q \o s) = Len(q) + 1 BY <1>3, <1>4, <1>6
<1>8. {<<c>> \o q, Append(q, c)} = {s \o q, q \o s} BY <1>2 DEF s
<1> QED BY <1>5, <1>7, <1>8

\* A call moved to the top of the queue leaves its place.
LEMMA Removes ==
    ASSUME NEW q \in Seq(Calls), IsInjective(q), NEW i \in DOMAIN q
    PROVE  /\ RemoveAt(q, i) \in Seq(Calls) /\ IsInjective(RemoveAt(q, i))
           /\ Range(RemoveAt(q, i)) = Range(q) \ {q[i]} /\ Len(RemoveAt(q, i)) = Len(q) - 1
<1> DEFINE n == Len(q)
           a == SubSeq(q, 1, i - 1)
           b == SubSeq(q, i + 1, n)
<1>1. /\ DOMAIN q = 1 .. n /\ n \in Nat /\ i \in 1 .. n
      /\ \A j \in 1 .. n : q[j] \in Calls
  BY LenProperties
<1>2. q[i] \in Calls BY <1>1
<1> HIDE DEF n
<1>3. /\ a \in Seq(Calls) /\ Len(a) = i - 1 /\ DOMAIN a = 1 .. i - 1
      /\ \A j \in DOMAIN a : a[j] = q[j]
  <2> DEFINE m == i - 1
  <2>1. m \in Int /\ m >= 0 /\ \A j \in 1 .. m : q[j] \in Calls BY <1>1
  <2> HIDE DEF m
  <2>2. 1 \in Int OBVIOUS
  <2>3. /\ SubSeq(q, 1, m) \in Seq(Calls)
        /\ Len(SubSeq(q, 1, m)) = (IF 1 <= m THEN m - 1 + 1 ELSE 0)
        /\ \A j \in 1 .. m - 1 + 1 : SubSeq(q, 1, m)[j] = q[1 + j - 1]
    BY <2>1, <2>2, SubSeqProperties
  <2>4. Len(SubSeq(q, 1, m)) = m BY <2>1, <2>3
  <2>5. DOMAIN SubSeq(q, 1, m) = 1 .. m BY <2>3, <2>4, LenProperties
  <2>6. \A j \in 1 .. m : SubSeq(q, 1, m)[j] = q[j] BY <2>1, <2>3
  <2> QED BY <2>3, <2>4, <2>5, <2>6 DEF m
<1>4. /\ b \in Seq(Calls) /\ Len(b) = n - i /\ DOMAIN b = 1 .. n - i
      /\ \A j \in DOMAIN b : b[j] = q[i + j]
  <2> DEFINE m == i + 1
  <2>1. m \in Int /\ i = m - 1 /\ \A j \in m .. n : q[j] \in Calls BY <1>1
  <2> HIDE DEF m
  <2>2. n \in Int BY <1>1
  <2>3. /\ SubSeq(q, m, n) \in Seq(Calls)
        /\ Len(SubSeq(q, m, n)) = (IF m <= n THEN n - m + 1 ELSE 0)
        /\ \A j \in 1 .. n - m + 1 : SubSeq(q, m, n)[j] = q[m + j - 1]
    BY <2>1, <2>2, SubSeqProperties
  <2>4. Len(SubSeq(q, m, n)) = n - i BY <1>1, <2>1, <2>3
  <2>5. DOMAIN SubSeq(q, m, n) = 1 .. n - i BY <2>3, <2>4, LenProperties
  <2>6. \A j \in 1 .. n - i : m + j - 1 = i + j BY <1>1, <2>1
  <2>7. n - m + 1 = n - i BY <1>1, <2>1
  <2>8. \A j \in 1 .. n - i : SubSeq(q, m, n)[j] = q[i + j] BY <2>3, <2>6, <2>7
  <2> QED BY <2>3, <2>4, <2>5, <2>8 DEF m
<1> HIDE DEF a, b
<1>5. /\ \A j \in DOMAIN a : j \in DOMAIN q /\ j < i
      /\ \A j \in DOMAIN b : i + j \in DOMAIN q /\ i + j > i
  BY <1>1, <1>3, <1>4
<1>6. IsInjective(a) BY <1>3, <1>5 DEF IsInjective
<1>7. IsInjective(b)
  <2> SUFFICES ASSUME NEW j \in DOMAIN b, NEW k \in DOMAIN b, b[j] = b[k] PROVE j = k
    BY DEF IsInjective
  <2>1. i + j = i + k BY <1>4, <1>5 DEF IsInjective
  <2> QED BY <1>1, <1>4, <2>1
<1>8. Range(a) \cap Range(b) = {}
  <2> SUFFICES ASSUME NEW j \in DOMAIN a, NEW k \in DOMAIN b, a[j] = b[k] PROVE FALSE
    BY DEF Range
  <2>1. j = i + k BY <1>3, <1>4, <1>5 DEF IsInjective
  <2> QED BY <1>1, <1>3, <1>4, <1>5, <2>1
<1>9. Range(a) \cup Range(b) = Range(q) \ {q[i]}
  <2>1. ASSUME NEW j \in DOMAIN a PROVE a[j] \in Range(q) /\ a[j] # q[i]
    <3>1. j # i BY <1>1, <1>3
    <3> QED BY <1>3, <1>5, <3>1 DEF IsInjective, Range
  <2>2. ASSUME NEW j \in DOMAIN b PROVE b[j] \in Range(q) /\ b[j] # q[i]
    <3>1. i + j # i BY <1>1, <1>4
    <3> QED BY <1>4, <1>5, <3>1 DEF IsInjective, Range
  <2>3. ASSUME NEW j \in DOMAIN q, j # i PROVE q[j] \in Range(a) \cup Range(b)
    <3>1. CASE j < i BY <1>1, <1>3, <3>1 DEF Range
    <3>2. CASE j > i
      <4>1. j - i \in DOMAIN b /\ i + (j - i) = j BY <1>1, <1>4, <3>2
      <4> QED BY <1>4, <4>1 DEF Range
    <3> QED BY <1>1, <2>3, <3>1, <3>2
  <2> QED BY <2>1, <2>2, <2>3 DEF Range
<1>10. /\ a \o b \in Seq(Calls) /\ IsInjective(a \o b) /\ Range(a \o b) = Range(q) \ {q[i]}
  BY <1>3, <1>4, <1>6, <1>7, <1>8, <1>9, OnceParts
<1>11. Len(a \o b) = n - 1
  <2>1. Len(a \o b) = Len(a) + Len(b) BY <1>3, <1>4, ConcatProperties
  <2>2. i - 1 + (n - i) = n - 1 BY <1>1
  <2> QED BY <1>3, <1>4, <2>1, <2>2
<1> QED BY <1>10, <1>11 DEF RemoveAt, a, b, n

\* The four handlers of the windows of callers and of the queue.
Queues ==
  \/ ListHounds
  \/ \E c \in Calls : \/ \E top \in BOOLEAN : SelectHound(c, top)
                      \/ ActiveStation(c)
  \/ \E i \in 1..MaxHounds, alt \in BOOLEAN : ClickQueue(i, alt)

LEMMA QueueStep ==
    ASSUME Lists, Queues
    PROVE  /\ Lists' /\ UNCHANGED <<inProgress, foxQSO, loggedByFox, lastBand, clock, idle>>
           /\ \A c \in Range(houndQueue') \cup houndCallers' :
                \/ c \in Range(houndQueue) \cup houndCallers
                \/ c \in Calls /\ (Requeue \/ c \notin DOMAIN foxQSO)
<1>1. /\ ListTypes(houndQueue, inProgress, houndCallers)
      /\ MapTypes(foxQSO) /\ RestTypes /\ InMap /\ Rushed
  BY ListsParts
<1>2. UNCHANGED <<inProgress, foxQSO, loggedByFox, lastBand, clock, idle>>
  BY DEF Queues, ListHounds, SelectHound, ActiveStation, ClickQueue
<1>3. MapTypes(foxQSO') /\ RestTypes' /\ InMap' /\ Rushed'
  BY <1>1, <1>2 DEF RestTypes, InMap, Rushed, clock
<1>4. /\ Len(houndQueue) \in Nat /\ MaxHounds \in Nat \ {0}
      /\ houndQueue \in Seq(Calls) /\ IsInjective(houndQueue)
  BY <1>1, LenProperties, FoxAssumption DEF ListTypes, Once
<1>5. CASE ListHounds
  <2>1. /\ houndCallers' \subseteq
             Calls \ (Range(houndQueue) \cup Range(inProgress) \cup DOMAIN foxQSO)
        /\ houndQueue' = houndQueue
    BY <1>5 DEF ListHounds
  <2>2. ListTypes(houndQueue', inProgress', houndCallers')
    BY <1>1, <1>2, <2>1 DEF ListTypes, Once
  <2> QED BY <1>2, <1>3, <2>1, <2>2, ListsParts
<1>6. ASSUME NEW c \in Calls, NEW top \in BOOLEAN, SelectHound(c, top)
      PROVE  /\ ListTypes(houndQueue', inProgress', houndCallers')
             /\ Range(houndQueue') \cup houndCallers' \subseteq Range(houndQueue) \cup houndCallers
  <2>1. /\ c \in houndCallers /\ Len(houndQueue) < MaxHounds /\ c \notin Range(houndQueue)
        /\ houndCallers' = houndCallers \ {c}
        /\ houndQueue' \in {<<c>> \o houndQueue, Append(houndQueue, c)}
    BY <1>6 DEF SelectHound
  <2>2. /\ houndQueue' \in Seq(Calls) /\ IsInjective(houndQueue')
        /\ Range(houndQueue') = Range(houndQueue) \cup {c}
        /\ Len(houndQueue') = Len(houndQueue) + 1
    BY <1>4, <2>1, Joins
  <2>3. Len(houndQueue') <= MaxHounds BY <1>4, <2>1, <2>2
  <2> QED BY <1>1, <1>2, <2>1, <2>2, <2>3 DEF ListTypes, Once
<1>7. ASSUME NEW c \in Calls, ActiveStation(c)
      PROVE  /\ ListTypes(houndQueue', inProgress', houndCallers')
             /\ Range(houndQueue') \cup houndCallers'
                  \subseteq Range(houndQueue) \cup houndCallers \cup {c}
             /\ Requeue \/ c \notin DOMAIN foxQSO
  <2>1. /\ c \notin Range(houndQueue) /\ c \notin Range(inProgress)
        /\ Requeue \/ c \notin DOMAIN foxQSO
        /\ houndQueue' = IF Len(houndQueue) < MaxHounds THEN Append(houndQueue, c) ELSE houndQueue
        /\ houndCallers' = houndCallers \ {c}
    BY <1>7 DEF ActiveStation
  <2>2. CASE Len(houndQueue) < MaxHounds
    <3>1. houndQueue' \in {<<c>> \o houndQueue, Append(houndQueue, c)} BY <2>1, <2>2
    <3>2. /\ houndQueue' \in Seq(Calls) /\ IsInjective(houndQueue')
          /\ Range(houndQueue') = Range(houndQueue) \cup {c}
          /\ Len(houndQueue') = Len(houndQueue) + 1
      BY <1>4, <2>1, <3>1, Joins
    <3>3. Len(houndQueue') <= MaxHounds BY <1>4, <2>2, <3>2
    <3> QED BY <1>1, <1>2, <2>1, <3>2, <3>3 DEF ListTypes, Once
  <2>3. CASE ~(Len(houndQueue) < MaxHounds)
    <3>1. houndQueue' = houndQueue BY <2>1, <2>3
    <3> QED BY <1>1, <1>2, <2>1, <3>1 DEF ListTypes, Once
  <2> QED BY <2>2, <2>3
<1>8. ASSUME NEW i \in DOMAIN houndQueue, NEW alt \in BOOLEAN, ClickQueue(i, alt)
      PROVE  /\ ListTypes(houndQueue', inProgress', houndCallers')
             /\ Range(houndQueue') \subseteq Range(houndQueue) /\ houndCallers' = houndCallers
  <2> DEFINE c == houndQueue[i]
             rest == RemoveAt(houndQueue, i)
             K == {j \in DOMAIN houndQueue : houndQueue[j] # c}
             others == Pick(houndQueue, K)
  <2>1. /\ houndCallers' = houndCallers
        /\ houndQueue' = IF alt THEN <<c>> \o rest ELSE others
    <3>1. houndQueue # <<>> BY <1>4, <1>8, EmptySeq
    <3> QED BY <1>8, <3>1 DEF ClickQueue
  <2>2. c \in Calls /\ c \in Range(houndQueue) BY <1>4, LenProperties DEF Range
  <2>3. CASE alt
    <3>1. /\ rest \in Seq(Calls) /\ IsInjective(rest)
          /\ Range(rest) = Range(houndQueue) \ {c} /\ Len(rest) = Len(houndQueue) - 1
      BY <1>4, Removes
    <3>2. houndQueue' \in {<<c>> \o rest, Append(rest, c)} BY <2>1, <2>3
    <3> HIDE DEF c, rest
    <3>3. /\ houndQueue' \in Seq(Calls) /\ IsInjective(houndQueue')
          /\ Range(houndQueue') = Range(rest) \cup {c} /\ Len(houndQueue') = Len(rest) + 1
      BY <2>2, <3>1, <3>2, Joins
    <3>4. Range(houndQueue') = Range(houndQueue) BY <2>2, <3>1, <3>3
    <3>5. Len(houndQueue') <= MaxHounds BY <1>1, <1>4, <3>1, <3>3 DEF ListTypes
    <3> QED BY <1>1, <1>2, <2>1, <3>3, <3>4, <3>5 DEF ListTypes, Once
  <2>4. CASE ~alt
    <3>1. K \in SUBSET (DOMAIN houndQueue) /\ \A k \in K : houndQueue[k] \in Range(houndQueue)
      BY DEF Range
    <3> HIDE DEF K, c
    <3>2. houndQueue' = others BY <2>1, <2>4
    <3>3. /\ Cardinality(K) \in Nat /\ Cardinality(K) <= Len(houndQueue)
          /\ others \in Seq(Calls) /\ Len(others) = Cardinality(K)
          /\ Range(others) = {houndQueue[k] : k \in K} /\ IsInjective(others)
      BY <1>4, <3>1, PickFacts
    <3> HIDE DEF others
    <3>4. Range(houndQueue') \subseteq Range(houndQueue) BY <3>1, <3>2, <3>3
    <3>5. Len(houndQueue') <= MaxHounds BY <1>1, <1>4, <3>2, <3>3 DEF ListTypes
    <3> QED BY <1>1, <1>2, <2>1, <3>2, <3>3, <3>4, <3>5 DEF ListTypes, Once
  <2> QED BY <2>3, <2>4
<1>9. CASE \E c \in Calls : (\E top \in BOOLEAN : SelectHound(c, top)) \/ ActiveStation(c)
  <2>1. CASE \E c \in Calls, top \in BOOLEAN : SelectHound(c, top)
    BY <1>2, <1>3, <1>6, <2>1, ListsParts
  <2>2. CASE \E c \in Calls : ActiveStation(c)
    <3>1. PICK c \in Calls : ActiveStation(c) BY <2>2
    <3> QED BY <1>2, <1>3, <1>7, <3>1, ListsParts
  <2> QED BY <1>9, <2>1, <2>2
<1>10. CASE \E i \in 1..MaxHounds, alt \in BOOLEAN : ClickQueue(i, alt)
  <2>1. PICK i \in 1..MaxHounds, alt \in BOOLEAN : ClickQueue(i, alt) BY <1>10
  <2>2. i \in DOMAIN houndQueue BY <1>1, <2>1 DEF ClickQueue, RestTypes
  <2> QED BY <1>2, <1>3, <1>8, <2>1, <2>2, ListsParts
<1> QED BY <1>5, <1>9, <1>10 DEF Queues

\* Timing a QSO out changes its count alone.
LEMMA ClickStep ==
    ASSUME Lists, NEW c \in Calls \cup {NoCall}, ClickInProgress(c)
    PROVE  /\ Lists' /\ UNCHANGED <<houndCallers, houndQueue, inProgress, loggedByFox, lastBand, clock>>
           /\ DOMAIN foxQSO' = DOMAIN foxQSO \cup {c}
           /\ c \in DOMAIN foxQSO
           /\ \A d \in DOMAIN foxQSO' :
                /\ foxQSO'[d].rcvd = QSO(d).rcvd /\ foxQSO'[d].tFoxRrpt = QSO(d).tFoxRrpt
                /\ d # c => foxQSO'[d] = QSO(d)
                /\ foxQSO'[d].ncall < MaxStrikes => d # c /\ QSO(d).ncall < MaxStrikes
<1> DEFINE T == {c} \cup Range(inProgress)
           t == Touch(foxQSO, T)
<1>1. /\ ListTypes(houndQueue, inProgress, houndCallers)
      /\ MapTypes(foxQSO) /\ RestTypes /\ InMap /\ Rushed
  BY ListsParts
<1>2. /\ UNCHANGED <<houndCallers, houndQueue, inProgress, loggedByFox, lastBand, clock, idle>>
      /\ foxQSO' = [t EXCEPT ![c].ncall = MaxStrikes + 1]
      /\ c \in Range(inProgress)
  BY <1>1 DEF ClickInProgress, RestTypes
<1>3. Range(inProgress) \subseteq DOMAIN foxQSO BY <1>1 DEF InMap
<1>4. /\ DOMAIN t = DOMAIN foxQSO \cup {c}
      /\ \A d \in DOMAIN t : t[d] = QSO(d)
  BY <1>3 DEF Touch, QSO
<1>5. \A d : QSO(d) \in QSOs BY QSOTypes DEF Lists
<1> HIDE DEF t, T
<1>6. /\ DOMAIN foxQSO' = DOMAIN foxQSO \cup {c}
      /\ \A d \in DOMAIN foxQSO' : d # c => foxQSO'[d] = QSO(d)
      /\ foxQSO'[c] = [QSO(c) EXCEPT !.ncall = MaxStrikes + 1]
  <2>1. c \in DOMAIN t /\ t[c] = QSO(c) BY <1>4
  <2>2. foxQSO'[c] = [QSO(c) EXCEPT !.ncall = MaxStrikes + 1] BY <1>2, <2>1
  <2> QED BY <1>2, <1>4, <2>2
<1>7. MaxStrikes \in Nat \ {0} /\ MaxFoxWait \in Nat \ {0} BY FoxAssumption
<1>8. /\ foxQSO'[c] \in QSOs /\ foxQSO'[c].ncall = MaxStrikes + 1
      /\ foxQSO'[c].rcvd = QSO(c).rcvd /\ foxQSO'[c].tFoxRrpt = QSO(c).tFoxRrpt
  <2> DEFINE q == QSO(c)
             n == MaxStrikes + 1
  <2>1. n \in 0 .. MaxStrikes + MaxFoxWait BY <1>7
  <2>2. foxQSO'[c] = [q EXCEPT !.ncall = n] /\ q \in QSOs BY <1>5, <1>6
  <2> HIDE DEF q, n
  <2>3. /\ foxQSO'[c] \in QSOs /\ foxQSO'[c].ncall = n
        /\ foxQSO'[c].rcvd = q.rcvd /\ foxQSO'[c].tFoxRrpt = q.tFoxRrpt
    BY <2>1, <2>2 DEF QSOs
  <2> QED BY <2>3 DEF q, n
<1>9. MapTypes(foxQSO') BY <1>1, <1>5, <1>6, <1>8 DEF MapTypes
<1>10. Lists'
  <2>1. InMap' /\ Rushed' BY <1>1, <1>2, <1>3, <1>6 DEF InMap, Rushed, clock
  <2>2. RestTypes' BY <1>1, <1>2 DEF RestTypes, clock
  <2> QED BY <1>1, <1>2, <1>9, <2>1, <2>2, ListsParts
<1>11. ~(MaxStrikes + 1 < MaxStrikes) BY <1>7
<1> QED BY <1>2, <1>3, <1>6, <1>8, <1>10, <1>11

\* An R+rpt is noted.
LEMMA RxStep ==
    ASSUME Lists, NEW c \in Calls, FoxRx(c)
    PROVE  /\ Lists' /\ UNCHANGED <<houndCallers, houndQueue, inProgress, loggedByFox, lastBand, clock>>
           /\ DOMAIN foxQSO' = DOMAIN foxQSO
           /\ \A d \in DOMAIN foxQSO : d # c => foxQSO'[d] = foxQSO[d]
           /\ foxQSO'[c].rcvd = Report /\ foxQSO'[c].tFoxRrpt = tFoxTx /\ foxQSO'[c].tFoxRrpt >= 0
<1>1. /\ ListTypes(houndQueue, inProgress, houndCallers)
      /\ MapTypes(foxQSO) /\ RestTypes /\ InMap /\ Rushed
  BY ListsParts
<1>2. /\ UNCHANGED <<houndCallers, houndQueue, inProgress, loggedByFox, lastBand, clock, idle>>
      /\ c \in DOMAIN foxQSO
      /\ foxQSO' = [foxQSO EXCEPT ![c].rcvd = Report, ![c].tFoxRrpt = tFoxTx]
  BY DEF FoxRx
<1>3. tFoxTx \in Nat BY QSOTypes DEF Lists
<1>4. /\ DOMAIN foxQSO' = DOMAIN foxQSO
      /\ \A d \in DOMAIN foxQSO : d # c => foxQSO'[d] = foxQSO[d]
      /\ foxQSO'[c] = [foxQSO[c] EXCEPT !.rcvd = Report, !.tFoxRrpt = tFoxTx]
  BY <1>2
<1>5. foxQSO'[c] \in QSOs /\ foxQSO'[c].rcvd = Report /\ foxQSO'[c].tFoxRrpt = tFoxTx
  <2> DEFINE q == foxQSO[c]
  <2>1. q \in QSOs /\ foxQSO'[c] = [q EXCEPT !.rcvd = Report, !.tFoxRrpt = tFoxTx]
    BY <1>1, <1>2, <1>4 DEF MapTypes
  <2> HIDE DEF q
  <2>2. tFoxTx \in -1 .. tFoxTx BY <1>3
  <2> QED BY <2>1, <2>2 DEF QSOs
<1>6. MapTypes(foxQSO') BY <1>1, <1>4, <1>5 DEF MapTypes
<1>7. Lists'
  <2>1. InMap' /\ Rushed' BY <1>1, <1>2, <1>4 DEF InMap, Rushed, clock
  <2>2. RestTypes' BY <1>1, <1>2 DEF RestTypes, clock
  <2> QED BY <1>1, <1>2, <1>6, <2>1, <2>2, ListsParts
<1> QED BY <1>2, <1>3, <1>4, <1>5, <1>7

\* The timer takes a call off those in progress, and leaves the map.
LEMMA RemovalStep ==
    ASSUME Lists, NEW c \in Calls, Removal(c)
    PROVE  /\ Lists' /\ UNCHANGED <<houndCallers, houndQueue, loggedByFox, lastBand, rushed>>
           /\ Range(inProgress') = Range(inProgress) \ {c}
           /\ DOMAIN foxQSO' = DOMAIN foxQSO
           /\ \A d \in DOMAIN foxQSO : foxQSO'[d] = foxQSO[d]
           /\ removals[c] > 0 /\ \A d \in Calls : removals'[d] > 0 => removals[d] > 0
<1>1. /\ ListTypes(houndQueue, inProgress, houndCallers)
      /\ MapTypes(foxQSO) /\ RestTypes /\ InMap /\ Rushed
  BY ListsParts
<1>2. /\ UNCHANGED <<houndCallers, houndQueue, loggedByFox, lastBand, tFoxTxSinceCQ, rushed, idle>>
      /\ inProgress' = Without(inProgress, {c})
      /\ foxQSO' = Touch(foxQSO, Range(inProgress'))
      /\ removals[c] > 0 /\ removals' = [removals EXCEPT ![c] = @ - 1]
  BY DEF Removal
<1>3. /\ inProgress' \in Seq(Calls) /\ IsInjective(inProgress')
      /\ Range(inProgress') = Range(inProgress) \ {c}
  BY <1>1, <1>2, WithoutFacts DEF ListTypes, Once
<1>4. Range(inProgress') \subseteq DOMAIN foxQSO BY <1>1, <1>3 DEF InMap
<1>5. /\ DOMAIN foxQSO' = DOMAIN foxQSO
      /\ \A d \in DOMAIN foxQSO : foxQSO'[d] = foxQSO[d]
  BY <1>2, <1>4, TouchKnown
<1>6. removals \in [Calls -> Nat] BY <1>1 DEF RestTypes
<1>7. /\ removals' \in [Calls -> Nat]
      /\ \A d \in Calls : removals'[d] > 0 => removals[d] > 0
  BY <1>2, <1>6
<1>8. ListTypes(houndQueue', inProgress', houndCallers')
  BY <1>1, <1>2, <1>3 DEF ListTypes, Once
<1>9. MapTypes(foxQSO') BY <1>1, <1>5 DEF MapTypes
<1>10. RestTypes' BY <1>1, <1>2, <1>7 DEF RestTypes
<1>11. InMap' /\ Rushed' BY <1>1, <1>2, <1>4, <1>5 DEF InMap, Rushed
<1> QED BY <1>2, <1>3, <1>5, <1>7, <1>8, <1>9, <1>10, <1>11, ListsParts

\* A transmission keeps the lists, and the map of QSOs.
LEMMA FoxTxStep ==
    ASSUME Lists, NEW set \in Settings, FoxTx(set)
    PROVE  Lists'
<1> DEFINE plan == Plan(set)
           fresh == Range(plan.fresh)
<1>1. /\ ListTypes(houndQueue, inProgress, houndCallers)
      /\ MapTypes(foxQSO) /\ RestTypes /\ InMap /\ Rushed
  BY ListsParts
<1>2. /\ houndQueue' \in Seq(Calls) /\ Len(houndQueue') <= MaxHounds
      /\ inProgress' \in Seq(Calls)
      /\ Once(houndQueue', inProgress', houndCallers')
      /\ houndCallers' = houndCallers /\ fresh \subseteq Calls
      /\ Range(inProgress') = (Range(inProgress) \cup fresh) \ OverIn(set)
      /\ DOMAIN foxQSO' = Known(set) \ OverIn(set)
      /\ \A c \in Known(set) \ OverIn(set) : foxQSO'[c] = Counted(AfterTx(c, plan))
      /\ loggedByFox' = loggedByFox \cup {<<c, lastBand>> : c \in ToLog(plan)}
      /\ rushed' \subseteq DOMAIN foxQSO' \cap (rushed \cup Calls)
  BY FoxTxFacts
<1>3. ListTypes(houndQueue', inProgress', houndCallers') BY <1>1, <1>2 DEF ListTypes
<1>4. Known(set) \subseteq Calls \cup {NoCall} BY <1>1, <1>2 DEF Known, MapTypes
<1>5. \A c \in Known(set) \ OverIn(set) : Counted(AfterTx(c, plan)) \in QSOs
  BY AfterTxFacts DEF OverIn, Lists
<1>6. MapTypes(foxQSO') BY <1>2, <1>4, <1>5 DEF MapTypes
<1>7. InMap' BY <1>1, <1>2 DEF InMap, Known
<1>8. RestTypes'
  <2>1. ToLog(plan) \subseteq Calls
    <3>1. \A c \in plan.list1 : c \in DOMAIN foxQSO BY PlanFacts DEF Lists
    <3> QED BY <1>1, <3>1 DEF ToLog, MapTypes
  <2>2. loggedByFox' \subseteq Calls \X Bands /\ lastBand' = lastBand
    <3>1. lastBand' = lastBand BY DEF FoxTx
    <3> HIDE DEF plan
    <3> QED BY <1>1, <1>2, <2>1, <3>1 DEF RestTypes
  <2>3. FoxCQTime \in Nat \ {0} /\ tFoxTxSinceCQ \in 0 .. FoxCQTime /\ Deadline \in Nat \ {0}
    BY <1>1, FoxAssumption, DeadlineType DEF RestTypes
  <2>4. \/ tFoxTxSinceCQ' \in {0, FoxCQTime}
        \/ tFoxTxSinceCQ < FoxCQTime /\ tFoxTxSinceCQ' = tFoxTxSinceCQ + 1
    BY DEF FoxTx, Sent
  <2>5. tFoxTxSinceCQ' \in 0 .. FoxCQTime BY <2>3, <2>4
  <2>6. \E added \in SUBSET ToLog(plan) :
          removals' = [c \in Calls |-> removals[c] + (IF c \in added THEN 1 ELSE 0)]
    BY DEF FoxTx, Sent
  <2>7. removals' \in [Calls -> Nat]
    <3>1. removals \in [Calls -> Nat] BY <1>1 DEF RestTypes
    <3> HIDE DEF plan
    <3> QED BY <2>6, <3>1
  <2>8. idle' \in -1 .. Deadline
    <3>1. /\ idle \in -1 .. Deadline /\ idle < Deadline
          /\ idle' = IF idle < 0 THEN idle ELSE idle + 1
      BY <1>1 DEF RestTypes, FoxTx, Talking
    <3> QED BY <2>3, <3>1
  <2> QED BY <1>1, <2>2, <2>5, <2>7, <2>8 DEF RestTypes
<1>9. Rushed' BY <1>1, <1>2 DEF Rushed
<1> QED BY <1>3, <1>6, <1>7, <1>8, <1>9, ListsParts

\* A reset empties the lists and the map.
LEMMA ResetStep ==
    ASSUME Lists, NEW band \in Bands, FoxReset(band)
    PROVE  Lists' /\ houndQueue' = <<>> /\ DOMAIN foxQSO' = {}
           /\ UNCHANGED <<houndCallers, loggedByFox>>
<1>1. /\ ListTypes(houndQueue, inProgress, houndCallers) /\ RestTypes BY ListsParts
<1>2. /\ houndQueue' = <<>> /\ inProgress' = <<>> /\ foxQSO' = NoQSO /\ rushed' = {}
      /\ lastBand' = band
      /\ UNCHANGED <<houndCallers, loggedByFox, tFoxTxSinceCQ, removals, idle>>
  BY DEF FoxReset
<1>3. /\ <<>> \in Seq(Calls) /\ Len(<<>>) = 0 /\ Range(<<>>) = {} /\ IsInjective(<<>>)
  <2> DEFINE s == <<>>
  <2>1. s \in Seq(Calls) /\ Len(s) = 0 BY EmptySeq
  <2> HIDE DEF s
  <2>2. DOMAIN s = {}
    <3>1. 1 .. 0 = {} OBVIOUS
    <3> QED BY <2>1, <3>1, LenProperties
  <2>3. Range(s) = {} /\ IsInjective(s) BY <2>2 DEF Range, IsInjective
  <2> QED BY <2>1, <2>3 DEF s
<1>4. 0 <= MaxHounds BY FoxAssumption
<1>5. DOMAIN foxQSO' = {} BY <1>2 DEF NoQSO, Touch
<1> DEFINE s == <<>>
<1>6. s \in Seq(Calls) /\ Len(s) = 0 /\ Range(s) = {} /\ IsInjective(s) BY <1>3
<1>7. houndQueue' = s /\ inProgress' = s BY <1>2
<1> HIDE DEF s
<1>8. ListTypes(houndQueue', inProgress', houndCallers')
  BY <1>1, <1>2, <1>4, <1>6, <1>7 DEF ListTypes, Once
<1>9. MapTypes(foxQSO') /\ InMap' /\ Rushed'
  BY <1>2, <1>5, <1>6, <1>7 DEF MapTypes, InMap, Rushed
<1>10. RestTypes' BY <1>1, <1>2 DEF RestTypes
<1> QED BY <1>2, <1>5, <1>8, <1>9, <1>10, ListsParts

\* The map at the start.
LEMMA EmptyMap == Init => DOMAIN foxQSO = {} /\ Range(houndQueue) = {} /\ Range(inProgress) = {}
<1> SUFFICES ASSUME Init
             PROVE  DOMAIN foxQSO = {} /\ Range(houndQueue) = {} /\ Range(inProgress) = {}
  OBVIOUS
<1>1. DOMAIN foxQSO = {}
  <2>1. DOMAIN foxQSO = DOMAIN <<>> BY DEF Init, NoQSO, Touch
  <2> QED BY <2>1
<1>2. houndQueue = <<>> /\ inProgress = <<>> BY DEF Init
<1>3. Range(<<>>) = {} BY DEF Range
<1> QED BY <1>1, <1>2, <1>3

LEMMA ListsInitially == ~EmptyClicks /\ Init => Lists
<1> SUFFICES ASSUME ~EmptyClicks, Init PROVE Lists OBVIOUS
<1>1. /\ houndCallers = {} /\ houndQueue = <<>> /\ inProgress = <<>>
      /\ loggedByFox = {} /\ lastBand \in Bands /\ tFoxTxSinceCQ = FoxCQTime
      /\ removals = [c \in Calls |-> 0] /\ rushed = {} /\ idle = -1
  BY DEF Init
<1>2. /\ <<>> \in Seq(Calls) /\ Len(<<>>) = 0 BY EmptySeq
<1>3. IsInjective(houndQueue) /\ IsInjective(inProgress) BY <1>1 DEF IsInjective
<1>4. MaxHounds \in Nat /\ FoxCQTime \in Nat /\ Deadline \in Nat BY FoxAssumption, DeadlineType
<1>5. ListTypes(houndQueue, inProgress, houndCallers)
  BY <1>1, <1>2, <1>3, <1>4, EmptyMap DEF ListTypes, Once
<1>6. MapTypes(foxQSO) /\ InMap /\ Rushed BY <1>1, EmptyMap DEF MapTypes, InMap, Rushed
<1>7. RestTypes BY <1>1, <1>4 DEF RestTypes
<1> QED BY <1>5, <1>6, <1>7, ListsParts

\* The steps, for a proof by cases.
Clicked == \E c \in Calls \cup {NoCall} : ClickInProgress(c)
Received == \E c \in Calls : FoxRx(c)
Removed == \E c \in Calls : Removal(c)
Reset == \E b \in Bands : FoxReset(b)
Quiet == (\E b \in Bands : DialBand(b)) \/ FallSilent \/ UNCHANGED vars

LEMMA Steps ==
    ASSUME [Next]_vars
    PROVE  Queues \/ Clicked \/ Received \/ Removed \/ Reset \/ Transmit \/ Quiet
BY DEF Next, Queues, Clicked, Received, Removed, Reset, Quiet

\* What is silent keeps the lists, the map and the timers.
LEMMA QuietKeeps ==
    ASSUME Quiet
    PROVE  UNCHANGED <<houndCallers, houndQueue, inProgress, foxQSO, loggedByFox, clock>>
BY DEF Quiet, DialBand, FallSilent, vars

LEMMA ListsStep ==
    ASSUME Lists, [Next]_vars
    PROVE  Lists'
<1>1. CASE Queues BY <1>1, QueueStep
<1>2. CASE Clicked BY <1>2, ClickStep DEF Clicked
<1>3. CASE Received BY <1>3, RxStep DEF Received
<1>4. CASE Removed BY <1>4, RemovalStep DEF Removed
<1>5. CASE Reset BY <1>5, ResetStep DEF Reset
<1>6. CASE Transmit BY <1>6, FoxTxStep DEF Transmit
<1>7. CASE Quiet
  <2>1. /\ ListTypes(houndQueue, inProgress, houndCallers)
        /\ MapTypes(foxQSO) /\ RestTypes /\ InMap /\ Rushed
    BY ListsParts
  <2>2. UNCHANGED <<houndCallers, houndQueue, inProgress, foxQSO, loggedByFox, clock>>
    BY <1>7, QuietKeeps
  <2>3. ListTypes(houndQueue', inProgress', houndCallers') /\ MapTypes(foxQSO') /\ InMap' /\ Rushed'
    BY <2>1, <2>2 DEF InMap, Rushed, clock
  <2>4. lastBand' \in Bands /\ idle' \in -1 .. Deadline
    BY <1>7, <2>1, FoxAssumption, DeadlineType DEF Quiet, DialBand, FallSilent, vars, RestTypes
  <2>5. RestTypes' BY <2>1, <2>2, <2>4 DEF RestTypes, clock
  <2> QED BY <2>3, <2>5, ListsParts
<1> QED BY <1>1, <1>2, <1>3, <1>4, <1>5, <1>6, <1>7, Steps

\* The state of Fox mode is of its type, for any Hounds, bands and limits, if no empty list is
\* double-clicked: the counts and the times of a QSO stay within the limits that
\* foxTxSequencer ends it at.
THEOREM FoxTypes == ~EmptyClicks /\ Spec => []TypeOK
<1> SUFFICES ASSUME ~EmptyClicks PROVE Spec => []TypeOK OBVIOUS
<1>0. Init => Lists BY ListsInitially
<1>1. Lists /\ [Next]_vars => Lists' BY ListsStep
<1>2. Lists => TypeOK BY DEF Lists
<1> QED BY <1>0, <1>1, <1>2, PTL DEF Spec

\* A call is waiting or in QSO, and once, whatever windows it was clicked in and whichever
\* of the timer and foxTxSequencer took it away, if no empty list is double-clicked: with
\* Alt that puts the empty call on the queue, which may be in QSO as well.
THEOREM CallsAreOnce == ~EmptyClicks /\ Spec => []CalledOnce
<1> SUFFICES ASSUME ~EmptyClicks PROVE Spec => []CalledOnce OBVIOUS
<1>0. Init => Lists BY ListsInitially
<1>1. Lists /\ [Next]_vars => Lists' BY ListsStep
<1>2. Lists => CalledOnce BY DEF Lists
<1> QED BY <1>0, <1>1, <1>2, PTL DEF Spec

-----------------------------------------------------------------------------
(* RR73 and reports. *)

\* A QSO with the time of an R+rpt has it, but that of the empty call.
Answered == \A c \in DOMAIN foxQSO \ {NoCall} : foxQSO[c].tFoxRrpt >= 0 => foxQSO[c].rcvd = Report

\* The empty call has no QSO.
Named == NoCall \notin DOMAIN foxQSO

\* A call not yet called is not in m_foxQSO.
Apart == (Range(houndQueue) \cup houndCallers) \cap DOMAIN foxQSO = {}

LEMMA AnsweredStep ==
    ASSUME Lists, Answered, [Next]_vars
    PROVE  Answered'
<1>1. CASE Queues \/ Quiet
  <2>1. foxQSO' = foxQSO BY <1>1, QueueStep, QuietKeeps
  <2> QED BY <2>1 DEF Answered
<1>2. CASE Clicked
  <2>1. PICK c \in Calls \cup {NoCall} : ClickInProgress(c) BY <1>2 DEF Clicked
  <2>2. /\ DOMAIN foxQSO' = DOMAIN foxQSO \cup {c}
        /\ c \in DOMAIN foxQSO \/ c = NoCall
        /\ \A d \in DOMAIN foxQSO' :
             foxQSO'[d].rcvd = QSO(d).rcvd /\ foxQSO'[d].tFoxRrpt = QSO(d).tFoxRrpt
    BY <2>1, ClickStep
  <2>3. \A d \in DOMAIN foxQSO : QSO(d) = foxQSO[d] BY DEF QSO
  <2> QED BY <2>2, <2>3 DEF Answered
<1>3. CASE Received
  <2>1. PICK c \in Calls : FoxRx(c) BY <1>3 DEF Received
  <2>2. /\ DOMAIN foxQSO' = DOMAIN foxQSO
        /\ \A d \in DOMAIN foxQSO : d # c => foxQSO'[d] = foxQSO[d]
        /\ foxQSO'[c].rcvd = Report
    BY <2>1, RxStep
  <2> QED BY <2>2 DEF Answered
<1>4. CASE Removed
  <2>1. PICK c \in Calls : Removal(c) BY <1>4 DEF Removed
  <2>2. DOMAIN foxQSO' = DOMAIN foxQSO /\ \A d \in DOMAIN foxQSO : foxQSO'[d] = foxQSO[d]
    BY <2>1, RemovalStep
  <2> QED BY <2>2 DEF Answered
<1>5. CASE Reset
  <2>1. DOMAIN foxQSO' = {} BY <1>5, ResetStep DEF Reset
  <2> QED BY <2>1 DEF Answered
<1>6. CASE Transmit
  <2>1. PICK set \in Settings : FoxTx(set) BY <1>6 DEF Transmit
  <2> DEFINE plan == Plan(set)
             q(c) == Counted(AfterTx(c, plan))
  <2>2. /\ DOMAIN foxQSO' = Known(set) \ OverIn(set)
        /\ \A c \in DOMAIN foxQSO' : foxQSO'[c] = q(c)
    BY <2>1, FoxTxFacts
  <2>3. \A c \in DOMAIN foxQSO' : ~Over(AfterTx(c, plan), tFoxTx + 1) BY <2>2 DEF OverIn
  <2>4. \A c \in DOMAIN foxQSO' :
          /\ q(c) \in QSOs
          /\ IF c \in Range(plan.fresh)
               THEN q(c).tFoxRrpt < 0
               ELSE (q(c).tFoxRrpt < 0 <=> QSO(c).tFoxRrpt < 0) /\ q(c).rcvd = QSO(c).rcvd
    BY <2>3, AfterTxFacts DEF Lists
  <2>5. \A c : QSO(c) \in QSOs BY QSOTypes DEF Lists
  <2>6. \A r \in QSOs : r.tFoxRrpt \in Int BY DEF QSOs
  <2> SUFFICES ASSUME NEW c \in DOMAIN foxQSO', c # NoCall, foxQSO'[c].tFoxRrpt >= 0
               PROVE  foxQSO'[c].rcvd = Report
    BY DEF Answered
  <2>7. foxQSO'[c] = q(c) BY <2>2
  <2> HIDE DEF q
  <2>8. ~(q(c).tFoxRrpt < 0) BY <2>4, <2>6, <2>7
  <2>9. /\ c \notin Range(plan.fresh) /\ q(c).rcvd = QSO(c).rcvd /\ ~(QSO(c).tFoxRrpt < 0)
    BY <2>4, <2>8
  <2>10. c \in DOMAIN foxQSO /\ QSO(c) = foxQSO[c] BY <2>2, <2>9 DEF Known, QSO
  <2>11. foxQSO[c].tFoxRrpt >= 0 BY <2>5, <2>6, <2>9, <2>10
  <2> QED BY <2>7, <2>9, <2>10, <2>11 DEF Answered
<1> QED BY <1>1, <1>2, <1>3, <1>4, <1>5, <1>6, Steps

LEMMA NamedStep ==
    ASSUME Lists, Named, [Next]_vars
    PROVE  Named'
<1>1. CASE Queues \/ Quiet
  <2>1. foxQSO' = foxQSO BY <1>1, QueueStep, QuietKeeps
  <2> QED BY <2>1 DEF Named
<1>2. CASE Clicked BY <1>2, ClickStep DEF Clicked, Named
<1>3. CASE Received BY <1>3, RxStep DEF Received, Named
<1>4. CASE Removed BY <1>4, RemovalStep DEF Removed, Named
<1>5. CASE Reset BY <1>5, ResetStep DEF Reset, Named
<1>6. CASE Transmit
  <2>1. PICK set \in Settings : FoxTx(set) BY <1>6 DEF Transmit
  <2>2. Range(Plan(set).fresh) \subseteq Calls /\ DOMAIN foxQSO' \subseteq Known(set)
    BY <2>1, FoxTxFacts
  <2>3. NoCall \notin Calls BY FoxAssumption
  <2> QED BY <2>2, <2>3 DEF Known, Named
<1> QED BY <1>1, <1>2, <1>3, <1>4, <1>5, <1>6, Steps

LEMMA ApartStep ==
    ASSUME Lists, Apart, [Next]_vars, ~Requeue
    PROVE  Apart'
<1>1. CASE Queues
  <2>1. /\ foxQSO' = foxQSO
        /\ \A c \in Range(houndQueue') \cup houndCallers' :
             c \in Range(houndQueue) \cup houndCallers \/ c \notin DOMAIN foxQSO
    BY <1>1, QueueStep
  <2> QED BY <2>1 DEF Apart
<1>2. CASE Clicked
  <2>1. PICK c \in Calls \cup {NoCall} : ClickInProgress(c) BY <1>2 DEF Clicked
  <2>2. /\ DOMAIN foxQSO' = DOMAIN foxQSO \cup {c}
        /\ c \in DOMAIN foxQSO \/ c = NoCall
        /\ houndQueue' = houndQueue /\ houndCallers' = houndCallers
    BY <2>1, ClickStep
  <2>3. Range(houndQueue) \cup houndCallers \subseteq Calls
    BY RangeOfSeq DEF Lists, TypeOK, Entries
  <2>4. NoCall \notin Calls BY FoxAssumption
  <2> QED BY <2>2, <2>3, <2>4 DEF Apart
<1>3. CASE Received BY <1>3, RxStep DEF Received, Apart
<1>4. CASE Removed BY <1>4, RemovalStep DEF Removed, Apart
<1>5. CASE Reset BY <1>5, ResetStep DEF Reset, Apart
<1>6. CASE Transmit
  <2>1. PICK set \in Settings : FoxTx(set) BY <1>6 DEF Transmit
  <2> DEFINE fresh == Range(Plan(set).fresh)
  <2>2. /\ fresh \subseteq Range(houndQueue) /\ DOMAIN foxQSO' \subseteq DOMAIN foxQSO \cup fresh
        /\ Range(houndQueue') \subseteq Range(houndQueue) \ fresh /\ houndCallers' = houndCallers
    BY <2>1, FoxTxFacts DEF Known
  <2>3. houndCallers \cap Range(houndQueue) = {} BY ListsParts DEF ListTypes, Once
  <2> QED BY <2>2, <2>3 DEF Apart
<1>7. CASE Quiet
  <2>1. UNCHANGED <<houndQueue, houndCallers, foxQSO>> BY <1>7, QuietKeeps
  <2> QED BY <2>1 DEF Apart
<1> QED BY <1>1, <1>2, <1>3, <1>4, <1>5, <1>6, <1>7, Steps

LEMMA MapInitially == Init => Answered /\ Named /\ Apart
BY EmptyMap DEF Answered, Named, Apart

\* RR73 answers an R+rpt, whoever times out, strikes out or is logged meanwhile, if no empty
\* list is double-clicked: that makes a QSO of the empty call.
THEOREM RR73IsAnAnswer == ~EmptyClicks /\ Spec => []RR73AnswersReport
<1> SUFFICES ASSUME ~EmptyClicks PROVE Spec => []RR73AnswersReport OBVIOUS
<1> DEFINE Inv == Lists /\ Answered /\ Named
<1>1. Init => Inv BY ListsInitially, MapInitially
<1>2. Inv /\ [Next]_vars => Inv' BY ListsStep, AnsweredStep, NamedStep
<1>3. Inv => RR73AnswersReport
  <2> SUFFICES ASSUME Inv, NEW set \in Settings, NEW c \in Plan(set).list1
               PROVE  foxQSO[c].rcvd = Report
    BY DEF RR73AnswersReport
  <2>1. c \in DOMAIN foxQSO /\ foxQSO[c].tFoxRrpt >= 0 BY PlanFacts DEF Lists
  <2> QED BY <2>1 DEF Answered, Named
<1> HIDE DEF Inv
<1> QED BY <1>1, <1>2, <1>3, PTL DEF Spec

\* No Hound is sent RR73 and a report in one transmission, whichever timers still run, if none
\* still in m_foxQSO is queued again and no empty list is double-clicked.
THEOREM OneMessageToEach == ~Requeue /\ ~EmptyClicks /\ Spec => []OneMessageEach
<1> SUFFICES ASSUME ~Requeue, ~EmptyClicks PROVE Spec => []OneMessageEach OBVIOUS
<1> DEFINE Inv == Lists /\ Apart
<1>1. Init => Inv BY ListsInitially, MapInitially
<1>2. Inv /\ [Next]_vars => Inv' BY ListsStep, ApartStep
<1>3. Inv => OneMessageEach
  <2> SUFFICES ASSUME Inv, NEW set \in Settings, NEW c \in Plan(set).list1,
                      c \in Plan(set).called
               PROVE  FALSE
    BY DEF OneMessageEach
  <2>1. /\ c \in DOMAIN foxQSO /\ foxQSO[c].tFoxRrpt >= 0
        /\ c \in Range(Plan(set).fresh) \/ QSO(c).tFoxRrpt < 0
        /\ foxQSO[c] \in QSOs
    BY PlanFacts DEF Lists, TypeOK
  <2>2. foxQSO[c].tFoxRrpt \in Int BY <2>1 DEF QSOs
  <2>3. c \in Range(Plan(set).fresh) BY <2>1, <2>2 DEF QSO
  <2>4. Range(Plan(set).fresh) \subseteq Range(houndQueue) BY PlanFacts DEF Lists, Range
  <2> QED BY <2>1, <2>3, <2>4 DEF Apart
<1> HIDE DEF Inv
<1> QED BY <1>1, <1>2, <1>3, PTL DEF Spec

\* A transmission has no more messages than slots, whatever is set and whatever the number of
\* slots, of Hounds queued and of answers due, if no empty list is double-clicked.
THEOREM MessagesFitSlots == ~EmptyClicks /\ Spec => []SlotsFit
<1> SUFFICES ASSUME ~EmptyClicks PROVE Spec => []SlotsFit OBVIOUS
<1>0. Init => Lists BY ListsInitially
<1>1. Lists /\ [Next]_vars => Lists' BY ListsStep
<1>2. Lists => SlotsFit
  <2> SUFFICES ASSUME Lists, NEW set \in Settings, set.first <= set.slots
               PROVE  Messages(set, Plan(set)) <= set.slots
    BY DEF SlotsFit
  <2> DEFINE plan == Plan(set)
             a == Cardinality(plan.list1)
             b == Cardinality(plan.called)
  <2>1. a \in Nat /\ b \in Nat /\ set.first + a <= set.slots /\ set.first + b <= set.slots
    BY PlanCounts DEF Lists
  <2>2. set.slots \in Nat \ {0} BY SettingsTypes
  <2> HIDE DEF a, b
  <2>3. Messages(set, plan) = IF plan.cqAlone THEN 1 ELSE set.first + (IF a > b THEN a ELSE b)
    BY DEF Messages, a, b
  <2>4. set.first + (IF a > b THEN a ELSE b) <= set.slots BY <2>1
  <2>5. 1 <= set.slots BY <2>2
  <2> QED BY <2>3, <2>4, <2>5
<1> QED BY <1>0, <1>1, <1>2, PTL DEF Spec

\* Transmissions alone log.
LEMMA LogStep ==
    ASSUME Lists, Answered, Apart, [Next]_vars, NEW c \in Calls, NEW b \in Bands,
           <<c, b>> \in loggedByFox', <<c, b>> \notin loggedByFox
    PROVE  /\ c \in DOMAIN foxQSO /\ foxQSO[c].rcvd = Report
           /\ c \in DOMAIN foxQSO' => foxQSO'[c].rcvd = Report
<1>1. ~(Queues \/ Clicked \/ Received \/ Removed \/ Reset \/ Quiet)
  BY QueueStep, ClickStep, RxStep, RemovalStep, ResetStep, QuietKeeps
  DEF Clicked, Received, Removed, Reset
<1>2. PICK set \in Settings : FoxTx(set) BY <1>1, Steps DEF Transmit
<1> DEFINE plan == Plan(set)
<1>3. /\ loggedByFox' = loggedByFox \cup {<<d, lastBand>> : d \in ToLog(plan)}
      /\ Range(plan.fresh) \subseteq Range(houndQueue)
      /\ DOMAIN foxQSO' = Known(set) \ OverIn(set)
      /\ \A d \in DOMAIN foxQSO' : foxQSO'[d] = Counted(AfterTx(d, plan))
  BY <1>2, FoxTxFacts
<1>4. c \in plan.list1 /\ c # NoCall BY <1>3 DEF ToLog
<1>5. c \in DOMAIN foxQSO /\ foxQSO[c].tFoxRrpt >= 0 BY <1>4, PlanFacts DEF Lists
<1>6. foxQSO[c].rcvd = Report BY <1>4, <1>5 DEF Answered
<1>7. c \notin Range(plan.fresh) BY <1>3, <1>5 DEF Apart
<1>8. ASSUME c \in DOMAIN foxQSO' PROVE foxQSO'[c].rcvd = Report
  <2>1. ~Over(AfterTx(c, plan), tFoxTx + 1) BY <1>3, <1>8 DEF OverIn
  <2>2. Counted(AfterTx(c, plan)).rcvd = QSO(c).rcvd BY <1>7, <2>1, AfterTxFacts DEF Lists
  <2>3. QSO(c) = foxQSO[c] BY <1>5 DEF QSO
  <2> QED BY <1>3, <1>6, <1>8, <2>2, <2>3
<1> QED BY <1>5, <1>6, <1>8

\* What is logged the first time has the report received in the QSO that is logged, if no
\* Hound still in m_foxQSO is queued again, so that its QSO would begin anew, and no empty
\* list is double-clicked.
THEOREM LoggedIsAnswered == ~Requeue /\ ~EmptyClicks /\ Spec => LoggedWithReport
<1> SUFFICES ASSUME ~Requeue, ~EmptyClicks PROVE Spec => LoggedWithReport OBVIOUS
<1> DEFINE Inv == Lists /\ Answered /\ Apart
<1>1. Init => Inv BY ListsInitially, MapInitially
<1>2. Inv /\ [Next]_vars => Inv' BY ListsStep, AnsweredStep, ApartStep
<1> DEFINE Logs == \A c \in Calls, b \in Bands :
                     <<c, b>> \in loggedByFox' /\ (\A x \in Bands : <<c, x>> \notin loggedByFox)
                       => /\ c \in DOMAIN foxQSO /\ foxQSO[c].rcvd = Report
                          /\ c \in DOMAIN foxQSO' => foxQSO'[c].rcvd = Report
<1>3. Inv /\ [Next]_vars => [Logs]_vars BY LogStep
<1> HIDE DEF Inv
<1> QED BY <1>1, <1>2, <1>3, PTL DEF Spec, LoggedWithReport

-----------------------------------------------------------------------------
(* Calling a Hound until it answers. *)

\* Who is taken off those in QSO by the timer is not to be called again, but one that joined
\* them while it ran.
RemovedAnswered ==
  \A c \in DOMAIN foxQSO \ rushed :
    c \in Calls /\ removals[c] > 0 => foxQSO[c].tFoxRrpt >= 0

CallInv == RemovedAnswered /\ StillCalled

LEMMA CallStep ==
    ASSUME Lists, Apart, CallInv, [Next]_vars
    PROVE  CallInv'
<1>0. /\ \A d \in DOMAIN foxQSO : /\ QSO(d) = foxQSO[d] /\ foxQSO[d] \in QSOs
                                  /\ foxQSO[d].tFoxRrpt \in Int /\ foxQSO[d].ncall \in Int
      /\ MaxStrikes \in Nat /\ \A r \in QSOs : r.tFoxRrpt \in Int
  <2>1. \A d \in DOMAIN foxQSO : QSO(d) = foxQSO[d] /\ foxQSO[d] \in QSOs
    BY DEF QSO, Lists, TypeOK
  <2>2. \A r \in QSOs : r.tFoxRrpt \in Int /\ r.ncall \in Int BY DEF QSOs
  <2>3. MaxStrikes \in Nat BY FoxAssumption
  <2> QED BY <2>1, <2>2, <2>3
<1>1. CASE Queues \/ Quiet
  <2>1. UNCHANGED <<foxQSO, inProgress, removals, rushed>> BY <1>1, QueueStep, QuietKeeps DEF clock
  <2> QED BY <2>1 DEF CallInv, RemovedAnswered, StillCalled
<1>2. CASE Clicked
  <2>1. PICK c \in Calls \cup {NoCall} : ClickInProgress(c) BY <1>2 DEF Clicked
  <2>2. /\ DOMAIN foxQSO' = DOMAIN foxQSO \cup {c}
        /\ c \in DOMAIN foxQSO \/ c = NoCall
        /\ \A d \in DOMAIN foxQSO' :
             /\ foxQSO'[d].tFoxRrpt = QSO(d).tFoxRrpt
             /\ foxQSO'[d].ncall < MaxStrikes => d # c /\ QSO(d).ncall < MaxStrikes
        /\ UNCHANGED <<inProgress, removals, rushed>>
    BY <2>1, ClickStep DEF clock
  <2>3. NoCall \notin Calls BY FoxAssumption
  <2>4. RemovedAnswered' BY <1>0, <2>2, <2>3 DEF CallInv, RemovedAnswered
  <2>5. StillCalled' BY <1>0, <2>2 DEF CallInv, StillCalled
  <2> QED BY <2>4, <2>5 DEF CallInv
<1>3. CASE Received
  <2>1. PICK c \in Calls : FoxRx(c) BY <1>3 DEF Received
  <2>2. /\ DOMAIN foxQSO' = DOMAIN foxQSO /\ UNCHANGED <<inProgress, removals, rushed>>
        /\ \A d \in DOMAIN foxQSO : d # c => foxQSO'[d] = foxQSO[d]
        /\ foxQSO'[c].tFoxRrpt >= 0
    BY <2>1, RxStep DEF clock
  <2>3. RemovedAnswered' BY <2>2 DEF CallInv, RemovedAnswered
  <2>4. StillCalled'
    <3> SUFFICES ASSUME NEW d \in DOMAIN foxQSO' \ rushed', foxQSO'[d].tFoxRrpt < 0,
                        foxQSO'[d].ncall < MaxStrikes
                 PROVE  d \in Range(inProgress')
      BY DEF StillCalled
    <3>1. d # c
      <4>1. Lists' BY <2>1, RxStep
      <4>2. foxQSO'[d].tFoxRrpt \in Int BY <1>0, <4>1 DEF Lists, TypeOK
      <4> QED BY <2>2, <4>2
    <3> QED BY <2>2, <3>1 DEF CallInv, StillCalled
  <2> QED BY <2>3, <2>4 DEF CallInv
<1>4. CASE Removed
  <2>1. PICK c \in Calls : Removal(c) BY <1>4 DEF Removed
  <2>2. /\ Range(inProgress') = Range(inProgress) \ {c}
        /\ DOMAIN foxQSO' = DOMAIN foxQSO
        /\ \A d \in DOMAIN foxQSO : foxQSO'[d] = foxQSO[d]
        /\ removals[c] > 0 /\ \A d \in Calls : removals'[d] > 0 => removals[d] > 0
        /\ rushed' = rushed
    BY <2>1, RemovalStep
  <2>3. RemovedAnswered' BY <2>2 DEF CallInv, RemovedAnswered
  <2>4. c \in DOMAIN foxQSO \ rushed => ~(foxQSO[c].tFoxRrpt < 0)
    BY <1>0, <2>2 DEF CallInv, RemovedAnswered
  <2>5. StillCalled' BY <2>2, <2>4 DEF CallInv, StillCalled
  <2> QED BY <2>3, <2>5 DEF CallInv
<1>5. CASE Reset
  <2>1. DOMAIN foxQSO' = {} BY <1>5, ResetStep DEF Reset
  <2> QED BY <2>1 DEF CallInv, RemovedAnswered, StillCalled
<1>6. CASE Transmit
  <2>1. PICK set \in Settings : FoxTx(set) BY <1>6 DEF Transmit
  <2> DEFINE plan == Plan(set)
             q(c) == Counted(AfterTx(c, plan))
  <2>2. /\ Range(plan.fresh) \subseteq Range(houndQueue)
        /\ Range(inProgress') = (Range(inProgress) \cup Range(plan.fresh)) \ OverIn(set)
        /\ DOMAIN foxQSO' = Known(set) \ OverIn(set)
        /\ \A c \in DOMAIN foxQSO' : foxQSO'[c] = q(c)
        /\ \A c \in Calls : removals'[c] = removals[c] \/ c \in ToLog(plan)
        /\ rushed' = DOMAIN foxQSO' \cap
                       ((rushed \ Range(plan.fresh))
                        \cup {c \in Range(plan.fresh) \cap Calls : removals[c] > 0})
    BY <2>1, FoxTxFacts
  <2>3. \A c \in DOMAIN foxQSO' : ~Over(AfterTx(c, plan), tFoxTx + 1) BY <2>2 DEF OverIn
  <2>4. \A c \in DOMAIN foxQSO' :
          /\ q(c) \in QSOs
          /\ q(c).ncall < MaxStrikes => c \in Range(plan.fresh) \/ QSO(c).ncall < MaxStrikes
          /\ c \notin Range(plan.fresh) => (q(c).tFoxRrpt < 0 <=> QSO(c).tFoxRrpt < 0)
    BY <2>3, AfterTxFacts DEF Lists
  <2> HIDE DEF q
  <2>5. \A c \in DOMAIN foxQSO' \ rushed' : c \notin Range(plan.fresh) => c \notin rushed
    BY <2>2
  <2>6. \A c \in DOMAIN foxQSO' : c \in Range(plan.fresh) \/ c \in DOMAIN foxQSO
    BY <2>2 DEF Known
  <2>7. RemovedAnswered'
    <3> SUFFICES ASSUME NEW c \in DOMAIN foxQSO' \ rushed', c \in Calls, removals'[c] > 0
                 PROVE  foxQSO'[c].tFoxRrpt >= 0
      BY DEF RemovedAnswered
    <3>1. c \notin Range(plan.fresh) /\ c \in DOMAIN foxQSO /\ foxQSO[c].tFoxRrpt >= 0
      <4>1. CASE c \in ToLog(plan)
        <5>1. c \in plan.list1 BY <4>1 DEF ToLog
        <5>2. c \in DOMAIN foxQSO /\ foxQSO[c].tFoxRrpt >= 0 BY <5>1, PlanFacts DEF Lists
        <5>3. c \notin Range(plan.fresh) BY <2>2, <5>2 DEF Apart
        <5> QED BY <5>2, <5>3
      <4>2. CASE c \notin ToLog(plan)
        <5>1. removals[c] > 0 BY <2>2, <4>2
        <5>2. c \notin Range(plan.fresh) BY <2>2, <5>1
        <5>3. c \in DOMAIN foxQSO \ rushed BY <2>5, <2>6, <5>2
        <5> QED BY <5>1, <5>2, <5>3 DEF CallInv, RemovedAnswered
      <4> QED BY <4>1, <4>2
    <3>2. ~(QSO(c).tFoxRrpt < 0) BY <1>0, <3>1
    <3>3. ~(q(c).tFoxRrpt < 0) /\ q(c).tFoxRrpt \in Int BY <1>0, <2>4, <3>1, <3>2
    <3> QED BY <2>2, <3>3
  <2>8. StillCalled'
    <3> SUFFICES ASSUME NEW c \in DOMAIN foxQSO' \ rushed', foxQSO'[c].tFoxRrpt < 0,
                        foxQSO'[c].ncall < MaxStrikes
                 PROVE  c \in Range(inProgress) \cup Range(plan.fresh)
      BY <2>2 DEF StillCalled
    <3>1. CASE c \in Range(plan.fresh) BY <3>1
    <3>2. CASE c \notin Range(plan.fresh)
      <4>1. c \in DOMAIN foxQSO /\ foxQSO[c].tFoxRrpt < 0 /\ foxQSO[c].ncall < MaxStrikes
        BY <1>0, <2>2, <2>4, <2>6, <3>2
      <4>2. c \notin rushed BY <2>5, <3>2
      <4> QED BY <4>1, <4>2 DEF CallInv, StillCalled
    <3> QED BY <3>1, <3>2
  <2> QED BY <2>7, <2>8 DEF CallInv
<1> QED BY <1>1, <1>2, <1>3, <1>4, <1>5, <1>6, Steps

\* A Hound whose QSO waits for its report is called until it answers or strikes out, if no
\* Hound still in m_foxQSO is queued again and no empty list is double-clicked, for any number
\* of timers that run when Fox is keyed, but for a QSO that began while one of the same Hound
\* ran.
THEOREM HoundsAreStillCalled == ~Requeue /\ ~EmptyClicks /\ Spec => []StillCalled
<1> SUFFICES ASSUME ~Requeue, ~EmptyClicks PROVE Spec => []StillCalled OBVIOUS
<1> DEFINE Inv == Lists /\ Apart /\ CallInv
<1>1. Init => Inv
  BY ListsInitially, MapInitially, EmptyMap DEF CallInv, RemovedAnswered, StillCalled
<1>2. Inv /\ [Next]_vars => Inv' BY ListsStep, ApartStep, CallStep
<1>3. Inv => StillCalled BY DEF CallInv
<1> HIDE DEF Inv
<1> QED BY <1>1, <1>2, <1>3, PTL DEF Spec

-----------------------------------------------------------------------------
(* The end of every QSO. *)

\* Hounds whose QSO waits for more calls, those of them on the list of those called, and the
\* calls that may still be made of Hounds: by its number, each one of a Hound in the queue and
\* those after ncall of one that is called.
Waiting == {c \in DOMAIN foxQSO : foxQSO[c].tFoxRrpt < 0 /\ foxQSO[c].ncall < MaxStrikes}
ToCall == Waiting \cap Range(inProgress)

CallsLeft ==
  {p \in Calls \X (0 .. MaxStrikes - 1) :
     \/ p[1] \in Range(houndQueue)
     \/ p[1] \in ToCall /\ p[2] >= foxQSO[p[1]].ncall}

\* A QSO that is no longer called is timed, by its R+rpt or by the count of its calls, which
\* goes on; it has so many transmissions left.
Timed ==
  \A c \in DOMAIN foxQSO \ Waiting :
    foxQSO[c].tFoxRrpt >= 5 \/ (foxQSO[c].tFoxRrpt <= 0 /\ foxQSO[c].ncall >= MaxStrikes)

TxLeft(q) ==
  IF q.tFoxRrpt > 0 THEN q.tFoxRrpt - 4
  ELSE IF q.ncall + 1 >= MaxStrikes + MaxFoxWait THEN 1 ELSE MaxStrikes + MaxFoxWait - q.ncall

\* While Fox is silent, the calls left, a stand-alone CQ before each and the wait after the
\* last end within the Deadline, and so does every other QSO.
CallsEnd ==
  CallsLeft # {} =>
    idle + 2 * Cardinality(CallsLeft) + MaxFoxWait
      - (IF tFoxTxSinceCQ >= FoxCQTime THEN 1 ELSE 2) <= Deadline

OthersEnd == \A c \in DOMAIN foxQSO \ Waiting : idle + TxLeft(foxQSO[c]) <= Deadline

Ending == Timed /\ (~Talking => CallsEnd /\ OthersEnd)

\* The entries of a map of QSOs are numbers to count with.
LEMMA QSONumbers ==
    ASSUME Lists
    PROVE  \A c \in DOMAIN foxQSO :
             /\ QSO(c) = foxQSO[c] /\ foxQSO[c].tFoxRrpt \in -1 .. tFoxTx
             /\ foxQSO[c].ncall \in 0 .. MaxStrikes + MaxFoxWait
<1>1. \A c \in DOMAIN foxQSO : QSO(c) = foxQSO[c] /\ foxQSO[c] \in QSOs
  BY DEF QSO, Lists, TypeOK
<1>2. \A r \in QSOs : r.tFoxRrpt \in -1 .. tFoxTx /\ r.ncall \in 0 .. MaxStrikes + MaxFoxWait
  BY DEF QSOs
<1> QED BY <1>1, <1>2

\* There are at most MaxStrikes calls of each Hound left.
LEMMA CallsLeftCount ==
    /\ IsFiniteSet(CallsLeft) /\ Cardinality(CallsLeft) \in Nat
    /\ Cardinality(CallsLeft) <= Cardinality(Calls) * MaxStrikes
    /\ CallsLeft # {} => Cardinality(CallsLeft) >= 1
<1> DEFINE N == 0 .. MaxStrikes - 1
<1>1. MaxStrikes \in Nat \ {0} /\ IsFiniteSet(Calls) BY FoxAssumption
<1>2. IsFiniteSet(N) /\ Cardinality(N) = MaxStrikes
  <2>1. 0 \in Int /\ MaxStrikes - 1 \in Int BY <1>1
  <2>2. /\ IsFiniteSet(N)
        /\ Cardinality(N) = IF 0 > MaxStrikes - 1 THEN 0 ELSE MaxStrikes - 1 - 0 + 1
    BY <2>1, FS_Interval
  <2> QED BY <1>1, <2>2
<1> HIDE DEF N
<1>3. IsFiniteSet(Calls \X N) /\ Cardinality(Calls \X N) = Cardinality(Calls) * MaxStrikes
  BY <1>1, <1>2, FS_Product
<1>4. CallsLeft \in SUBSET (Calls \X N) BY DEF CallsLeft, N
<1>5. IsFiniteSet(CallsLeft) /\ Cardinality(CallsLeft) <= Cardinality(Calls \X N)
  BY <1>3, <1>4, FS_Subset
<1>6. Cardinality(CallsLeft) \in Nat BY <1>5, FS_CardinalityType
<1>7. CallsLeft # {} => Cardinality(CallsLeft) # 0 BY <1>5, FS_EmptySet
<1> QED BY <1>3, <1>5, <1>6, <1>7

\* What the Deadline allows for.
LEMMA DeadlineAllows ==
    /\ 2 * (Cardinality(Calls) * MaxStrikes) + MaxFoxWait - 1 <= Deadline
    /\ 2 * MaxFoxWait + 1 <= Deadline
<1>1. /\ MaxStrikes \in Nat /\ MaxFoxWait \in Nat \ {0} /\ Cardinality(Calls) \in Nat
  BY FoxAssumption, FS_CardinalityType
<1>2. /\ 2 * MaxStrikes * Cardinality(Calls) = 2 * (Cardinality(Calls) * MaxStrikes)
      /\ Cardinality(Calls) * MaxStrikes \in Nat
  BY <1>1
<1> DEFINE n == 2 * MaxStrikes * Cardinality(Calls)
<1>3. n \in Nat BY <1>1
<1>4. Deadline = IF n + MaxFoxWait - 1 < 2 * MaxFoxWait + 1
                   THEN 2 * MaxFoxWait + 1 ELSE n + MaxFoxWait - 1
  BY DEF Deadline
<1> HIDE DEF n
<1>5. n + MaxFoxWait - 1 <= Deadline /\ 2 * MaxFoxWait + 1 <= Deadline BY <1>1, <1>3, <1>4
<1> QED BY <1>2, <1>5 DEF n

\* What talks goes on talking, but for the step to silence.
LEMMA SilentSteps ==
    ASSUME [Next]_vars, ~Talking'
    PROVE  FallSilent \/ (~Talking /\ (Transmit \/ Removed \/ UNCHANGED vars))
<1>1. CASE UNCHANGED vars BY <1>1 DEF vars, Talking
<1>2. CASE ListHounds BY <1>2 DEF ListHounds, Talking
<1>3. CASE \E c \in Calls : (\E top \in BOOLEAN : SelectHound(c, top)) \/ ActiveStation(c) \/ FoxRx(c)
  BY <1>3 DEF SelectHound, ActiveStation, FoxRx, Talking
<1>4. CASE \E c \in Calls : Removal(c) BY <1>4 DEF Removal, Talking, Removed
<1>5. CASE \E i \in 1..MaxHounds, alt \in BOOLEAN : ClickQueue(i, alt)
  BY <1>5 DEF ClickQueue, Talking
<1>6. CASE \E c \in Calls \cup {NoCall} : ClickInProgress(c) BY <1>6 DEF ClickInProgress, Talking
<1>7. CASE \E b \in Bands : FoxReset(b) \/ DialBand(b) BY <1>7 DEF FoxReset, DialBand, Talking
<1>8. CASE Transmit BY <1>8 DEF Transmit, FoxTx, Talking
<1> QED BY <1>1, <1>2, <1>3, <1>4, <1>5, <1>6, <1>7, <1>8 DEF Next

\* While calls are left, a transmission that is no stand-alone CQ calls somebody.
LEMMA SomebodyCalled ==
    ASSUME Lists, NEW set \in Settings, set.first <= 0,
           ~Plan(set).cqAlone, CallsLeft # {}
    PROVE  Plan(set).called # {}
<1> DEFINE room == set.reports - set.first
           again == CallAgain(room)
           fresh == First(houndQueue, room - Len(again))
           s == again \o fresh
<1>1. set.slots \in Nat \ {0} /\ room \in Nat \ {0}
  <2>1. set.reports \in Nat \ {0} BY FoxAssumption DEF Settings
  <2> QED BY <2>1, SettingsTypes
<1>2. Plan(set).called = Range(First(s, set.slots)) BY DEF Plan
<1> HIDE DEF room
<1>3. /\ again \in Seq(Calls) /\ Len(again) \in Nat
      /\ \A c \in Range(inProgress) :
           QSO(c).tFoxRrpt < 0 /\ QSO(c).ncall < MaxStrikes => Len(again) > 0
  <2>1. TypeOK /\ ~EmptyClicks /\ room \in Int /\ room > 0 BY <1>1 DEF Lists
  <2> QED BY ONLY <2>1, AgainFacts
<1> HIDE DEF again
<1>4. houndQueue \in Seq(Calls) /\ Len(houndQueue) \in Nat
  BY LenProperties DEF Lists, TypeOK, Entries
<1>5. /\ fresh \in Seq(Calls) /\ Len(fresh) \in Nat
      /\ Len(again) = 0 /\ Len(houndQueue) > 0 => Len(fresh) > 0
  <2> DEFINE n == room - Len(again)
  <2>1. n \in Int /\ (Len(again) = 0 => n > 0) BY <1>1, <1>3
  <2> HIDE DEF n
  <2>2. /\ First(houndQueue, n) \in Seq(Calls)
        /\ Len(First(houndQueue, n)) = IF Len(houndQueue) < n THEN Len(houndQueue)
                                       ELSE IF n > 0 THEN n ELSE 0
    BY <1>4, <2>1, FirstFacts
  <2>3. /\ Len(First(houndQueue, n)) \in Nat
        /\ n > 0 /\ Len(houndQueue) > 0 => Len(First(houndQueue, n)) > 0
    BY <1>4, <2>1, <2>2
  <2> QED BY <2>1, <2>2, <2>3 DEF n
<1> HIDE DEF fresh
<1>6. Len(again) > 0 \/ Len(houndQueue) > 0
  <2>1. PICK p \in CallsLeft : TRUE OBVIOUS
  <2>2. CASE p[1] \in Range(houndQueue) BY <1>4, <2>2, SomeEntry
  <2>3. CASE p[1] \in ToCall
    <3> DEFINE c == p[1]
    <3>1. c \in Range(inProgress) /\ foxQSO[c].tFoxRrpt < 0 /\ foxQSO[c].ncall < MaxStrikes
      BY <2>3 DEF ToCall, Waiting
    <3>2. QSO(c) = foxQSO[c] BY <2>3, QSONumbers DEF ToCall, Waiting
    <3> QED BY <1>3, <3>1, <3>2
  <2> QED BY <2>1, <2>2, <2>3 DEF CallsLeft
<1>7. s \in Seq(Calls) /\ Len(s) = Len(again) + Len(fresh) BY <1>3, <1>5, ConcatProperties
<1> HIDE DEF s
<1>8. Len(s) \in Nat /\ Len(s) > 0 BY <1>3, <1>4, <1>5, <1>6, <1>7
<1>9. /\ First(s, set.slots) \in Seq(Calls)
      /\ Len(First(s, set.slots)) = IF Len(s) < set.slots THEN Len(s)
                                    ELSE IF set.slots > 0 THEN set.slots ELSE 0
  BY <1>1, <1>7, FirstFacts
<1>10. Len(First(s, set.slots)) > 0 BY <1>1, <1>8, <1>9
<1> QED BY <1>2, <1>9, <1>10, SomeEntry

\* What a transmission makes of a QSO that stays in m_foxQSO.
LEMMA TxEntry ==
    ASSUME Lists, NEW set \in Settings, FoxTx(set), NEW c \in DOMAIN foxQSO'
    PROVE  LET new == c \in Range(Plan(set).fresh)
               calls == (IF new THEN 0 ELSE foxQSO[c].ncall)
                        + (IF c \in Plan(set).called THEN 1 ELSE 0)
               q == foxQSO'[c]
           IN /\ new \/ c \in DOMAIN foxQSO
              /\ q.tFoxRrpt \in Int /\ calls \in Nat
              /\ q.ncall = IF calls >= MaxStrikes THEN calls + 1 ELSE calls
              /\ q.ncall < MaxStrikes + MaxFoxWait
              /\ IF new THEN q.tFoxRrpt < 0
                 ELSE /\ q.tFoxRrpt = Back(foxQSO[c].tFoxRrpt)
                      /\ foxQSO[c].tFoxRrpt > 0 => foxQSO[c].tFoxRrpt > 5
<1> DEFINE plan == Plan(set)
           a == Counted(AfterTx(c, plan))
<1>1. /\ DOMAIN foxQSO' = Known(set) \ OverIn(set) /\ foxQSO'[c] = a
  BY FoxTxFacts
<1>2. ~Over(AfterTx(c, plan), tFoxTx + 1) BY <1>1 DEF OverIn
<1>3. /\ a \in QSOs
      /\ c \in Range(plan.fresh) => a.tFoxRrpt < 0
      /\ LET calls == (IF c \in Range(plan.fresh) THEN 0 ELSE QSO(c).ncall)
                      + (IF c \in plan.called THEN 1 ELSE 0)
         IN a.ncall = (IF calls >= MaxStrikes THEN calls + 1 ELSE calls)
      /\ a.ncall < MaxStrikes + MaxFoxWait
      /\ c \notin Range(plan.fresh) =>
           /\ a.tFoxRrpt = Back(QSO(c).tFoxRrpt)
           /\ QSO(c).tFoxRrpt > 0 => QSO(c).tFoxRrpt > 5
  BY <1>2, AfterTxFacts DEF Lists
<1>4. c \in Range(plan.fresh) \/ c \in DOMAIN foxQSO BY <1>1 DEF Known
<1>5. c \in DOMAIN foxQSO => QSO(c) = foxQSO[c] /\ foxQSO[c].ncall \in Nat
  <2>1. MaxStrikes + MaxFoxWait \in Nat BY FoxAssumption
  <2> QED BY <2>1, QSONumbers
<1> HIDE DEF plan, a
<1>6. a.tFoxRrpt \in Int BY <1>3 DEF QSOs
<1> QED BY <1>1, <1>3, <1>4, <1>5, <1>6 DEF plan

\* A transmission uses up calls, at least one if anybody is called.
LEMMA TxCallsLeft ==
    ASSUME Lists, Apart, NEW set \in Settings, FoxTx(set)
    PROVE  /\ CallsLeft' \subseteq CallsLeft
           /\ Plan(set).called # {} => CallsLeft' # CallsLeft
<1> DEFINE fresh == Range(Plan(set).fresh)
<1>1. /\ fresh \subseteq Range(houndQueue) /\ fresh \subseteq Calls
      /\ Range(houndQueue') \subseteq Range(houndQueue) \ fresh
      /\ Range(inProgress') \subseteq Range(inProgress) \cup fresh
  BY FoxTxFacts
<1>2. MaxStrikes \in Nat \ {0} BY FoxAssumption
<1>3. \A c \in DOMAIN foxQSO : /\ foxQSO[c].ncall \in Nat /\ foxQSO[c].tFoxRrpt \in Int
                               /\ QSO(c) = foxQSO[c]
  <2>1. MaxStrikes + MaxFoxWait \in Nat BY FoxAssumption
  <2> QED BY <2>1, QSONumbers
<1>4. \A c \in DOMAIN foxQSO' :
        /\ c \in fresh \/ c \in DOMAIN foxQSO
        /\ c \notin fresh => /\ foxQSO'[c].ncall >= foxQSO[c].ncall
                             /\ foxQSO'[c].tFoxRrpt < 0 => foxQSO[c].tFoxRrpt < 0
        /\ c \in Plan(set).called =>
             foxQSO'[c].ncall > (IF c \in fresh THEN 0 ELSE foxQSO[c].ncall)
  <2> SUFFICES ASSUME NEW c \in DOMAIN foxQSO'
               PROVE  /\ c \in fresh \/ c \in DOMAIN foxQSO
                      /\ c \notin fresh => /\ foxQSO'[c].ncall >= foxQSO[c].ncall
                                           /\ foxQSO'[c].tFoxRrpt < 0 => foxQSO[c].tFoxRrpt < 0
                      /\ c \in Plan(set).called =>
                           foxQSO'[c].ncall > (IF c \in fresh THEN 0 ELSE foxQSO[c].ncall)
    OBVIOUS
  <2> DEFINE calls == (IF c \in fresh THEN 0 ELSE foxQSO[c].ncall)
                      + (IF c \in Plan(set).called THEN 1 ELSE 0)
  <2>1. /\ c \in fresh \/ c \in DOMAIN foxQSO
        /\ foxQSO'[c].ncall = IF calls >= MaxStrikes THEN calls + 1 ELSE calls
        /\ c \notin fresh => foxQSO'[c].tFoxRrpt = Back(foxQSO[c].tFoxRrpt)
    BY TxEntry
  <2> HIDE DEF fresh
  <2>2. c \notin fresh => foxQSO[c].ncall \in Nat /\ foxQSO[c].tFoxRrpt \in Int BY <1>3, <2>1
  <2>3. calls \in Nat BY <2>2
  <2>4. foxQSO'[c].ncall >= calls BY <1>2, <2>1, <2>3
  <2>5. /\ c \notin fresh => foxQSO'[c].ncall >= foxQSO[c].ncall
        /\ c \in Plan(set).called =>
             foxQSO'[c].ncall > (IF c \in fresh THEN 0 ELSE foxQSO[c].ncall)
    BY <1>2, <2>1, <2>2
  <2>6. c \notin fresh /\ foxQSO'[c].tFoxRrpt < 0 => foxQSO[c].tFoxRrpt < 0
    BY <2>1, <2>2 DEF Back
  <2> QED BY <2>1, <2>5, <2>6
<1>5. \A c \in ToCall' : /\ c \in DOMAIN foxQSO' /\ foxQSO'[c].tFoxRrpt < 0
                         /\ c \in Range(inProgress')
                         /\ foxQSO'[c].ncall < MaxStrikes /\ foxQSO'[c].ncall \in Nat
  <2>1. \A c \in DOMAIN foxQSO' : foxQSO'[c].ncall \in Nat
    <3>1. Lists' BY FoxTxStep
    <3>2. \A c \in DOMAIN foxQSO' : foxQSO'[c] \in QSOs BY <3>1 DEF Lists, TypeOK
    <3>3. 0 .. MaxStrikes + MaxFoxWait \subseteq Nat BY FoxAssumption
    <3> QED BY <3>2, <3>3 DEF QSOs
  <2> QED BY <2>1 DEF ToCall, Waiting
<1> HIDE DEF fresh
<1>6. CallsLeft' \subseteq CallsLeft
  <2> SUFFICES ASSUME NEW p \in CallsLeft' PROVE p \in CallsLeft OBVIOUS
  <2> DEFINE c == p[1]
             k == p[2]
  <2>1. p \in Calls \X (0 .. MaxStrikes - 1) /\ k \in Nat BY <1>2 DEF CallsLeft
  <2>2. CASE c \in Range(houndQueue') BY <1>1, <2>1, <2>2 DEF CallsLeft
  <2>3. CASE c \in ToCall' /\ k >= foxQSO'[c].ncall
    <3>1. CASE c \in fresh BY <1>1, <2>1, <3>1 DEF CallsLeft
    <3>2. CASE c \notin fresh
      <4>1. /\ c \in DOMAIN foxQSO /\ foxQSO[c].tFoxRrpt < 0
            /\ foxQSO'[c].ncall >= foxQSO[c].ncall
            /\ c \in Range(inProgress)
        BY <1>1, <1>4, <1>5, <2>3, <3>2
      <4>2. foxQSO[c].ncall < MaxStrikes /\ k >= foxQSO[c].ncall
        BY <1>2, <1>3, <1>5, <2>1, <2>3, <4>1
      <4> QED BY <2>1, <4>1, <4>2 DEF CallsLeft, ToCall, Waiting
    <3> QED BY <3>1, <3>2
  <2> QED BY <2>2, <2>3 DEF CallsLeft
<1>7. ASSUME NEW c \in Plan(set).called PROVE CallsLeft' # CallsLeft
  <2>1. CASE c \in fresh
    <3> DEFINE p == <<c, 0>>
    <3>1. p \in Calls \X (0 .. MaxStrikes - 1) BY <1>1, <1>2, <2>1
    <3>2. p \in CallsLeft BY <1>1, <2>1, <3>1 DEF CallsLeft
    <3>3. p \notin CallsLeft'
      <4>1. c \notin Range(houndQueue') BY <1>1, <2>1
      <4>2. c \in ToCall' => ~(0 >= foxQSO'[c].ncall) BY <1>4, <1>5, <2>1
      <4> QED BY <4>1, <4>2 DEF CallsLeft
    <3> QED BY <3>2, <3>3
  <2>2. CASE c \notin fresh
    <3>1. c \in Range(inProgress) /\ QSO(c).tFoxRrpt < 0 /\ QSO(c).ncall < MaxStrikes
      BY <2>2, PlanFacts DEF Lists, fresh
    <3>2. c \in DOMAIN foxQSO /\ c \in Calls
      BY <3>1, RangeOfSeq DEF Lists, InMap, TypeOK, Entries
    <3>3. c \in ToCall BY <1>3, <3>1, <3>2 DEF ToCall, Waiting
    <3> DEFINE n == foxQSO[c].ncall
               p == <<c, n>>
    <3>4. n \in 0 .. MaxStrikes - 1 BY <1>2, <1>3, <3>1, <3>2
    <3>5. p \in CallsLeft
      <4>1. p \in Calls \X (0 .. MaxStrikes - 1) /\ n >= n BY <3>2, <3>4
      <4> QED BY <3>3, <4>1 DEF CallsLeft
    <3>6. p \notin CallsLeft'
      <4>1. c \notin Range(houndQueue') BY <1>1, <3>2 DEF Apart
      <4>2. c \in ToCall' => ~(n >= foxQSO'[c].ncall) BY <1>3, <1>4, <1>5, <2>2, <3>2
      <4> HIDE DEF n
      <4> QED BY <4>1, <4>2 DEF CallsLeft
    <3> QED BY <3>5, <3>6
  <2> QED BY <2>1, <2>2
<1> QED BY <1>6, <1>7

\* The counting of a transmission.
LEMMA TxCounts ==
    ASSUME Lists, NEW set \in Settings, FoxTx(set), ~Talking
    PROVE  /\ idle' = idle + 1 /\ set.first <= 0 /\ idle \in Nat
           /\ tFoxTxSinceCQ \in Nat /\ tFoxTxSinceCQ' \in Nat
           /\ Plan(set).cqAlone => tFoxTxSinceCQ >= FoxCQTime /\ tFoxTxSinceCQ' < FoxCQTime
<1>1. idle' = idle + 1 /\ set.first <= 0 BY DEF FoxTx
<1>2. FoxCQTime \in Nat \ {0} BY FoxAssumption
<1>3. RestTypes /\ RestTypes'
  <2>1. Lists' BY FoxTxStep
  <2> QED BY <2>1, ListsParts
<1>4. tFoxTxSinceCQ \in Nat /\ tFoxTxSinceCQ' \in Nat BY <1>2, <1>3 DEF RestTypes
<1>5. idle \in Nat BY <1>3, DeadlineType DEF RestTypes, Talking
<1>6. ASSUME Plan(set).cqAlone
      PROVE  tFoxTxSinceCQ >= FoxCQTime /\ tFoxTxSinceCQ' < FoxCQTime
  <2>1. tFoxTxSinceCQ >= FoxCQTime BY <1>6 DEF Plan
  <2>2. tFoxTxSinceCQ' = 0 BY <1>6 DEF FoxTx, Sent
  <2> QED BY <1>2, <2>1, <2>2
<1> QED BY <1>1, <1>4, <1>5, <1>6

LEMMA TimedStep ==
    ASSUME Lists, Timed, [Next]_vars
    PROVE  Timed'
<1>0. /\ MaxStrikes \in Nat \ {0} /\ MaxFoxWait \in Nat \ {0}
      /\ tFoxTx \in Nat /\ tFoxTx >= 5
      /\ \A c \in DOMAIN foxQSO : /\ QSO(c) = foxQSO[c] /\ foxQSO[c].tFoxRrpt \in Int
                                  /\ foxQSO[c].ncall \in Nat
  <2>1. MaxStrikes \in Nat \ {0} /\ MaxFoxWait \in Nat \ {0} BY FoxAssumption
  <2>2. tFoxTx \in Nat /\ tFoxTx >= 5 BY <2>1 DEF tFoxTx
  <2>3. MaxStrikes + MaxFoxWait \in Nat BY <2>1
  <2> QED BY <2>1, <2>2, <2>3, QSONumbers
<1>1. CASE Queues \/ Quiet
  <2>1. foxQSO' = foxQSO BY <1>1, QueueStep, QuietKeeps
  <2> QED BY <2>1 DEF Timed, Waiting
<1>2. CASE Clicked
  <2>1. PICK c \in Calls \cup {NoCall} : ClickInProgress(c) BY <1>2 DEF Clicked
  <2>2. /\ Lists' /\ DOMAIN foxQSO' = DOMAIN foxQSO \cup {c} /\ c \in DOMAIN foxQSO
        /\ \A d \in DOMAIN foxQSO' :
             /\ foxQSO'[d].tFoxRrpt = QSO(d).tFoxRrpt
             /\ d # c => foxQSO'[d] = QSO(d)
             /\ foxQSO'[d].ncall < MaxStrikes => d # c
    BY <2>1, ClickStep
  <2> SUFFICES ASSUME NEW d \in DOMAIN foxQSO' \ Waiting'
               PROVE  \/ foxQSO'[d].tFoxRrpt >= 5
                      \/ foxQSO'[d].tFoxRrpt <= 0 /\ foxQSO'[d].ncall >= MaxStrikes
    BY DEF Timed
  <2>4. CASE d # c
    <3>1. d \in DOMAIN foxQSO /\ foxQSO'[d] = foxQSO[d] BY <1>0, <2>2, <2>4
    <3>2. d \notin Waiting BY <2>2, <3>1 DEF Waiting
    <3> QED BY <3>1, <3>2 DEF Timed
  <2>5. CASE d = c
    <3>1. foxQSO'[d].ncall \in Nat
      <4>1. foxQSO'[d] \in QSOs BY <2>2 DEF Lists, TypeOK
      <4>2. 0 .. MaxStrikes + MaxFoxWait \subseteq Nat BY <1>0
      <4> QED BY <4>1, <4>2 DEF QSOs
    <3>2. foxQSO'[d].ncall >= MaxStrikes BY <1>0, <2>2, <2>5, <3>1
    <3>3. QSO(d).tFoxRrpt >= 5 \/ QSO(d).tFoxRrpt <= 0
      BY <1>0, <2>2, <2>5 DEF Timed, Waiting
    <3> QED BY <2>2, <3>2, <3>3
  <2> QED BY <2>4, <2>5
<1>3. CASE Received
  <2>1. PICK c \in Calls : FoxRx(c) BY <1>3 DEF Received
  <2>2. /\ DOMAIN foxQSO' = DOMAIN foxQSO /\ foxQSO'[c].tFoxRrpt = tFoxTx
        /\ \A d \in DOMAIN foxQSO : d # c => foxQSO'[d] = foxQSO[d]
    BY <2>1, RxStep
  <2> QED BY <1>0, <2>2 DEF Timed, Waiting
<1>4. CASE Removed
  <2>1. PICK c \in Calls : Removal(c) BY <1>4 DEF Removed
  <2>2. DOMAIN foxQSO' = DOMAIN foxQSO /\ \A d \in DOMAIN foxQSO : foxQSO'[d] = foxQSO[d]
    BY <2>1, RemovalStep
  <2> QED BY <2>2 DEF Timed, Waiting
<1>5. CASE Reset
  <2>1. DOMAIN foxQSO' = {} BY <1>5, ResetStep DEF Reset
  <2> QED BY <2>1 DEF Timed
<1>6. CASE Transmit
  <2>1. PICK set \in Settings : FoxTx(set) BY <1>6 DEF Transmit
  <2> SUFFICES ASSUME NEW c \in DOMAIN foxQSO' \ Waiting'
               PROVE  \/ foxQSO'[c].tFoxRrpt >= 5
                      \/ foxQSO'[c].tFoxRrpt <= 0 /\ foxQSO'[c].ncall >= MaxStrikes
    BY DEF Timed
  <2> DEFINE new == c \in Range(Plan(set).fresh)
             calls == (IF new THEN 0 ELSE foxQSO[c].ncall)
                      + (IF c \in Plan(set).called THEN 1 ELSE 0)
             q == foxQSO'[c]
  <2>2. /\ new \/ c \in DOMAIN foxQSO
        /\ q.tFoxRrpt \in Int /\ calls \in Nat
        /\ q.ncall = IF calls >= MaxStrikes THEN calls + 1 ELSE calls
        /\ IF new THEN q.tFoxRrpt < 0
           ELSE /\ q.tFoxRrpt = Back(foxQSO[c].tFoxRrpt)
                /\ foxQSO[c].tFoxRrpt > 0 => foxQSO[c].tFoxRrpt > 5
    BY <2>1, TxEntry
  <2>3. q.tFoxRrpt < 0 => ~(q.ncall < MaxStrikes) BY DEF Waiting
  <2>4. q.ncall \in Nat BY <2>2
  <2> HIDE DEF new, q
  <2>5. CASE q.tFoxRrpt < 0
    <3>1. q.ncall >= MaxStrikes BY <1>0, <2>3, <2>4, <2>5
    <3> QED BY <2>2, <2>5, <3>1 DEF q
  <2>6. CASE ~(q.tFoxRrpt < 0)
    <3>1. /\ ~new /\ c \in DOMAIN foxQSO /\ q.tFoxRrpt = Back(foxQSO[c].tFoxRrpt)
          /\ foxQSO[c].tFoxRrpt > 0 => foxQSO[c].tFoxRrpt > 5
      BY <2>2, <2>6
    <3>2. foxQSO[c].tFoxRrpt \in Int /\ foxQSO[c].ncall \in Nat BY <1>0, <3>1
    <3>3. ~(foxQSO[c].tFoxRrpt < 0) BY <2>6, <3>1, <3>2 DEF Back
    <3>4. c \notin Waiting BY <3>3 DEF Waiting
    <3>5. CASE foxQSO[c].tFoxRrpt > 0
      <4>1. q.tFoxRrpt >= 5 BY <3>1, <3>2, <3>5 DEF Back
      <4> QED BY <4>1 DEF q
    <3>6. CASE ~(foxQSO[c].tFoxRrpt > 0)
      <4>1. foxQSO[c].ncall >= MaxStrikes BY <3>1, <3>2, <3>4, <3>6 DEF Timed
      <4>2. calls >= MaxStrikes BY <1>0, <3>1, <3>2, <4>1
      <4>3. q.ncall >= MaxStrikes BY <1>0, <2>2, <4>2
      <4>4. q.tFoxRrpt <= 0 BY <3>1, <3>2, <3>6 DEF Back
      <4> QED BY <4>3, <4>4 DEF q
    <3> QED BY <3>5, <3>6
  <2> QED BY <2>5, <2>6
<1> QED BY <1>1, <1>2, <1>3, <1>4, <1>5, <1>6, Steps

\* A silent transmission keeps the calls left within the Deadline: one of them is made, or a
\* stand-alone CQ is, after which one will be.
LEMMA TxCallsEnd ==
    ASSUME Lists, Apart, CallsEnd, NEW set \in Settings, FoxTx(set), ~Talking
    PROVE  CallsEnd'
<1> DEFINE n == Cardinality(CallsLeft)
           m == Cardinality(CallsLeft')
<1> SUFFICES ASSUME CallsLeft' # {}
             PROVE  idle' + 2 * m + MaxFoxWait
                      - (IF tFoxTxSinceCQ' >= FoxCQTime THEN 1 ELSE 2) <= Deadline
  BY DEF CallsEnd
<1>1. /\ CallsLeft' \subseteq CallsLeft
      /\ Plan(set).called # {} => CallsLeft' # CallsLeft
  BY TxCallsLeft
<1>2. IsFiniteSet(CallsLeft) /\ n \in Nat BY CallsLeftCount
<1>3. m \in Nat /\ m <= n /\ (CallsLeft' # CallsLeft => m < n)
  <2>1. IsFiniteSet(CallsLeft') /\ m <= n /\ (n = m => CallsLeft = CallsLeft')
    BY <1>1, <1>2, FS_Subset
  <2>2. m \in Nat BY <2>1, FS_CardinalityType
  <2> QED BY <1>2, <2>1, <2>2
<1>4. idle + 2 * n + MaxFoxWait - (IF tFoxTxSinceCQ >= FoxCQTime THEN 1 ELSE 2) <= Deadline
  BY <1>1 DEF CallsEnd
<1>5. /\ idle' = idle + 1 /\ set.first <= 0 /\ idle \in Nat
      /\ tFoxTxSinceCQ \in Nat /\ tFoxTxSinceCQ' \in Nat
      /\ Plan(set).cqAlone => tFoxTxSinceCQ >= FoxCQTime /\ tFoxTxSinceCQ' < FoxCQTime
  BY TxCounts
<1>6. MaxFoxWait \in Nat /\ FoxCQTime \in Nat /\ Deadline \in Nat BY FoxAssumption, DeadlineType
<1>7. ~Plan(set).cqAlone => m < n
  <2>1. CallsLeft # {} BY <1>1
  <2>2. ~Plan(set).cqAlone => Plan(set).called # {} BY <1>5, <2>1, SomebodyCalled
  <2> QED BY <1>1, <1>3, <2>2
<1> HIDE DEF n, m
<1>8. CASE Plan(set).cqAlone
  <2>1. tFoxTxSinceCQ >= FoxCQTime /\ ~(tFoxTxSinceCQ' >= FoxCQTime) BY <1>5, <1>6, <1>8
  <2>2. idle + 2 * n + MaxFoxWait - 1 <= Deadline BY <1>4, <2>1
  <2>3. idle + 1 + 2 * m + MaxFoxWait - 2 <= Deadline BY <1>2, <1>3, <1>5, <1>6, <2>2
  <2> QED BY <1>5, <2>1, <2>3
<1>9. CASE ~Plan(set).cqAlone
  <2>1. m < n BY <1>7, <1>9
  <2>2. idle + 2 * n + MaxFoxWait - 2 <= Deadline BY <1>2, <1>4, <1>5, <1>6
  <2>3. idle + 1 + 2 * m + MaxFoxWait - 1 <= Deadline BY <1>2, <1>3, <1>5, <1>6, <2>1, <2>2
  <2> QED BY <1>3, <1>5, <1>6, <2>3
<1> QED BY <1>8, <1>9

\* And so it does every QSO that is not called any more.
LEMMA TxOthersEnd ==
    ASSUME Lists, Timed, CallsEnd, OthersEnd,
           NEW set \in Settings, FoxTx(set), ~Talking
    PROVE  OthersEnd'
<1> SUFFICES ASSUME NEW c \in DOMAIN foxQSO' \ Waiting'
             PROVE  idle' + TxLeft(foxQSO'[c]) <= Deadline
  BY DEF OthersEnd
<1> DEFINE new == c \in Range(Plan(set).fresh)
           calls == (IF new THEN 0 ELSE foxQSO[c].ncall)
                    + (IF c \in Plan(set).called THEN 1 ELSE 0)
           q == foxQSO'[c]
           r == foxQSO[c]
<1>1. /\ new \/ c \in DOMAIN foxQSO
      /\ q.tFoxRrpt \in Int /\ calls \in Nat
      /\ q.ncall = IF calls >= MaxStrikes THEN calls + 1 ELSE calls
      /\ q.ncall < MaxStrikes + MaxFoxWait
      /\ IF new THEN q.tFoxRrpt < 0
         ELSE /\ q.tFoxRrpt = Back(r.tFoxRrpt)
              /\ r.tFoxRrpt > 0 => r.tFoxRrpt > 5
  BY TxEntry
<1>2. q.tFoxRrpt < 0 => ~(q.ncall < MaxStrikes) BY DEF Waiting
<1>3. /\ MaxStrikes \in Nat \ {0} /\ MaxFoxWait \in Nat \ {0} /\ Deadline \in Nat
  BY FoxAssumption, DeadlineType
<1>4. idle' = idle + 1 /\ idle \in Nat BY TxCounts
<1>5. c \in DOMAIN foxQSO => r.tFoxRrpt \in Int /\ r.ncall \in Nat /\ QSO(c) = r
  <2>1. MaxStrikes + MaxFoxWait \in Nat BY <1>3
  <2> QED BY <2>1, QSONumbers
<1>6. CASE new \/ c \in ToCall
  <2>1. CallsLeft # {}
    <3>1. 0 \in 0 .. MaxStrikes - 1 BY <1>3
    <3>2. CASE new
      <4>1. c \in Range(houndQueue) /\ c \in Calls BY <3>2, FoxTxFacts
      <4>2. <<c, 0>> \in CallsLeft BY <3>1, <4>1 DEF CallsLeft
      <4> QED BY <4>2
    <3>3. CASE c \in ToCall
      <4>1. c \in Range(inProgress) BY <3>3 DEF ToCall
      <4>2. c \in Calls BY <4>1, RangeOfSeq DEF Lists, TypeOK, Entries
      <4>3. r.ncall \in 0 .. MaxStrikes - 1 /\ r.ncall >= r.ncall
        BY <1>3, <1>5, <3>3 DEF ToCall, Waiting
      <4>4. <<c, r.ncall>> \in CallsLeft BY <3>3, <4>2, <4>3 DEF CallsLeft
      <4> QED BY <4>4
    <3> QED BY <1>6, <3>2, <3>3
  <2>2. idle + MaxFoxWait <= Deadline
    <3> DEFINE n == Cardinality(CallsLeft)
               d == IF tFoxTxSinceCQ >= FoxCQTime THEN 1 ELSE 2
    <3>1. n \in Nat /\ n >= 1 BY <2>1, CallsLeftCount
    <3>2. idle + 2 * n + MaxFoxWait - d <= Deadline BY <2>1 DEF CallsEnd
    <3>3. d \in {1, 2} OBVIOUS
    <3> HIDE DEF n, d
    <3> QED BY <1>3, <1>4, <3>1, <3>2, <3>3
  <2>3. q.tFoxRrpt < 0 BY <1>1, <1>5, <1>6 DEF Back, ToCall, Waiting
  <2> HIDE DEF new, q, calls
  <2>4. q.ncall \in Nat BY <1>1
  <2>5. q.ncall >= MaxStrikes + 1 BY <1>1, <1>2, <1>3, <2>3, <2>4
  <2>6. TxLeft(q) = IF q.ncall + 1 >= MaxStrikes + MaxFoxWait
                      THEN 1 ELSE MaxStrikes + MaxFoxWait - q.ncall
    BY <1>1, <2>3 DEF TxLeft
  <2>7. TxLeft(q) \in Int /\ TxLeft(q) <= MaxFoxWait - 1
    BY <1>1, <1>3, <2>4, <2>5, <2>6
  <2>8. idle' + TxLeft(q) <= Deadline BY <1>3, <1>4, <2>2, <2>7
  <2> QED BY <2>8 DEF q
<1>7. CASE ~new /\ c \notin Waiting
  <2>1. c \in DOMAIN foxQSO \ Waiting BY <1>1, <1>7
  <2>2. c \notin Plan(set).called
    <3>1. c \in Plan(set).called => QSO(c).tFoxRrpt < 0 /\ QSO(c).ncall < MaxStrikes
      BY <1>7, PlanFacts DEF Lists
    <3> QED BY <1>5, <2>1, <3>1 DEF Waiting
  <2>3. /\ idle + TxLeft(r) <= Deadline
        /\ r.tFoxRrpt >= 5 \/ (r.tFoxRrpt <= 0 /\ r.ncall >= MaxStrikes)
    BY <2>1 DEF OthersEnd, Timed
  <2>4. r.tFoxRrpt \in Int /\ r.ncall \in Nat BY <1>5, <2>1
  <2>5. calls = r.ncall BY <1>7, <2>2, <2>4
  <2> HIDE DEF new, q, r, calls
  <2>6. CASE r.tFoxRrpt >= 5
    <3>1. q.tFoxRrpt = r.tFoxRrpt - 1 /\ q.tFoxRrpt > 0 BY <1>1, <1>7, <2>4, <2>6 DEF Back
    <3>2. TxLeft(q) = q.tFoxRrpt - 4 /\ TxLeft(r) = r.tFoxRrpt - 4
      BY <2>4, <2>6, <3>1 DEF TxLeft
    <3>3. idle' + TxLeft(q) <= Deadline BY <1>3, <1>4, <2>3, <2>4, <3>1, <3>2
    <3> QED BY <3>3 DEF q
  <2>7. CASE r.tFoxRrpt <= 0 /\ r.ncall >= MaxStrikes
    <3>1. q.tFoxRrpt = r.tFoxRrpt /\ q.ncall = r.ncall + 1
      BY <1>1, <1>3, <1>7, <2>4, <2>5, <2>7 DEF Back
    <3>2. /\ TxLeft(q) = (IF q.ncall + 1 >= MaxStrikes + MaxFoxWait
                            THEN 1 ELSE MaxStrikes + MaxFoxWait - q.ncall)
          /\ TxLeft(r) = (IF r.ncall + 1 >= MaxStrikes + MaxFoxWait
                            THEN 1 ELSE MaxStrikes + MaxFoxWait - r.ncall)
      BY <2>4, <2>7, <3>1 DEF TxLeft
    <3>3. TxLeft(r) \in Int /\ TxLeft(q) \in Int /\ TxLeft(q) <= TxLeft(r) - 1
      BY <1>1, <1>3, <2>4, <3>1, <3>2
    <3>4. idle' + TxLeft(q) <= Deadline BY <1>3, <1>4, <2>3, <3>3
    <3> QED BY <3>4 DEF q
  <2> QED BY <2>3, <2>6, <2>7
<1>8. CASE ~new /\ c \in Waiting \ ToCall
  <2>1. r.tFoxRrpt < 0 /\ r.ncall < MaxStrikes /\ c \in DOMAIN foxQSO BY <1>8 DEF Waiting
  <2>2. c \notin Plan(set).called
    <3>1. c \notin Range(inProgress) BY <1>8 DEF ToCall
    <3> QED BY <1>8, <3>1, PlanFacts DEF Lists
  <2>3. r.tFoxRrpt \in Int /\ r.ncall \in Nat BY <1>5, <2>1
  <2>4. calls = r.ncall BY <1>8, <2>2, <2>3
  <2> HIDE DEF new, q, r, calls
  <2>5. q.tFoxRrpt < 0 /\ q.ncall < MaxStrikes
    BY <1>1, <1>3, <1>8, <2>1, <2>3, <2>4 DEF Back
  <2> QED BY <1>2, <2>5
<1> QED BY <1>6, <1>7, <1>8

\* When Fox falls silent there is time for all.
LEMMA SilenceBegins ==
    ASSUME Lists, Timed, FallSilent
    PROVE  (CallsEnd /\ OthersEnd)'
<1>1. UNCHANGED <<houndQueue, inProgress, foxQSO, tFoxTxSinceCQ>> /\ idle' = 0
  BY DEF FallSilent, clock
<1>2. CallsLeft' = CallsLeft /\ Waiting' = Waiting BY <1>1 DEF CallsLeft, ToCall, Waiting
<1>3. /\ MaxStrikes \in Nat \ {0} /\ MaxFoxWait \in Nat \ {0} /\ Deadline \in Nat
      /\ Cardinality(Calls) * MaxStrikes \in Nat
  <2>1. Cardinality(Calls) \in Nat BY FoxAssumption, FS_CardinalityType
  <2> QED BY <2>1, FoxAssumption, DeadlineType
<1>4. CallsEnd'
  <2> DEFINE n == Cardinality(CallsLeft)
             d == IF tFoxTxSinceCQ >= FoxCQTime THEN 1 ELSE 2
             most == Cardinality(Calls) * MaxStrikes
  <2>1. n \in Nat /\ n <= most BY CallsLeftCount
  <2>2. 2 * most + MaxFoxWait - 1 <= Deadline BY DeadlineAllows
  <2>3. d \in {1, 2} /\ most \in Nat BY <1>3
  <2> SUFFICES 0 + 2 * n + MaxFoxWait - d <= Deadline BY <1>1, <1>2 DEF CallsEnd
  <2> HIDE DEF n, d, most
  <2> QED BY <1>3, <2>1, <2>2, <2>3
<1>5. OthersEnd'
  <2> SUFFICES ASSUME NEW c \in DOMAIN foxQSO \ Waiting
               PROVE  0 + TxLeft(foxQSO[c]) <= Deadline
    BY <1>1, <1>2 DEF OthersEnd
  <2> DEFINE q == foxQSO[c]
  <2>1. q.tFoxRrpt \in -1 .. tFoxTx /\ q.ncall \in 0 .. MaxStrikes + MaxFoxWait
    BY QSONumbers
  <2>2. q.tFoxRrpt >= 5 \/ (q.tFoxRrpt <= 0 /\ q.ncall >= MaxStrikes) BY DEF Timed
  <2>3. tFoxTx = 2 * MaxFoxWait + 5 BY DEF tFoxTx
  <2>4. 2 * MaxFoxWait + 1 <= Deadline BY DeadlineAllows
  <2> HIDE DEF q
  <2>5. CASE q.tFoxRrpt >= 5
    <3>1. TxLeft(q) = q.tFoxRrpt - 4 BY <1>3, <2>1, <2>3, <2>5 DEF TxLeft
    <3>2. 0 + TxLeft(q) <= Deadline BY <1>3, <2>1, <2>3, <2>4, <3>1
    <3> QED BY <3>2 DEF q
  <2>6. CASE q.tFoxRrpt <= 0 /\ q.ncall >= MaxStrikes
    <3>1. TxLeft(q) = IF q.ncall + 1 >= MaxStrikes + MaxFoxWait
                        THEN 1 ELSE MaxStrikes + MaxFoxWait - q.ncall
      BY <1>3, <2>1, <2>3, <2>6 DEF TxLeft
    <3>2. q.ncall \in Nat BY <1>3, <2>1
    <3>3. TxLeft(q) \in Int /\ TxLeft(q) <= MaxFoxWait BY <1>3, <2>6, <3>1, <3>2
    <3>4. 0 + TxLeft(q) <= Deadline BY <1>3, <2>4, <3>3
    <3> QED BY <3>4 DEF q
  <2> QED BY <2>2, <2>5, <2>6
<1> QED BY <1>4, <1>5

LEMMA EndingStep ==
    ASSUME Lists, Apart, Ending, [Next]_vars
    PROVE  Ending'
<1>1. Timed' BY TimedStep DEF Ending
<1> SUFFICES ASSUME ~Talking' PROVE CallsEnd' /\ OthersEnd' BY <1>1 DEF Ending
<1>2. CASE FallSilent BY <1>2, SilenceBegins DEF Ending
<1>3. CASE ~Talking /\ Transmit
  <2>1. PICK set \in Settings : FoxTx(set) BY <1>3 DEF Transmit
  <2> QED BY <1>3, <2>1, TxCallsEnd, TxOthersEnd DEF Ending
<1>4. CASE ~Talking /\ Removed
  <2>1. PICK c \in Calls : Removal(c) BY <1>4 DEF Removed
  <2>2. /\ houndQueue' = houndQueue /\ DOMAIN foxQSO' = DOMAIN foxQSO
        /\ \A d \in DOMAIN foxQSO : foxQSO'[d] = foxQSO[d]
        /\ Range(inProgress') = Range(inProgress) \ {c}
    BY <2>1, RemovalStep
  <2>3. idle' = idle /\ tFoxTxSinceCQ' = tFoxTxSinceCQ BY <2>1 DEF Removal
  <2>4. Waiting' = Waiting BY <2>2 DEF Waiting
  <2>5. CallsLeft' \subseteq CallsLeft
    <3>1. \A d \in Waiting : foxQSO'[d] = foxQSO[d] BY <2>2 DEF Waiting
    <3>2. ToCall' \subseteq ToCall BY <2>2, <2>4 DEF ToCall
    <3>3. \A d \in ToCall' : foxQSO'[d] = foxQSO[d] BY <2>4, <3>1 DEF ToCall
    <3> QED BY <2>2, <3>2, <3>3 DEF CallsLeft
  <2>6. CallsEnd'
    <3> DEFINE n == Cardinality(CallsLeft)
               m == Cardinality(CallsLeft')
               d == IF tFoxTxSinceCQ >= FoxCQTime THEN 1 ELSE 2
    <3> SUFFICES ASSUME CallsLeft' # {} PROVE idle + 2 * m + MaxFoxWait - d <= Deadline
      BY <2>3 DEF CallsEnd
    <3>1. IsFiniteSet(CallsLeft) /\ n \in Nat BY CallsLeftCount
    <3>2. IsFiniteSet(CallsLeft') /\ m <= n BY <2>5, <3>1, FS_Subset
    <3>3. m \in Nat BY <3>2, FS_CardinalityType
    <3>4. idle + 2 * n + MaxFoxWait - d <= Deadline BY <1>4, <2>5 DEF Ending, CallsEnd
    <3>5. /\ d \in {1, 2} /\ idle \in Int
          /\ MaxFoxWait \in Nat /\ Deadline \in Nat
      <4>1. idle \in -1 .. Deadline BY ListsParts DEF RestTypes
      <4> QED BY <4>1, FoxAssumption, DeadlineType
    <3> HIDE DEF n, m, d
    <3> QED BY <3>1, <3>2, <3>3, <3>4, <3>5
  <2>7. OthersEnd'
    <3>1. \A d \in DOMAIN foxQSO \ Waiting : idle + TxLeft(foxQSO[d]) <= Deadline
      BY <1>4 DEF Ending, OthersEnd
    <3> QED BY <2>2, <2>3, <2>4, <3>1 DEF OthersEnd
  <2> QED BY <2>6, <2>7
<1>5. CASE ~Talking /\ UNCHANGED vars
  <2>1. UNCHANGED <<houndQueue, inProgress, foxQSO, tFoxTxSinceCQ, idle>> BY <1>5 DEF vars, clock
  <2>2. CallsLeft' = CallsLeft /\ Waiting' = Waiting BY <2>1 DEF CallsLeft, ToCall, Waiting
  <2> QED BY <1>5, <2>1, <2>2 DEF Ending, CallsEnd, OthersEnd
<1> QED BY <1>2, <1>3, <1>4, <1>5, SilentSteps

\* Once the operator and the Hounds are silent and the timers are out, Deadline transmissions
\* have ended every QSO and the queue, for any number of Hounds, bands, slots and limits, and
\* whatever CQs are sent meanwhile: whoever is to be called is called while it is on the list,
\* a call more each time that is no stand-alone CQ, and whoever is not is timed.  No Hound still
\* in m_foxQSO is queued again and no empty list is double-clicked; a QSO that began while a
\* timer of the same Hound ran may stay in m_foxQSO, though not among those in progress.
THEOREM QSOsEnd == ~Requeue /\ ~EmptyClicks /\ Spec => []EveryQSOEnds
<1> SUFFICES ASSUME ~Requeue, ~EmptyClicks PROVE Spec => []EveryQSOEnds OBVIOUS
<1> DEFINE Inv == Lists /\ Apart /\ CallInv /\ Ending
<1>1. Init => Inv
  <2> SUFFICES ASSUME Init PROVE Inv OBVIOUS
  <2>1. DOMAIN foxQSO = {} BY EmptyMap
  <2>2. Lists /\ Apart BY ListsInitially, MapInitially
  <2>3. CallInv BY <2>1 DEF CallInv, RemovedAnswered, StillCalled
  <2>4. Timed BY <2>1 DEF Timed
  <2>5. Talking BY DEF Init, Talking
  <2> QED BY <2>2, <2>3, <2>4, <2>5 DEF Ending
<1>2. Inv /\ [Next]_vars => Inv' BY ListsStep, ApartStep, CallStep, EndingStep
<1>3. Inv => EveryQSOEnds
  <2> SUFFICES ASSUME Inv, idle = Deadline
               PROVE  houndQueue = <<>> /\ inProgress = <<>> /\ DOMAIN foxQSO \subseteq rushed
    BY DEF EveryQSOEnds
  <2>1. /\ MaxStrikes \in Nat \ {0} /\ MaxFoxWait \in Nat \ {0} /\ Deadline \in Nat \ {0}
    BY FoxAssumption, DeadlineType
  <2>2. CallsEnd /\ OthersEnd /\ Timed BY <2>1 DEF Ending, Talking
  <2>3. CallsLeft = {}
    <3> SUFFICES ASSUME CallsLeft # {} PROVE FALSE OBVIOUS
    <3> DEFINE n == Cardinality(CallsLeft)
               d == IF tFoxTxSinceCQ >= FoxCQTime THEN 1 ELSE 2
    <3>1. n \in Nat /\ n >= 1 BY CallsLeftCount
    <3>2. idle + 2 * n + MaxFoxWait - d <= Deadline BY <2>2 DEF CallsEnd
    <3>3. d \in {1, 2} OBVIOUS
    <3> HIDE DEF n, d
    <3> QED BY <2>1, <3>1, <3>2, <3>3
  <2>4. 0 \in 0 .. MaxStrikes - 1 BY <2>1
  <2>5. houndQueue = <<>>
    <3>1. houndQueue \in Seq(Calls) BY DEF Lists, TypeOK, Entries
    <3>2. \A c \in Range(houndQueue) : c \in Calls /\ <<c, 0>> \in CallsLeft
      BY <2>4, <3>1, RangeOfSeq DEF CallsLeft
    <3>3. Len(houndQueue) \in Nat /\ ~(Len(houndQueue) > 0) BY <2>3, <3>1, <3>2, SomeEntry
    <3>4. Len(houndQueue) = 0 BY <3>3
    <3> QED BY <3>1, <3>4, EmptySeq
  <2>6. \A c \in DOMAIN foxQSO : /\ foxQSO[c].tFoxRrpt \in Int /\ foxQSO[c].ncall \in Nat
    <3>1. MaxStrikes + MaxFoxWait \in Nat BY <2>1
    <3> QED BY <3>1, QSONumbers
  <2>7. ToCall = {}
    <3> SUFFICES ASSUME NEW c \in ToCall PROVE FALSE OBVIOUS
    <3>1. c \in Range(inProgress) BY DEF ToCall
    <3>2. c \in Calls BY <3>1, RangeOfSeq DEF Lists, TypeOK, Entries
    <3> DEFINE n == foxQSO[c].ncall
    <3>3. n \in 0 .. MaxStrikes - 1 /\ n >= n BY <2>1, <2>6 DEF ToCall, Waiting
    <3>4. <<c, n>> \in CallsLeft BY <3>2, <3>3 DEF CallsLeft
    <3> QED BY <2>3, <3>4
  <2>8. DOMAIN foxQSO \subseteq Waiting
    <3> SUFFICES ASSUME NEW c \in DOMAIN foxQSO \ Waiting PROVE FALSE OBVIOUS
    <3> DEFINE q == foxQSO[c]
    <3>1. /\ idle + TxLeft(q) <= Deadline
          /\ q.tFoxRrpt >= 5 \/ (q.tFoxRrpt <= 0 /\ q.ncall >= MaxStrikes)
      BY <2>2 DEF OthersEnd, Timed
    <3>2. q.tFoxRrpt \in Int /\ q.ncall \in Nat BY <2>6
    <3> HIDE DEF q
    <3>3. TxLeft(q) \in Int /\ TxLeft(q) >= 1 BY <2>1, <3>1, <3>2 DEF TxLeft
    <3> QED BY <2>1, <3>1, <3>3
  <2>9. inProgress = <<>>
    <3>1. inProgress \in Seq(Calls) BY DEF Lists, TypeOK, Entries
    <3>2. Range(inProgress) = {} BY <2>7, <2>8 DEF Lists, InMap, ToCall
    <3>3. Len(inProgress) \in Nat /\ ~(Len(inProgress) > 0) BY <3>1, <3>2, SomeEntry
    <3>4. Len(inProgress) = 0 BY <3>3
    <3> QED BY <3>1, <3>4, EmptySeq
  <2>10. DOMAIN foxQSO \subseteq rushed
    <3> SUFFICES ASSUME NEW c \in DOMAIN foxQSO, c \notin rushed PROVE FALSE OBVIOUS
    <3>1. c \in Waiting BY <2>8
    <3>2. c \in Range(inProgress) BY <3>1 DEF Waiting, CallInv, StillCalled
    <3> QED BY <2>7, <3>1, <3>2 DEF ToCall
  <2> QED BY <2>5, <2>9, <2>10
<1> HIDE DEF Inv
<1> QED BY <1>1, <1>2, <1>3, PTL DEF Spec
=============================================================================
