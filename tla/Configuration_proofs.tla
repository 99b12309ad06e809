-------------------------- MODULE Configuration_proofs --------------------------
(***************************************************************************)
(* Theorems about Configuration, for every number of rigs and commands and *)
(* every set of frequencies, modes and audio settings.                     *)
(***************************************************************************)
EXTENDS Configuration, TLAPS, SequenceTheorems


-----------------------------------------------------------------------------
(* What a rig handler may emit. *)

\* Once the first of a queue is taken, every other has moved up by one.
LEMMA AfterHead ==
    ASSUME NEW S, NEW s \in Seq(S), s # <<>>
    PROVE  /\ Tail(s) \in Seq(S) /\ Head(s) \in S /\ s[1] = Head(s) /\ 1 \in DOMAIN s
           /\ \A i \in DOMAIN Tail(s) : i \in Nat /\ i + 1 \in DOMAIN s /\ Tail(s)[i] = s[i + 1]
OBVIOUS

\* A call or event posted to a queue becomes its last and moves none.
LEMMA AtEnd ==
    ASSUME NEW S, NEW s \in Seq(S), NEW x \in S
    PROVE  /\ Append(s, x) \in Seq(S)
           /\ DOMAIN Append(s, x) = DOMAIN s \cup {Len(s) + 1}
           /\ \A i \in DOMAIN s : Append(s, x)[i] = s[i] /\ i <= Len(s)
           /\ Append(s, x)[Len(s) + 1] = x
OBVIOUS

NumberedSignals(n) ==
    {update(s, n) : s \in TransceiverState} \cup {failure, finished}

\* The default state is a state.
LEMMA NoStateType == NoState \in TransceiverState
BY AudioAssumption DEF NoState, TransceiverState, ModesOrUNK

\* Every signal that answers the command numbered n, and every signal between
\* commands, is a failure, finished, or an update with that number.
LEMMA EmissionsNumbered ==
    ASSUME NEW n, NEW e,
           \/ e \in Obeyed(Reports, n) \/ e \in NotStarted(n) \/ e \in Refused(Reports, n)
           \/ e \in After(n, Obeyed(Reports, n))
           \/ e \in After(n, NotStarted(n) \cup Refused(Reports, n))
           \/ e \in Faults(n) \/ e \in Endings(n)
    PROVE  e \in Seq(NumberedSignals(n))
<1> DEFINE S == NumberedSignals(n)
<1> SUFFICES e \in Seq(S) OBVIOUS
<1>1. failure \in S /\ finished \in S BY DEF NumberedSignals
<1>2. update(NoState, n) \in S BY NoStateType DEF NumberedSignals
<1>3. \A s \in Reports : update(s, n) \in S BY ConfigurationAssumption DEF NumberedSignals
<1> HIDE DEF S
<1>a. <<>> \in Seq(S) OBVIOUS
<1>b. \A x \in S : <<x>> \in Seq(S) OBVIOUS
<1>c. \A p, q \in Seq(S) : p \o q \in Seq(S) BY ConcatProperties
<1>4. MaybeOffline(n) \subseteq Seq(S)
  BY <1>2, <1>a, <1>b, Zenon DEF MaybeOffline
<1>5. Obeyed(Reports, n) \subseteq Seq(S) BY <1>3, <1>b, Zenon DEF Obeyed
<1>6. NotStarted(n) \subseteq Seq(S) BY <1>1, <1>2 DEF NotStarted
<1>7. Refused(Reports, n) \subseteq Seq(S)
  <2>1. \A x, y \in S : <<x, y>> \in Seq(S) OBVIOUS
  <2>2. \A s \in Reports : <<update(s, n), failure>> \in Seq(S)
    BY <1>1, <1>3, <2>1, Zenon
  <2> SUFFICES ASSUME NEW x \in Refused(Reports, n) PROVE x \in Seq(S)
    OBVIOUS
  <2>3. PICK s \in Reports, post \in MaybeOffline(n) : x = <<update(s, n), failure>> \o post
    BY DEF Refused
  <2> QED BY <2>2, <2>3, <1>4, <1>c, Zenon
<1>8. ASSUME NEW E, E \subseteq Seq(S) PROVE After(n, E) \subseteq Seq(S)
  <2> SUFFICES ASSUME NEW x \in After(n, E) PROVE x \in Seq(S)
    OBVIOUS
  <2>1. PICK pre \in MaybeOffline(n), q \in E : x = pre \o q BY DEF After
  <2> QED BY <2>1, <1>4, <1>8, <1>c, Zenon
<1>9. Faults(n) \subseteq Seq(S)
  <2>1. <<failure>> \in Seq(S) BY <1>1
  <2> QED BY <2>1, <1>4, <1>c, Zenon DEF Faults
<1>10. Endings(n) \subseteq Seq(S)
  <2>1. {<<finished>>} \subseteq Seq(S) BY <1>1
  <2> QED BY <2>1, <1>8 DEF Endings
<1>11. NotStarted(n) \cup Refused(Reports, n) \subseteq Seq(S) BY <1>6, <1>7
<1>12. After(n, Obeyed(Reports, n)) \subseteq Seq(S) BY <1>5, <1>8
<1>13. After(n, NotStarted(n) \cup Refused(Reports, n)) \subseteq Seq(S)
  BY <1>8, <1>11
<1> QED BY <1>5, <1>6, <1>7, <1>9, <1>10, <1>12, <1>13

-----------------------------------------------------------------------------
(* The inductive invariant: the numbers of commands, calls and updates. *)

\* no call, update or state of a rig is about a rig not yet created
RigsExist ==
    /\ rig_active => newest >= 1
    /\ command_number = 0 => newest = 0
    /\ \A r \in Rigs : r > newest => rigs[r].life = "created" /\ rigs[r].number = 0
    /\ \A i \in DOMAIN to_rigs : to_rigs[i].rig <= newest
    /\ \A i \in DOMAIN to_gui : to_gui[i].from <= newest
    /\ ~idle => emitting.rig \in 1 .. newest

\* calls wait in the order of their numbers, all of them later than what any
\* rig has done, and a rig that was replaced gets none with the latest number
CallsInOrder ==
    /\ \A i \in DOMAIN to_rigs : to_rigs[i].call # "stop" =>
         /\ to_rigs[i].number <= command_number
         /\ to_rigs[i].rig < newest => to_rigs[i].number < command_number
         /\ \A r \in Rigs : rigs[r].number < to_rigs[i].number
         /\ \A j \in DOMAIN to_rigs : j < i /\ to_rigs[j].call # "stop" =>
              to_rigs[j].number < to_rigs[i].number
    /\ \A r \in Rigs : /\ rigs[r].number <= command_number
                       /\ r < newest => rigs[r].number < command_number

\* an update carries the number of a command that its rig has executed
UpdatesExecuted ==
    /\ \A i \in DOMAIN to_gui : to_gui[i].what.signal = "update" =>
         to_gui[i].what.number <= rigs[to_gui[i].from].number
    /\ \A i \in DOMAIN emitting.signals : emitting.signals[i].signal = "update" =>
         emitting.signals[i].number = rigs[emitting.rig].number

NumbersInv == TypeOK /\ RigsExist /\ CallsInOrder /\ UpdatesExecuted

-----------------------------------------------------------------------------
(* Types. *)

\* The signals of a rig handler are signals, and its updates carry the number
\* of the command it executed (TransceiverBase::update_complete).
LEMMA NumberedSignalsType ==
    ASSUME NEW n \in CommandNumbers
    PROVE  /\ NumberedSignals(n) \subseteq Signals
           /\ \A x \in NumberedSignals(n) : x.signal = "update" => x.number = n
BY DEF NumberedSignals, Signals, update, failure, finished

\* An event in the queue of the GUI thread names a rig and what it signalled;
\* an update has a state and a number.
LEMMA EventsType ==
    ASSUME TypeOK, NEW i \in DOMAIN to_gui
    PROVE  /\ to_gui[i].from \in Rigs
           /\ to_gui[i].what \in Signals \ {finished}
           /\ to_gui[i].what.signal = "update" =>
                /\ to_gui[i].what.state \in TransceiverState
                /\ to_gui[i].what.number \in CommandNumbers
<1> DEFINE E == [from : Rigs, what : Signals \ {finished}]
<1>1. to_gui[i] \in E
  <2>1. to_gui \in Seq(E) BY DEF TypeOK
  <2> HIDE DEF E
  <2> QED BY <2>1
<1>2. to_gui[i].from \in Rigs /\ to_gui[i].what \in Signals \ {finished} BY <1>1
<1>3. "update" # "failure" /\ "update" # "finished" OBVIOUS
<1> QED BY <1>2, <1>3 DEF Signals, failure, finished

\* What a handler of rig r does to the variables, when it executed or last
\* executed the command n.
Handled(r, n) ==
    /\ \E l \in {"running", "stopped"}, b \in BOOLEAN :
         rigs' = [rigs EXCEPT ![r] = [life |-> l, online |-> b, number |-> n]]
    /\ \E e \in Seq(NumberedSignals(n)) : emitting' = [rig |-> r, signals |-> e]

\* A handler that ran with signals numbered n left its rig in one of the states
\* that Handled allows.
LEMMA RanHandled ==
    ASSUME TypeOK, NEW r \in Rigs, NEW n \in CommandNumbers,
           NEW l \in {"running", "stopped"}, NEW b \in BOOLEAN,
           NEW e \in Seq(NumberedSignals(n)), ran(r, e, l, b, n)
    PROVE  Handled(r, n)
<1>1. rigs' = [rigs EXCEPT ![r] = [life |-> l, online |-> b, number |-> n]]
  BY Zenon DEF ran
<1>2. emitting' = [rig |-> r, signals |-> e] BY DEF ran
<1> QED BY <1>1, <1>2, Zenon DEF Handled

\* start, set and stop run the first call of the queue of the rig thread with
\* the number the call brings; stop and a poll keep the number of the rig.
LEMMA HandlerHandled ==
    ASSUME TypeOK
    PROVE  /\ start \/ set \/ stop => Head(to_rigs) \in Calls
           /\ start \/ set => Handled(Head(to_rigs).rig, Head(to_rigs).number)
           /\ stop => Handled(Head(to_rigs).rig, rigs[Head(to_rigs).rig].number)
           /\ \A r \in Rigs : notice(r) => Handled(r, rigs[r].number)
<1> DEFINE h == Head(to_rigs)
<1>1. start \/ set \/ stop => h \in Calls
  BY HeadTailProperties DEF start, set, stop, next_call, TypeOK
<1>2. h \in Calls => h.rig \in Rigs /\ h.number \in CommandNumbers BY DEF Calls
<1>3. \A r \in Rigs : rigs[r].number \in CommandNumbers BY DEF TypeOK
<1>4. ASSUME start PROVE Handled(h.rig, h.number)
  <2>1. PICK e, b : /\ b \in BOOLEAN
                    /\ ran(h.rig, e, "running", b, h.number)
                    /\ e \in Obeyed(Reports, h.number) \cup NotStarted(h.number)
    BY <1>4 DEF start, replied
  <2>2. e \in Seq(NumberedSignals(h.number)) BY <2>1, EmissionsNumbered
  <2> QED BY <1>1, <1>2, <1>4, <2>1, <2>2, RanHandled
<1>5. ASSUME set PROVE Handled(h.rig, h.number)
  <2>1. PICK e, b :
          /\ b \in BOOLEAN
          /\ ran(h.rig, e, "running", b, h.number)
          /\ \/ e \in Obeyed(Reports, h.number)
             \/ e \in Refused(Reports, h.number)
             \/ e \in After(h.number, Obeyed(Reports, h.number))
             \/ e \in After(h.number, NotStarted(h.number) \cup Refused(Reports, h.number))
    BY <1>5 DEF set, replied
  <2>2. e \in Seq(NumberedSignals(h.number)) BY <2>1, EmissionsNumbered
  <2> QED BY <1>1, <1>2, <1>5, <2>1, <2>2, RanHandled
<1>6. ASSUME stop PROVE Handled(h.rig, rigs[h.rig].number)
  <2>1. PICK e \in Endings(rigs[h.rig].number) :
          ran(h.rig, e, "stopped", FALSE, rigs[h.rig].number)
    BY <1>6 DEF stop
  <2>2. e \in Seq(NumberedSignals(rigs[h.rig].number)) BY EmissionsNumbered
  <2> QED BY <1>1, <1>2, <1>3, <1>6, <2>1, <2>2, RanHandled
<1>7. ASSUME NEW r \in Rigs, notice(r) PROVE Handled(r, rigs[r].number)
  <2>1. PICK e, b :
          /\ b \in BOOLEAN
          /\ ran(r, e, "running", b, rigs[r].number)
          /\ e \in Obeyed(Reports, rigs[r].number) \/ e \in Faults(rigs[r].number)
    BY <1>7 DEF notice
  <2>2. e \in Seq(NumberedSignals(rigs[r].number)) BY <2>1, EmissionsNumbered
  <2> QED BY <1>3, <1>7, <2>1, <2>2, RanHandled
<1> QED BY <1>1, <1>4, <1>5, <1>6, <1>7

-----------------------------------------------------------------------------
(* The rig thread keeps the numbers in order. *)

\* Calls q wait in order, and all of them are later than the command n.
QueueInOrder(q, n) ==
    /\ q \in Seq(Calls)
    /\ \A i \in DOMAIN q :
         /\ q[i].rig <= newest
         /\ q[i].call # "stop" =>
              /\ q[i].number <= command_number
              /\ q[i].rig < newest => q[i].number < command_number
              /\ n < q[i].number
              /\ \A r \in Rigs : rigs[r].number < q[i].number
              /\ \A j \in DOMAIN q : j < i /\ q[j].call # "stop" => q[j].number < q[i].number

\* A handler keeps the order of the numbers if the command it executed is not
\* older than what its rig did before, nor newer than what waits.
LEMMA HandledNumbers ==
    ASSUME NumbersInv, NEW r \in Rigs, NEW n \in CommandNumbers, Handled(r, n),
           r <= newest, rigs[r].number <= n, r < newest => n < command_number,
           n <= command_number,
           QueueInOrder(to_rigs', n), UNCHANGED <<gui, to_gui>>
    PROVE  NumbersInv'
<1> USE DEF NumbersInv, gui, Rigs, CommandNumbers
<1>1. PICK l \in {"running", "stopped"}, b \in BOOLEAN :
        rigs' = [rigs EXCEPT ![r] = [life |-> l, online |-> b, number |-> n]]
  BY DEF Handled
<1>2. PICK e \in Seq(NumberedSignals(n)) : emitting' = [rig |-> r, signals |-> e]
  BY DEF Handled
<1>3. e \in Seq(Signals) /\ \A i \in DOMAIN e : e[i].signal = "update" => e[i].number = n
  BY NumberedSignalsType
<1>4. TypeOK'
  <2>1. rigs' \in [Rigs -> [life : {"created", "running", "stopped"}, online : BOOLEAN,
                            number : CommandNumbers]]
    BY <1>1 DEF TypeOK
  <2>2. emitting' \in [rig : 0 .. MaxRigs, signals : Seq(Signals)]
    BY <1>2, <1>3, ConfigurationAssumption
  <2> QED BY <2>1, <2>2 DEF TypeOK, QueueInOrder
<1>5. /\ rigs'[r].number = n /\ rigs'[r].life = l
      /\ \A q \in Rigs : q # r => rigs'[q] = rigs[q]
  BY <1>1 DEF TypeOK
<1>6. \A q \in Rigs : rigs[q].number \in Nat /\ rigs'[q].number \in Nat
  <2>1. /\ rigs \in [Rigs -> [life : {"created", "running", "stopped"}, online : BOOLEAN,
                             number : CommandNumbers]]
        /\ rigs' \in [Rigs -> [life : {"created", "running", "stopped"}, online : BOOLEAN,
                              number : CommandNumbers]]
    BY <1>4 DEF TypeOK
  <2> QED BY <2>1
<1>7. RigsExist'
  <2>1. newest \in Nat /\ r \in Nat /\ r >= 1
    BY ConfigurationAssumption DEF TypeOK
  <2>2. \A q \in Rigs : q > newest => rigs'[q].life = "created" /\ rigs'[q].number = 0
    BY <1>5, <2>1 DEF RigsExist
  <2>3. emitting'.rig \in 1 .. newest BY <1>2, <2>1
  <2> QED BY <2>2, <2>3 DEF RigsExist, QueueInOrder
<1>8. CallsInOrder'
  BY <1>5, <1>6 DEF CallsInOrder, TypeOK, QueueInOrder
<1>9. UpdatesExecuted'
  <2>1. \A i \in DOMAIN to_gui : to_gui[i].from \in Rigs BY EventsType
  <2>2. \A i \in DOMAIN to_gui : to_gui[i].what.signal = "update" =>
          to_gui[i].what.number \in Nat
    BY EventsType
  <2>3. \A i \in DOMAIN to_gui : to_gui[i].what.signal = "update" =>
          to_gui[i].what.number <= rigs'[to_gui[i].from].number
    <3> SUFFICES ASSUME NEW i \in DOMAIN to_gui, to_gui[i].what.signal = "update"
                 PROVE  to_gui[i].what.number <= rigs'[to_gui[i].from].number
      OBVIOUS
    <3>1. to_gui[i].what.number <= rigs[to_gui[i].from].number BY DEF UpdatesExecuted
    <3>2. rigs[to_gui[i].from].number <= rigs'[to_gui[i].from].number
      BY <2>1, <1>5, <1>6
    <3> QED BY <2>1, <2>2, <3>1, <3>2, <1>6
  <2> QED BY <2>3, <1>2, <1>3, <1>5 DEF UpdatesExecuted
<1> QED BY <1>4, <1>7, <1>8, <1>9

\* The slots of the rig objects and their polls keep the order of the numbers.
LEMMA RigThreadNumbers ==
    ASSUME NumbersInv, start \/ set \/ stop \/ \E r \in Rigs : notice(r)
    PROVE  NumbersInv'
<1> USE DEF NumbersInv
<1> DEFINE h == Head(to_rigs)
<1>1. CASE start \/ set
  <2>1. h \in Calls /\ Handled(h.rig, h.number) BY <1>1, HandlerHandled
  <2>2. /\ to_rigs # <<>> /\ to_rigs' = Tail(to_rigs) /\ UNCHANGED <<gui, to_gui>>
        /\ h.call # "stop"
    BY <1>1 DEF start, set, next_call
  <2>3. /\ to_rigs' \in Seq(Calls) /\ 1 \in DOMAIN to_rigs /\ to_rigs[1] = h
        /\ \A i \in DOMAIN to_rigs' : i + 1 \in DOMAIN to_rigs /\ to_rigs'[i] = to_rigs[i + 1]
        /\ DOMAIN to_rigs' \subseteq Nat \ {0}
    BY <2>2 DEF TypeOK
  <2>4. QueueInOrder(to_rigs', h.number)
    BY <2>2, <2>3 DEF QueueInOrder, CallsInOrder, RigsExist
  <2>5. /\ h.rig \in Rigs /\ h.number \in CommandNumbers /\ h.rig <= newest
        /\ h.number <= command_number
        /\ rigs[h.rig].number \in CommandNumbers /\ rigs[h.rig].number < h.number
        /\ h.rig < newest => h.number < command_number
    BY <2>1, <2>2, <2>3 DEF CallsInOrder, RigsExist, Calls, TypeOK
  <2>6. rigs[h.rig].number <= h.number BY <2>5 DEF CommandNumbers
  <2> QED BY <2>1, <2>2, <2>4, <2>5, <2>6, HandledNumbers
<1>2. CASE stop
  <2> DEFINE n == rigs[h.rig].number
  <2>1. h \in Calls /\ Handled(h.rig, n) BY <1>2, HandlerHandled
  <2>2. to_rigs # <<>> /\ to_rigs' = Tail(to_rigs) /\ UNCHANGED <<gui, to_gui>>
    BY <1>2 DEF stop, next_call
  <2>3. /\ to_rigs' \in Seq(Calls) /\ 1 \in DOMAIN to_rigs /\ to_rigs[1] = h
        /\ \A i \in DOMAIN to_rigs' : i + 1 \in DOMAIN to_rigs /\ to_rigs'[i] = to_rigs[i + 1]
        /\ DOMAIN to_rigs' \subseteq Nat \ {0}
    BY <2>2 DEF TypeOK
  <2>4. h.rig \in Rigs /\ h.rig <= newest BY <2>1, <2>3 DEF RigsExist, Calls
  <2>5. QueueInOrder(to_rigs', n)
    BY <2>2, <2>3, <2>4 DEF QueueInOrder, CallsInOrder, RigsExist
  <2>6. n \in CommandNumbers /\ n <= command_number /\ (h.rig < newest => n < command_number)
    BY <2>4 DEF CallsInOrder, TypeOK
  <2>7. n <= n BY <2>6 DEF CommandNumbers
  <2> QED BY <2>1, <2>2, <2>4, <2>5, <2>6, <2>7, HandledNumbers
<1>3. CASE \E r \in Rigs : notice(r)
  <2>1. PICK r \in Rigs : notice(r) BY <1>3
  <2> DEFINE n == rigs[r].number
  <2>2. /\ Handled(r, n) /\ to_rigs' = to_rigs /\ UNCHANGED <<gui, to_gui>>
        /\ rigs[r].life = "running"
    BY <2>1, HandlerHandled DEF notice
  <2>3. n \in CommandNumbers /\ n <= command_number /\ (r < newest => n < command_number)
    BY DEF CallsInOrder, TypeOK
  <2>4. r <= newest
    <3>1. newest \in Nat /\ r \in Nat BY ConfigurationAssumption DEF TypeOK, Rigs
    <3>2. r > newest => rigs[r].life = "created" BY DEF RigsExist
    <3> QED BY <2>2, <3>1, <3>2
  <2>5. QueueInOrder(to_rigs', n)
    BY <2>2 DEF QueueInOrder, CallsInOrder, RigsExist, TypeOK
  <2>6. n <= n BY <2>3 DEF CommandNumbers
  <2> QED BY <2>2, <2>3, <2>4, <2>5, <2>6, HandledNumbers
<1> QED BY <1>1, <1>2, <1>3

\* A signal that crosses to the GUI thread keeps its number; one of a rig no
\* longer connected is dropped.
LEMMA EmitNumbers ==
    ASSUME NumbersInv, emit
    PROVE  NumbersInv'
<1> USE DEF NumbersInv
<1> DEFINE e == Head(emitting.signals)
<1>1. /\ emitting.signals \in Seq(Signals) /\ emitting.signals # <<>>
      /\ emitting' = [emitting EXCEPT !.signals = Tail(@)]
      /\ emitting \in [rig : 0 .. MaxRigs, signals : Seq(Signals)]
      /\ UNCHANGED <<gui, rigs, to_rigs>>
  BY DEF emit, idle, TypeOK
<1>2. /\ emitting'.rig = emitting.rig /\ emitting'.signals = Tail(emitting.signals)
      /\ emitting' \in [rig : 0 .. MaxRigs, signals : Seq(Signals)]
      /\ e \in Signals /\ e = emitting.signals[1]
      /\ \A i \in DOMAIN emitting'.signals :
           i + 1 \in DOMAIN emitting.signals
           /\ emitting'.signals[i] = emitting.signals[i + 1]
  <2> DEFINE t == emitting.signals
  <2>1. /\ Tail(t) \in Seq(Signals) /\ Head(t) \in Signals /\ t[1] = Head(t)
        /\ \A i \in DOMAIN Tail(t) : i + 1 \in DOMAIN t /\ Tail(t)[i] = t[i + 1]
    BY <1>1, AfterHead
  <2> QED BY <1>1, <2>1
<1>3. \/ to_gui' = to_gui
      \/ /\ to_gui' = Append(to_gui, [from |-> emitting.rig, what |-> e])
         /\ e # finished /\ rig_active /\ emitting.rig = newest
  BY DEF emit, connected
<1>4. emitting.rig \in 1 .. newest /\ newest \in 0 .. MaxRigs
  BY <1>1 DEF RigsExist, idle, TypeOK
<1>5. to_gui' \in Seq([from : Rigs, what : Signals \ {finished}])
  <2> DEFINE E == [from : Rigs, what : Signals \ {finished}]
  <2>1. to_gui \in Seq(E) BY DEF TypeOK
  <2>2. e # finished => [from |-> emitting.rig, what |-> e] \in E
    BY <1>2, <1>4, ConfigurationAssumption DEF Rigs
  <2> DEFINE x == [from |-> emitting.rig, what |-> e]
  <2> HIDE DEF E
  <2>3. x \in E => Append(to_gui, x) \in Seq(E) BY <2>1, AtEnd
  <2>4. to_gui' \in Seq(E) BY <1>3, <2>1, <2>2, <2>3
  <2> QED BY <2>4 DEF E
<1>6. \A i \in DOMAIN to_gui' :
        \/ i \in DOMAIN to_gui /\ to_gui'[i] = to_gui[i]
        \/ /\ to_gui'[i] = [from |-> emitting.rig, what |-> emitting.signals[1]]
           /\ emitting.rig = newest
  <2> DEFINE E == [from : Rigs, what : Signals \ {finished}]
             x == [from |-> emitting.rig, what |-> e]
  <2>1. to_gui \in Seq(E) BY DEF TypeOK
  <2>2. e # finished => x \in E
    BY <1>2, <1>4, ConfigurationAssumption DEF Rigs
  <2>3. x = [from |-> emitting.rig, what |-> emitting.signals[1]] BY <1>2
  <2> HIDE DEF E, x
  <2> QED BY <1>3, <2>1, <2>2, <2>3, AtEnd
<1>7. TypeOK' BY <1>1, <1>2, <1>5 DEF TypeOK, gui
<1>8. RigsExist'
  <2>1. newest' = newest /\ (~idle)' => emitting'.rig \in 1 .. newest'
    BY <1>2, <1>4
  <2>2. \A i \in DOMAIN to_gui' : to_gui'[i].from <= newest'
    <3>1. newest' = newest /\ newest <= newest BY <1>1, <1>4 DEF gui
    <3> QED BY <3>1, <1>6 DEF RigsExist
  <2> QED BY <1>1, <2>1, <2>2 DEF RigsExist, gui
<1>9. CallsInOrder' BY <1>1 DEF CallsInOrder, gui
<1>10. UpdatesExecuted'
  <2>1. \A i \in DOMAIN emitting.signals : emitting.signals[i].signal = "update" =>
          emitting.signals[i].number = rigs[emitting.rig].number
    BY DEF UpdatesExecuted
  <2>2. rigs[emitting.rig].number \in Nat /\ 1 \in DOMAIN emitting.signals
    BY <1>1, <1>4, ConfigurationAssumption DEF TypeOK, Rigs, CommandNumbers
  <2>3. emitting.signals[1].signal = "update" =>
          emitting.signals[1].number <= rigs[emitting.rig].number
    BY <2>1, <2>2
  <2>4. \A i \in DOMAIN to_gui' : to_gui'[i].what.signal = "update" =>
          to_gui'[i].what.number <= rigs'[to_gui'[i].from].number
    <3>1. rigs' = rigs BY <1>1
    <3> QED BY <3>1, <1>6, <2>3 DEF UpdatesExecuted
  <2> QED BY <1>1, <1>2, <2>1, <2>4 DEF UpdatesExecuted
<1> QED BY <1>7, <1>8, <1>9, <1>10

-----------------------------------------------------------------------------
(* The GUI thread keeps the numbers in order. *)

\* All a GUI handler does to the numbers: it may take an event, close the
\* connected rig and post one call, with the next number, to the newest rig.
LEMMA GuiNumbers ==
    ASSUME NumbersInv, UNCHANGED <<rigs, emitting>>,
           rig_active' \in BOOLEAN, newest' \in 0 .. MaxRigs,
           cached' \in TransceiverState, command_number' \in CommandNumbers,
           reported' \in [rig : 0 .. MaxRigs, number : CommandNumbers],
           asked' \in Frequencies \cup {0},
           \/ newest' = newest
           \/ newest' = newest + 1 /\ command_number' > command_number,
           command_number' >= command_number, rig_active' => newest' >= 1,
           to_gui' = to_gui \/ (to_gui # <<>> /\ to_gui' = Tail(to_gui)),
           NEW q, q = to_rigs \/ q = closing,
           \/ to_rigs' = q
           \/ /\ command_number' > command_number
              /\ \E c \in Calls : /\ c.call # "stop" /\ c.rig = newest'
                                  /\ c.number = command_number'
                                  /\ to_rigs' = Append(q, c)
    PROVE  NumbersInv'
<1> USE DEF NumbersInv
<1>1. /\ newest \in Nat /\ newest' \in Nat /\ newest <= newest' /\ MaxRigs \in Nat
      /\ command_number \in Nat /\ command_number' \in Nat
      /\ \A r \in Rigs : rigs[r].number \in Nat
  BY ConfigurationAssumption DEF TypeOK, CommandNumbers
<1>2. /\ q \in Seq(Calls)
      /\ \A i \in DOMAIN q : \/ i \in DOMAIN to_rigs /\ q[i] = to_rigs[i]
                             \/ q[i].call = "stop" /\ q[i].rig = newest
  <2>1. rig_active => stop_call(newest) \in Calls
    <3>1. rig_active => newest \in Rigs BY <1>1 DEF RigsExist, TypeOK, Rigs
    <3>2. 0 \in CommandNumbers BY ConfigurationAssumption DEF CommandNumbers
    <3> QED BY <3>1, <3>2, NoStateType DEF stop_call, Calls
  <2>2. to_rigs \in Seq(Calls) BY DEF TypeOK
  <2>3. CASE q = to_rigs BY <2>2, <2>3
  <2>4. CASE rig_active /\ q = Append(to_rigs, stop_call(newest))
    <3>1. stop_call(newest).call = "stop" /\ stop_call(newest).rig = newest
      BY DEF stop_call
    <3> QED BY <2>1, <2>2, <2>4, <3>1
  <2> QED BY <2>3, <2>4 DEF closing
<1>3. \A i \in DOMAIN to_rigs :
        /\ to_rigs[i].rig \in Nat /\ to_rigs[i].number \in Nat
        /\ to_rigs[i].rig <= newest'
        /\ to_rigs[i].call # "stop" =>
             /\ to_rigs[i].number <= command_number
             /\ to_rigs[i].rig < newest' => to_rigs[i].number < command_number'
             /\ \A r \in Rigs : rigs[r].number < to_rigs[i].number
             /\ \A j \in DOMAIN to_rigs : j < i /\ to_rigs[j].call # "stop" =>
                  to_rigs[j].number < to_rigs[i].number
  <2>1. \A i \in DOMAIN to_rigs : to_rigs[i] \in Calls BY DEF TypeOK
  <2>2. \A i \in DOMAIN to_rigs : to_rigs[i].rig \in Nat /\ to_rigs[i].number \in Nat
    BY <2>1 DEF Calls, Rigs, CommandNumbers
  <2> QED BY <1>1, <2>2 DEF RigsExist, CallsInOrder
<1>4. \A i \in DOMAIN to_rigs' :
        /\ to_rigs'[i] \in Calls
        /\ \/ i \in DOMAIN to_rigs /\ to_rigs'[i] = to_rigs[i]
           \/ to_rigs'[i].call = "stop" /\ to_rigs'[i].rig = newest
           \/ /\ command_number' > command_number /\ to_rigs'[i].rig = newest'
              /\ to_rigs'[i].number = command_number' /\ i = Len(q) + 1
  <2>1. CASE to_rigs' = q BY <2>1, <1>2
  <2>2. ASSUME NEW c \in Calls, c.rig = newest', c.number = command_number',
               command_number' > command_number, to_rigs' = Append(q, c)
        PROVE  <1>4!:
    <3>1. \A i \in DOMAIN to_rigs' : \/ i \in DOMAIN q /\ to_rigs'[i] = q[i]
                                     \/ i = Len(q) + 1 /\ to_rigs'[i] = c
      BY <1>2, <2>2
    <3> QED BY <1>2, <2>2, <3>1
  <2> QED BY <2>1, <2>2
<1>5. to_rigs' \in Seq(Calls) /\ DOMAIN to_rigs' \subseteq 1 .. Len(q) + 1
      /\ Len(q) \in Nat
  <2>1. Len(q) \in Nat /\ DOMAIN q = 1 .. Len(q) BY <1>2
  <2>2. CASE to_rigs' = q BY <1>2, <2>1, <2>2
  <2>3. ASSUME NEW c \in Calls, to_rigs' = Append(q, c)
        PROVE  to_rigs' \in Seq(Calls) /\ DOMAIN to_rigs' \subseteq 1 .. Len(q) + 1
    <3>1. Append(q, c) \in Seq(Calls) /\ DOMAIN Append(q, c) = DOMAIN q \cup {Len(q) + 1}
      BY <1>2, AtEnd
    <3>2. to_rigs' \in Seq(Calls) BY <2>3, <3>1
    <3>3. DOMAIN to_rigs' \subseteq 1 .. Len(q) + 1
      <4>1. DOMAIN to_rigs' = DOMAIN q \cup {Len(q) + 1} BY <2>3, <3>1, Zenon
      <4> QED BY <2>1, <4>1
    <3> QED BY <3>2, <3>3
  <2> QED BY <2>1, <2>2, <2>3
<1>6. CallsInOrder'
  <2>1. \A r \in Rigs : /\ rigs'[r].number <= command_number'
                        /\ r < newest' => rigs'[r].number < command_number'
    BY <1>1 DEF CallsInOrder, Rigs
  <2>2. ASSUME NEW i \in DOMAIN to_rigs', to_rigs'[i].call # "stop"
        PROVE  /\ to_rigs'[i].number <= command_number'
               /\ to_rigs'[i].rig < newest' => to_rigs'[i].number < command_number'
               /\ \A r \in Rigs : rigs'[r].number < to_rigs'[i].number
               /\ \A j \in DOMAIN to_rigs' : j < i /\ to_rigs'[j].call # "stop" =>
                    to_rigs'[j].number < to_rigs'[i].number
    <3>1. CASE i \in DOMAIN to_rigs /\ to_rigs'[i] = to_rigs[i]
      <4>1. \A j \in DOMAIN to_rigs' : j < i /\ to_rigs'[j].call # "stop" =>
              j \in DOMAIN to_rigs /\ to_rigs'[j] = to_rigs[j]
        <5>1. Len(q) >= Len(to_rigs) /\ DOMAIN to_rigs = 1 .. Len(to_rigs)
          BY DEF TypeOK, closing
        <5> QED BY <3>1, <1>4, <1>5, <5>1
      <4> QED BY <3>1, <4>1, <1>1, <1>3, <2>2
    <3>2. CASE /\ command_number' > command_number /\ to_rigs'[i].rig = newest'
               /\ to_rigs'[i].number = command_number' /\ i = Len(q) + 1
      <4>1. \A j \in DOMAIN to_rigs' : j < i /\ to_rigs'[j].call # "stop" =>
              j \in DOMAIN to_rigs /\ to_rigs'[j] = to_rigs[j]
        BY <3>2, <1>4, <1>5
      <4> QED BY <3>2, <4>1, <1>1, <1>3 DEF CallsInOrder
    <3> QED BY <3>1, <3>2, <1>4, <2>2
  <2> QED BY <2>1, <2>2 DEF CallsInOrder
<1>7. \A i \in DOMAIN to_gui' : \E j \in DOMAIN to_gui : to_gui'[i] = to_gui[j]
  <2>1. to_gui # <<>> /\ to_gui' = Tail(to_gui) =>
          \A i \in DOMAIN to_gui' : i + 1 \in DOMAIN to_gui /\ to_gui'[i] = to_gui[i + 1]
    BY DEF TypeOK
  <2> QED BY <2>1
<1>8. to_gui' \in Seq([from : Rigs, what : Signals \ {finished}])
  <2> DEFINE E == [from : Rigs, what : Signals \ {finished}]
  <2>1. to_gui \in Seq(E) BY DEF TypeOK
  <2> HIDE DEF E
  <2>2. to_gui # <<>> => Tail(to_gui) \in Seq(E) BY <2>1, AfterHead
  <2>3. to_gui' \in Seq(E) BY <2>1, <2>2
  <2> QED BY <2>3 DEF E
<1>9. TypeOK' BY <1>5, <1>8 DEF TypeOK
<1>10. RigsExist'
  <2>1. \A r \in Rigs : r > newest' => rigs'[r].life = "created" /\ rigs'[r].number = 0
    BY <1>1 DEF RigsExist, Rigs
  <2>2. \A i \in DOMAIN to_rigs' : to_rigs'[i].rig <= newest' BY <1>1, <1>3, <1>4
  <2>3. \A i \in DOMAIN to_gui' : to_gui'[i].from <= newest'
    BY <1>1, <1>7, EventsType DEF RigsExist, Rigs
  <2>4. ~idle' => emitting'.rig \in 1 .. newest'
    BY <1>1 DEF RigsExist, idle
  <2>5. command_number' = 0 => newest' = 0 BY <1>1 DEF RigsExist
  <2> QED BY <2>1, <2>2, <2>3, <2>4, <2>5 DEF RigsExist
<1>11. UpdatesExecuted' BY <1>7 DEF UpdatesExecuted
<1> QED BY <1>6, <1>9, <1>10, <1>11

\* A new command gets the next number and waits behind all others.
LEMMA SetTransceiverNumbers ==
    ASSUME NumbersInv, NEW s \in TransceiverState, set_transceiver(s),
           asked' \in Frequencies \cup {0}
    PROVE  NumbersInv'
<1> DEFINE n == command_number + 1
<1>1. /\ command_number \in Nat /\ newest \in 0 .. MaxRigs
      /\ n \in CommandNumbers /\ command_number' = n /\ n > command_number
      /\ cached' = s /\ UNCHANGED <<rig_active, newest, rigs, to_gui, emitting, reported>>
  BY ConfigurationAssumption DEF NumbersInv, TypeOK, set_transceiver, CommandNumbers
<1>2. CASE rig_active
  <2>1. newest \in Rigs BY <1>1, <1>2 DEF NumbersInv, RigsExist, Rigs
  <2>2. /\ set_call(newest, s, n) \in Calls
        /\ set_call(newest, s, n).call # "stop"
        /\ set_call(newest, s, n).rig = newest'
        /\ set_call(newest, s, n).number = n
    BY <1>1, <2>1 DEF set_call, Calls
  <2>3. to_rigs' = Append(to_rigs, set_call(newest, s, n))
    BY <1>2 DEF set_transceiver
  <2>4. \E c \in Calls : /\ c.call # "stop" /\ c.rig = newest' /\ c.number = command_number'
                         /\ to_rigs' = Append(to_rigs, c)
    BY <1>1, <2>2, <2>3
  <2>5. /\ command_number' >= command_number /\ command_number' > command_number
        /\ rig_active' \in BOOLEAN /\ (rig_active' => newest' >= 1)
        /\ newest' \in 0 .. MaxRigs /\ newest' = newest /\ to_gui' = to_gui
        /\ cached' \in TransceiverState /\ command_number' \in CommandNumbers
        /\ reported' \in [rig : 0 .. MaxRigs, number : CommandNumbers]
        /\ UNCHANGED <<rigs, emitting>>
    BY <1>1 DEF NumbersInv, TypeOK, RigsExist
  <2> QED BY <2>4, <2>5, GuiNumbers
<1>3. CASE ~rig_active
  <2>1. to_rigs' = to_rigs BY <1>3 DEF set_transceiver
  <2> QED BY <1>1, <1>3, <2>1, GuiNumbers DEF NumbersInv, TypeOK
<1> QED BY <1>2, <1>3

\* Opening and closing a rig and the commands of the clients keep the order of
\* the numbers: only open_rig and set_transceiver take a new one.
LEMMA GuiRequestNumbers ==
    ASSUME NumbersInv, GuiRequest
    PROVE  NumbersInv'
<1> USE DEF NumbersInv
<1>0. /\ \A m \in DataModes : m \in ModesOrUNK
      /\ cached \in TransceiverState /\ asked \in Frequencies \cup {0}
      /\ command_number \in Nat /\ newest \in 0 .. MaxRigs
  BY ConfigurationAssumption DEF TypeOK, CommandNumbers
<1>1. CASE open_rig
  <2> DEFINE c == start_call(newest + 1, command_number + 1)
  <2>1. /\ newest' = newest + 1 /\ newest' \in 0 .. MaxRigs /\ newest' >= 1
        /\ newest' \in Rigs
        /\ command_number' = command_number + 1 /\ command_number' > command_number
        /\ command_number' \in CommandNumbers
        /\ rig_active' = TRUE /\ cached' = NoState /\ asked' = 0
        /\ to_rigs' = Append(closing, c)
        /\ UNCHANGED <<rigs, to_gui, emitting, reported>>
    BY <1>0, <1>1, ConfigurationAssumption DEF open_rig, CommandNumbers, Rigs
  <2>2. c \in Calls /\ c.call # "stop" /\ c.rig = newest' /\ c.number = command_number'
    BY <2>1, NoStateType DEF start_call, Calls
  <2>3. \E d \in Calls : /\ d.call # "stop" /\ d.rig = newest' /\ d.number = command_number'
                         /\ to_rigs' = Append(closing, d)
    BY <2>1, <2>2
  <2>4. command_number' >= command_number BY <2>1, <1>0
  <2> QED BY <2>1, <2>3, <2>4, NoStateType, GuiNumbers DEF TypeOK
<1>2. CASE close_rig
  <2>1. /\ rig_active' = FALSE /\ to_rigs' = closing
        /\ UNCHANGED <<newest, cached, command_number, rigs, to_gui, emitting, reported, asked>>
    BY <1>2 DEF close_rig
  <2>2. command_number' >= command_number BY <2>1, <1>0
  <2> QED BY <2>1, <2>2, GuiNumbers DEF TypeOK
<1>3. ASSUME NEW f \in Frequencies, transceiver_frequency(f) PROVE NumbersInv'
  <2>1. PICK m \in DataModes :
          set_transceiver([cached EXCEPT !.online = TRUE, !.mode = m, !.frequency = f])
    BY <1>3 DEF transceiver_frequency
  <2>2. [cached EXCEPT !.online = TRUE, !.mode = m, !.frequency = f] \in TransceiverState
    BY <1>0 DEF TransceiverState
  <2>3. asked' \in Frequencies \cup {0} BY <1>3 DEF transceiver_frequency
  <2> QED BY <2>1, <2>2, <2>3, SetTransceiverNumbers
<1>4. ASSUME NEW f \in Frequencies \cup {0}, transceiver_tx_frequency(f) PROVE NumbersInv'
  <2>1. PICK m \in DataModes :
          set_transceiver([cached EXCEPT !.online = TRUE, !.mode = m,
                                         !.split = f # 0, !.tx_frequency = f])
    BY <1>4 DEF transceiver_tx_frequency
  <2>2. [cached EXCEPT !.online = TRUE, !.mode = m,
                       !.split = f # 0, !.tx_frequency = f] \in TransceiverState
    BY <1>0 DEF TransceiverState
  <2>3. asked' \in Frequencies \cup {0} BY <1>0, <1>4 DEF transceiver_tx_frequency
  <2> QED BY <2>1, <2>2, <2>3, SetTransceiverNumbers
<1>5. ASSUME NEW m \in Modes, transceiver_mode(m) PROVE NumbersInv'
  <2>1. [cached EXCEPT !.online = TRUE, !.mode = m] \in TransceiverState
    BY <1>0 DEF TransceiverState, ModesOrUNK
  <2> QED BY <1>0, <1>5, <2>1, SetTransceiverNumbers DEF transceiver_mode
<1>6. ASSUME NEW on \in BOOLEAN, transceiver_ptt(on) PROVE NumbersInv'
  <2>1. PICK m \in DataModes :
          set_transceiver([cached EXCEPT !.online = TRUE, !.mode = m, !.ptt = on])
    BY <1>6 DEF transceiver_ptt
  <2>2. [cached EXCEPT !.online = TRUE, !.mode = m, !.ptt = on] \in TransceiverState
    BY <1>0 DEF TransceiverState
  <2> QED BY <1>0, <1>6, <2>1, <2>2, SetTransceiverNumbers DEF transceiver_ptt
<1>7. ASSUME NEW a \in AudioSettings, transceiver_audio(a) PROVE NumbersInv'
  <2>1. PICK m \in DataModes :
          LET s == [cached EXCEPT !.online = TRUE, !.mode = m, !.audio = a]
          IN \/ set_transceiver(s) /\ UNCHANGED asked
             \/ /\ cached' = s
                /\ UNCHANGED <<rig_active, newest, command_number, reported, asked,
                               rigs, to_rigs, to_gui, emitting>>
    BY <1>7 DEF transceiver_audio
  <2> DEFINE s == [cached EXCEPT !.online = TRUE, !.mode = m, !.audio = a]
  <2>2. s \in TransceiverState BY <1>0 DEF TransceiverState
  <2> HIDE DEF s
  <2>3. CASE set_transceiver(s) /\ UNCHANGED asked
    BY <1>0, <2>2, <2>3, SetTransceiverNumbers
  <2>4. CASE /\ cached' = s
             /\ UNCHANGED <<rig_active, newest, command_number, reported, asked,
                            rigs, to_rigs, to_gui, emitting>>
    <3>1. command_number' >= command_number BY <2>4, <1>0
    <3> QED BY <2>2, <2>4, <3>1, GuiNumbers DEF TypeOK, RigsExist
  <2> QED BY <2>1, <2>3, <2>4 DEF s
<1>8. ASSUME NEW on \in {b \in BOOLEAN : b => Tune \in AudioSettings}, transceiver_tune(on)
      PROVE  NumbersInv'
  <2> DEFINE a == IF on THEN Tune ELSE Untouched
  <2>1. PICK m \in DataModes :
          set_transceiver([cached EXCEPT !.online = TRUE, !.mode = m, !.audio = a])
    BY <1>8 DEF transceiver_tune
  <2>2. a \in AudioSettings BY AudioAssumption
  <2>3. [cached EXCEPT !.online = TRUE, !.mode = m, !.audio = a] \in TransceiverState
    BY <1>0, <2>2 DEF TransceiverState
  <2> QED BY <1>0, <1>8, <2>1, <2>3, SetTransceiverNumbers DEF transceiver_tune
<1>9. CASE transceiver_volume
  <2>1. PICK m \in DataModes : set_transceiver([cached EXCEPT !.online = TRUE, !.mode = m])
    BY <1>9 DEF transceiver_volume
  <2>2. [cached EXCEPT !.online = TRUE, !.mode = m] \in TransceiverState
    BY <1>0 DEF TransceiverState
  <2> QED BY <1>0, <1>9, <2>1, <2>2, SetTransceiverNumbers DEF transceiver_volume
<1> QED BY <1>1, <1>2, <1>3, <1>4, <1>5, <1>6, <1>7, <1>8, <1>9 DEF GuiRequest

\* Updates and failures handled by the GUI thread take no number; those that
\* close the rig post a stop.
LEMMA GuiEventNumbers ==
    ASSUME NumbersInv, GuiEvent
    PROVE  NumbersInv'
<1> USE DEF NumbersInv
<1>0. command_number >= command_number /\ newest \in 0 .. MaxRigs
  BY DEF TypeOK, CommandNumbers
<1>1. to_gui # <<>> =>
        /\ sender \in Rigs /\ event \in Signals
        /\ event.signal = "update" =>
             event.state \in TransceiverState /\ event.number \in CommandNumbers
  <2> DEFINE E == [from : Rigs, what : Signals \ {finished}]
  <2>1. to_gui \in Seq(E) BY DEF TypeOK
  <2> HIDE DEF E
  <2>2. to_gui # <<>> => 1 \in DOMAIN to_gui /\ to_gui[1] = Head(to_gui)
    BY <2>1, AfterHead
  <2> QED BY <2>2, EventsType DEF event, sender
<1>2. CASE handle_transceiver_update
  <2> DEFINE s == event.state
             current == event.number = command_number
             closes == ~s.online /\ (IsTci => current)
  <2>1. to_gui # <<>> /\ event.signal = "update" /\ to_gui' = Tail(to_gui)
        /\ UNCHANGED <<newest, command_number, rigs, emitting>>
    BY <1>2 DEF handle_transceiver_update
  <2>2. cached' \in TransceiverState
    <3>1. cached' = [cached EXCEPT !.online = s.online, !.frequency = s.frequency,
                                   !.mode = IF IsTci THEN @ ELSE s.mode,
                                   !.split = s.split]
      BY <1>2 DEF handle_transceiver_update
    <3> QED BY <3>1, <1>1, <2>1 DEF TypeOK, TransceiverState
  <2>3. rig_active' \in BOOLEAN /\ (rig_active' => rig_active)
    BY <1>2 DEF handle_transceiver_update, TypeOK
  <2>4. to_rigs' = to_rigs \/ to_rigs' = closing
    BY <1>2 DEF handle_transceiver_update
  <2>5. reported' \in [rig : 0 .. MaxRigs, number : CommandNumbers]
    <3>1. reported' = [rig |-> sender, number |-> event.number] \/ reported' = reported
      BY <1>2 DEF handle_transceiver_update
    <3> QED BY <3>1, <1>1, <2>1, ConfigurationAssumption DEF TypeOK, Rigs
  <2>6. asked' \in Frequencies \cup {0}
    <3>1. asked' = s.frequency \/ asked' = asked
      BY <1>2 DEF handle_transceiver_update
    <3> QED BY <3>1, <1>1, <2>1 DEF TypeOK, TransceiverState
  <2> QED BY <1>0, <2>1, <2>2, <2>3, <2>4, <2>5, <2>6, GuiNumbers DEF TypeOK, RigsExist
<1>3. CASE handle_transceiver_failure
  <2>1. /\ rig_active' = FALSE /\ to_rigs' = closing
        /\ to_gui # <<>> /\ to_gui' = Tail(to_gui)
        /\ UNCHANGED <<newest, cached, command_number, reported, asked, rigs, emitting>>
    BY <1>3 DEF handle_transceiver_failure
  <2> QED BY <1>0, <2>1, GuiNumbers DEF TypeOK
<1> QED BY <1>2, <1>3 DEF GuiEvent

-----------------------------------------------------------------------------
\* Before the first rig there are no calls and no updates.
LEMMA NumbersInitially == Init => NumbersInv
<1> SUFFICES ASSUME Init PROVE NumbersInv OBVIOUS
<1>1. TypeOK
  <2>1. 0 \in CommandNumbers /\ 0 \in 0 .. MaxRigs
    BY ConfigurationAssumption DEF CommandNumbers
  <2>2. rigs \in [Rigs -> [life : {"created", "running", "stopped"}, online : BOOLEAN,
                          number : CommandNumbers]]
    BY <2>1 DEF Init
  <2>3. emitting \in [rig : 0 .. MaxRigs, signals : Seq(Signals)]
    BY <2>1 DEF Init
  <2>4. \A S : <<>> \in Seq(S) OBVIOUS
  <2>5. to_rigs \in Seq(Calls) /\ to_gui \in Seq([from : Rigs, what : Signals \ {finished}])
    BY <2>4, Zenon DEF Init
  <2>6. reported \in [rig : 0 .. MaxRigs, number : CommandNumbers] BY <2>1 DEF Init
  <2>7. cached \in TransceiverState /\ asked \in Frequencies \cup {0} /\ rig_active \in BOOLEAN
        /\ newest \in 0 .. MaxRigs /\ command_number \in CommandNumbers
    BY <2>1, NoStateType DEF Init
  <2> QED BY <2>2, <2>3, <2>5, <2>6, <2>7 DEF TypeOK
<1> QED
  BY <1>1, ConfigurationAssumption
  DEF Init, NumbersInv, RigsExist, CallsInOrder, UpdatesExecuted, idle, Rigs

\* Every step of the two threads keeps the numbers in order.
LEMMA NumbersKept == NumbersInv /\ [Next]_vars => NumbersInv'
<1> SUFFICES ASSUME NumbersInv, [Next]_vars PROVE NumbersInv' OBVIOUS
<1>1. CASE UNCHANGED vars
  BY <1>1 DEF NumbersInv, TypeOK, RigsExist, CallsInOrder, UpdatesExecuted, idle, vars, gui
<1> QED
  BY <1>1, GuiRequestNumbers, GuiEventNumbers, RigThreadNumbers, EmitNumbers
  DEF Next, RigCall

\* The state of the GUI thread, the rig objects and the queued signals have
\* their types.
THEOREM TypeCorrect == Spec => []TypeOK
<1>1. NumbersInv => TypeOK BY DEF NumbersInv
<1> QED BY <1>1, NumbersInitially, NumbersKept, PTL DEF Spec

\* If updates number no later than what their rig executed, one with the number
\* of the latest command comes from the newest rig, with nothing left to do.
LEMMA NumbersSuffice == NumbersInv => CurrentUpdatesAreLatest
<1> SUFFICES ASSUME NumbersInv, Outstanding(command_number)
             PROVE  /\ rigs[newest].number = command_number
                    /\ \A i \in DOMAIN to_rigs : to_rigs[i].call = "stop"
  BY DEF CurrentUpdatesAreLatest
<1> USE DEF NumbersInv
<1>1. newest \in 0 .. MaxRigs /\ command_number \in Nat /\ MaxRigs \in Nat
      /\ \A r \in Rigs : rigs[r].number \in Nat
  BY ConfigurationAssumption DEF TypeOK, CommandNumbers
<1>2. PICK r \in Rigs : r <= newest /\ command_number <= rigs[r].number
  <2>1. ASSUME NEW i \in DOMAIN to_gui, to_gui[i].what.signal = "update",
               to_gui[i].what.number = command_number
        PROVE  \E r \in Rigs : r <= newest /\ command_number <= rigs[r].number
    BY <2>1, EventsType DEF RigsExist, UpdatesExecuted
  <2>2. ASSUME NEW i \in DOMAIN emitting.signals, emitting.signals[i].signal = "update",
               emitting.signals[i].number = command_number
        PROVE  \E r \in Rigs : r <= newest /\ command_number <= rigs[r].number
    <3>1. emitting.rig \in 1 .. newest
      <4>1. emitting.signals # <<>> BY <2>2
      <4> QED BY <4>1 DEF RigsExist, idle
    <3>2. emitting.rig \in Rigs /\ emitting.rig <= newest BY <1>1, <3>1 DEF Rigs
    <3>3. command_number <= rigs[emitting.rig].number
      BY <1>1, <2>2, <3>2 DEF UpdatesExecuted
    <3> QED BY <3>2, <3>3
  <2> QED BY <2>1, <2>2 DEF Outstanding
<1>3. r = newest /\ rigs[r].number = command_number
  <2>1. r \in Nat /\ newest \in Nat BY <1>1 DEF Rigs
  <2>2. rigs[r].number <= command_number /\ (r < newest => rigs[r].number < command_number)
    BY DEF CallsInOrder
  <2> QED BY <1>1, <1>2, <2>1, <2>2
<1>4. ASSUME NEW i \in DOMAIN to_rigs PROVE to_rigs[i].call = "stop"
  <2>1. to_rigs[i] \in Calls BY DEF TypeOK
  <2>2. to_rigs[i].number \in Nat BY <2>1 DEF Calls, CommandNumbers
  <2> QED BY <1>1, <1>3, <2>2 DEF CallsInOrder
<1> QED BY <1>3, <1>4

\* An update with the current command number, the one the clients will be
\* shown, comes from the newest rig after it has executed the latest command.
THEOREM UpdatesAreLatest == Spec => []CurrentUpdatesAreLatest
BY NumbersInitially, NumbersKept, NumbersSuffice, PTL DEF Spec

-----------------------------------------------------------------------------
(* The inductive invariant: the lives of the rig objects, given the calls  *)
(* q waiting for them, whether a rig is active and the number of rigs.     *)

\* a call c for rig r waits at a position before i, or anywhere
Before(q, i, c, r) == \E j \in DOMAIN q : j < i /\ q[j].call = c /\ q[j].rig = r
Waits(q, c, r) == \E j \in DOMAIN q : q[j].call = c /\ q[j].rig = r

lifeOf(r) == rigs[r].life

\* a start waits for a rig that is new, behind the stops of all rigs before
StartsInOrder(q) ==
    \A i \in DOMAIN q : q[i].call = "start" =>
        /\ lifeOf(q[i].rig) = "created"
        /\ ~Before(q, i, "start", q[i].rig)
        /\ \A r \in Rigs : r < q[i].rig => lifeOf(r) = "stopped" \/ Before(q, i, "stop", r)

\* a set waits for a rig that is running or to be started, and not to be
\* stopped before
SetsInOrder(q) ==
    \A i \in DOMAIN q : q[i].call = "set" =>
        /\ lifeOf(q[i].rig) # "stopped"
        /\ lifeOf(q[i].rig) = "running" \/ Before(q, i, "start", q[i].rig)
        /\ ~Before(q, i, "stop", q[i].rig)

\* a stop waits for a rig that was or is to be started
StopsInOrder(q) ==
    \A i \in DOMAIN q : q[i].call = "stop" =>
        lifeOf(q[i].rig) # "created" \/ Before(q, i, "start", q[i].rig)

\* rigs run one after the other
RigsInOrder ==
    /\ \A r \in Rigs : rigs[r].online => lifeOf(r) = "running"
    /\ \A p, r \in Rigs : r < p /\ lifeOf(p) # "created" => lifeOf(r) = "stopped"

\* all but the connected rig are or will be stopped, that one is or will be
\* running
ConnectedRuns(q, active, new) ==
    /\ \A r \in Rigs : r <= new /\ ~(active /\ r = new) =>
         lifeOf(r) = "stopped" \/ Waits(q, "stop", r)
    /\ active => /\ lifeOf(new) # "stopped"
                 /\ lifeOf(new) = "running" \/ Waits(q, "start", new)
                 /\ ~Waits(q, "stop", new)

QueueLives(q, active, new) ==
    /\ StartsInOrder(q) /\ SetsInOrder(q) /\ StopsInOrder(q)
    /\ ConnectedRuns(q, active, new)

LivesInv == NumbersInv /\ RigsInOrder /\ QueueLives(to_rigs, rig_active, newest)

\* What waits before a call is not changed by posting another.
LEMMA BeforeAtEnd ==
    ASSUME NEW q \in Seq(Calls), NEW x \in Calls, NEW c, NEW r
    PROVE  /\ \A i \in DOMAIN q : Before(Append(q, x), i, c, r) <=> Before(q, i, c, r)
           /\ Before(Append(q, x), Len(q) + 1, c, r) <=> Waits(q, c, r)
           /\ Waits(Append(q, x), c, r) <=> Waits(q, c, r) \/ (x.call = c /\ x.rig = r)
<1> DEFINE a == Append(q, x)
<1>1. /\ DOMAIN a = DOMAIN q \cup {Len(q) + 1}
      /\ \A i \in DOMAIN q : a[i] = q[i] /\ i <= Len(q) /\ i \in Nat
      /\ a[Len(q) + 1] = x /\ Len(q) \in Nat
  BY AtEnd
<1> HIDE DEF a
<1>2. \A i \in DOMAIN q : Before(a, i, c, r) <=> Before(q, i, c, r)
  BY <1>1 DEF Before
<1>3. Before(a, Len(q) + 1, c, r) <=> Waits(q, c, r)
  BY <1>1 DEF Before, Waits
<1>4. Waits(a, c, r) <=> Waits(q, c, r) \/ (x.call = c /\ x.rig = r)
  BY <1>1 DEF Waits
<1> QED BY <1>2, <1>3, <1>4 DEF a

\* What waits before a call, when the first of the queue is taken.
LEMMA BeforeAfterHead ==
    ASSUME NEW q \in Seq(Calls), q # <<>>, NEW c, NEW r
    PROVE  /\ \A i \in DOMAIN Tail(q) :
                Before(q, i + 1, c, r) <=>
                    Before(Tail(q), i, c, r) \/ (Head(q).call = c /\ Head(q).rig = r)
           /\ Waits(q, c, r) <=> Waits(Tail(q), c, r) \/ (Head(q).call = c /\ Head(q).rig = r)
           /\ ~Before(q, 1, c, r)
<1> DEFINE t == Tail(q)
           h == Head(q)
<1>1. /\ q[1] = h /\ DOMAIN q = 1 .. Len(q) /\ Len(q) \in Nat /\ Len(q) >= 1
      /\ DOMAIN t = 1 .. Len(q) - 1
      /\ \A i \in DOMAIN t : t[i] = q[i + 1]
  OBVIOUS
<1> HIDE DEF t, h
<1>2. \A j \in DOMAIN q : j = 1 \/ (j - 1 \in DOMAIN t /\ t[j - 1] = q[j])
  BY <1>1
<1>3. \A i \in DOMAIN t : i + 1 \in DOMAIN q /\ i >= 1 /\ i \in Nat BY <1>1
<1>4. ASSUME NEW i \in DOMAIN t
      PROVE  Before(q, i + 1, c, r) <=> Before(t, i, c, r) \/ (h.call = c /\ h.rig = r)
  <2>1. ASSUME Before(q, i + 1, c, r) PROVE Before(t, i, c, r) \/ (h.call = c /\ h.rig = r)
    <3>1. PICK j \in DOMAIN q : j < i + 1 /\ q[j].call = c /\ q[j].rig = r
      BY <2>1 DEF Before
    <3>2. CASE j = 1 BY <1>1, <3>1, <3>2
    <3>3. CASE j - 1 \in DOMAIN t /\ t[j - 1] = q[j]
      <4>1. j - 1 < i BY <1>1, <1>3, <3>1
      <4> QED BY <3>1, <3>3, <4>1 DEF Before
    <3> QED BY <1>2, <3>2, <3>3
  <2>2. ASSUME Before(t, i, c, r) PROVE Before(q, i + 1, c, r)
    <3>1. PICK j \in DOMAIN t : j < i /\ t[j].call = c /\ t[j].rig = r
      BY <2>2 DEF Before
    <3>2. j + 1 \in DOMAIN q /\ q[j + 1] = t[j] /\ j + 1 < i + 1
      BY <1>1, <1>3, <3>1
    <3> QED BY <3>1, <3>2 DEF Before
  <2>3. ASSUME h.call = c, h.rig = r PROVE Before(q, i + 1, c, r)
    <3>1. 1 \in DOMAIN q /\ 1 < i + 1 BY <1>1, <1>3
    <3> QED BY <1>1, <2>3, <3>1 DEF Before
  <2> QED BY <2>1, <2>2, <2>3
<1>5. Waits(q, c, r) <=> Waits(t, c, r) \/ (h.call = c /\ h.rig = r)
  <2>1. 1 \in DOMAIN q BY <1>1
  <2>2. \A j \in DOMAIN t : j + 1 \in DOMAIN q /\ q[j + 1] = t[j] BY <1>1, <1>3
  <2> QED BY <1>1, <1>2, <2>1, <2>2 DEF Waits
<1>6. ~Before(q, 1, c, r) BY <1>1 DEF Before
<1> QED BY <1>4, <1>5, <1>6 DEF t, h

-----------------------------------------------------------------------------
(* What the GUI thread posts keeps the lives in order. *)

\* A call may be posted if what it needs to precede it has run or waits: the
\* stop of older rigs for a start, its rig's start for a set and a stop.
LEMMA PostOne ==
    ASSUME NEW q \in Seq(Calls), NEW x \in Calls, NEW active, NEW new,
           QueueLives(q, active, new),
           x.call = "start" =>
             /\ lifeOf(x.rig) = "created" /\ ~Waits(q, "start", x.rig)
             /\ \A r \in Rigs : r < x.rig => lifeOf(r) = "stopped" \/ Waits(q, "stop", r),
           x.call = "set" =>
             /\ lifeOf(x.rig) # "stopped"
             /\ lifeOf(x.rig) = "running" \/ Waits(q, "start", x.rig)
             /\ ~Waits(q, "stop", x.rig),
           x.call = "stop" => lifeOf(x.rig) # "created" \/ Waits(q, "start", x.rig)
    PROVE  LET a == Append(q, x)
           IN StartsInOrder(a) /\ SetsInOrder(a) /\ StopsInOrder(a)
<1> DEFINE a == Append(q, x)
           l == Len(q) + 1
<1>1. /\ \A i \in DOMAIN a : \/ i \in DOMAIN q /\ a[i] = q[i]
                             \/ i = l /\ a[i] = x
  BY AtEnd
<1>2. /\ \A c, r : \A i \in DOMAIN q : Before(a, i, c, r) <=> Before(q, i, c, r)
      /\ \A c, r : Before(a, l, c, r) <=> Waits(q, c, r)
  BY BeforeAtEnd
<1> HIDE DEF a, l
<1>3. StartsInOrder(a) BY <1>1, <1>2 DEF QueueLives, StartsInOrder
<1>4. SetsInOrder(a) BY <1>1, <1>2 DEF QueueLives, SetsInOrder
<1>5. StopsInOrder(a) BY <1>1, <1>2 DEF QueueLives, StopsInOrder
<1> QED BY <1>3, <1>4, <1>5 DEF a

\* close_rig posts the stop of the newest rig, which is no longer connected.
LEMMA PostStop ==
    ASSUME NEW q \in Seq(Calls), NEW new \in Rigs, NEW x \in Calls,
           x.call = "stop", x.rig = new, QueueLives(q, TRUE, new)
    PROVE  QueueLives(Append(q, x), FALSE, new)
<1>1. LET a == Append(q, x) IN StartsInOrder(a) /\ SetsInOrder(a) /\ StopsInOrder(a)
  <2>1. lifeOf(x.rig) # "created" \/ Waits(q, "start", x.rig)
    BY DEF QueueLives, ConnectedRuns
  <2> QED BY <2>1, PostOne
<1>2. \A c, r : Waits(Append(q, x), c, r) <=> Waits(q, c, r) \/ (x.call = c /\ x.rig = r)
  BY BeforeAtEnd
<1>3. ConnectedRuns(Append(q, x), FALSE, new) BY <1>2 DEF QueueLives, ConnectedRuns
<1> QED BY <1>1, <1>3 DEF QueueLives

\* A command goes to the newest rig, which runs or is about to start.
LEMMA PostSet ==
    ASSUME NEW q \in Seq(Calls), NEW new \in Rigs, NEW x \in Calls,
           x.call = "set", x.rig = new, QueueLives(q, TRUE, new)
    PROVE  QueueLives(Append(q, x), TRUE, new)
<1>1. LET a == Append(q, x) IN StartsInOrder(a) /\ SetsInOrder(a) /\ StopsInOrder(a)
  <2>1. /\ lifeOf(x.rig) # "stopped" /\ ~Waits(q, "stop", x.rig)
        /\ lifeOf(x.rig) = "running" \/ Waits(q, "start", x.rig)
    BY DEF QueueLives, ConnectedRuns
  <2> QED BY <2>1, PostOne
<1>2. \A c, r : Waits(Append(q, x), c, r) <=> Waits(q, c, r) \/ (x.call = c /\ x.rig = r)
  BY BeforeAtEnd
<1>3. ConnectedRuns(Append(q, x), TRUE, new) BY <1>2 DEF QueueLives, ConnectedRuns
<1> QED BY <1>1, <1>3 DEF QueueLives

\* open_rig posts the start of a new rig behind the stops of all others.
LEMMA PostStart ==
    ASSUME NEW q \in Seq(Calls), NEW new \in Nat, new + 1 \in Rigs, NEW x \in Calls,
           x.call = "start", x.rig = new + 1, lifeOf(new + 1) = "created",
           \A i \in DOMAIN q : q[i].rig <= new,
           QueueLives(q, FALSE, new)
    PROVE  QueueLives(Append(q, x), TRUE, new + 1)
<1>1. \A c : ~Waits(q, c, new + 1)
  <2>1. \A i \in DOMAIN q : q[i].rig # new + 1
    <3>1. \A i \in DOMAIN q : q[i] \in Calls OBVIOUS
    <3>2. \A i \in DOMAIN q : q[i].rig \in Nat BY <3>1 DEF Calls, Rigs
    <3> QED BY <3>2
  <2> QED BY <2>1 DEF Waits
<1>2. \A r \in Rigs : r < new + 1 => lifeOf(r) = "stopped" \/ Waits(q, "stop", r)
  BY DEF QueueLives, ConnectedRuns, Rigs
<1>3. LET a == Append(q, x) IN StartsInOrder(a) /\ SetsInOrder(a) /\ StopsInOrder(a)
  BY <1>1, <1>2, PostOne
<1>4. \A c, r : Waits(Append(q, x), c, r) <=> Waits(q, c, r) \/ (x.call = c /\ x.rig = r)
  BY BeforeAtEnd
<1>5. ConnectedRuns(Append(q, x), TRUE, new + 1)
  <2>1. \A r \in Rigs : r <= new + 1 /\ ~(TRUE /\ r = new + 1) =>
          lifeOf(r) = "stopped" \/ Waits(Append(q, x), "stop", r)
    BY <1>2, <1>4 DEF Rigs
  <2> QED BY <2>1, <1>1, <1>4 DEF ConnectedRuns
<1> QED BY <1>3, <1>5 DEF QueueLives

\* close_rig leaves the queue in order for no active rig.
LEMMA ClosingLives ==
    ASSUME LivesInv
    PROVE  /\ closing \in Seq(Calls)
           /\ \A i \in DOMAIN closing : closing[i].rig <= newest
           /\ QueueLives(closing, FALSE, newest)
<1> DEFINE c == stop_call(newest)
<1>1. to_rigs \in Seq(Calls) /\ newest \in 0 .. MaxRigs /\ rig_active \in BOOLEAN
  BY DEF LivesInv, NumbersInv, TypeOK
<1>2. \A i \in DOMAIN to_rigs : to_rigs[i].rig <= newest
  BY DEF LivesInv, NumbersInv, RigsExist
<1>3. CASE ~rig_active
  <2>1. closing = to_rigs BY <1>3 DEF closing
  <2>2. rig_active = FALSE BY <1>1, <1>3
  <2> QED BY <1>1, <1>2, <2>1, <2>2 DEF LivesInv
<1>4. CASE rig_active
  <2>1. newest \in Rigs /\ newest <= newest
    BY <1>1, <1>4 DEF LivesInv, NumbersInv, RigsExist, Rigs
  <2>2. c \in Calls /\ c.call = "stop" /\ c.rig = newest
    <3>1. 0 \in CommandNumbers BY ConfigurationAssumption DEF CommandNumbers
    <3> QED BY <2>1, <3>1, NoStateType DEF stop_call, Calls
  <2>3. closing = Append(to_rigs, c) BY <1>4 DEF closing
  <2>4. QueueLives(to_rigs, TRUE, newest)
    <3>1. rig_active = TRUE BY <1>1, <1>4
    <3> QED BY <3>1 DEF LivesInv
  <2> HIDE DEF c
  <2>5. QueueLives(closing, FALSE, newest) BY <1>1, <2>1, <2>2, <2>3, <2>4, PostStop
  <2>6. closing \in Seq(Calls) BY <1>1, <2>2, <2>3, AtEnd
  <2>7. \A i \in DOMAIN closing : closing[i].rig <= newest
    <3>1. \A i \in DOMAIN Append(to_rigs, c) :
            \/ i \in DOMAIN to_rigs /\ Append(to_rigs, c)[i] = to_rigs[i]
            \/ Append(to_rigs, c)[i] = c
      BY <1>1, <2>2, AtEnd
    <3> QED BY <1>2, <2>1, <2>2, <2>3, <3>1
  <2> QED BY <2>5, <2>6, <2>7
<1> QED BY <1>3, <1>4

\* With the rigs untouched, it is enough that the new queue is in order.
LEMMA RigsUntouched ==
    ASSUME RigsInOrder, rigs' = rigs, QueueLives(to_rigs', rig_active', newest')
    PROVE  RigsInOrder' /\ QueueLives(to_rigs, rig_active, newest)'
BY DEF RigsInOrder, QueueLives, StartsInOrder, SetsInOrder, StopsInOrder, ConnectedRuns,
       Before, Waits, lifeOf

\* A command leaves the starts and stops in order, with or without a rig.
LEMMA SetTransceiverLives ==
    ASSUME LivesInv, NEW s \in TransceiverState, set_transceiver(s)
    PROVE  QueueLives(to_rigs', rig_active', newest')
<1> DEFINE n == command_number + 1
           c == set_call(newest, s, n)
<1>1. /\ to_rigs \in Seq(Calls) /\ newest \in 0 .. MaxRigs /\ n \in CommandNumbers
      /\ rig_active \in BOOLEAN /\ rig_active' = rig_active /\ newest' = newest
  BY ConfigurationAssumption
  DEF LivesInv, NumbersInv, TypeOK, set_transceiver, CommandNumbers
<1>2. CASE rig_active
  <2>1. newest \in Rigs BY <1>1, <1>2 DEF LivesInv, NumbersInv, RigsExist, Rigs
  <2>2. c \in Calls /\ c.call = "set" /\ c.rig = newest
    BY <1>1, <2>1 DEF set_call, Calls
  <2>3. to_rigs' = Append(to_rigs, c) BY <1>2 DEF set_transceiver
  <2>4. rig_active = TRUE BY <1>1, <1>2
  <2> HIDE DEF c
  <2>5. QueueLives(to_rigs, TRUE, newest) BY <2>4 DEF LivesInv
  <2>6. QueueLives(Append(to_rigs, c), TRUE, newest) BY <1>1, <2>1, <2>2, <2>5, PostSet
  <2> QED BY <1>1, <2>3, <2>4, <2>6
<1>3. CASE ~rig_active
  <2>1. to_rigs' = to_rigs BY <1>3 DEF set_transceiver
  <2> QED BY <1>1, <2>1 DEF LivesInv
<1> QED BY <1>2, <1>3

\* Opening and closing a rig and the commands leave the starts and stops in
\* order, and touch no rig object.
LEMMA GuiRequestLives ==
    ASSUME LivesInv, GuiRequest
    PROVE  rigs' = rigs /\ QueueLives(to_rigs', rig_active', newest')
<1>0. /\ \A m \in DataModes : m \in ModesOrUNK
      /\ cached \in TransceiverState /\ newest \in Nat
  BY ConfigurationAssumption DEF LivesInv, NumbersInv, TypeOK
<1>1. CASE open_rig
  <2> DEFINE c == start_call(newest + 1, command_number + 1)
  <2>1. /\ newest' = newest + 1 /\ newest + 1 \in Rigs /\ rig_active' = TRUE
        /\ command_number + 1 \in CommandNumbers
        /\ to_rigs' = Append(closing, c) /\ rigs' = rigs
    BY <1>0, <1>1, ConfigurationAssumption
    DEF open_rig, CommandNumbers, Rigs, LivesInv, NumbersInv, TypeOK
  <2>2. c \in Calls /\ c.call = "start" /\ c.rig = newest + 1
    BY <2>1, NoStateType DEF start_call, Calls
  <2>3. lifeOf(newest + 1) = "created"
    BY <1>0, <2>1 DEF LivesInv, NumbersInv, RigsExist, lifeOf
  <2> HIDE DEF c
  <2>4. QueueLives(Append(closing, c), TRUE, newest + 1)
    BY <1>0, <2>1, <2>2, <2>3, ClosingLives, PostStart
  <2> QED BY <2>1, <2>4
<1>2. CASE close_rig
  <2>1. rig_active' = FALSE /\ to_rigs' = closing /\ newest' = newest /\ rigs' = rigs
    BY <1>2 DEF close_rig
  <2> QED BY <2>1, ClosingLives
<1>3. CASE \E s \in TransceiverState : set_transceiver(s)
  BY <1>3, SetTransceiverLives DEF set_transceiver
<1>4. CASE UNCHANGED <<rig_active, newest, rigs, to_rigs>>
  BY <1>4 DEF LivesInv
<1>5. CASE \E f \in Frequencies : transceiver_frequency(f)
  <2>1. \A m \in DataModes, f \in Frequencies :
          [cached EXCEPT !.online = TRUE, !.mode = m, !.frequency = f] \in TransceiverState
    BY <1>0 DEF TransceiverState
  <2> QED BY <1>3, <1>5, <2>1 DEF transceiver_frequency
<1>6. CASE \E f \in Frequencies \cup {0} : transceiver_tx_frequency(f)
  <2>1. \A m \in DataModes, f \in Frequencies \cup {0} :
          [cached EXCEPT !.online = TRUE, !.mode = m,
                         !.split = f # 0, !.tx_frequency = f] \in TransceiverState
    BY <1>0 DEF TransceiverState
  <2> QED BY <1>3, <1>6, <2>1 DEF transceiver_tx_frequency
<1>7. CASE \E m \in Modes : transceiver_mode(m)
  <2>1. \A m \in Modes : [cached EXCEPT !.online = TRUE, !.mode = m] \in TransceiverState
    BY <1>0 DEF TransceiverState, ModesOrUNK
  <2> QED BY <1>3, <1>7, <2>1 DEF transceiver_mode
<1>8. CASE \E on \in BOOLEAN : transceiver_ptt(on)
  <2>1. \A m \in DataModes, on \in BOOLEAN :
          [cached EXCEPT !.online = TRUE, !.mode = m, !.ptt = on] \in TransceiverState
    BY <1>0 DEF TransceiverState
  <2> QED BY <1>3, <1>8, <2>1 DEF transceiver_ptt
<1>9. CASE \E a \in AudioSettings : transceiver_audio(a)
  <2>1. \A m \in DataModes, a \in AudioSettings :
          [cached EXCEPT !.online = TRUE, !.mode = m, !.audio = a] \in TransceiverState
    BY <1>0 DEF TransceiverState
  <2> QED BY <1>3, <1>4, <1>9, <2>1 DEF transceiver_audio
<1>10. CASE \E on \in {b \in BOOLEAN : b => Tune \in AudioSettings} : transceiver_tune(on)
  <2>1. \A m \in DataModes, a \in AudioSettings :
          [cached EXCEPT !.online = TRUE, !.mode = m, !.audio = a] \in TransceiverState
    BY <1>0 DEF TransceiverState
  <2>2. PICK on \in {b \in BOOLEAN : b => Tune \in AudioSettings} : transceiver_tune(on)
    BY <1>10
  <2>3. (IF on THEN Tune ELSE Untouched) \in AudioSettings BY AudioAssumption
  <2> QED BY <1>3, <2>1, <2>2, <2>3 DEF transceiver_tune
<1>11. CASE transceiver_volume
  <2>1. \A m \in DataModes : [cached EXCEPT !.online = TRUE, !.mode = m] \in TransceiverState
    BY <1>0 DEF TransceiverState
  <2> QED BY <1>3, <1>11, <2>1 DEF transceiver_volume
<1> QED
  BY <1>1, <1>2, <1>5, <1>6, <1>7, <1>8, <1>9, <1>10, <1>11 DEF GuiRequest

\* A failure, or an offline update, at most posts the stop of the newest rig.
LEMMA GuiEventLives ==
    ASSUME LivesInv, GuiEvent
    PROVE  rigs' = rigs /\ QueueLives(to_rigs', rig_active', newest')
<1>1. rig_active \in BOOLEAN BY DEF LivesInv, NumbersInv, TypeOK
<1>2. /\ rigs' = rigs /\ newest' = newest
      /\ \/ rig_active' = FALSE /\ to_rigs' = closing
         \/ rig_active' = rig_active /\ to_rigs' = to_rigs
  <2>1. CASE handle_transceiver_failure BY <2>1 DEF handle_transceiver_failure
  <2>2. CASE handle_transceiver_update
    <3> DEFINE closes == ~event.state.online
                         /\ (IsTci => event.number = command_number)
    <3>1. /\ rig_active' = (rig_active /\ ~closes)
          /\ to_rigs' = IF closes THEN closing ELSE to_rigs
          /\ rigs' = rigs /\ newest' = newest
      BY <2>2 DEF handle_transceiver_update
    <3> HIDE DEF closes
    <3>2. CASE closes
      BY <3>1, <3>2
    <3>3. CASE ~closes
      <4>1. rig_active' = rig_active BY <1>1, <3>1, <3>3
      <4> QED BY <3>1, <3>3, <4>1
    <3> QED BY <3>2, <3>3
  <2> QED BY <2>1, <2>2 DEF GuiEvent
<1>3. QueueLives(to_rigs, rig_active, newest) BY DEF LivesInv
<1> QED BY <1>2, <1>3, ClosingLives

-----------------------------------------------------------------------------
(* The rig thread keeps the lives in order. *)

\* Rig r is left in life l, and online only if that is running.
Lives(r, l) ==
    \E b \in BOOLEAN : \E n :
        /\ rigs' = [rigs EXCEPT ![r] = [life |-> l, online |-> b, number |-> n]]
        /\ b => l = "running"

\* A rig is online only after start or set, and until stop.
LEMMA HandlerLives ==
    /\ start \/ set => Lives(Head(to_rigs).rig, "running")
    /\ stop => Lives(Head(to_rigs).rig, "stopped")
    /\ \A r \in Rigs : notice(r) => Lives(r, "running")
<1> DEFINE h == Head(to_rigs)
<1>1. ASSUME NEW r, NEW e, NEW l, NEW b \in BOOLEAN, NEW n, ran(r, e, l, b, n),
             b => l = "running"
      PROVE  Lives(r, l)
  <2>1. rigs' = [rigs EXCEPT ![r] = [life |-> l, online |-> b, number |-> n]]
    BY <1>1, Zenon DEF ran
  <2> QED BY <1>1, <2>1 DEF Lives
<1>2. ASSUME start PROVE Lives(h.rig, "running")
  <2>1. PICK e, b : b \in BOOLEAN /\ ran(h.rig, e, "running", b, h.number)
    BY <1>2 DEF start, replied
  <2> QED BY <2>1, <1>1
<1>3. ASSUME set PROVE Lives(h.rig, "running")
  <2>1. PICK e, b : b \in BOOLEAN /\ ran(h.rig, e, "running", b, h.number)
    BY <1>3 DEF set, replied
  <2> QED BY <2>1, <1>1
<1>4. ASSUME stop PROVE Lives(h.rig, "stopped")
  <2>1. PICK e, n : ran(h.rig, e, "stopped", FALSE, n) BY <1>4 DEF stop
  <2> QED BY <2>1, <1>1
<1>5. ASSUME NEW r \in Rigs, notice(r) PROVE Lives(r, "running")
  <2>1. PICK e, b : b \in BOOLEAN /\ ran(r, e, "running", b, rigs[r].number)
    BY <1>5 DEF notice
  <2> QED BY <2>1, <1>1
<1> QED BY <1>2, <1>3, <1>4, <1>5

\* The first call has been executed by its rig, which is now in life l.
LEMMA ExecuteOne ==
    ASSUME LivesInv, to_rigs # <<>>, to_rigs' = Tail(to_rigs),
           UNCHANGED <<rig_active, newest>>, NEW l,
           Lives(Head(to_rigs).rig, l),
           l = IF Head(to_rigs).call = "stop" THEN "stopped" ELSE "running"
    PROVE  RigsInOrder' /\ QueueLives(to_rigs, rig_active, newest)'
<1> DEFINE h == Head(to_rigs)
           t == Tail(to_rigs)
<1>0. /\ \A i \in DOMAIN to_rigs : to_rigs[i] \in Calls
      /\ to_rigs \in Seq(Calls)
  BY DEF LivesInv, NumbersInv, TypeOK
<1>1. /\ h = to_rigs[1] /\ 1 \in DOMAIN to_rigs /\ h.rig \in Rigs
      /\ h.call \in {"start", "set", "stop"}
      /\ \A i \in DOMAIN t : i + 1 \in DOMAIN to_rigs /\ t[i] = to_rigs[i + 1]
                             /\ t[i].rig \in Rigs
  BY <1>0, AfterHead DEF Calls
<1>2. /\ \A c, r : \A i \in DOMAIN t :
           Before(to_rigs, i + 1, c, r) <=> Before(t, i, c, r) \/ (h.call = c /\ h.rig = r)
      /\ \A c, r : Waits(to_rigs, c, r) <=> Waits(t, c, r) \/ (h.call = c /\ h.rig = r)
      /\ \A c, r : ~Before(to_rigs, 1, c, r)
  BY <1>0, BeforeAfterHead
<1>3. /\ rigs'[h.rig].life = l /\ (rigs'[h.rig].online => l = "running")
      /\ \A r \in Rigs : r # h.rig => rigs'[r] = rigs[r] /\ rigs'[r].life = lifeOf(r)
  BY <1>1 DEF Lives, LivesInv, NumbersInv, TypeOK, lifeOf
<1> HIDE DEF h, t
<1>4. QueueLives(to_rigs, rig_active, newest) /\ RigsInOrder BY DEF LivesInv
<1>5. /\ h.call = "start" => /\ lifeOf(h.rig) = "created"
                             /\ \A r \in Rigs : r < h.rig => lifeOf(r) = "stopped"
      /\ h.call = "set" => lifeOf(h.rig) = "running"
      /\ h.call = "stop" => lifeOf(h.rig) # "created"
  BY <1>1, <1>2, <1>4 DEF QueueLives, StartsInOrder, SetsInOrder, StopsInOrder
<1>6. l = IF h.call = "stop" THEN "stopped" ELSE "running" BY DEF h
<1>7. \A r \in Rigs : r \in Nat BY DEF Rigs
<1>8. RigsInOrder'
  <2>1. \A r \in Rigs : rigs'[r].online => rigs'[r].life = "running"
    BY <1>3, <1>4 DEF RigsInOrder
  <2>2. \A p, r \in Rigs : r < p /\ rigs'[p].life # "created" => rigs'[r].life = "stopped"
    BY <1>1, <1>3, <1>4, <1>5, <1>6, <1>7 DEF RigsInOrder
  <2> QED BY <2>1, <2>2 DEF RigsInOrder, lifeOf
<1>9. \A i \in DOMAIN t : t[i].call = "start" =>
        /\ rigs'[t[i].rig].life = "created"
        /\ ~Before(t, i, "start", t[i].rig)
        /\ \A r \in Rigs : r < t[i].rig =>
             rigs'[r].life = "stopped" \/ Before(t, i, "stop", r)
  BY <1>1, <1>2, <1>3, <1>4, <1>5, <1>6 DEF QueueLives, StartsInOrder
<1>10. \A i \in DOMAIN t : t[i].call = "set" =>
        /\ rigs'[t[i].rig].life # "stopped"
        /\ rigs'[t[i].rig].life = "running" \/ Before(t, i, "start", t[i].rig)
        /\ ~Before(t, i, "stop", t[i].rig)
  BY <1>1, <1>2, <1>3, <1>4, <1>5, <1>6 DEF QueueLives, SetsInOrder
<1>11. \A i \in DOMAIN t : t[i].call = "stop" =>
        rigs'[t[i].rig].life # "created" \/ Before(t, i, "start", t[i].rig)
  BY <1>1, <1>2, <1>3, <1>4, <1>5, <1>6 DEF QueueLives, StopsInOrder
<1>12. /\ \A r \in Rigs : r <= newest /\ ~(rig_active /\ r = newest) =>
            rigs'[r].life = "stopped" \/ Waits(t, "stop", r)
       /\ rig_active => /\ rigs'[newest].life # "stopped"
                        /\ rigs'[newest].life = "running" \/ Waits(t, "start", newest)
                        /\ ~Waits(t, "stop", newest)
  <2>1. rig_active => newest \in Rigs
    BY DEF LivesInv, NumbersInv, RigsExist, TypeOK, Rigs
  <2>2. \A r \in Rigs : r <= newest /\ ~(rig_active /\ r = newest) =>
            rigs'[r].life = "stopped" \/ Waits(t, "stop", r)
    BY <1>1, <1>2, <1>3, <1>4, <1>5, <1>6 DEF QueueLives, ConnectedRuns
  <2>3. rig_active => /\ rigs'[newest].life # "stopped"
                      /\ rigs'[newest].life = "running" \/ Waits(t, "start", newest)
                      /\ ~Waits(t, "stop", newest)
    BY <2>1, <1>1, <1>2, <1>3, <1>4, <1>5, <1>6 DEF QueueLives, ConnectedRuns
  <2> QED BY <2>2, <2>3
<1>13. to_rigs' = t /\ rig_active' = rig_active /\ newest' = newest BY DEF t
<1>14. QueueLives(to_rigs, rig_active, newest)'
  BY <1>9, <1>10, <1>11, <1>12, <1>13
  DEF QueueLives, StartsInOrder, SetsInOrder, StopsInOrder, ConnectedRuns,
      Before, Waits, lifeOf
<1> QED BY <1>8, <1>14

\* The slots of the rig objects, and their polls, keep the rigs in their order.
LEMMA RigThreadLives ==
    ASSUME LivesInv, RigCall \/ \E r \in Rigs : notice(r)
    PROVE  RigsInOrder' /\ QueueLives(to_rigs, rig_active, newest)'
<1>1. CASE start \/ set
  <2>1. /\ to_rigs # <<>> /\ to_rigs' = Tail(to_rigs) /\ UNCHANGED <<rig_active, newest>>
        /\ Head(to_rigs).call # "stop"
    BY <1>1 DEF start, set, next_call, gui
  <2> QED BY <1>1, <2>1, HandlerLives, ExecuteOne
<1>2. CASE stop
  <2>1. /\ to_rigs # <<>> /\ to_rigs' = Tail(to_rigs) /\ UNCHANGED <<rig_active, newest>>
        /\ Head(to_rigs).call = "stop"
    BY <1>2 DEF stop, next_call, gui
  <2> QED BY <1>2, <2>1, HandlerLives, ExecuteOne
<1>3. CASE \E r \in Rigs : notice(r)
  <2>1. PICK r \in Rigs : notice(r) BY <1>3
  <2>2. /\ UNCHANGED <<rig_active, newest, to_rigs>> /\ Lives(r, "running")
        /\ lifeOf(r) = "running"
    BY <2>1, HandlerLives DEF notice, gui, lifeOf
  <2>3. /\ \A p \in Rigs : rigs'[p].life = lifeOf(p)
        /\ \A p \in Rigs : rigs'[p].online => rigs[p].online \/ lifeOf(p) = "running"
    BY <2>2 DEF Lives, lifeOf, LivesInv, NumbersInv, TypeOK
  <2>4. RigsInOrder'
    BY <2>3 DEF LivesInv, RigsInOrder, lifeOf
  <2>5. QueueLives(to_rigs, rig_active, newest)'
    <3>1. \A i \in DOMAIN to_rigs : to_rigs[i].rig \in Rigs
      <4>1. \A i \in DOMAIN to_rigs : to_rigs[i] \in Calls
        BY DEF LivesInv, NumbersInv, TypeOK
      <4> QED BY <4>1 DEF Calls
    <3>2. rig_active => newest \in Rigs
      BY DEF LivesInv, NumbersInv, RigsExist, TypeOK, Rigs
    <3> QED BY <2>2, <2>3, <3>1, <3>2
        DEF LivesInv, QueueLives, StartsInOrder, SetsInOrder, StopsInOrder, ConnectedRuns,
            Before, Waits, lifeOf
  <2> QED BY <2>4, <2>5
<1> QED BY <1>1, <1>2, <1>3 DEF RigCall

-----------------------------------------------------------------------------
\* Initially no rig object was created.
LEMMA LivesInitially == Init => LivesInv
<1> SUFFICES ASSUME Init PROVE LivesInv OBVIOUS
<1>1. NumbersInv BY NumbersInitially
<1>2. RigsInOrder BY DEF Init, RigsInOrder, lifeOf
<1>3. QueueLives(to_rigs, rig_active, newest)
  <2>1. to_rigs = <<>> /\ DOMAIN to_rigs = {} /\ rig_active = FALSE /\ newest = 0
    BY DEF Init
  <2>2. \A r \in Rigs : ~(r <= newest) BY <2>1 DEF Rigs
  <2> QED BY <2>1, <2>2
      DEF QueueLives, StartsInOrder, SetsInOrder, StopsInOrder, ConnectedRuns
<1> QED BY <1>1, <1>2, <1>3 DEF LivesInv

\* Every step of the two threads keeps the starts and stops in order.
LEMMA LivesKept == LivesInv /\ [Next]_vars => LivesInv'
<1> SUFFICES ASSUME LivesInv, [Next]_vars PROVE LivesInv' OBVIOUS
<1>1. NumbersInv' BY NumbersKept DEF LivesInv
<1>2. CASE GuiRequest
  BY <1>1, <1>2, GuiRequestLives, RigsUntouched DEF LivesInv
<1>3. CASE GuiEvent
  BY <1>1, <1>3, GuiEventLives, RigsUntouched DEF LivesInv
<1>4. CASE RigCall \/ \E r \in Rigs : notice(r)
  BY <1>1, <1>4, RigThreadLives DEF LivesInv
<1>5. CASE emit \/ UNCHANGED vars
  <2>1. UNCHANGED <<rigs, to_rigs, rig_active, newest>>
    BY <1>5 DEF emit, vars, gui
  <2> QED BY <1>1, <2>1, RigsUntouched DEF LivesInv
<1> QED BY <1>2, <1>3, <1>4, <1>5 DEF Next

\* Of two rigs the older is stopped when the newer runs, so at most one is online.
LEMMA LivesSuffice == LivesInv => OneRigOnline
<1> SUFFICES ASSUME LivesInv, NEW r \in Rigs, NEW q \in Rigs,
                    rigs[r].online, rigs[q].online
             PROVE  r = q
  BY DEF OneRigOnline
<1>1. lifeOf(r) = "running" /\ lifeOf(q) = "running" BY DEF LivesInv, RigsInOrder
<1>2. ~(r < q) /\ ~(q < r) BY <1>1 DEF LivesInv, RigsInOrder
<1> QED BY <1>2 DEF Rigs

\* Two rig objects never have the radio's port open at once: the new rig's
\* start waits behind the stops of all rigs before.
THEOREM OneRigAtATime == Spec => []OneRigOnline
BY LivesInitially, LivesKept, LivesSuffice, PTL DEF Spec

=============================================================================
