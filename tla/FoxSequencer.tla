---------------------------- MODULE FoxSequencer ----------------------------
(***************************************************************************)
(* Fox mode of MainWindow: the Fox station of a DXpedition works several   *)
(* Hounds at once.  The operator fills a queue of callers; at the start of *)
(* each Fox transmission the sequencer decides who is sent RR73 and who a  *)
(* report, logs the QSOs that are complete, and drops those that struck    *)
(* out or timed out.  A logged QSO leaves the list of QSOs in progress 13  *)
(* seconds later, on a single-shot timer nothing stops.                    *)
(*                                                                         *)
(* A call is a natural number, ordered as the keys of a QMap are; NoCall,  *)
(* the empty string, is the first.  No call is a part of another.          *)
(***************************************************************************)
EXTENDS Integers, Sequences, FiniteSets, SequencesExt

CONSTANTS
  Calls,        \* the Hounds
  Bands,        \* the bands Fox works
  MaxSlots,     \* most signals at once (5)
  MaxHounds,    \* MAX_HOUNDS_IN_QUEUE
  MaxStrikes,   \* m_maxStrikes: most repeats of a message
  MaxFoxWait,   \* m_maxFoxWait: transmissions to wait for a Hound's answer
  FoxCQTime,    \* m_foxCQtime: transmissions between stand-alone CQs
  Requeue,      \* whether a Hound still in m_foxQSO is clicked in the Active Stations window
  EmptyClicks,  \* whether the operator double-clicks the queue or the list of QSOs while it
                \* is empty, which puts the empty call there (it may then be on them more than
                \* once, and one transmission counts it as called once)
  MaxTimers,    \* bound on the 13 s timers that run when Fox was halted and is keyed again,
                \* with a Hound in the queue whose timer runs
  MaxOtherTimers  \* the same with none

NoCall == 0
NoReport == "-99"
Report == "R+rpt"

\* m_tFoxTx counts transmissions.  Of the times kept only the signs and the differences
\* matter, so the times move back instead, and no QSO lasts until its times reach 2.
tFoxTx == 2 * MaxFoxWait + 5

ASSUME FoxAssumption ==
  /\ Calls \subseteq Nat \ {NoCall} /\ IsFiniteSet(Calls)
  /\ Bands # {}
  /\ {MaxSlots, MaxHounds, MaxStrikes, MaxFoxWait, FoxCQTime} \subseteq Nat \ {0}
  /\ MaxSlots > 1 /\ {MaxTimers, MaxOtherTimers} \subseteq Nat
  /\ {Requeue, EmptyClicks} \subseteq BOOLEAN

\* Transmissions in which every QSO ends once all are silent: each Hound may be called
\* MaxStrikes times, a stand-alone CQ may come before every call, and the last Hound called
\* is waited for; one that was answered ends by the time of its R+rpt.
Deadline ==
  LET lastCall == 2 * MaxStrikes * Cardinality(Calls)
      forAnswered == 2 * MaxFoxWait + 1
  IN IF lastCall + MaxFoxWait - 1 < forAnswered THEN forAnswered ELSE lastCall + MaxFoxWait - 1

VARIABLES
  houndCallers,  \* m_houndCallers: the sorted list of the left window
  houndQueue,    \* m_houndQueue
  inProgress,    \* m_foxQSOinProgress
  foxQSO,        \* m_foxQSO: parameters of the QSOs, by call
  loggedByFox,   \* m_loggedByFox: <<call, band>>
  lastBand,      \* m_lastBand
  tFoxTxSinceCQ, \* m_tFoxTxSinceCQ, up to FoxCQTime
  removals,      \* number of 13 s timers running, by call
  rushed,        \* history: Hounds whose QSO began while a 13 s timer of an earlier one ran
  idle           \* history: transmissions since operator and Hounds had nothing more to say

clock == <<tFoxTxSinceCQ, removals, rushed>>
vars == <<houndCallers, houndQueue, inProgress, foxQSO, loggedByFox, lastBand, clock, idle>>

\* What operator[] of m_foxQSO inserts for a key it does not hold.
DefaultQSO == [rcvd |-> NoReport, ncall |-> 0, nRR73 |-> 0, tFoxRrpt |-> 0, tFoxTxRR73 |-> 0]

NewQSO == [DefaultQSO EXCEPT !.tFoxRrpt = -1, !.tFoxTxRR73 = -1]

Touch(qso, calls) ==
  [c \in DOMAIN qso \cup calls |-> IF c \in DOMAIN qso THEN qso[c] ELSE DefaultQSO]

NoQSO == Touch(<<>>, {})

\* What a loop over a list keeps, in its order: the entries at the places K.
Pick(s, K) ==
  [i \in 1..Cardinality(K) |-> s[CHOOSE k \in K : Cardinality({j \in K : j <= k}) = i]]

\* The list after removeOne () of each of the calls: the first entry of each is taken away.
Without(s, calls) ==
  Pick(s, {i \in DOMAIN s : s[i] \in calls => \E j \in 1..i - 1 : s[j] = s[i]})

Talking == idle < 0

Init ==
  /\ houndCallers = {}
  /\ houndQueue = <<>> /\ inProgress = <<>> /\ foxQSO = NoQSO
  /\ loggedByFox = {} /\ lastBand \in Bands
  /\ tFoxTxSinceCQ = FoxCQTime
  /\ removals = [c \in Calls |-> 0] /\ rushed = {}
  /\ idle = -1

-----------------------------------------------------------------------------
\* The operator and the Hounds.

\* houndCallers (), at the end of a decode: list callers not yet dealt with.  Which of
\* them depends on sorting and filters; after a FoxReset it once lists nobody anew.
ListHounds ==
  /\ Talking
  /\ houndCallers' \in SUBSET (Calls \ (Range(houndQueue) \cup Range(inProgress) \cup DOMAIN foxQSO))
  /\ UNCHANGED <<houndQueue, inProgress, foxQSO, loggedByFox, lastBand, clock, idle>>

\* A call selected stays in the left window.
Mutant_SelectHound(c, top) ==
  /\ Talking
  /\ c \in houndCallers /\ Len(houndQueue) < MaxHounds
  /\ c \notin Range(houndQueue)
  /\ houndQueue' = IF top THEN <<c>> \o houndQueue ELSE Append(houndQueue, c)
  /\ UNCHANGED <<houndCallers, inProgress, foxQSO, loggedByFox, lastBand, clock, idle>>

\* selectHound (): a call of the left window joins the queue.
SelectHound(c, top) ==
  /\ Talking
  /\ c \in houndCallers /\ Len(houndQueue) < MaxHounds
  /\ c \notin Range(houndQueue)
  /\ houndCallers' = houndCallers \ {c}
  /\ houndQueue' = IF top THEN <<c>> \o houndQueue ELSE Append(houndQueue, c)
  /\ UNCHANGED <<inProgress, foxQSO, loggedByFox, lastBand, clock, idle>>

\* queueActiveWindowHound2 (): so does one clicked in the Active Stations window.
ActiveStation(c) ==
  /\ Talking
  /\ c \notin Range(houndQueue) \cup Range(inProgress)
  /\ Requeue \/ c \notin DOMAIN foxQSO
  /\ houndQueue' = IF Len(houndQueue) < MaxHounds THEN Append(houndQueue, c) ELSE houndQueue
  /\ houndCallers' = houndCallers \ {c}
  /\ UNCHANGED <<inProgress, foxQSO, loggedByFox, lastBand, clock, idle>>

\* doubleClickOnFoxQueue (): with Alt to the top, otherwise off the queue.  An empty queue
\* shows one line, of the empty call.
ClickQueue(i, alt) ==
  /\ Talking
  /\ i \in DOMAIN houndQueue \/ (EmptyClicks /\ houndQueue = <<>> /\ i = 1)
  /\ LET call == IF houndQueue = <<>> THEN NoCall ELSE houndQueue[i]
         others == Pick(houndQueue, {j \in DOMAIN houndQueue : houndQueue[j] # call})
     IN houndQueue' = IF alt THEN <<call>> \o RemoveAt(houndQueue, i) ELSE others
  /\ UNCHANGED <<houndCallers, inProgress, foxQSO, loggedByFox, lastBand, clock, idle>>

\* doubleClickOnFoxInProgress (): time a QSO out.  An empty list gives the empty call.
ClickInProgress(c) ==
  /\ Talking
  /\ c \in Range(inProgress) \/ (EmptyClicks /\ inProgress = <<>> /\ c = NoCall)
  /\ foxQSO' = [Touch(foxQSO, {c} \cup Range(inProgress)) EXCEPT ![c].ncall = MaxStrikes + 1]
  /\ UNCHANGED <<houndCallers, houndQueue, inProgress, loggedByFox, lastBand, clock, idle>>

\* The lists are cleared and not the parameters.
Mutant_FoxReset(band) ==
  /\ Talking
  /\ houndQueue' = <<>> /\ inProgress' = <<>>
  /\ lastBand' = band
  /\ UNCHANGED <<houndCallers, foxQSO, loggedByFox, clock, idle>>

\* FoxReset (), by its button or by a change of band.
FoxReset(band) ==
  /\ Talking
  /\ houndQueue' = <<>> /\ inProgress' = <<>> /\ foxQSO' = NoQSO /\ rushed' = {}
  /\ lastBand' = band
  /\ UNCHANGED <<houndCallers, loggedByFox, tFoxTxSinceCQ, removals, idle>>

\* foxRxSequencer (): R+rpt from a Hound in QSO.
FoxRx(c) ==
  /\ Talking
  /\ c \in DOMAIN foxQSO
  /\ foxQSO' = [foxQSO EXCEPT ![c].rcvd = Report, ![c].tFoxRrpt = tFoxTx]
  /\ UNCHANGED <<houndCallers, houndQueue, inProgress, loggedByFox, lastBand, clock, idle>>

\* On a rig's dial the band changes without a FoxReset (displayDialFrequency ()).
DialBand(band) ==
  /\ Talking
  /\ band # lastBand /\ lastBand' = band
  /\ UNCHANGED <<houndCallers, houndQueue, inProgress, foxQSO, loggedByFox, clock, idle>>

-----------------------------------------------------------------------------
\* foxTxSequencer (), at the start of each transmission.

\* One too many.
Mutant_First(s, n) == SubSeq(s, 1, IF Len(s) < n + 1 THEN Len(s) ELSE n + 1)

First(s, n) == SubSeq(s, 1, IF Len(s) < n THEN Len(s) ELSE n)

\* What m_foxQSO[c] reads.
QSO(c) == IF c \in DOMAIN foxQSO THEN foxQSO[c] ELSE DefaultQSO

\* What the operator may have set: m_Nslots, the slots for reports, the messages sent first
\* to no Hound in particular (free text, a one-time password), More CQs.  A SuperFox sends
\* text with the rest; it has two slots beside it, and all without (on_cbSendMsg_toggled ()).
Settings ==
  {[slots |-> n, reports |-> n, first |-> f, moreCQs |-> m] :
     n \in 1..MaxSlots, f \in 0..2, m \in BOOLEAN}
  \cup {[slots |-> 2, reports |-> 4, first |-> 0, moreCQs |-> m] : m \in BOOLEAN}
  \cup {[slots |-> MaxSlots, reports |-> MaxSlots - 1, first |-> 0, moreCQs |-> m] : m \in BOOLEAN}

\* No test for a report received.
Mutant_Pass(list, due, room) ==
  list \cup {c \in due \ list :
              Cardinality(list) + Cardinality({d \in due \ list : d < c}) < room}

\* One of the passes that compile list1: in the order of their calls and while there is
\* room, QSOs that are due RR73.  A QSO on the list has tFoxTxRR73 = m_tFoxTx, which no
\* later pass selects.
Pass(list, due, room) ==
  LET more == {c \in due \ list : QSO(c).tFoxRrpt >= 0}
  IN list \cup {c \in more : Cardinality(list) + Cardinality({d \in more : d < c}) < room}

List1(room) ==
  LET calls == DOMAIN foxQSO
      first == Pass({}, {c \in calls : QSO(c).tFoxRrpt - QSO(c).tFoxTxRR73 > 3}, room)
      second == Pass(first, {c \in calls : QSO(c).tFoxTxRR73 < 0}, room)
  IN Pass(second, {c \in calls : QSO(c).tFoxTxRR73 <= QSO(c).tFoxRrpt}, room)

\* Hounds whose report was received are called again.
Mutant_CallAgain(room) ==
  First(Pick(inProgress, {i \in DOMAIN inProgress : QSO(inProgress[i]).ncall < MaxStrikes}), room)

\* list2 is those in progress still to be called, then Hounds from the queue.
CallAgain(room) ==
  First(Pick(inProgress, {i \in DOMAIN inProgress :
                            QSO(inProgress[i]).tFoxRrpt < 0 /\ QSO(inProgress[i]).ncall < MaxStrikes}),
        room)

\* Whom a transmission is for: list1, the new Hounds of list2, and list2 as far as it is sent.
Plan(set) ==
  LET again == CallAgain(set.reports - set.first)
      fresh == First(houndQueue, set.reports - set.first - Len(again))
  IN IF set.moreCQs /\ tFoxTxSinceCQ >= FoxCQTime
       THEN [cqAlone |-> TRUE, list1 |-> {}, fresh |-> <<>>, called |-> {}]
       ELSE [cqAlone |-> FALSE, list1 |-> List1(set.slots - set.first), fresh |-> fresh,
             called |-> Range(First(again \o fresh, set.slots))]

\* One message serves a Hound of list1 and one of list2.
Messages(set, plan) ==
  IF plan.cqAlone THEN 1
  ELSE set.first + (IF Cardinality(plan.list1) > Cardinality(plan.called)
                      THEN Cardinality(plan.list1) ELSE Cardinality(plan.called))

\* A QSO called as often as is allowed does not wait for its end.
Mutant_AfterTx(c, plan) ==
  LET begun == IF c \in Range(plan.fresh) THEN NewQSO
               ELSE IF c \in plan.list1
                 THEN [QSO(c) EXCEPT !.tFoxTxRR73 = tFoxTx + 1, !.nRR73 = @ + 1]
                 ELSE QSO(c)
  IN [begun EXCEPT !.ncall = @ + (IF c \in plan.called THEN 1 ELSE 0)]

\* A QSO after the transmission and the check for strikeout.
AfterTx(c, plan) ==
  LET begun == IF c \in Range(plan.fresh) THEN NewQSO
               ELSE IF c \in plan.list1
                 THEN [QSO(c) EXCEPT !.tFoxTxRR73 = tFoxTx + 1, !.nRR73 = @ + 1]
                 ELSE QSO(c)
      calls == begun.ncall + (IF c \in plan.called THEN 1 ELSE 0)
  IN [begun EXCEPT !.ncall = IF calls >= MaxStrikes THEN calls + 1 ELSE calls]

\* RR73 is repeated without end.
Mutant_Over(q, now) ==
  \/ now - q.tFoxRrpt > 2 * MaxFoxWait /\ q.tFoxRrpt > 0
  \/ now - q.tFoxTxRR73 > MaxFoxWait /\ q.tFoxTxRR73 > 0
  \/ q.ncall >= MaxStrikes + MaxFoxWait

Over(q, now) ==
  \/ now - q.tFoxRrpt > 2 * MaxFoxWait /\ q.tFoxRrpt > 0
  \/ now - q.tFoxTxRR73 > MaxFoxWait /\ q.tFoxTxRR73 > 0
  \/ q.ncall >= MaxStrikes + MaxFoxWait
  \/ q.nRR73 >= MaxStrikes

\* The transmission is counted: times move back.
Back(t) == IF t > 0 THEN t - 1 ELSE t
Counted(q) == [q EXCEPT !.tFoxRrpt = Back(@), !.tFoxTxRR73 = Back(@)]

\* Those sent a report are logged too.
Mutant_ToLog(plan) ==
  {c \in (plan.list1 \cup plan.called) \ {NoCall} : <<c, lastBand>> \notin loggedByFox}

ToLog(plan) == {c \in plan.list1 \ {NoCall} : <<c, lastBand>> \notin loggedByFox}

\* The transmission that is planned is sent.  cq: a CQ is sent in a slot that is free, as
\* one is when nobody else is, or four transmissions after the last; added: the QSOs that
\* the log took.
Sent(set, plan) ==
  LET free == Messages(set, plan) < set.slots
      nobody == plan.list1 \cup plan.called = {}
      known == DOMAIN foxQSO \cup Range(plan.fresh)
               \cup (IF plan.cqAlone THEN {} ELSE Range(inProgress))
      over == {c \in known : Over(AfterTx(c, plan), tFoxTx + 1)}
      toLog == ToLog(plan)
  IN /\ houndQueue' = SubSeq(houndQueue, Len(plan.fresh) + 1, Len(houndQueue))
     /\ inProgress' = Without(inProgress \o plan.fresh, over)
     /\ foxQSO' = Touch([c \in known \ over |-> Counted(AfterTx(c, plan))], Range(inProgress'))
     /\ loggedByFox' = loggedByFox \cup {<<c, lastBand>> : c \in toLog}
     /\ \E added \in SUBSET toLog :
          removals' = [c \in Calls |-> removals[c] + (IF c \in added THEN 1 ELSE 0)]
     /\ rushed' = DOMAIN foxQSO' \cap ((rushed \ Range(plan.fresh))
                                       \cup {c \in Range(plan.fresh) \cap Calls : removals[c] > 0})
     /\ \E cq \in IF plan.cqAlone \/ (free /\ nobody) THEN {TRUE}
                  ELSE IF free /\ set.moreCQs THEN BOOLEAN ELSE {FALSE} :
          tFoxTxSinceCQ' = IF cq THEN 0
                           ELSE IF tFoxTxSinceCQ < FoxCQTime THEN tFoxTxSinceCQ + 1 ELSE FoxCQTime

\* foxTxSequencer (), also when Fox is halted and keyed again and a timer still runs.
FoxTx(set) ==
  /\ FoldFunction(+, 0, removals)
       <= IF \E c \in Calls : removals[c] > 0 /\ c \in Range(houndQueue)
            THEN MaxTimers ELSE MaxOtherTimers
  /\ set.first <= (IF Talking THEN set.slots ELSE 0)
  /\ idle < Deadline /\ idle' = (IF Talking THEN idle ELSE idle + 1)
  /\ Sent(set, Plan(set))
  /\ UNCHANGED <<houndCallers, lastBand>>

\* 13 s after a QSO was logged it leaves the list of those in progress.
Removal(c) ==
  /\ removals[c] > 0
  /\ removals' = [removals EXCEPT ![c] = @ - 1]
  /\ inProgress' = Without(inProgress, {c})
  /\ foxQSO' = Touch(foxQSO, Range(inProgress'))
  /\ UNCHANGED <<houndCallers, houndQueue, loggedByFox, lastBand, tFoxTxSinceCQ, rushed, idle>>

\* The operator has selected the last caller and sent the last text, the Hounds have sent
\* their last message.
FallSilent ==
  /\ Talking /\ idle' = 0
  /\ UNCHANGED <<houndCallers, houndQueue, inProgress, foxQSO, loggedByFox, lastBand, clock>>

Transmit == \E set \in Settings : FoxTx(set)

Next ==
  \/ ListHounds
  \/ \E c \in Calls : \/ \E top \in BOOLEAN : SelectHound(c, top)
                      \/ ActiveStation(c) \/ FoxRx(c) \/ Removal(c)
  \/ \E i \in 1..MaxHounds, alt \in BOOLEAN : ClickQueue(i, alt)
  \/ \E c \in Calls \cup {NoCall} : ClickInProgress(c)
  \/ \E b \in Bands : FoxReset(b) \/ DialBand(b)
  \/ Transmit
  \/ FallSilent

Spec == Init /\ [][Next]_vars

-----------------------------------------------------------------------------
QSOs == [rcvd : {NoReport, Report}, ncall : 0..MaxStrikes + MaxFoxWait, nRR73 : 0..MaxStrikes,
         tFoxRrpt : -1..tFoxTx, tFoxTxRR73 : -1..tFoxTx]

\* What may be on a list.
Entries == IF EmptyClicks THEN Calls \cup {NoCall} ELSE Calls

\* The state is of its type.
TypeOK ==
  /\ houndCallers \subseteq Calls
  /\ houndQueue \in Seq(Entries) /\ Len(houndQueue) <= MaxHounds /\ inProgress \in Seq(Entries)
  /\ DOMAIN foxQSO \subseteq Calls \cup {NoCall} /\ \A c \in DOMAIN foxQSO : foxQSO[c] \in QSOs
  /\ loggedByFox \subseteq Calls \X Bands /\ lastBand \in Bands
  /\ tFoxTxSinceCQ \in 0..FoxCQTime /\ removals \in [Calls -> Nat] /\ idle \in -1..Deadline
  /\ rushed \subseteq Calls \cap DOMAIN foxQSO

\* A call is waiting or in QSO, and once: the queue and the QSOs in progress are fed from
\* two windows and emptied by four handlers, and neither list is checked where a call joins
\* the other (selectHound, queueActiveWindowHound2, foxTxSequencer).  With EmptyClicks this is not so of
\* the empty call, which is put on the queue unchecked.
CalledOnce ==
  /\ IsInjective(houndQueue \o inProgress)
  /\ houndCallers \cap Range(houndQueue \o inProgress) = {}

\* RR73 answers an R+rpt: reading the QSO of a call that has none makes one in which an
\* R+rpt seems received (operator[] in foxTxSequencer and the displays), so whatever is
\* in progress must have its entry, through removals on a timer and by foxTxSequencer.  With
\* EmptyClicks the empty call, clicked on either empty list, is sent RR73.
RR73AnswersReport ==
  \A set \in Settings : \A c \in Plan(set).list1 : foxQSO[c].rcvd = Report

\* A Hound that is to be called again is on the list of those called, so that it is
\* called until it answers or strikes out, and does not stay in m_foxQSO for ever
\* (the list and the map are left at different times: a timer, and foxTxSequencer).  Whoever
\* began a QSO while the timer of an earlier one ran is excepted: that timer takes it off.
StillCalled ==
  \A c \in DOMAIN foxQSO \ rushed :
    foxQSO[c].tFoxRrpt < 0 /\ foxQSO[c].ncall < MaxStrikes => c \in Range(inProgress)

\* A call is logged the first time with the report received in the QSO that is logged
\* (list2 may restart a QSO after list1 chose it to be logged).
LoggedWithReport ==
  [][\A c \in Calls, b \in Bands :
       <<c, b>> \in loggedByFox' /\ (\A x \in Bands : <<c, x>> \notin loggedByFox)
         => /\ c \in DOMAIN foxQSO /\ foxQSO[c].rcvd = Report
            /\ c \in DOMAIN foxQSO' => foxQSO'[c].rcvd = Report]_vars

\* Whatever is set, a transmission has no more messages than slots: foxcom_.cmsg has no
\* room for more.
SlotsFit ==
  \A set \in Settings : set.first <= set.slots => Messages(set, Plan(set)) <= set.slots

\* No Hound is sent RR73 and a report, a new QSO, in one transmission: the lists are chosen
\* apart, while a timer or a strikeout may have left a Hound on one and not on the other.
\* With EmptyClicks the empty call can be sent both.
OneMessageEach ==
  \A set \in Settings : LET plan == Plan(set) IN plan.list1 \cap plan.called = {}

\* When nobody joins, no Hound answers and no text takes the slots any more, every QSO
\* and the queue come to an end in a known number of transmissions: repeats are counted
\* and waits are timed in four ways, each with its own starting point, and a QSO that none
\* of them sees would stay and hide its call from the list of callers, as may happen to one
\* that began while the timer of an earlier one ran.  With EmptyClicks the empty call is
\* waited for too, and takes longer.
EveryQSOEnds ==
  idle = Deadline /\ (\A c \in Calls : removals[c] = 0)
    => houndQueue = <<>> /\ inProgress = <<>> /\ DOMAIN foxQSO \subseteq rushed
=============================================================================
