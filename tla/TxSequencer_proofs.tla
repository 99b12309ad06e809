---------------------------- MODULE TxSequencer_proofs ----------------------------
(***************************************************************************)
(* That the PTT is never forgotten: KeyedForATransmission holds for every  *)
(* length of the slots, the delays and the queues, however often the user  *)
(* clicks and the rig fails.                                               *)
(*                                                                         *)
(* The invariant needs to know what the commands under way will do to the  *)
(* radio: the last of them carries the cached PTT (LastCommand), so that   *)
(* once the queue is empty the radio is keyed only if the cache is         *)
(* (RadioFollows).  Most handlers neither touch the PTT nor what it is for *)
(* (Keeps); those that do are stopTx, stopTx2 and key_down.                *)
(***************************************************************************)
EXTENDS TxSequencer, TLAPS, SequenceTheorems

Last(s) == s[Len(s)]

HasFields(w) == {"ptt", "g_iptt", "ptt0Timer", "commands"} \subseteq DOMAIN w

LastCommand(w) == w.commands # <<>> => Last(w.commands) = w.ptt

KeyedForSome(w) == w.ptt => w.g_iptt = 1 \/ w.ptt0Timer # off

Sound(w) ==
    /\ HasFields(w)
    /\ w.ptt \in BOOLEAN /\ w.ptt0Timer \in Nat /\ w.commands \in Seq(BOOLEAN)
    /\ LastCommand(w)
    /\ KeyedForSome(w)

RadioFollows == rig.ptt /\ window.commands = <<>> => window.ptt

RigReleased == rig.state = "closed" => ~rig.ptt /\ window.commands = <<>>

RigFields == {"state", "ptt", "update", "failure"} \subseteq DOMAIN rig

KeyedInv == Sound(window) /\ RadioFollows /\ RigReleased /\ RigFields

\* v is w after handlers that do not touch the PTT, though they may send it again
Keeps(w, v) ==
    /\ v.ptt = w.ptt /\ v.g_iptt = w.g_iptt /\ v.ptt0Timer = w.ptt0Timer
    /\ Sound(v)
    /\ v.commands = w.commands \/ v.commands # <<>>
-----------------------------------------------------------------------------
\* The empty sequence and what Append leaves last.
LEMMA Appended ==
    ASSUME NEW s \in Seq(BOOLEAN), NEW b \in BOOLEAN
    PROVE  /\ Append(s, b) \in Seq(BOOLEAN)
           /\ Append(s, b) # <<>>
           /\ Last(Append(s, b)) = b
  BY DEF Last

\* Taking the first command leaves the last one, unless it was the only one.
LEMMA Taken ==
    ASSUME NEW s \in Seq(BOOLEAN), s # <<>>
    PROVE  /\ Tail(s) \in Seq(BOOLEAN)
           /\ Head(s) \in BOOLEAN
           /\ Tail(s) = <<>> => Head(s) = Last(s)
           /\ Tail(s) # <<>> => Last(Tail(s)) = Last(s)
<1> DEFINE t == Tail(s)
           n == Len(s)
<1>1. /\ n \in Nat /\ n # 0 /\ t \in Seq(BOOLEAN) /\ Len(t) = n - 1
      /\ Head(s) = s[1] /\ s[1] \in BOOLEAN
      /\ \A i \in 1 .. n - 1 : t[i] = s[i + 1]
  BY HeadTailProperties, EmptySeq
<1>2. Len(<<>>) = 0 BY EmptySeq
<1> HIDE DEF t, n
<1>3. ASSUME t = <<>> PROVE Head(s) = s[n]
  BY <1>1, <1>2, <1>3
<1>4. ASSUME t # <<>> PROVE t[Len(t)] = s[n]
  <2>1. Len(t) # 0 BY <1>1, <1>4, EmptySeq
  <2> QED BY <1>1, <2>1
<1> QED BY <1>1, <1>3, <1>4 DEF t, n, Last

-----------------------------------------------------------------------------
(* Handlers that leave the PTT alone. *)

\* Nothing to do with the PTT: the fields it rests on are as they were.
LEMMA Untouched ==
    ASSUME NEW w, Sound(w), NEW v, HasFields(v), v.ptt = w.ptt, v.g_iptt = w.g_iptt,
           v.ptt0Timer = w.ptt0Timer, v.commands = w.commands
    PROVE  Keeps(w, v)
BY DEF Keeps, Sound, LastCommand, KeyedForSome

\* One handler calls another.
LEMMA KeepsTwice ==
    ASSUME NEW u, NEW v, NEW w, Keeps(u, v), Keeps(v, w)
    PROVE  Keeps(u, w)
BY DEF Keeps

\* A command carries the cached PTT (transceiver_ptt, transceiver_tune).
LEMMA Sent ==
    ASSUME NEW w, HasFields(w), w.ptt \in BOOLEAN, w.ptt0Timer \in Nat,
           w.commands \in Seq(BOOLEAN), KeyedForSome(w)
    PROVE  /\ send(w).ptt = w.ptt /\ send(w).g_iptt = w.g_iptt
           /\ send(w).ptt0Timer = w.ptt0Timer
           /\ Sound(send(w)) /\ send(w).commands # <<>>
<1>1. CASE w.commands # <<>> /\ w.commands[Len(w.commands)] = w.ptt
  BY <1>1 DEF send, Sound, LastCommand, Last
<1>2. CASE ~(w.commands # <<>> /\ w.commands[Len(w.commands)] = w.ptt)
  BY <1>2, Appended DEF send, Sound, LastCommand, HasFields, KeyedForSome
<1> QED BY <1>1, <1>2

\* transceiver_tune sends the cache as it is.
LEMMA TransceiverTuneKeeps ==
    ASSUME NEW w, Sound(w) PROVE Keeps(w, transceiver_tune(w))
BY Sent DEF transceiver_tune, Keeps, Sound

\* The sound commands and the Monitor button are about the audio only.
LEMMA AudioKeeps ==
    ASSUME NEW w, Sound(w), NEW s, NEW on
    PROVE  Keeps(w, emit(w, s)) /\ Keeps(w, monitor(w, on))
           /\ Keeps(w, on_monitorButton_clicked(w, on))
<1>1. Keeps(w, w) BY Untouched DEF Sound
<1>2. Keeps(w, emit(w, s)) BY Untouched DEF Sound, HasFields, emit
<1>3. Keeps(w, monitor(w, on)) BY Untouched DEF Sound, HasFields, monitor
<1> QED BY <1>1, <1>2, <1>3 DEF on_monitorButton_clicked

\* Enable Tx on or off sends the cache and sets m_auto.
LEMMA AutoKeeps ==
    ASSUME NEW w, Sound(w), NEW on
    PROVE  Keeps(w, auto_tx_mode(w, on)) /\ Keeps(w, disable_tx(w))
<1>1. ASSUME NEW b PROVE Keeps(w, on_autoButton_clicked(w, b))
  <2> DEFINE v == transceiver_tune(w)
  <2>1. Keeps(w, v) BY TransceiverTuneKeeps
  <2>2. Keeps(v, [v EXCEPT !.auto = b])
    <3>1. Sound(v) BY <2>1 DEF Keeps
    <3> HIDE DEF v
    <3> QED BY <3>1, Untouched DEF Sound, HasFields
  <2>3. Keeps(w, [v EXCEPT !.auto = b]) BY <2>1, <2>2, KeepsTwice
  <2> QED BY <2>1, <2>3 DEF on_autoButton_clicked
<1>2. Keeps(w, w) BY Untouched DEF Sound
<1> QED BY <1>1, <1>2 DEF auto_tx_mode, disable_tx

\* The Tune button sends the cache, may turn Enable Tx off, and deals with the
\* audio and its own timers.
LEMMA TuneButtonKeeps ==
    ASSUME NEW w, Sound(w), NEW checked
    PROVE  Keeps(w, on_tuneButton_clicked(w, checked))
<1> DEFINE d == disable_tx(transceiver_tune(w))
           a == [d EXCEPT !.tuneATU = checked /\ (TuneWatchdog \/ @)]
           b == [a EXCEPT !.lastChecked = checked]
           t == [b EXCEPT !.tuneButtonTimer = starts(EndOfTune)]
           o == [on_monitorButton_clicked(b, TRUE) EXCEPT !.tune = TRUE]
           c == IF b.tune THEN t ELSE o
           s == IF checked THEN "tune" ELSE "untune"
<1>1. Keeps(w, d)
  <2>1. Keeps(w, transceiver_tune(w)) BY TransceiverTuneKeeps
  <2>2. Sound(transceiver_tune(w)) BY <2>1 DEF Keeps
  <2> QED BY <2>1, <2>2, AutoKeeps, KeepsTwice
<1>2. Keeps(w, a)
  <2> HIDE DEF d
  <2> QED BY <1>1, Untouched, KeepsTwice DEF Keeps, Sound, HasFields
<1>3. Keeps(w, b)
  <2> HIDE DEF a
  <2> QED BY <1>2, Untouched, KeepsTwice DEF Keeps, Sound, HasFields
<1>4. Keeps(w, t)
  <2> HIDE DEF b
  <2> QED BY <1>3, Untouched, KeepsTwice DEF Keeps, Sound, HasFields
<1>5. Keeps(w, o)
  <2> HIDE DEF b
  <2> DEFINE m == on_monitorButton_clicked(b, TRUE)
  <2>0. Sound(b) BY <1>3 DEF Keeps
  <2>a. Keeps(b, m) BY <2>0, AudioKeeps
  <2>1. Keeps(w, m) BY <1>3, <2>a, KeepsTwice
  <2> HIDE DEF m
  <2>2. Keeps(w, [m EXCEPT !.tune = TRUE])
    BY <2>1, Untouched, KeepsTwice DEF Keeps, Sound, HasFields
  <2> QED BY <2>2 DEF m
<1>6. Keeps(w, emit(c, s))
  <2>1. Keeps(w, c) BY <1>4, <1>5
  <2> HIDE DEF c
  <2> QED BY <2>1, AudioKeeps, KeepsTwice DEF Keeps
<1>7. on_tuneButton_clicked(w, checked) = IF a.lastChecked = checked THEN a ELSE emit(c, s)
  BY DEF on_tuneButton_clicked
<1> QED
  <2> HIDE DEF a, c, s
  <2> QED BY <1>2, <1>6, <1>7

\* A handler after an assignment to fields the PTT does not rest on.
LEMMA ThenTuneButtonKeeps ==
    ASSUME NEW w, Sound(w), NEW b
    PROVE  Keeps(w, on_tuneButton_clicked([w EXCEPT !.tuneATU = b], FALSE))
<1>1. Keeps(w, [w EXCEPT !.tuneATU = b]) BY Untouched DEF Sound, HasFields
<1> DEFINE v == [w EXCEPT !.tuneATU = b]
<1>2. Sound(v) BY <1>1 DEF Keeps
<1> HIDE DEF v
<1>3. Keeps(v, on_tuneButton_clicked(v, FALSE)) BY <1>2, TuneButtonKeeps
<1> QED BY <1>1, <1>3, KeepsTwice DEF v

\* The end of a tune, by whichever way: the PTT is left to guiUpdate.
LEMMA StopTuningKeeps ==
    ASSUME NEW w, Sound(w)
    PROVE  Keeps(w, stop_tuning(w)) /\ Keeps(w, stopTuneATU(w))
<1> DEFINE v == on_tuneButton_clicked([w EXCEPT !.tuneATU = FALSE], FALSE)
<1>1. Keeps(w, v) BY ThenTuneButtonKeeps
<1>2. stop_tuning(w) = IF w.tune THEN [v EXCEPT !.tune_button = FALSE, !.bTxTime = FALSE,
                                                !.tune = FALSE] ELSE w
  BY DEF stop_tuning
<1>3. stopTuneATU(w) = [v EXCEPT !.bTxTime = FALSE]
  BY DEF stopTuneATU
<1>4. Keeps(w, w) BY Untouched DEF Sound
<1> HIDE DEF v
<1>5. Keeps(w, [v EXCEPT !.tune_button = FALSE, !.bTxTime = FALSE, !.tune = FALSE])
  BY <1>1, Untouched, KeepsTwice DEF Keeps, Sound, HasFields
<1>6. Keeps(w, [v EXCEPT !.bTxTime = FALSE])
  BY <1>1, Untouched, KeepsTwice DEF Keeps, Sound, HasFields
<1> QED BY <1>2, <1>3, <1>4, <1>5, <1>6

\* Halt Tx clears m_btxok; the PTT is lowered by guiUpdate's stopTx and stopTx2.
LEMMA StopTxButtonKeeps ==
    ASSUME NEW w, Sound(w)
    PROVE  Keeps(w, on_stopTxButton_clicked(w)) /\ Keeps(w, end_tuning(w))
<1>1. ASSUME NEW u, Sound(u) PROVE Keeps(u, on_stopTxButton_clicked(u))
  <2> DEFINE v == disable_tx(stop_tuning(u))
  <2>1. Keeps(u, v) BY <1>1, StopTuningKeeps, AutoKeeps, KeepsTwice DEF Keeps
  <2>2. on_stopTxButton_clicked(u) = [v EXCEPT !.btxok = FALSE, !.tuneATU = FALSE]
    BY DEF on_stopTxButton_clicked
  <2> HIDE DEF v
  <2> QED BY <2>1, <2>2, Untouched, KeepsTwice DEF Keeps, Sound, HasFields
<1>2. Keeps(w, [w EXCEPT !.tuneATU = FALSE]) BY Untouched DEF Sound, HasFields
<1>3. Keeps(w, end_tuning(w)) BY <1>1, <1>2, KeepsTwice DEF Keeps, end_tuning
<1> QED BY <1>1, <1>3

\* The runaway watchdog ends a tune and Enable Tx.
LEMMA WatchdogKeeps ==
    ASSUME NEW w, Sound(w) PROVE Keeps(w, tx_watchdog(w))
<1>1. Keeps(w, [w EXCEPT !.bTxTime = FALSE]) BY Untouched DEF Sound, HasFields
<1> DEFINE v == [w EXCEPT !.bTxTime = FALSE]
           u == stop_tuning(v)
<1>2. Sound(v) BY <1>1 DEF Keeps
<1> HIDE DEF v
<1>3. Keeps(v, u) BY <1>2, StopTuningKeeps
<1>4. Sound(u) BY <1>3 DEF Keeps
<1> HIDE DEF u
<1>5. Keeps(u, disable_tx(u)) BY <1>4, AutoKeeps
<1>6. Keeps(w, disable_tx(u)) BY <1>1, <1>3, <1>5, KeepsTwice DEF v
<1> QED BY <1>6 DEF tx_watchdog, u, v

\* Neither the start of the audio nor an update of the rig changes the PTT.
LEMMA StartTx2Keeps ==
    ASSUME NEW w, Sound(w) PROVE Keeps(w, startTx2(w))
<1>1. Keeps(w, w) BY Untouched DEF Sound
<1>2. Keeps(w, emit(w, "start")) BY AudioKeeps
<1> QED BY <1>1, <1>2 DEF startTx2

\* An update starts the audio delay, and a high SWR acts as Halt Tx does.
LEMMA UpdateKeeps ==
    ASSUME NEW w, Sound(w), NEW s, NEW high_swr
    PROVE  Keeps(w, handle_transceiver_update(w, s, high_swr))
<1> DEFINE a == IF s = "tx" /\ w.tx_when_ready /\ w.g_iptt = 1
                THEN [w EXCEPT !.ptt1Timer = starts(TxDelay), !.tx_when_ready = FALSE] ELSE w
           b == IF high_swr THEN on_stopTxButton_clicked(a) ELSE a
           c == [b EXCEPT !.rig_online = s # "offline"]
           m == on_monitorButton_clicked(c, MonitorOn)
<1>1. Keeps(w, a) BY Untouched DEF Sound, HasFields
<1>2. Sound(a) BY <1>1 DEF Keeps
<1>3. Keeps(w, b)
  <2> HIDE DEF a
  <2>1. Keeps(a, on_stopTxButton_clicked(a)) BY <1>2, StopTxButtonKeeps
  <2>2. Keeps(w, on_stopTxButton_clicked(a)) BY <1>1, <2>1, KeepsTwice
  <2> QED BY <1>1, <2>2
<1>4. Keeps(w, c)
  <2> HIDE DEF b
  <2> QED BY <1>3, Untouched, KeepsTwice DEF Keeps, Sound, HasFields
<1>5. Keeps(w, m)
  <2>1. Sound(c) BY <1>4 DEF Keeps
  <2> HIDE DEF c
  <2>2. Keeps(c, m) BY <2>1, AudioKeeps
  <2> QED BY <1>4, <2>2, KeepsTwice
<1>6. handle_transceiver_update(w, s, high_swr) =
        IF ~b.rig_online /\ c.rig_online THEN m ELSE c
  BY DEF handle_transceiver_update
<1> QED
  <2> HIDE DEF b, c, m
  <2> QED BY <1>4, <1>5, <1>6

-----------------------------------------------------------------------------
(* Handlers that raise or lower the PTT. *)

\* v is w after handlers that post a command if they change the PTT
Moves(w, v) ==
    /\ Sound(v)
    /\ v.commands # <<>> \/ (v.commands = w.commands /\ v.ptt = w.ptt)

\* One handler calls another.
LEMMA MovesTwice ==
    ASSUME NEW u, NEW v, NEW w, Moves(u, v), Moves(v, w) PROVE Moves(u, w)
BY DEF Moves

\* A handler that leaves the PTT alone is one of those that post a command if
\* they change it.
LEMMA KeepsMoves ==
    ASSUME NEW w, NEW v, Keeps(w, v) PROVE Moves(w, v)
BY DEF Moves, Keeps

\* transceiver_ptt, in a state that has a reason for the PTT.
LEMMA PttMoves ==
    ASSUME NEW w, HasFields(w), w.ptt0Timer \in Nat, w.commands \in Seq(BOOLEAN),
           NEW on \in BOOLEAN, on => w.g_iptt = 1 \/ w.ptt0Timer # off
    PROVE  /\ Sound(transceiver_ptt(w, on)) /\ transceiver_ptt(w, on).commands # <<>>
           /\ transceiver_ptt(w, on).g_iptt = w.g_iptt
           /\ transceiver_ptt(w, on).ptt0Timer = w.ptt0Timer
<1> DEFINE v == [w EXCEPT !.ptt = on]
<1>1. /\ HasFields(v) /\ v.ptt = on /\ v.g_iptt = w.g_iptt
      /\ v.ptt0Timer = w.ptt0Timer /\ v.commands = w.commands
  BY DEF HasFields
<1>2. KeyedForSome(v) BY <1>1 DEF KeyedForSome
<1> HIDE DEF v
<1>3. /\ send(v).g_iptt = v.g_iptt /\ send(v).ptt0Timer = v.ptt0Timer
      /\ Sound(send(v)) /\ send(v).commands # <<>>
  BY <1>1, <1>2, Sent
<1> QED BY <1>1, <1>3 DEF transceiver_ptt, v

\* stopTx2 lowers the PTT.
LEMMA StopTx2Moves ==
    ASSUME NEW w, Sound(w)
    PROVE  Moves(w, stopTx2([w EXCEPT !.ptt0Timer = off]))
<1> DEFINE v == [w EXCEPT !.ptt0Timer = off]
<1>1. HasFields(v) /\ v.ptt0Timer \in Nat /\ v.commands \in Seq(BOOLEAN)
  BY DEF Sound, HasFields, off
<1> HIDE DEF v
<1> QED BY <1>1, PttMoves DEF stopTx2, Moves, v

\* stopTx ends the transmission, and starts the timer that lowers the PTT.
LEMMA StopTxMoves ==
    ASSUME NEW w, Sound(w) PROVE Moves(w, stopTx(w))
<1> DEFINE e == emit(w, "stop")
           v == [e EXCEPT !.btxok = FALSE, !.transmitting = FALSE, !.g_iptt = 0,
                          !.ptt0Timer = starts(EndOfTx)]
<1>1. Keeps(w, e) BY AudioKeeps
<1> HIDE DEF e
<1>2. /\ HasFields(v) /\ v.ptt = e.ptt /\ v.commands = e.commands
      /\ v.ptt0Timer = 3
  BY <1>1 DEF Keeps, Sound, HasFields, starts, EndOfTx
<1> HIDE DEF v
<1>3. Moves(w, v)
  BY <1>1, <1>2 DEF Moves, Keeps, Sound, LastCommand, KeyedForSome, off
<1>4. Moves(v, monitor(v, TRUE)) BY <1>3, AudioKeeps, KeepsMoves DEF Moves
<1> QED BY <1>3, <1>4, MovesTwice DEF stopTx, v, e

\* guiUpdate asserts the PTT and marks the transmission with g_iptt.
LEMMA KeyDownMoves ==
    ASSUME NEW w, Sound(w), NEW now PROVE Moves(w, key_down(w, now))
<1> DEFINE p == transceiver_ptt(w, TRUE)
           v == [p EXCEPT !.g_iptt = 1, !.tx_when_ready = TRUE]
<1>1. HasFields(w) /\ w.ptt0Timer \in Nat /\ w.commands \in Seq(BOOLEAN)
  BY DEF Sound
<1>2. HasFields(p) /\ p.ptt = TRUE /\ p.commands \in Seq(BOOLEAN) /\ p.commands # <<>>
      /\ p.ptt0Timer \in Nat /\ LastCommand(p)
  <2> DEFINE x == [w EXCEPT !.ptt = TRUE]
  <2>1. HasFields(x) /\ x.ptt = TRUE /\ x.commands \in Seq(BOOLEAN) /\ x.ptt0Timer \in Nat
    BY <1>1 DEF HasFields
  <2> HIDE DEF x
  <2>2. CASE x.commands # <<>> /\ x.commands[Len(x.commands)] = x.ptt
    BY <2>1, <2>2 DEF send, LastCommand, Last, transceiver_ptt, x
  <2>3. CASE ~(x.commands # <<>> /\ x.commands[Len(x.commands)] = x.ptt)
    <3>1. send(x) = [x EXCEPT !.commands = Append(@, x.ptt)] BY <2>3 DEF send
    <3> QED BY <2>1, <3>1, Appended DEF LastCommand, HasFields, transceiver_ptt, x
  <2> QED BY <2>2, <2>3
<1> HIDE DEF p
<1>3. Moves(w, v)
  BY <1>2 DEF Moves, Sound, HasFields, LastCommand, KeyedForSome
<1>4. Moves(w, w) BY DEF Moves
<1>5. key_down(w, now) = v \/ key_down(w, now) = w BY DEF key_down, p, v
<1> HIDE DEF v
<1> QED BY <1>3, <1>4, <1>5

\* The guards on the frequency turn Enable Tx and a tune off.
LEMMA GuardedKeeps ==
    ASSUME NEW w, Sound(w), NEW now PROVE Keeps(w, guarded(w, now))
<1> DEFINE x == [w EXCEPT !.bTxTime = FALSE]
           v == IF now \cap {"wspr", "fox"} = {} THEN w ELSE disable_tx(x)
<1>1. Keeps(w, w) BY Untouched DEF Sound
<1>2. Keeps(w, x) BY Untouched DEF Sound, HasFields
<1>3. Keeps(w, disable_tx(x))
  <2>1. Sound(x) BY <1>2 DEF Keeps
  <2> HIDE DEF x
  <2>2. Keeps(x, disable_tx(x)) BY <2>1, AutoKeeps
  <2> QED BY <1>2, <2>2, KeepsTwice
<1>4. Keeps(w, v) BY <1>1, <1>3
<1>5. Sound(v) BY <1>4 DEF Keeps
<1> HIDE DEF v
<1>6. Keeps(v, stop_tuning(v)) BY <1>5, StopTuningKeeps
<1>7. Keeps(w, stop_tuning(v)) BY <1>4, <1>6, KeepsTwice
<1> QED BY <1>4, <1>7 DEF guarded, v, x

\* The part of guiUpdate that may start and end a transmission.
LEMMA MayTransmitMoves ==
    ASSUME NEW w, Sound(w), NEW now PROVE Moves(w, may_transmit(w, now))
<1> DEFINE a == guarded(w, now)
           b == IF "runaway" \in now THEN tx_watchdog(a) ELSE a
           c == IF "empty" \in now /\ ~b.tune THEN on_stopTxButton_clicked(b) ELSE b
           d == key_down(c, now)
<1>1. Moves(w, a) /\ Sound(a) BY GuardedKeeps, KeepsMoves DEF Moves
<1>2. Moves(w, b) /\ Sound(b)
  <2> HIDE DEF a
  <2>1. Moves(a, tx_watchdog(a)) BY <1>1, WatchdogKeeps, KeepsMoves
  <2>2. Moves(w, tx_watchdog(a)) BY <1>1, <2>1, MovesTwice
  <2> QED BY <1>1, <2>2 DEF Moves
<1>3. Moves(w, c) /\ Sound(c)
  <2> HIDE DEF b
  <2>1. Moves(b, on_stopTxButton_clicked(b)) BY <1>2, StopTxButtonKeeps, KeepsMoves
  <2>2. Moves(w, on_stopTxButton_clicked(b)) BY <1>2, <2>1, MovesTwice
  <2> QED BY <1>2, <2>2 DEF Moves
<1>4. Moves(w, d) /\ Sound(d)
  <2> HIDE DEF c
  <2>1. Moves(c, d) BY <1>3, KeyDownMoves
  <2> HIDE DEF d
  <2> QED BY <1>3, <2>1, MovesTwice DEF Moves
<1>5. Moves(w, time_to_stop(d))
  <2> HIDE DEF d
  <2>1. Keeps(d, d) /\ Keeps(d, [d EXCEPT !.btxok = FALSE])
    BY <1>4, Untouched DEF Sound, HasFields
  <2>2. Moves(d, time_to_stop(d)) BY <2>1, KeepsMoves DEF time_to_stop
  <2> QED BY <1>4, <2>2, MovesTwice
<1>6. Moves(w, w) BY DEF Moves
<1>7. may_transmit(w, now) = IF w.transmitting \/ w.auto \/ w.tune THEN time_to_stop(d) ELSE w
  BY DEF may_transmit
<1> HIDE DEF d
<1> QED BY <1>5, <1>6, <1>7

\* The start of a transmission as the window shows it.
LEMMA BeginMoves ==
    ASSUME NEW w, Sound(w), NEW now PROVE Moves(w, begin(w, now))
<1> DEFINE a == IF "last" \in now /\ ~w.tune THEN auto_tx_mode(w, FALSE) ELSE w
           b == [a EXCEPT !.transmitting = TRUE]
           m == monitor(b, FALSE)
<1>1. Keeps(w, a) BY Untouched, AutoKeeps DEF Sound
<1>2. Keeps(w, b)
  <2> HIDE DEF a
  <2> QED BY <1>1, Untouched, KeepsTwice DEF Keeps, Sound, HasFields
<1>3. Keeps(w, m)
  <2>1. Sound(b) BY <1>2 DEF Keeps
  <2> HIDE DEF b
  <2>2. Keeps(b, m) BY <2>1, AudioKeeps
  <2> QED BY <1>2, <2>2, KeepsTwice
<1>4. transmitDisplay(b) = [m EXCEPT !.btxok = TRUE] BY DEF transmitDisplay
<1>5. Keeps(w, transmitDisplay(b))
  <2> HIDE DEF m
  <2> QED BY <1>3, <1>4, Untouched, KeepsTwice DEF Keeps, Sound, HasFields
<1>6. Moves(w, w) /\ Moves(w, transmitDisplay(b)) BY <1>5, KeepsMoves DEF Moves
<1>7. begin(w, now) = IF w.g_iptt = 1 /\ window.g_iptt = 0 THEN transmitDisplay(b) ELSE w
  BY DEF begin
<1> HIDE DEF b
<1> QED BY <1>6, <1>7

\* guiUpdate as a whole.
LEMMA GuiUpdateMoves ==
    ASSUME Sound(window), NEW now PROVE Moves(window, guiUpdate(now))
<1> DEFINE a == TxTime(window)
           b == may_transmit(a, now)
           c == begin(b, now)
           d == end(c)
<1>1. Moves(window, a) /\ Sound(a)
  BY Untouched, KeepsMoves DEF TxTime, Sound, HasFields, Moves
<1>2. Moves(window, b) /\ Sound(b)
  <2> HIDE DEF a
  <2>1. Moves(a, b) BY <1>1, MayTransmitMoves
  <2> QED BY <1>1, <2>1, MovesTwice DEF Moves
<1>3. Moves(window, c) /\ Sound(c)
  <2> HIDE DEF b
  <2>1. Moves(b, c) BY <1>2, BeginMoves
  <2> QED BY <1>2, <2>1, MovesTwice DEF Moves
<1>4. Moves(window, d) /\ Sound(d)
  <2> HIDE DEF c
  <2>1. Moves(c, c) /\ Moves(c, stopTx(c)) BY <1>3, StopTxMoves DEF Moves
  <2>2. Moves(c, d) BY <2>1 DEF end
  <2> QED BY <1>3, <2>2, MovesTwice DEF Moves
<1>5. guiUpdate(now) = [d EXCEPT !.btxok0 = d.btxok, !.guiTimer = starts(1)]
  BY DEF guiUpdate
<1> HIDE DEF d
<1>6. Keeps(d, [d EXCEPT !.btxok0 = d.btxok, !.guiTimer = starts(1)])
  <2> DEFINE x == [d EXCEPT !.btxok0 = d.btxok, !.guiTimer = starts(1)]
  <2>1. /\ HasFields(x) /\ x.ptt = d.ptt /\ x.g_iptt = d.g_iptt
        /\ x.ptt0Timer = d.ptt0Timer /\ x.commands = d.commands
    BY <1>4 DEF Sound, HasFields
  <2> HIDE DEF x
  <2>2. Keeps(d, x) BY <1>4, <2>1, Untouched
  <2> QED BY <2>2 DEF x
<1> QED BY <1>4, <1>5, <1>6, KeepsMoves, MovesTwice

-----------------------------------------------------------------------------
(* The inductive invariant. *)

\* Initially no PTT is set and no command is under way.
LEMMA KeyedInitially == Init => KeyedInv
BY EmptySeq DEF Init, KeyedInv, Sound, HasFields, LastCommand, KeyedForSome, RadioFollows,
   RigReleased, RigFields, off, due

\* What a handler of the GUI thread did to the window reaches the rig as commands.
LEMMA PostedKeyed ==
    ASSUME KeyedInv, NEW w, Moves(window, w), window' = posted(w),
           rig'.ptt = rig.ptt, rig'.state = rig.state, RigFields'
    PROVE  KeyedInv'
<1>1. CASE rig.state = "closed"
  <2> DEFINE v == [w EXCEPT !.commands = <<>>]
  <2>1. window' = v /\ v.commands = <<>> /\ v.ptt = w.ptt /\ v.g_iptt = w.g_iptt
        /\ v.ptt0Timer = w.ptt0Timer /\ HasFields(v)
    BY <1>1 DEF posted, Moves, Sound, HasFields
  <2> HIDE DEF v
  <2>2. Sound(v) BY <2>1, EmptySeq DEF Sound, Moves, LastCommand, KeyedForSome
  <2> QED BY <1>1, <2>1, <2>2 DEF KeyedInv, RadioFollows, RigReleased
<1>2. CASE rig.state # "closed"
  <2>1. window' = w BY <1>2 DEF posted
  <2> QED BY <1>2, <2>1 DEF KeyedInv, RadioFollows, RigReleased, Moves
<1> QED BY <1>1, <1>2

\* A handler of the GUI thread that posts what it changes keeps the invariant.
LEMMA GuiKeyed ==
    ASSUME KeyedInv, NEW w, Moves(window, w), gui(w)
    PROVE  KeyedInv'
<1>1. rig'.ptt = rig.ptt /\ rig'.state = rig.state /\ RigFields'
  BY DEF gui, KeyedInv, RigFields
<1> QED BY <1>1, PostedKeyed DEF gui

\* The events of the GUI thread: the timers, the clicks and what the rig reports.
LEMMA TimersKeyed ==
    ASSUME KeyedInv, GuiUpdate \/ Ptt0 \/ Ptt1 \/ TuneButtonTimer \/ TuneATU
    PROVE  KeyedInv'
<1>0. Sound(window) BY DEF KeyedInv
<1>1. CASE GuiUpdate
  <2>1. PICK now : gui(guiUpdate(now)) BY <1>1 DEF GuiUpdate
  <2> QED BY <1>0, <2>1, GuiUpdateMoves, GuiKeyed
<1>2. CASE Ptt0
  BY <1>0, <1>2, StopTx2Moves, GuiKeyed DEF Ptt0
<1>3. CASE Ptt1
  <2> DEFINE v == [window EXCEPT !.ptt1Timer = off]
  <2>1. Keeps(window, v) BY <1>0, Untouched DEF Sound, HasFields
  <2>2. gui(startTx2(v)) BY <1>3 DEF Ptt1
  <2>3. Sound(v) BY <2>1 DEF Keeps
  <2> HIDE DEF v
  <2>4. Keeps(window, startTx2(v)) BY <2>1, <2>3, StartTx2Keeps, KeepsTwice
  <2> QED BY <2>2, <2>4, KeepsMoves, GuiKeyed
<1>4. CASE TuneButtonTimer
  <2> DEFINE v == [window EXCEPT !.tuneButtonTimer = off]
  <2>1. Keeps(window, v) BY <1>0, Untouched DEF Sound, HasFields
  <2>2. gui(end_tuning(v)) BY <1>4 DEF TuneButtonTimer
  <2>3. Sound(v) BY <2>1 DEF Keeps
  <2> HIDE DEF v
  <2>4. Keeps(v, end_tuning(v)) BY <2>3, StopTxButtonKeeps
  <2>5. Keeps(window, end_tuning(v)) BY <2>1, <2>4, KeepsTwice
  <2> QED BY <2>2, <2>5, KeepsMoves, GuiKeyed
<1>5. CASE TuneATU
  <2>1. Keeps(window, stopTuneATU(window)) BY <1>0, StopTuningKeeps
  <2> QED BY <1>5, <2>1, KeepsMoves, GuiKeyed DEF TuneATU
<1> QED BY <1>1, <1>2, <1>3, <1>4, <1>5

\* The buttons leave the PTT to guiUpdate.
LEMMA ClicksKeyed ==
    ASSUME KeyedInv, EnableTx \/ DisableTx \/ HaltTx \/ Tune \/ Monitor
    PROVE  KeyedInv'
<1>0. Sound(window) BY DEF KeyedInv
<1>1. CASE EnableTx \/ DisableTx
  BY <1>0, <1>1, AutoKeeps, KeepsMoves, GuiKeyed DEF EnableTx, DisableTx, Click
<1>2. CASE HaltTx
  BY <1>0, <1>2, StopTxButtonKeeps, KeepsMoves, GuiKeyed DEF HaltTx, Click
<1>3. CASE Tune
  <2> DEFINE checked == ~window.tune_button
             v == [window EXCEPT !.tune_button = checked]
  <2>1. Keeps(window, v) BY <1>0, Untouched DEF Sound, HasFields
  <2>2. gui(on_tuneButton_clicked(v, checked)) BY <1>3 DEF Tune, Click
  <2>3. Sound(v) BY <2>1 DEF Keeps
  <2> HIDE DEF v, checked
  <2>4. Keeps(v, on_tuneButton_clicked(v, checked)) BY <2>3, TuneButtonKeeps
  <2>5. Keeps(window, on_tuneButton_clicked(v, checked)) BY <2>1, <2>4, KeepsTwice
  <2> QED BY <2>2, <2>5, KeepsMoves, GuiKeyed
<1>4. CASE Monitor
  <2>1. Keeps(window, on_monitorButton_clicked(window, ~window.monitoring))
    BY <1>0, AudioKeeps
  <2> QED BY <1>4, <2>1, KeepsMoves, GuiKeyed DEF Monitor, Click
<1> QED BY <1>1, <1>2, <1>3, <1>4

\* A failed rig is closed, which releases the radio; a rig opened anew starts
\* from an empty cache.
LEMMA RigSignalsKeyed ==
    ASSUME KeyedInv, RigUpdate \/ RigFailure \/ rigOpen
    PROVE  KeyedInv'
<1>0. Sound(window) BY DEF KeyedInv
<1>1. CASE RigUpdate
  <2>1. PICK high_swr :
          window' = posted(handle_transceiver_update(window, rig.update, high_swr))
    BY <1>1 DEF RigUpdate
  <2>2. rig'.ptt = rig.ptt /\ rig'.state = rig.state /\ RigFields'
    BY <1>1 DEF RigUpdate, KeyedInv, RigFields
  <2> QED BY <1>0, <2>1, <2>2, UpdateKeeps, KeepsMoves, PostedKeyed
<1>2. CASE RigFailure
  <2> DEFINE w == on_stopTxButton_clicked(window)
             v == [w EXCEPT !.commands = <<>>]
  <2>1. Keeps(window, w) BY <1>0, StopTxButtonKeeps
  <2>2. window' = v /\ rig'.ptt = FALSE /\ RigFields'
    BY <1>2 DEF RigFailure, RigFields
  <2> HIDE DEF w
  <2>3. v.commands = <<>> /\ v.ptt = w.ptt /\ v.g_iptt = w.g_iptt
        /\ v.ptt0Timer = w.ptt0Timer /\ HasFields(v)
    BY <2>1 DEF Keeps, Sound, HasFields
  <2> HIDE DEF v
  <2>4. Sound(v) BY <2>1, <2>3, EmptySeq DEF Keeps, Sound, LastCommand, KeyedForSome
  <2> QED BY <2>2, <2>3, <2>4 DEF KeyedInv, RadioFollows, RigReleased
<1>3. CASE rigOpen
  <2> DEFINE v == [window EXCEPT !.ptt = FALSE]
  <2>1. window' = v /\ rig'.ptt = FALSE /\ rig'.state = "online" /\ RigFields'
        /\ window.commands = <<>>
    BY <1>3 DEF rigOpen, KeyedInv, RigReleased, RigFields
  <2>2. v.commands = <<>> /\ v.ptt = FALSE /\ v.ptt0Timer = window.ptt0Timer /\ HasFields(v)
    BY <1>0, <2>1 DEF Sound, HasFields
  <2> HIDE DEF v
  <2>3. Sound(v) BY <1>0, <2>2, EmptySeq DEF Sound, LastCommand, KeyedForSome
  <2> QED BY <2>1, <2>3 DEF KeyedInv, RadioFollows, RigReleased
<1> QED BY <1>1, <1>2, <1>3

\* The rig thread: the last command decides what the radio does in the end.
LEMMA RigThreadKeyed ==
    ASSUME KeyedInv, Obey \/ Poll \/ Fail
    PROVE  KeyedInv'
<1>0. Sound(window) BY DEF KeyedInv
<1>a. ASSUME NEW left, window' = [window EXCEPT !.commands = left],
             left = window.commands \/ (window.commands # <<>> /\ left = Tail(window.commands))
      PROVE  /\ Sound(window') /\ window'.ptt = window.ptt /\ window'.commands = left
             /\ window.commands = <<>> => left = <<>>
  <2>1. /\ HasFields(window') /\ window'.commands = left /\ window'.ptt = window.ptt
        /\ window'.g_iptt = window.g_iptt /\ window'.ptt0Timer = window.ptt0Timer
    BY <1>0, <1>a DEF Sound, HasFields
  <2>2. left \in Seq(BOOLEAN) /\ (left # <<>> => Last(left) = window.ptt)
    BY <1>0, <1>a, Taken DEF Sound, LastCommand
  <2> QED BY <1>0, <1>a, <2>1, <2>2 DEF Sound, LastCommand, KeyedForSome
<1>1. CASE Obey
  <2>1. /\ window.commands # <<>> /\ rig.state # "closed"
        /\ window' = [window EXCEPT !.commands = Tail(window.commands)]
        /\ rig'.ptt = Head(window.commands) /\ rig'.state = rig.state /\ RigFields'
    BY <1>1 DEF Obey, KeyedInv, RigFields
  <2>2. /\ Sound(window') /\ window'.ptt = window.ptt
        /\ window'.commands = Tail(window.commands)
    BY <1>a, <2>1
  <2>3. Tail(window.commands) = <<>> => Head(window.commands) = window.ptt
    BY <1>0, <2>1, Taken DEF Sound, LastCommand
  <2> QED BY <2>1, <2>2, <2>3 DEF KeyedInv, RadioFollows, RigReleased
<1>2. CASE Poll
  <2>1. window' = window /\ rig'.ptt = rig.ptt /\ rig'.state = rig.state /\ RigFields'
    BY <1>2 DEF Poll, KeyedInv, RigFields
  <2> QED BY <2>1 DEF KeyedInv, RadioFollows, RigReleased
<1>3. CASE Fail
  <2>1. rig.state = "online" /\ rig'.ptt = FALSE /\ rig'.state = "failed" /\ RigFields'
    BY <1>3 DEF Fail, RigFields
  <2>2. PICK left \in {window.commands} \cup
                      (IF window.commands = <<>> THEN {} ELSE {Tail(window.commands)}) :
          window' = [window EXCEPT !.commands = left]
    BY <1>3 DEF Fail
  <2>3. Sound(window') BY <1>a, <2>2
  <2> QED BY <2>1, <2>3 DEF KeyedInv, RadioFollows, RigReleased
<1> QED BY <1>1, <1>2, <1>3

\* The audio thread takes sounds; a unit of time leaves no running timer off.
LEMMA AudioAndTimeKeyed ==
    ASSUME KeyedInv, Modulate \/ readData \/ Pass \/ UNCHANGED vars
    PROVE  KeyedInv'
<1>0. Sound(window) BY DEF KeyedInv
<1>1. rig' = rig BY DEF Modulate, readData, Pass, vars
<1>2. CASE Modulate \/ readData \/ UNCHANGED vars
  <2>1. Keeps(window, window) /\ Keeps(window, [window EXCEPT !.sounds = Tail(@)])
    BY <1>0, Untouched DEF Sound, HasFields
  <2>2. window' = window \/ window' = [window EXCEPT !.sounds = Tail(@)]
    BY <1>2 DEF Modulate, readData, vars
  <2>3. Keeps(window, window') /\ window'.commands = window.commands
    BY <1>0, <2>1, <2>2 DEF Sound, HasFields
  <2> QED BY <1>1, <2>3 DEF KeyedInv, Keeps, RadioFollows, RigReleased, RigFields
<1>3. CASE Pass
  <2>1. /\ HasFields(window') /\ window'.ptt = window.ptt /\ window'.g_iptt = window.g_iptt
        /\ window'.commands = window.commands
        /\ window'.ptt0Timer = elapsed(window.ptt0Timer)
        /\ window.ptt0Timer # due
    BY <1>0, <1>3 DEF Pass, Sound, HasFields
  <2>2. elapsed(window.ptt0Timer) \in Nat
        /\ (window.ptt0Timer # off => elapsed(window.ptt0Timer) # off)
    BY <1>0, <2>1 DEF Sound, elapsed, off, due
  <2>3. Sound(window') BY <1>0, <2>1, <2>2 DEF Sound, LastCommand, KeyedForSome
  <2> QED BY <1>1, <2>1, <2>3 DEF KeyedInv, RadioFollows, RigReleased, RigFields
<1> QED BY <1>2, <1>3

\* Every step of the three threads keeps the invariant.
LEMMA KeyedKept == KeyedInv /\ [Next]_vars => KeyedInv'
BY TimersKeyed, ClicksKeyed, RigSignalsKeyed, RigThreadKeyed, AudioAndTimeKeyed DEF Next

\* The invariant says of every keyed radio what it is keyed for.
LEMMA KeyedSuffices == KeyedInv => KeyedForATransmission
BY DEF KeyedInv, Sound, KeyedForSome, RadioFollows, KeyedForATransmission

\* The PTT is never forgotten: whatever the buttons, the timers, the rig and its
\* failures do, the radio is keyed only for a transmission under way or until the
\* end-of-transmission timer lowers it.
THEOREM PttNeverForgotten == Spec => []KeyedForATransmission
BY KeyedInitially, KeyedKept, KeyedSuffices, PTL DEF Spec
=============================================================================
