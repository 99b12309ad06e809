------------------------- MODULE TxSequencerWindow_proofs -------------------------
(***************************************************************************)
(* What the main window shows and does holds together, for every length of *)
(* the slots, the delays and the queues: the types, half duplex, the tone  *)
(* of a tune, that a stop is seen, and that the station is left            *)
(* transmitting only in its slot.                                          *)
(*                                                                         *)
(* Of a window in any moment of a handler it is known that it is Good; a   *)
(* handler other than stopTx and the parts of guiUpdate also leaves alone  *)
(* what belongs to a transmission (Runs).                                  *)
(***************************************************************************)
EXTENDS TxSequencer, TLAPS, SequenceTheorems

Sounds == {"start", "stop", "tune", "untune"}

\* the sound that makes the Modulator tune, or no longer
Tone(on) == IF on THEN "tune" ELSE "untune"

Tones == {"tune", "untune"}

\* the Modulator will be tuning, or not, once it has heard all sounds
Hears(sounds, tuning, on) ==
    \/ /\ \A i \in 1 .. Len(sounds) : sounds[i] \notin Tones
       /\ tuning = on
    \/ \E i \in 1 .. Len(sounds) :
          /\ sounds[i] = Tone(on)
          /\ \A j \in i + 1 .. Len(sounds) : sounds[j] \notin Tones

Good(w) ==
    /\ w \in WindowState
    /\ w.transmitting => ~w.monitoring
    /\ w.lastChecked => w.tune
    /\ Hears(w.sounds, modulator.tuning, w.lastChecked)

\* the window has no reason to start a message
Late(w) == w.tune \/ ~w.bTxTime

\* the fields that what follows is about
Same(w, v) ==
    /\ v.g_iptt = w.g_iptt /\ v.btxok0 = w.btxok0 /\ v.transmitting = w.transmitting
    /\ v.guiTimer = w.guiTimer /\ v.lastChecked = w.lastChecked /\ v.tune = w.tune
    /\ v.sounds = w.sounds /\ v.monitoring = w.monitoring

\* v is w after handlers that neither start nor end a transmission
Runs(w, v) ==
    /\ Good(v)
    /\ v.g_iptt = w.g_iptt /\ v.btxok0 = w.btxok0 /\ v.transmitting = w.transmitting
    /\ v.guiTimer = w.guiTimer
    /\ Late(w) => Late(v)
-----------------------------------------------------------------------------
\* A timer that is started is a timer.
LEMMA TimersStart ==
    /\ starts(1) \in Timer(1) /\ starts(EndOfTx) \in Timer(EndOfTx)
    /\ starts(TxDelay) \in Timer(TxDelay) /\ starts(EndOfTune) \in Timer(EndOfTune)
    /\ starts(1) # due
    /\ \A units \in Nat : off \in Timer(units) /\ due \in Timer(units)
    /\ EndOfTx \in Nat /\ EndOfTune \in Nat /\ TxDelay \in Nat
  BY SequencerAssumption DEF starts, Timer, off, due, EndOfTx, EndOfTune

\* A sound other than a tone changes nothing of what is heard in the end, and a
\* tone decides it.
LEMMA SoundAppended ==
    ASSUME NEW s \in Seq(Sounds), NEW tuning, NEW on \in BOOLEAN, NEW x \in Sounds, NEW b \in BOOLEAN
    PROVE  /\ Append(s, x) \in Seq(Sounds)
           /\ x \notin Tones /\ Hears(s, tuning, on) => Hears(Append(s, x), tuning, on)
           /\ x = Tone(b) => Hears(Append(s, x), tuning, b)
<1> DEFINE t == Append(s, x)
           n == Len(s)
<1>1. /\ t \in Seq(Sounds) /\ n \in Nat /\ Len(t) = n + 1 /\ t[n + 1] = x
      /\ \A i \in 1 .. n : t[i] = s[i]
  BY AppendProperties
<1> HIDE DEF t, n
<1>2. ASSUME x \notin Tones, Hears(s, tuning, on) PROVE Hears(t, tuning, on)
  <2>1. CASE (\A i \in 1 .. n : s[i] \notin Tones) /\ tuning = on
    BY <1>1, <1>2, <2>1 DEF Hears
  <2>2. CASE \E i \in 1 .. n : s[i] = Tone(on) /\ \A j \in i + 1 .. n : s[j] \notin Tones
    <3>1. PICK i \in 1 .. n : s[i] = Tone(on) /\ \A j \in i + 1 .. n : s[j] \notin Tones
      BY <2>2
    <3>2. i \in 1 .. n + 1 /\ t[i] = Tone(on) BY <1>1, <3>1
    <3>3. \A j \in i + 1 .. n + 1 : t[j] \notin Tones BY <1>1, <1>2, <3>1
    <3> QED BY <1>1, <3>2, <3>3 DEF Hears
  <2> QED BY <1>2, <2>1, <2>2 DEF Hears, n
<1>3. ASSUME x = Tone(b) PROVE Hears(t, tuning, b)
  <2>1. n + 1 \in 1 .. Len(t) /\ t[n + 1] = Tone(b) BY <1>1, <1>3
  <2>2. \A j \in (n + 1) + 1 .. Len(t) : t[j] \notin Tones BY <1>1
  <2> QED BY <2>1, <2>2 DEF Hears
<1> QED BY <1>1, <1>2, <1>3 DEF t

\* With nothing left to hear the Modulator is as it will be.
LEMMA NothingToHear ==
    ASSUME NEW s, s = <<>>, NEW tuning, NEW on
    PROVE  Hears(s, tuning, on) <=> tuning = on
<1>1. Len(s) = 0 BY EmptySeq
<1>2. 1 .. Len(s) = {} BY <1>1
<1> QED BY <1>2 DEF Hears

\* The Modulator hears the first sound.
LEMMA SoundHeard ==
    ASSUME NEW s \in Seq(Sounds), s # <<>>, NEW tuning, NEW on \in BOOLEAN, NEW now \in BOOLEAN,
           Hears(s, tuning, on),
           Head(s) \notin Tones => now = tuning,
           Head(s) = "tune" => now, Head(s) = "untune" => ~now
    PROVE  Tail(s) \in Seq(Sounds) /\ Head(s) \in Sounds /\ Hears(Tail(s), now, on)
<1> DEFINE t == Tail(s)
           n == Len(s)
<1>1. /\ t \in Seq(Sounds) /\ n \in Nat /\ n # 0 /\ Len(t) = n - 1
      /\ Head(s) = s[1] /\ s[1] \in Sounds
      /\ \A i \in 1 .. n - 1 : t[i] = s[i + 1]
  BY HeadTailProperties, EmptySeq
<1> HIDE DEF t, n
<1>2. CASE (\A i \in 1 .. n : s[i] \notin Tones) /\ tuning = on
  <2>1. Head(s) \notin Tones BY <1>1, <1>2
  <2>2. \A i \in 1 .. n - 1 : t[i] \notin Tones BY <1>1, <1>2
  <2> QED BY <1>1, <1>2, <2>1, <2>2 DEF Hears, t
<1>3. CASE \E i \in 1 .. n : s[i] = Tone(on) /\ \A j \in i + 1 .. n : s[j] \notin Tones
  <2>1. PICK i \in 1 .. n : s[i] = Tone(on) /\ \A j \in i + 1 .. n : s[j] \notin Tones
    BY <1>3
  <2>2. CASE i = 1
    <3>1. \A k \in 1 .. n - 1 : t[k] \notin Tones BY <1>1, <2>1, <2>2
    <3>2. now = on BY <1>1, <2>1, <2>2 DEF Tone
    <3> QED BY <1>1, <3>1, <3>2 DEF Hears, t
  <2>3. CASE i # 1
    <3>1. i - 1 \in 1 .. n - 1 /\ t[i - 1] = Tone(on) BY <1>1, <2>1, <2>3
    <3>2. \A j \in (i - 1) + 1 .. n - 1 : t[j] \notin Tones BY <1>1, <2>1
    <3> QED BY <1>1, <3>1, <3>2 DEF Hears, t
  <2> QED BY <2>2, <2>3
<1> QED BY <1>2, <1>3 DEF Hears, n

-----------------------------------------------------------------------------
(* Handlers that neither start nor end a transmission. *)

\* The fields of a window have their types.
LEMMA FieldTypes ==
    ASSUME NEW w \in WindowState
    PROVE  /\ w.auto \in BOOLEAN /\ w.tune \in BOOLEAN /\ w.tune_button \in BOOLEAN
           /\ w.lastChecked \in BOOLEAN /\ w.tuneATU \in BOOLEAN /\ w.bTxTime \in BOOLEAN
           /\ w.g_iptt \in {0, 1} /\ w.btxok \in BOOLEAN /\ w.btxok0 \in BOOLEAN
           /\ w.transmitting \in BOOLEAN /\ w.monitoring \in BOOLEAN
           /\ w.rig_online \in BOOLEAN /\ w.ptt \in BOOLEAN
           /\ w.commands \in Seq(BOOLEAN) /\ w.sounds \in Seq(Sounds)
BY DEF WindowState, Sounds

\* Nothing a transmission rests on: a field of no interest here is assigned, or
\* the window is no longer due to transmit.
LEMMA Untouched ==
    ASSUME NEW w, Good(w), NEW v \in WindowState,
           Same(w, v), v.bTxTime => w.bTxTime
    PROVE  Runs(w, v)
BY DEF Runs, Good, Late, Same

\* One handler calls another.
LEMMA RunsTwice ==
    ASSUME NEW u, NEW v, NEW w, Runs(u, v), Runs(v, w)
    PROVE  Runs(u, w)
BY DEF Runs

\* An assignment to a field of no interest here.
LEMMA AssignmentRuns ==
    ASSUME NEW w, Good(w), NEW b \in BOOLEAN
    PROVE  /\ Runs(w, w)
           /\ Runs(w, [w EXCEPT !.ptt = b]) /\ Runs(w, [w EXCEPT !.auto = b])
           /\ Runs(w, [w EXCEPT !.tuneATU = b]) /\ Runs(w, [w EXCEPT !.tune_button = b])
           /\ Runs(w, [w EXCEPT !.bTxTime = FALSE]) /\ Runs(w, [w EXCEPT !.btxok = b])
           /\ Runs(w, [w EXCEPT !.rig_online = b])
           /\ Runs(w, [w EXCEPT !.commands = <<>>])
           /\ Runs(w, [w EXCEPT !.commands = Append(@, b)])
<1>0. w \in WindowState BY DEF Good
<1>1. Runs(w, w)
  <2>1. Same(w, w) BY DEF Same
  <2> QED BY <1>0, <2>1, Untouched
<1>2. Runs(w, [w EXCEPT !.ptt = b])
  <2> DEFINE v == [w EXCEPT !.ptt = b]
  <2>1. v \in WindowState BY <1>0 DEF WindowState
  <2>2. Same(w, v) /\ (v.bTxTime => w.bTxTime) BY <1>0 DEF Same, WindowState
  <2> HIDE DEF v
  <2>3. Runs(w, v) BY <2>1, <2>2, Untouched
  <2> QED BY <2>3 DEF v
<1>3. Runs(w, [w EXCEPT !.auto = b])
  <2> DEFINE v == [w EXCEPT !.auto = b]
  <2>1. v \in WindowState BY <1>0 DEF WindowState
  <2>2. Same(w, v) /\ (v.bTxTime => w.bTxTime) BY <1>0 DEF Same, WindowState
  <2> HIDE DEF v
  <2>3. Runs(w, v) BY <2>1, <2>2, Untouched
  <2> QED BY <2>3 DEF v
<1>4. Runs(w, [w EXCEPT !.tuneATU = b])
  <2> DEFINE v == [w EXCEPT !.tuneATU = b]
  <2>1. v \in WindowState BY <1>0 DEF WindowState
  <2>2. Same(w, v) /\ (v.bTxTime => w.bTxTime) BY <1>0 DEF Same, WindowState
  <2> HIDE DEF v
  <2>3. Runs(w, v) BY <2>1, <2>2, Untouched
  <2> QED BY <2>3 DEF v
<1>5. Runs(w, [w EXCEPT !.tune_button = b])
  <2> DEFINE v == [w EXCEPT !.tune_button = b]
  <2>1. v \in WindowState BY <1>0 DEF WindowState
  <2>2. Same(w, v) /\ (v.bTxTime => w.bTxTime) BY <1>0 DEF Same, WindowState
  <2> HIDE DEF v
  <2>3. Runs(w, v) BY <2>1, <2>2, Untouched
  <2> QED BY <2>3 DEF v
<1>6. Runs(w, [w EXCEPT !.bTxTime = FALSE])
  <2> DEFINE v == [w EXCEPT !.bTxTime = FALSE]
  <2>1. v \in WindowState BY <1>0 DEF WindowState
  <2>2. Same(w, v) /\ (v.bTxTime => w.bTxTime) BY <1>0 DEF Same, WindowState
  <2> HIDE DEF v
  <2>3. Runs(w, v) BY <2>1, <2>2, Untouched
  <2> QED BY <2>3 DEF v
<1>7. Runs(w, [w EXCEPT !.btxok = b])
  <2> DEFINE v == [w EXCEPT !.btxok = b]
  <2>1. v \in WindowState BY <1>0 DEF WindowState
  <2>2. Same(w, v) /\ (v.bTxTime => w.bTxTime) BY <1>0 DEF Same, WindowState
  <2> HIDE DEF v
  <2>3. Runs(w, v) BY <2>1, <2>2, Untouched
  <2> QED BY <2>3 DEF v
<1>8. Runs(w, [w EXCEPT !.rig_online = b])
  <2> DEFINE v == [w EXCEPT !.rig_online = b]
  <2>1. v \in WindowState BY <1>0 DEF WindowState
  <2>2. Same(w, v) /\ (v.bTxTime => w.bTxTime) BY <1>0 DEF Same, WindowState
  <2> HIDE DEF v
  <2>3. Runs(w, v) BY <2>1, <2>2, Untouched
  <2> QED BY <2>3 DEF v
<1>9. ASSUME NEW s \in Seq(BOOLEAN) PROVE Runs(w, [w EXCEPT !.commands = s])
  <2> DEFINE v == [w EXCEPT !.commands = s]
  <2>1. v \in WindowState BY <1>0 DEF WindowState
  <2>2. Same(w, v) /\ (v.bTxTime => w.bTxTime) BY <1>0 DEF Same, WindowState
  <2> HIDE DEF v
  <2>3. Runs(w, v) BY <2>1, <2>2, Untouched
  <2> QED BY <2>3 DEF v
<1>10. <<>> \in Seq(BOOLEAN) /\ Append(w.commands, b) \in Seq(BOOLEAN)
  BY <1>0, FieldTypes, AppendProperties
<1>11. Runs(w, [w EXCEPT !.commands = <<>>]) BY <1>9, <1>10
<1>12. Runs(w, [w EXCEPT !.commands = Append(w.commands, b)]) BY <1>9, <1>10
<1> QED BY <1>1, <1>2, <1>3, <1>4, <1>5, <1>6, <1>7, <1>8, <1>11, <1>12

\* A command to the rig.
LEMMA SendRuns ==
    ASSUME NEW w, Good(w), NEW on \in BOOLEAN
    PROVE  /\ Runs(w, send(w)) /\ Runs(w, transceiver_tune(w))
           /\ Runs(w, transceiver_ptt(w, on))
<1>1. ASSUME NEW u, Good(u) PROVE Runs(u, send(u))
  <2>1. u.ptt \in BOOLEAN BY <1>1, FieldTypes DEF Good
  <2> QED BY <1>1, <2>1, AssignmentRuns DEF send
<1> DEFINE v == [w EXCEPT !.ptt = on]
<1>2. Runs(w, v) BY AssignmentRuns
<1> HIDE DEF v
<1>3. Runs(v, send(v)) BY <1>1, <1>2 DEF Runs
<1>4. Runs(w, send(v)) BY <1>2, <1>3, RunsTwice
<1> QED BY <1>1, <1>4 DEF transceiver_tune, transceiver_ptt, v

\* Start and stop leave the Modulator's tuning alone.
LEMMA EmitRuns ==
    ASSUME NEW w, Good(w), NEW s \in {"start", "stop"}
    PROVE  Runs(w, emit(w, s))
<1> DEFINE v == emit(w, s)
           t == Append(w.sounds, s)
<1>0. w \in WindowState BY DEF Good
<1>1. w.sounds \in Seq(Sounds) /\ w.lastChecked \in BOOLEAN BY <1>0, FieldTypes
<1>2. s \in Sounds /\ s \notin Tones BY DEF Sounds, Tones
<1>3. t \in Seq(Sounds) /\ Hears(t, modulator.tuning, w.lastChecked)
  BY <1>1, <1>2, SoundAppended DEF Good
<1> HIDE DEF t
<1>4. v = [w EXCEPT !.sounds = t] BY DEF emit, t
<1> HIDE DEF v
<1>5. v \in WindowState BY <1>0, <1>3, <1>4 DEF WindowState, Sounds
<1>6. /\ v.g_iptt = w.g_iptt /\ v.btxok0 = w.btxok0 /\ v.transmitting = w.transmitting
      /\ v.guiTimer = w.guiTimer /\ v.lastChecked = w.lastChecked /\ v.tune = w.tune
      /\ v.monitoring = w.monitoring /\ v.bTxTime = w.bTxTime /\ v.sounds = t
  BY <1>0, <1>4 DEF WindowState
<1>7. Runs(w, v) BY <1>3, <1>5, <1>6 DEF Runs, Good, Late
<1> QED BY <1>7 DEF v

\* The Monitor button, which does nothing while transmitting.
LEMMA MonitorRuns ==
    ASSUME NEW w, Good(w), NEW on \in BOOLEAN
    PROVE  Runs(w, on_monitorButton_clicked(w, on))
<1>0. w \in WindowState BY DEF Good
<1>1. CASE w.transmitting
  BY <1>1, AssignmentRuns DEF on_monitorButton_clicked
<1>2. CASE ~w.transmitting
  <2> DEFINE v == [w EXCEPT !.monitoring = on]
  <2>1. v \in WindowState BY <1>0 DEF WindowState
  <2>2. /\ v.g_iptt = w.g_iptt /\ v.btxok0 = w.btxok0 /\ v.transmitting = w.transmitting
        /\ v.guiTimer = w.guiTimer /\ v.lastChecked = w.lastChecked /\ v.tune = w.tune
        /\ v.bTxTime = w.bTxTime /\ v.sounds = w.sounds
    BY <1>0 DEF WindowState
  <2>3. on_monitorButton_clicked(w, on) = v
    BY <1>2 DEF on_monitorButton_clicked, monitor
  <2> HIDE DEF v
  <2> QED BY <1>2, <2>1, <2>2, <2>3 DEF Runs, Good, Late
<1> QED BY <1>1, <1>2

\* Enable Tx on or off.
LEMMA AutoRuns ==
    ASSUME NEW w, Good(w), NEW on \in BOOLEAN
    PROVE  Runs(w, auto_tx_mode(w, on)) /\ Runs(w, disable_tx(w))
<1>1. ASSUME NEW b \in BOOLEAN PROVE Runs(w, on_autoButton_clicked(w, b))
  <2> DEFINE v == transceiver_tune(w)
  <2>1. Runs(w, v) BY SendRuns
  <2>2. on_autoButton_clicked(w, b) = IF b /\ w.tune_button THEN v ELSE [v EXCEPT !.auto = b]
    BY DEF on_autoButton_clicked
  <2> HIDE DEF v
  <2>3. Runs(v, [v EXCEPT !.auto = b]) BY <2>1, AssignmentRuns DEF Runs
  <2>4. Runs(w, [v EXCEPT !.auto = b]) BY <2>1, <2>3, RunsTwice
  <2> QED BY <2>1, <2>2, <2>4
<1>2. Runs(w, w) BY AssignmentRuns
<1> QED BY <1>1, <1>2 DEF auto_tx_mode, disable_tx

\* The Tune button tells the Modulator to tune when it is switched on, and not
\* to when it is switched off; the tune goes on until stop_tuning.
LEMMA TuneButtonRuns ==
    ASSUME NEW w, Good(w), NEW checked \in BOOLEAN
    PROVE  /\ Runs(w, on_tuneButton_clicked(w, checked))
           /\ on_tuneButton_clicked(w, checked).lastChecked = checked
<1> DEFINE d == disable_tx(transceiver_tune(w))
           x == checked /\ (TuneWatchdog \/ d.tuneATU)
           a == [d EXCEPT !.tuneATU = x]
           b == [a EXCEPT !.lastChecked = checked]
           t == [b EXCEPT !.tuneButtonTimer = starts(EndOfTune)]
           o == [on_monitorButton_clicked(b, TRUE) EXCEPT !.tune = TRUE]
           c == IF b.tune THEN t ELSE o
           s == Tone(checked)
           r == emit(c, s)
<1>1. Runs(w, d)
  <2> DEFINE e == transceiver_tune(w)
  <2>1. Runs(w, e) BY SendRuns
  <2> HIDE DEF e
  <2>2. Runs(e, disable_tx(e)) BY <2>1, AutoRuns DEF Runs
  <2>3. Runs(w, disable_tx(e)) BY <2>1, <2>2, RunsTwice
  <2> QED BY <2>3 DEF e
<1> HIDE DEF d
<1>2. x \in BOOLEAN
  <2>1. d.tuneATU \in BOOLEAN BY <1>1, FieldTypes DEF Runs, Good
  <2> QED BY <2>1, SequencerAssumption
<1> HIDE DEF x
<1>3. Runs(w, a)
  <2>1. Runs(d, a) BY <1>1, <1>2, AssignmentRuns DEF Runs
  <2> HIDE DEF a
  <2> QED BY <1>1, <2>1, RunsTwice
<1>4. on_tuneButton_clicked(w, checked) = IF a.lastChecked = checked THEN a ELSE r
  BY DEF on_tuneButton_clicked, d, x, Tone
<1> HIDE DEF a
<1>5. a \in WindowState /\ Good(a) BY <1>3 DEF Runs, Good
<1>6. b \in WindowState /\ b.lastChecked = checked
  BY <1>5 DEF WindowState
<1>7. /\ b.g_iptt = a.g_iptt /\ b.btxok0 = a.btxok0 /\ b.transmitting = a.transmitting
      /\ b.guiTimer = a.guiTimer /\ b.tune = a.tune /\ b.sounds = a.sounds
      /\ b.monitoring = a.monitoring
  BY <1>5 DEF WindowState
<1> HIDE DEF b
<1>8. ASSUME b.tune
      PROVE  /\ t \in WindowState /\ t.g_iptt = b.g_iptt /\ t.btxok0 = b.btxok0
             /\ t.transmitting = b.transmitting /\ t.guiTimer = b.guiTimer /\ t.tune
             /\ t.sounds = b.sounds /\ t.lastChecked = b.lastChecked
             /\ t.monitoring = b.monitoring
  BY <1>6, <1>8, TimersStart DEF WindowState
<1>9. /\ o \in WindowState /\ o.g_iptt = b.g_iptt /\ o.btxok0 = b.btxok0
      /\ o.transmitting = b.transmitting /\ o.guiTimer = b.guiTimer /\ o.tune
      /\ o.sounds = b.sounds /\ o.lastChecked = b.lastChecked
      /\ o.transmitting => o.monitoring = b.monitoring
  <2> DEFINE m == on_monitorButton_clicked(b, TRUE)
  <2>1. /\ m \in WindowState /\ m.g_iptt = b.g_iptt /\ m.btxok0 = b.btxok0
        /\ m.transmitting = b.transmitting /\ m.guiTimer = b.guiTimer
        /\ m.sounds = b.sounds /\ m.lastChecked = b.lastChecked
        /\ m.transmitting => m.monitoring = b.monitoring
    <3>1. CASE b.transmitting BY <1>6, <3>1 DEF on_monitorButton_clicked
    <3>2. CASE ~b.transmitting
      BY <1>6, <3>2 DEF on_monitorButton_clicked, monitor, WindowState
    <3> QED BY <3>1, <3>2
  <2> HIDE DEF m
  <2>2. [m EXCEPT !.tune = TRUE] \in WindowState BY <2>1 DEF WindowState
  <2>3. o = [m EXCEPT !.tune = TRUE] BY DEF m
  <2> HIDE DEF o
  <2> QED BY <2>1, <2>2, <2>3 DEF WindowState
<1> HIDE DEF t, o
<1>10. /\ c \in WindowState /\ c.g_iptt = a.g_iptt /\ c.btxok0 = a.btxok0
       /\ c.transmitting = a.transmitting /\ c.guiTimer = a.guiTimer /\ c.tune
       /\ c.sounds = a.sounds /\ c.lastChecked = checked
       /\ c.transmitting => ~c.monitoring
  <2>1. CASE b.tune BY <1>5, <1>6, <1>7, <1>8, <2>1 DEF Good
  <2>2. CASE ~b.tune BY <1>5, <1>6, <1>7, <1>9, <2>2 DEF Good
  <2> QED BY <2>1, <2>2
<1> HIDE DEF c
<1>11. Append(c.sounds, s) \in Seq(Sounds) /\ Hears(Append(c.sounds, s), modulator.tuning, checked)
  <2>1. s \in Sounds BY DEF Tone, Sounds
  <2>2. a.sounds \in Seq(Sounds) /\ a.lastChecked \in BOOLEAN BY <1>5, FieldTypes
  <2> QED BY <1>10, <2>1, <2>2, SoundAppended
<1>12. r = [c EXCEPT !.sounds = Append(c.sounds, s)] BY DEF emit
<1> HIDE DEF r, s
<1>13. r \in WindowState BY <1>10, <1>11, <1>12 DEF WindowState, Sounds
<1>14. /\ r.g_iptt = c.g_iptt /\ r.btxok0 = c.btxok0 /\ r.transmitting = c.transmitting
       /\ r.guiTimer = c.guiTimer /\ r.tune = c.tune /\ r.lastChecked = c.lastChecked
       /\ r.monitoring = c.monitoring /\ r.sounds = Append(c.sounds, s)
  BY <1>10, <1>12 DEF WindowState
<1>15. Runs(a, r) /\ r.lastChecked = checked
  BY <1>10, <1>11, <1>13, <1>14 DEF Runs, Good, Late
<1>16. Runs(w, r) BY <1>3, <1>15, RunsTwice
<1> QED BY <1>3, <1>4, <1>15, <1>16

\* The end of a tune, by whichever way: the window has no reason to transmit,
\* and the Modulator is told.
LEMMA StopTuningRuns ==
    ASSUME NEW w, Good(w)
    PROVE  Runs(w, stop_tuning(w)) /\ Runs(w, stopTuneATU(w))
<1> DEFINE u == [w EXCEPT !.tuneATU = FALSE]
           v == on_tuneButton_clicked(u, FALSE)
           x == [v EXCEPT !.tune_button = FALSE, !.bTxTime = FALSE, !.tune = FALSE]
<1>1. Runs(w, v) /\ v.lastChecked = FALSE
  <2>1. Runs(w, u) BY AssignmentRuns
  <2> HIDE DEF u
  <2>2. Runs(u, v) /\ v.lastChecked = FALSE BY <2>1, TuneButtonRuns DEF Runs
  <2> HIDE DEF v
  <2> QED BY <2>1, <2>2, RunsTwice
<1>2. stop_tuning(w) = IF w.tune THEN x ELSE w
  BY DEF stop_tuning
<1>3. stopTuneATU(w) = [v EXCEPT !.bTxTime = FALSE]
  BY DEF stopTuneATU
<1> HIDE DEF v
<1>4. Runs(w, [v EXCEPT !.bTxTime = FALSE])
  <2>1. Runs(v, [v EXCEPT !.bTxTime = FALSE]) BY <1>1, AssignmentRuns DEF Runs
  <2> QED BY <1>1, <2>1, RunsTwice
<1>5. Runs(w, x)
  <2>1. v \in WindowState BY <1>1 DEF Runs, Good
  <2>2. x \in WindowState BY <2>1 DEF WindowState
  <2>3. /\ x.g_iptt = v.g_iptt /\ x.btxok0 = v.btxok0 /\ x.transmitting = v.transmitting
        /\ x.guiTimer = v.guiTimer /\ x.lastChecked = v.lastChecked
        /\ x.sounds = v.sounds /\ x.monitoring = v.monitoring /\ x.bTxTime = FALSE
    BY <2>1 DEF WindowState
  <2> HIDE DEF x
  <2>4. Runs(v, x) BY <1>1, <2>2, <2>3 DEF Runs, Good, Late
  <2> QED BY <1>1, <2>4, RunsTwice
<1> HIDE DEF x
<1> QED BY <1>2, <1>3, <1>4, <1>5, AssignmentRuns

\* Halt Tx, and the end of a tune by its button, only withdraw the permission to
\* transmit.
LEMMA StopTxButtonRuns ==
    ASSUME NEW w, Good(w)
    PROVE  Runs(w, on_stopTxButton_clicked(w)) /\ Runs(w, end_tuning(w))
<1>1. ASSUME NEW u, Good(u) PROVE Runs(u, on_stopTxButton_clicked(u))
  <2> DEFINE a == stop_tuning(u)
             b == disable_tx(a)
             c == [b EXCEPT !.btxok = FALSE]
             d == [c EXCEPT !.tuneATU = FALSE]
  <2>1. on_stopTxButton_clicked(u) = d
    BY DEF on_stopTxButton_clicked
  <2>2. Runs(u, a) BY <1>1, StopTuningRuns
  <2> HIDE DEF a
  <2>3. Runs(a, b) BY <2>2, AutoRuns DEF Runs
  <2> HIDE DEF b
  <2>4. Runs(b, c) BY <2>3, AssignmentRuns DEF Runs
  <2> HIDE DEF c
  <2>5. Runs(c, d) BY <2>4, AssignmentRuns DEF Runs
  <2> HIDE DEF d
  <2>6. Runs(u, b) BY <2>2, <2>3, RunsTwice
  <2>7. Runs(b, d) BY <2>4, <2>5, RunsTwice
  <2> QED BY <2>1, <2>6, <2>7, RunsTwice
<1> DEFINE v == [w EXCEPT !.tuneATU = FALSE]
<1>2. Runs(w, v) BY AssignmentRuns
<1>3. end_tuning(w) = on_stopTxButton_clicked(v) BY DEF end_tuning
<1> HIDE DEF v
<1>4. Runs(v, on_stopTxButton_clicked(v)) BY <1>1, <1>2 DEF Runs
<1>5. Runs(w, end_tuning(w)) BY <1>2, <1>3, <1>4, RunsTwice
<1> QED BY <1>1, <1>5

\* The runaway watchdog ends a tune and Enable Tx.
LEMMA WatchdogRuns ==
    ASSUME NEW w, Good(w) PROVE Runs(w, tx_watchdog(w))
<1> DEFINE v == [w EXCEPT !.bTxTime = FALSE]
           u == stop_tuning(v)
<1>1. Runs(w, v) BY AssignmentRuns
<1> HIDE DEF v
<1>2. Runs(v, u) BY <1>1, StopTuningRuns DEF Runs
<1> HIDE DEF u
<1>3. Runs(u, disable_tx(u)) BY <1>2, AutoRuns DEF Runs
<1>4. Runs(v, disable_tx(u)) BY <1>2, <1>3, RunsTwice
<1>5. Runs(w, disable_tx(u)) BY <1>1, <1>4, RunsTwice
<1> QED BY <1>5 DEF tx_watchdog, u, v

\* Neither is the mode of another band, or Fox, transmitted.
LEMMA GuardedRuns ==
    ASSUME NEW w, Good(w), NEW now PROVE Runs(w, guarded(w, now))
<1> DEFINE v == [w EXCEPT !.bTxTime = FALSE]
           u == IF now \cap {"wspr", "fox"} = {} THEN w ELSE disable_tx(v)
<1>1. Runs(w, u)
  <2>1. Runs(w, v) BY AssignmentRuns
  <2> HIDE DEF v
  <2>2. Runs(v, disable_tx(v)) BY <2>1, AutoRuns DEF Runs
  <2>3. Runs(w, disable_tx(v)) BY <2>1, <2>2, RunsTwice
  <2>4. Runs(w, w) BY AssignmentRuns
  <2> QED BY <2>3, <2>4
<1>2. guarded(w, now) = IF "fox" \in now THEN stop_tuning(u) ELSE u
  BY DEF guarded
<1> HIDE DEF u
<1>3. Runs(u, stop_tuning(u)) BY <1>1, StopTuningRuns DEF Runs
<1>4. Runs(w, stop_tuning(u)) BY <1>1, <1>3, RunsTwice
<1> QED BY <1>1, <1>2, <1>4

\* The end of the audio delay starts the audio, which does not stop a tune.
LEMMA StartTx2Runs ==
    ASSUME NEW w, Good(w) PROVE Runs(w, startTx2(w))
BY AssignmentRuns, EmitRuns DEF startTx2

\* A timer that is read as due is switched off.
LEMMA TimerRuns ==
    ASSUME NEW w, Good(w)
    PROVE  /\ Runs(w, [w EXCEPT !.ptt0Timer = off]) /\ Runs(w, [w EXCEPT !.ptt1Timer = off])
           /\ Runs(w, [w EXCEPT !.tuneButtonTimer = off])
           /\ Runs(w, [w EXCEPT !.ptt1Timer = starts(TxDelay), !.tx_when_ready = FALSE])
<1>0. w \in WindowState BY DEF Good
<1>1. Runs(w, [w EXCEPT !.ptt0Timer = off])
  <2> DEFINE v == [w EXCEPT !.ptt0Timer = off]
  <2>1. v \in WindowState BY <1>0, TimersStart DEF WindowState
  <2>2. Same(w, v) /\ (v.bTxTime => w.bTxTime) BY <1>0 DEF Same, WindowState
  <2> HIDE DEF v
  <2>3. Runs(w, v) BY <2>1, <2>2, Untouched
  <2> QED BY <2>3 DEF v
<1>2. Runs(w, [w EXCEPT !.ptt1Timer = off])
  <2> DEFINE v == [w EXCEPT !.ptt1Timer = off]
  <2>1. v \in WindowState BY <1>0, TimersStart DEF WindowState
  <2>2. Same(w, v) /\ (v.bTxTime => w.bTxTime) BY <1>0 DEF Same, WindowState
  <2> HIDE DEF v
  <2>3. Runs(w, v) BY <2>1, <2>2, Untouched
  <2> QED BY <2>3 DEF v
<1>3. Runs(w, [w EXCEPT !.tuneButtonTimer = off])
  <2> DEFINE v == [w EXCEPT !.tuneButtonTimer = off]
  <2>1. v \in WindowState BY <1>0, TimersStart DEF WindowState
  <2>2. Same(w, v) /\ (v.bTxTime => w.bTxTime) BY <1>0 DEF Same, WindowState
  <2> HIDE DEF v
  <2>3. Runs(w, v) BY <2>1, <2>2, Untouched
  <2> QED BY <2>3 DEF v
<1>4. Runs(w, [w EXCEPT !.ptt1Timer = starts(TxDelay), !.tx_when_ready = FALSE])
  <2> DEFINE v == [w EXCEPT !.ptt1Timer = starts(TxDelay), !.tx_when_ready = FALSE]
  <2>1. v \in WindowState BY <1>0, TimersStart DEF WindowState
  <2>2. Same(w, v) /\ (v.bTxTime => w.bTxTime) BY <1>0 DEF Same, WindowState
  <2> HIDE DEF v
  <2>3. Runs(w, v) BY <2>1, <2>2, Untouched
  <2> QED BY <2>3 DEF v
<1> QED BY <1>1, <1>2, <1>3, <1>4

\* An update of the rig starts the audio delay; a high SWR acts as Halt Tx does;
\* a rig that comes online has the receiver started, unless transmitting.
LEMMA UpdateRuns ==
    ASSUME NEW w, Good(w), NEW s, NEW high_swr
    PROVE  Runs(w, handle_transceiver_update(w, s, high_swr))
<1> DEFINE a == IF s = "tx" /\ w.tx_when_ready /\ w.g_iptt = 1
                THEN [w EXCEPT !.ptt1Timer = starts(TxDelay), !.tx_when_ready = FALSE] ELSE w
           b == IF high_swr THEN on_stopTxButton_clicked(a) ELSE a
           x == s # "offline"
           c == [b EXCEPT !.rig_online = x]
<1>1. handle_transceiver_update(w, s, high_swr) =
        IF ~b.rig_online /\ c.rig_online THEN on_monitorButton_clicked(c, MonitorOn) ELSE c
  BY DEF handle_transceiver_update
<1>2. Runs(w, a) BY TimerRuns, AssignmentRuns
<1> HIDE DEF a
<1>3. Runs(w, b)
  <2>1. Runs(a, on_stopTxButton_clicked(a)) BY <1>2, StopTxButtonRuns DEF Runs
  <2>2. Runs(w, on_stopTxButton_clicked(a)) BY <1>2, <2>1, RunsTwice
  <2> QED BY <1>2, <2>2
<1> HIDE DEF b
<1>4. x \in BOOLEAN OBVIOUS
<1> HIDE DEF x
<1>5. Runs(w, c)
  <2>1. Runs(b, c) BY <1>3, <1>4, AssignmentRuns DEF Runs
  <2> HIDE DEF c
  <2> QED BY <1>3, <2>1, RunsTwice
<1> HIDE DEF c
<1>6. Runs(c, on_monitorButton_clicked(c, MonitorOn))
  BY <1>5, MonitorRuns, SequencerAssumption DEF Runs
<1>7. Runs(w, on_monitorButton_clicked(c, MonitorOn)) BY <1>5, <1>6, RunsTwice
<1> QED BY <1>1, <1>5, <1>7

-----------------------------------------------------------------------------
(* guiUpdate, which starts and ends a transmission. *)

\* A transmission of v is one of w, or starts with a reason that w has.
Starts(w, v) ==
    /\ Good(v) /\ v.transmitting = w.transmitting /\ v.btxok0 = w.btxok0
    /\ v.g_iptt = w.g_iptt \/ (w.g_iptt = 0 /\ v.g_iptt = 1)

\* Out of its slot the window has no reason to transmit but a tune.
LEMMA TxTimeIsKnown ==
    ASSUME NEW w, Good(w), clock \in 0 .. 2 * Period - 1
    PROVE  /\ Starts(w, TxTime(w)) /\ TxTime(w).g_iptt = w.g_iptt
           /\ ~(clock < TxLength) => Late(TxTime(w))
<1> DEFINE x == clock < TxLength \/ w.tune
           v == [w EXCEPT !.bTxTime = x]
<1>0. w \in WindowState BY DEF Good
<1>1. x \in BOOLEAN BY <1>0, FieldTypes
<1>2. ~(clock < TxLength) => x = w.tune BY <1>0, FieldTypes
<1> HIDE DEF x
<1>3. v \in WindowState BY <1>0, <1>1 DEF WindowState
<1>4. Same(w, v) /\ v.bTxTime = x BY <1>0 DEF Same, WindowState
<1>5. TxTime(w) = v BY DEF TxTime, x
<1> HIDE DEF v
<1> QED BY <1>2, <1>3, <1>4, <1>5 DEF Starts, Good, Same, Late

\* The PTT is raised for a message in its slot or for a tune.
LEMMA KeyDownStarts ==
    ASSUME NEW w, Good(w), NEW now
    PROVE  /\ Starts(w, key_down(w, now))
           /\ key_down(w, now).tune = w.tune /\ key_down(w, now).bTxTime = w.bTxTime
           /\ key_down(w, now).g_iptt # w.g_iptt => w.tune \/ w.bTxTime
<1> DEFINE p == transceiver_ptt(w, TRUE)
           v == [p EXCEPT !.g_iptt = 1, !.tx_when_ready = TRUE]
           k == key_down(w, now)
<1>0. w \in WindowState BY DEF Good
<1>1. Runs(w, p) /\ p.tune = w.tune /\ p.bTxTime = w.bTxTime
  <2>1. Runs(w, p) BY SendRuns
  <2> DEFINE u == [w EXCEPT !.ptt = TRUE]
  <2>2. u \in WindowState /\ u.tune = w.tune /\ u.bTxTime = w.bTxTime
    BY <1>0 DEF WindowState
  <2> HIDE DEF u
  <2>3. send(u).tune = u.tune /\ send(u).bTxTime = u.bTxTime
    BY <2>2 DEF send, WindowState
  <2> QED BY <2>1, <2>2, <2>3 DEF transceiver_ptt, u
<1>2. CASE k = w
  BY <1>2 DEF Starts
<1>3. CASE k # w
  <2>1. k = v /\ w.g_iptt = 0 /\ (w.tune \/ w.bTxTime) BY <1>3 DEF key_down
  <2> HIDE DEF p, k
  <2>2. p \in WindowState BY <1>1 DEF Runs, Good
  <2>3. v \in WindowState BY <2>2 DEF WindowState
  <2>4. /\ v.g_iptt = 1 /\ v.btxok0 = p.btxok0 /\ v.transmitting = p.transmitting
        /\ v.lastChecked = p.lastChecked /\ v.tune = p.tune /\ v.bTxTime = p.bTxTime
        /\ v.sounds = p.sounds /\ v.monitoring = p.monitoring
    BY <2>2 DEF WindowState
  <2> HIDE DEF v
  <2>5. Starts(w, v) BY <1>1, <2>1, <2>3, <2>4 DEF Starts, Runs, Good
  <2> QED BY <1>1, <2>1, <2>4, <2>5 DEF k
<1> QED BY <1>2, <1>3

\* The part of guiUpdate that starts a transmission, or withdraws its permission.
\* Out of its slot, what is transmitting without tuning has lost the permission.
LEMMA MayTransmitStarts ==
    ASSUME NEW w, Good(w), NEW now
    PROVE  /\ Starts(w, may_transmit(w, now))
           /\ /\ Late(w)
              /\ w.g_iptt = 1 => w.transmitting
              /\ may_transmit(w, now).g_iptt = 1 /\ ~may_transmit(w, now).tune
              => w.g_iptt = 1 /\ ~may_transmit(w, now).btxok
<1> DEFINE a == guarded(w, now)
           b == IF "runaway" \in now THEN tx_watchdog(a) ELSE a
           c == IF "empty" \in now /\ ~b.tune THEN on_stopTxButton_clicked(b) ELSE b
           d == key_down(c, now)
           e == time_to_stop(d)
           m == may_transmit(w, now)
<1>1. m = IF w.transmitting \/ w.auto \/ w.tune THEN e ELSE w
  BY DEF may_transmit
<1> HIDE DEF m
<1>2. Runs(w, a) BY GuardedRuns
<1> HIDE DEF a
<1>3. Runs(w, b)
  <2>1. Runs(a, tx_watchdog(a)) BY <1>2, WatchdogRuns DEF Runs
  <2>2. Runs(w, tx_watchdog(a)) BY <1>2, <2>1, RunsTwice
  <2> QED BY <1>2, <2>2
<1> HIDE DEF b
<1>4. Runs(w, c)
  <2>1. Runs(b, on_stopTxButton_clicked(b)) BY <1>3, StopTxButtonRuns DEF Runs
  <2>2. Runs(w, on_stopTxButton_clicked(b)) BY <1>3, <2>1, RunsTwice
  <2> QED BY <1>3, <2>2
<1> HIDE DEF c
<1>5. /\ Starts(c, d) /\ d.tune = c.tune /\ d.bTxTime = c.bTxTime
      /\ d.g_iptt # c.g_iptt => c.tune \/ c.bTxTime
  BY <1>4, KeyDownStarts DEF Runs
<1> HIDE DEF d
<1>6. /\ Runs(d, e) /\ e.tune = d.tune /\ e.bTxTime = d.bTxTime
      /\ ~d.bTxTime /\ ~d.tune => e.btxok = FALSE
  <2> DEFINE f == [d EXCEPT !.btxok = FALSE]
  <2>1. Runs(d, f) /\ Runs(d, d) BY <1>5, AssignmentRuns DEF Starts
  <2>2. d \in WindowState BY <1>5 DEF Starts, Good
  <2>3. f.tune = d.tune /\ f.bTxTime = d.bTxTime /\ f.btxok = FALSE
    BY <2>2 DEF WindowState
  <2>4. e = IF ~d.bTxTime /\ ~d.tune THEN f ELSE d BY DEF time_to_stop
  <2> HIDE DEF e, f
  <2> QED BY <2>1, <2>3, <2>4
<1> HIDE DEF e
<1>7. Starts(w, e) BY <1>4, <1>5, <1>6 DEF Starts, Runs
<1>8. ASSUME Late(w), e.g_iptt = 1, ~e.tune PROVE w.g_iptt = 1 /\ ~e.btxok
  <2>1. Late(c) /\ c.g_iptt = w.g_iptt BY <1>4, <1>8 DEF Runs
  <2>2. ~c.tune /\ ~c.bTxTime BY <1>5, <1>6, <1>8, <2>1 DEF Late
  <2>3. d.g_iptt = c.g_iptt BY <1>5, <2>2
  <2>4. e.g_iptt = d.g_iptt BY <1>6 DEF Runs
  <2> QED BY <1>5, <1>6, <1>8, <2>1, <2>2, <2>3, <2>4
<1>9. CASE w.transmitting \/ w.auto \/ w.tune
  <2>1. m = e BY <1>1, <1>9
  <2> HIDE DEF m
  <2> QED BY <1>7, <1>8, <2>1 DEF m
<1>10. CASE ~(w.transmitting \/ w.auto \/ w.tune)
  <2>1. m = w BY <1>1, <1>10
  <2>2. Starts(w, w) BY DEF Starts
  <2> QED BY <1>10, <2>1, <2>2 DEF m
<1> QED BY <1>9, <1>10

\* The start of a transmission is allowed, and the receiver stops.
LEMMA BeginAllows ==
    ASSUME NEW w, Good(w), NEW now
    PROVE  \/ begin(w, now) = w /\ ~(w.g_iptt = 1 /\ window.g_iptt = 0)
           \/ /\ w.g_iptt = 1 /\ window.g_iptt = 0
              /\ Good(begin(w, now)) /\ begin(w, now).g_iptt = 1
              /\ begin(w, now).transmitting /\ begin(w, now).btxok
              /\ w.tune => begin(w, now).tune
<1> DEFINE a == IF "last" \in now /\ ~w.tune THEN auto_tx_mode(w, FALSE) ELSE w
           v == [a EXCEPT !.transmitting = TRUE]
           u == [v EXCEPT !.monitoring = FALSE]
           t == [u EXCEPT !.btxok = TRUE]
<1>1. Runs(w, a) /\ (w.tune => a.tune) BY AutoRuns, AssignmentRuns
<1>2. begin(w, now) = IF w.g_iptt = 1 /\ window.g_iptt = 0 THEN t ELSE w
  BY DEF begin, transmitDisplay, monitor
<1> HIDE DEF a
<1>3. a \in WindowState /\ Good(a) BY <1>1 DEF Runs, Good
<1>4. /\ v \in WindowState /\ v.transmitting /\ v.tune = a.tune /\ v.g_iptt = a.g_iptt
      /\ v.lastChecked = a.lastChecked /\ v.sounds = a.sounds
  BY <1>3 DEF WindowState
<1> HIDE DEF v
<1>5. /\ u \in WindowState /\ u.transmitting /\ u.tune = a.tune /\ u.g_iptt = a.g_iptt
      /\ u.lastChecked = a.lastChecked /\ u.sounds = a.sounds /\ ~u.monitoring
  BY <1>4 DEF WindowState
<1> HIDE DEF u
<1>6. /\ t \in WindowState /\ t.transmitting /\ t.tune = a.tune /\ t.g_iptt = a.g_iptt
      /\ t.lastChecked = a.lastChecked /\ t.sounds = a.sounds /\ ~t.monitoring /\ t.btxok
  BY <1>5 DEF WindowState
<1> HIDE DEF t
<1> QED BY <1>1, <1>2, <1>3, <1>6 DEF Runs, Good

\* stopTx ends the transmission and starts the receiver.
LEMMA StopTxEnds ==
    ASSUME NEW w, Good(w) PROVE Good(stopTx(w)) /\ stopTx(w).g_iptt = 0
<1> DEFINE e == emit(w, "stop")
           v == [e EXCEPT !.btxok = FALSE, !.transmitting = FALSE, !.g_iptt = 0,
                          !.ptt0Timer = starts(EndOfTx)]
           u == [v EXCEPT !.monitoring = TRUE]
<1>1. Runs(w, e) BY EmitRuns
<1>2. stopTx(w) = u BY DEF stopTx, monitor
<1> HIDE DEF e
<1>3. e \in WindowState BY <1>1 DEF Runs, Good
<1>4. v \in WindowState BY <1>3, TimersStart DEF WindowState
<1>5. /\ ~v.transmitting /\ v.g_iptt = 0 /\ v.tune = e.tune
      /\ v.lastChecked = e.lastChecked /\ v.sounds = e.sounds
  BY <1>3 DEF WindowState
<1> HIDE DEF v
<1>6. u \in WindowState BY <1>4 DEF WindowState
<1>7. /\ ~u.transmitting /\ u.g_iptt = 0 /\ u.tune = e.tune
      /\ u.lastChecked = e.lastChecked /\ u.sounds = e.sounds
  BY <1>4, <1>5 DEF WindowState
<1> HIDE DEF u
<1> QED BY <1>1, <1>2, <1>6, <1>7 DEF Runs, Good

\* What guiUpdate leaves: it sees the stop of a transmission under way, as it
\* has seen the permission before, and so ends what is out of its slot.
LEMMA GuiUpdateIsGood ==
    ASSUME Good(window), StopIsSeen, clock \in 0 .. 2 * Period - 1, NEW now
    PROVE  /\ Good(guiUpdate(now))
           /\ guiUpdate(now).g_iptt = 1 => guiUpdate(now).btxok0 /\ guiUpdate(now).transmitting
           /\ guiUpdate(now).g_iptt = 1 => guiUpdate(now).tune \/ clock < TxLength
<1> DEFINE a == TxTime(window)
           b == may_transmit(a, now)
           c == begin(b, now)
           d == end(c)
           g == [d EXCEPT !.btxok0 = d.btxok]
           f == [g EXCEPT !.guiTimer = starts(1)]
<1>1. guiUpdate(now) = f
  <2>1. [d EXCEPT !.btxok0 = d.btxok, !.guiTimer = starts(1)] = f OBVIOUS
  <2> QED BY <2>1 DEF guiUpdate
<1>2. /\ Starts(window, a) /\ a.g_iptt = window.g_iptt
      /\ ~(clock < TxLength) => Late(a)
  BY TxTimeIsKnown
<1>3. a.g_iptt = 1 => a.transmitting BY <1>2 DEF Starts, StopIsSeen
<1> HIDE DEF a
<1>4. /\ Starts(a, b)
      /\ Late(a) /\ b.g_iptt = 1 /\ ~b.tune => a.g_iptt = 1 /\ ~b.btxok
  BY <1>2, <1>3, MayTransmitStarts DEF Starts
<1> HIDE DEF b
<1>5. /\ Good(b) /\ b.transmitting = window.transmitting /\ b.btxok0 = window.btxok0
      /\ b.g_iptt = window.g_iptt \/ (window.g_iptt = 0 /\ b.g_iptt = 1)
      /\ ~(clock < TxLength) /\ b.g_iptt = 1 /\ ~b.tune
         => window.g_iptt = 1 /\ ~b.btxok
  BY <1>2, <1>4 DEF Starts
<1>6. /\ Good(d)
      /\ d.g_iptt = 1 => d.btxok /\ d.transmitting
      /\ d.g_iptt = 1 => d.tune \/ clock < TxLength
  <2>1. CASE c = b /\ ~(b.g_iptt = 1 /\ window.g_iptt = 0)
    <3> HIDE DEF c
    <3>1. CASE ~c.btxok /\ c.btxok0 /\ c.g_iptt = 1
      <4>1. d = stopTx(c) BY <3>1 DEF end
      <4> HIDE DEF d
      <4> QED BY <1>5, <2>1, <4>1, StopTxEnds
    <3>2. CASE ~(~c.btxok /\ c.btxok0 /\ c.g_iptt = 1)
      <4>1. d = c BY <3>2 DEF end
      <4> HIDE DEF d
      <4>2. ASSUME b.g_iptt = 1 PROVE b.btxok0 /\ b.transmitting /\ b.btxok
        <5>1. window.g_iptt = 1 BY <1>5, <2>1, <4>2
        <5> QED BY <1>5, <2>1, <3>2, <4>2, <5>1 DEF StopIsSeen
      <4> QED BY <1>5, <2>1, <4>1, <4>2
    <3> QED BY <3>1, <3>2
  <2>2. CASE /\ b.g_iptt = 1 /\ window.g_iptt = 0
             /\ Good(c) /\ c.g_iptt = 1 /\ c.transmitting /\ c.btxok
             /\ b.tune => c.tune
    <3> HIDE DEF c
    <3>1. d = c BY <2>2 DEF end
    <3> HIDE DEF d
    <3>2. ~(clock < TxLength) => b.tune BY <1>5, <2>2
    <3> QED BY <2>2, <3>1, <3>2
  <2>3. \/ c = b /\ ~(b.g_iptt = 1 /\ window.g_iptt = 0)
        \/ /\ b.g_iptt = 1 /\ window.g_iptt = 0
           /\ Good(c) /\ c.g_iptt = 1 /\ c.transmitting /\ c.btxok
           /\ b.tune => c.tune
    BY <1>5, BeginAllows
  <2> HIDE DEF c, d
  <2> QED BY <2>1, <2>2, <2>3
<1> HIDE DEF d
<1>7. d \in WindowState /\ d.btxok \in BOOLEAN BY <1>6, FieldTypes DEF Good
<1>8. /\ g \in WindowState /\ g.btxok0 = d.btxok /\ g.g_iptt = d.g_iptt
      /\ g.transmitting = d.transmitting /\ g.tune = d.tune /\ g.sounds = d.sounds
      /\ g.lastChecked = d.lastChecked /\ g.monitoring = d.monitoring
  BY <1>7 DEF WindowState
<1> HIDE DEF g
<1>9. /\ f \in WindowState /\ f.btxok0 = d.btxok /\ f.g_iptt = d.g_iptt
      /\ f.transmitting = d.transmitting /\ f.tune = d.tune /\ f.sounds = d.sounds
      /\ f.lastChecked = d.lastChecked /\ f.monitoring = d.monitoring
  BY <1>8, TimersStart DEF WindowState
<1> HIDE DEF f
<1> QED BY <1>1, <1>6, <1>9 DEF Good

-----------------------------------------------------------------------------
(* The inductive invariant. *)

Modulators == [active : BOOLEAN, tuning : BOOLEAN]

Rigs == [state : {"online", "failed", "closed"}, ptt : BOOLEAN,
         update : {"none", "rx", "tx", "offline"}, failure : BOOLEAN]

Seen(w) == w.g_iptt = 1 => w.btxok0 /\ w.transmitting

WindowInv ==
    /\ Good(window)
    /\ Seen(window)
    /\ clock \in 0 .. 2 * Period - 1
    /\ rig \in Rigs
    /\ modulator \in Modulators
    /\ clicks \in 0 .. MaxClicks

\* guiUpdate leaves the station transmitting only in its slot or for a tune
SlotStep ==
    window.guiTimer = due /\ window'.guiTimer # due /\ window'.g_iptt = 1
        => window'.tune \/ clock < TxLength

\* The invariant initially.
LEMMA WindowInitially == Init => WindowInv
<1> SUFFICES ASSUME Init PROVE WindowInv
  OBVIOUS
<1>1. /\ 1 \in Timer(1) /\ 0 \in Timer(EndOfTx) /\ 0 \in Timer(TxDelay)
      /\ 0 \in Timer(EndOfTune)
  BY TimersStart DEF off, due
<1>2. /\ <<>> \in Seq(BOOLEAN) /\ <<>> \in Seq({"start", "stop", "tune", "untune"})
      /\ Len(<<>>) = 0
  BY EmptySeq
<1>3. window \in WindowState
  BY <1>1, <1>2 DEF Init, WindowState, off, due
<1>4. /\ ~window.transmitting /\ ~window.lastChecked /\ window.g_iptt = 0
      /\ window.sounds = <<>> /\ window.lastChecked = FALSE
      /\ modulator = [active |-> FALSE, tuning |-> FALSE]
  BY DEF Init
<1>5. Hears(window.sounds, modulator.tuning, window.lastChecked)
  <2>1. modulator.tuning = FALSE BY <1>4
  <2>2. modulator.tuning = window.lastChecked BY <1>4, <2>1
  <2> QED BY <1>4, <2>2, NothingToHear
<1>6. Good(window) /\ Seen(window)
  <2>1. window.g_iptt # 1 BY <1>4
  <2>2. Seen(window) BY <2>1 DEF Seen
  <2>3. Good(window) BY <1>3, <1>4, <1>5 DEF Good
  <2> QED BY <2>2, <2>3
<1>7. rig \in Rigs /\ modulator \in Modulators /\ clock \in 0 .. 2 * Period - 1
  BY DEF Init, Rigs, Modulators
<1>8. clicks \in 0 .. MaxClicks BY SequencerAssumption DEF Init
<1> QED BY <1>6, <1>7, <1>8 DEF WindowInv

\* What a handler of the GUI thread left is posted to the other threads.
LEMMA PostedIsGood ==
    ASSUME NEW w, Good(w), Seen(w), window' = posted(w),
           modulator'.tuning = modulator.tuning
    PROVE  /\ Good(window)' /\ Seen(window)'
           /\ window'.g_iptt = w.g_iptt /\ window'.tune = w.tune
           /\ window'.guiTimer = w.guiTimer
<1>1. Runs(w, window') /\ window'.tune = w.tune
  <2> DEFINE v == [w EXCEPT !.commands = <<>>]
  <2>1. Runs(w, w) /\ Runs(w, v) BY AssignmentRuns
  <2>2. w \in WindowState BY DEF Good
  <2>3. v.tune = w.tune BY <2>2 DEF WindowState
  <2>4. window' = w \/ window' = v BY DEF posted
  <2> HIDE DEF v
  <2> QED BY <2>1, <2>3, <2>4
<1> DEFINE u == window'
<1>2. /\ u \in WindowState /\ (u.transmitting => ~u.monitoring) /\ (u.lastChecked => u.tune)
      /\ Hears(u.sounds, modulator.tuning, u.lastChecked)
      /\ u.g_iptt = w.g_iptt /\ u.btxok0 = w.btxok0 /\ u.transmitting = w.transmitting
      /\ u.guiTimer = w.guiTimer
  BY <1>1 DEF Runs, Good
<1>3. Good(window)' BY <1>2 DEF Good
<1>4. Seen(window)' BY <1>2 DEF Seen
<1> QED BY <1>1, <1>2, <1>3, <1>4

\* A handler other than guiUpdate.
LEMMA HandlerKept ==
    ASSUME WindowInv, NEW w, Runs(window, w), window' = posted(w), rig' \in Rigs,
           clock' = clock, modulator' = modulator, clicks' \in 0 .. MaxClicks
    PROVE  WindowInv' /\ SlotStep
<1>1. Good(w) /\ Seen(w) /\ w.guiTimer = window.guiTimer
  BY DEF Runs, WindowInv, Seen
<1>2. Good(window)' /\ Seen(window)' /\ window'.guiTimer = window.guiTimer
  BY <1>1, PostedIsGood
<1>3. SlotStep BY <1>2 DEF SlotStep
<1> QED BY <1>2, <1>3 DEF WindowInv

\* A handler of the GUI thread, and what it makes of an update under way.
LEMMA GuiKept ==
    ASSUME WindowInv, NEW w, Runs(window, w), gui(w), clicks' \in 0 .. MaxClicks
    PROVE  WindowInv' /\ SlotStep
<1>1. rig' \in Rigs BY DEF gui, WindowInv, Rigs
<1> QED BY <1>1, HandlerKept DEF gui

\* guiUpdate itself.
LEMMA GuiUpdateKept == ASSUME WindowInv, GuiUpdate PROVE WindowInv' /\ SlotStep
<1>1. PICK now : gui(guiUpdate(now)) BY DEF GuiUpdate
<1>2. StopIsSeen /\ Good(window) /\ clock \in 0 .. 2 * Period - 1
  BY DEF WindowInv, Seen, StopIsSeen
<1> DEFINE w == guiUpdate(now)
<1>3. /\ Good(w) /\ (w.g_iptt = 1 => w.btxok0 /\ w.transmitting)
      /\ w.g_iptt = 1 => w.tune \/ clock < TxLength
  BY <1>2, GuiUpdateIsGood
<1>4. window' = posted(w) /\ clock' = clock /\ modulator' = modulator /\ rig' \in Rigs
  BY <1>1 DEF gui, WindowInv, Rigs
<1> HIDE DEF w
<1>5. /\ Good(window)' /\ Seen(window)'
      /\ window'.g_iptt = w.g_iptt /\ window'.tune = w.tune
  BY <1>3, <1>4, PostedIsGood DEF Seen
<1>6. SlotStep BY <1>3, <1>5 DEF SlotStep
<1>7. clicks' = clicks BY DEF GuiUpdate
<1> QED BY <1>4, <1>5, <1>6, <1>7 DEF WindowInv

\* The timers of the sequencer.
LEMMA TimersKept ==
    ASSUME WindowInv, Ptt0 \/ Ptt1 \/ TuneButtonTimer \/ TuneATU
    PROVE  WindowInv' /\ SlotStep
<1>0. Good(window) /\ clicks' \in 0 .. MaxClicks
  BY DEF WindowInv, Ptt0, Ptt1, TuneButtonTimer, TuneATU
<1>1. CASE Ptt0
  <2> DEFINE v == [window EXCEPT !.ptt0Timer = off]
  <2>1. gui(stopTx2(v)) BY <1>1 DEF Ptt0
  <2>2. Runs(window, v) BY <1>0, TimerRuns
  <2> HIDE DEF v
  <2>3. Runs(v, stopTx2(v)) BY <2>2, SendRuns DEF Runs, stopTx2
  <2>4. Runs(window, stopTx2(v)) BY <2>2, <2>3, RunsTwice
  <2> QED BY <1>0, <2>1, <2>4, GuiKept
<1>2. CASE Ptt1
  <2> DEFINE v == [window EXCEPT !.ptt1Timer = off]
  <2>1. gui(startTx2(v)) BY <1>2 DEF Ptt1
  <2>2. Runs(window, v) BY <1>0, TimerRuns
  <2> HIDE DEF v
  <2>3. Runs(v, startTx2(v)) BY <2>2, StartTx2Runs DEF Runs
  <2>4. Runs(window, startTx2(v)) BY <2>2, <2>3, RunsTwice
  <2> QED BY <1>0, <2>1, <2>4, GuiKept
<1>3. CASE TuneButtonTimer
  <2> DEFINE v == [window EXCEPT !.tuneButtonTimer = off]
  <2>1. gui(end_tuning(v)) BY <1>3 DEF TuneButtonTimer
  <2>2. Runs(window, v) BY <1>0, TimerRuns
  <2> HIDE DEF v
  <2>3. Runs(v, end_tuning(v)) BY <2>2, StopTxButtonRuns DEF Runs
  <2>4. Runs(window, end_tuning(v)) BY <2>2, <2>3, RunsTwice
  <2> QED BY <1>0, <2>1, <2>4, GuiKept
<1>4. CASE TuneATU
  BY <1>0, <1>4, StopTuningRuns, GuiKept DEF TuneATU
<1> QED BY <1>1, <1>2, <1>3, <1>4

\* The buttons.
LEMMA ClicksKept ==
    ASSUME WindowInv, EnableTx \/ DisableTx \/ HaltTx \/ Tune \/ Monitor
    PROVE  WindowInv' /\ SlotStep
<1>0. Good(window) BY DEF WindowInv
<1>1. ASSUME NEW w, Runs(window, w), Click(w) PROVE WindowInv' /\ SlotStep
  <2>1. gui(w) /\ clicks' \in 0 .. MaxClicks
    BY <1>1, SequencerAssumption DEF Click, WindowInv
  <2> QED BY <1>1, <2>1, GuiKept
<1>2. CASE EnableTx
  BY <1>0, <1>1, <1>2, AutoRuns DEF EnableTx
<1>3. CASE DisableTx
  BY <1>0, <1>1, <1>3, AutoRuns DEF DisableTx
<1>4. CASE HaltTx
  BY <1>0, <1>1, <1>4, StopTxButtonRuns DEF HaltTx
<1>5. CASE Tune
  <2> DEFINE checked == ~window.tune_button
             v == [window EXCEPT !.tune_button = checked]
  <2>1. Click(on_tuneButton_clicked(v, checked)) BY <1>5 DEF Tune
  <2>2. checked \in BOOLEAN OBVIOUS
  <2> HIDE DEF checked
  <2>3. Runs(window, v) BY <1>0, <2>2, AssignmentRuns
  <2> HIDE DEF v
  <2>4. Runs(v, on_tuneButton_clicked(v, checked)) BY <2>2, <2>3, TuneButtonRuns DEF Runs
  <2>5. Runs(window, on_tuneButton_clicked(v, checked)) BY <2>3, <2>4, RunsTwice
  <2> QED BY <1>1, <2>1, <2>5
<1>6. CASE Monitor
  <2>1. Runs(window, on_monitorButton_clicked(window, ~window.monitoring))
    BY <1>0, MonitorRuns
  <2> QED BY <1>1, <1>6, <2>1 DEF Monitor
<1> QED BY <1>2, <1>3, <1>4, <1>5, <1>6

\* What the rig reports, and the rig opened again.
LEMMA RigSignalsKept ==
    ASSUME WindowInv, RigUpdate \/ RigFailure \/ rigOpen
    PROVE  WindowInv' /\ SlotStep
<1>0. Good(window) BY DEF WindowInv
<1>1. CASE RigUpdate
  <2>1. PICK high_swr :
          window' = posted(handle_transceiver_update(window, rig.update, high_swr))
    BY <1>1 DEF RigUpdate
  <2>2. rig' \in Rigs /\ clock' = clock /\ modulator' = modulator /\ clicks' \in 0 .. MaxClicks
    BY <1>1 DEF RigUpdate, WindowInv, Rigs
  <2>3. Runs(window, handle_transceiver_update(window, rig.update, high_swr))
    BY <1>0, UpdateRuns
  <2> QED BY <2>1, <2>2, <2>3, HandlerKept
<1>2. ASSUME NEW v, window' = v, Runs(window, v), rig' \in Rigs,
             UNCHANGED <<clock, modulator, clicks>>
      PROVE  WindowInv' /\ SlotStep
  <2>1. /\ v \in WindowState /\ (v.transmitting => ~v.monitoring) /\ (v.lastChecked => v.tune)
        /\ Hears(v.sounds, modulator.tuning, v.lastChecked)
        /\ v.guiTimer = window.guiTimer /\ Seen(v)
    BY <1>2 DEF Runs, Good, WindowInv, Seen
  <2>2. Good(window)' BY <1>2, <2>1 DEF Good
  <2>3. Seen(window)' BY <1>2, <2>1 DEF Seen
  <2>4. SlotStep BY <1>2, <2>1 DEF SlotStep
  <2> QED BY <1>2, <2>2, <2>3, <2>4 DEF WindowInv
<1>3. CASE RigFailure
  <2> DEFINE w == on_stopTxButton_clicked(window)
             v == [w EXCEPT !.commands = <<>>]
  <2>1. Runs(window, w) BY <1>0, StopTxButtonRuns
  <2>2. window' = v /\ UNCHANGED <<clock, modulator, clicks>> BY <1>3 DEF RigFailure
  <2>3. rig' \in Rigs BY <1>3 DEF RigFailure, WindowInv, Rigs
  <2> HIDE DEF w
  <2>4. Runs(w, v) BY <2>1, AssignmentRuns DEF Runs
  <2> HIDE DEF v
  <2>5. Runs(window, v) BY <2>1, <2>4, RunsTwice
  <2> QED BY <1>2, <2>2, <2>3, <2>5
<1>4. CASE rigOpen
  <2>1. Runs(window, [window EXCEPT !.ptt = FALSE]) BY <1>0, AssignmentRuns
  <2>2. rig' \in Rigs BY <1>4 DEF rigOpen, Rigs
  <2> QED BY <1>2, <1>4, <2>1, <2>2 DEF rigOpen
<1> QED BY <1>1, <1>3, <1>4

\* The rig thread only takes commands.
LEMMA RigThreadKept ==
    ASSUME WindowInv, Obey \/ Poll \/ Fail
    PROVE  WindowInv' /\ SlotStep
<1>0. Good(window) /\ window \in WindowState /\ window.commands \in Seq(BOOLEAN)
  BY FieldTypes DEF WindowInv, Good
<1>1. ASSUME NEW left \in Seq(BOOLEAN), window' = [window EXCEPT !.commands = left],
             rig' \in Rigs, UNCHANGED <<clock, modulator, clicks>>
      PROVE  WindowInv' /\ SlotStep
  <2> DEFINE v == [window EXCEPT !.commands = left]
  <2>1. v \in WindowState BY <1>0, <1>1 DEF WindowState
  <2>2. Same(window, v) /\ v.bTxTime = window.bTxTime BY <1>0 DEF Same, WindowState
  <2>3. window' = v BY <1>1
  <2> HIDE DEF v
  <2>4. /\ v \in WindowState /\ (v.transmitting => ~v.monitoring) /\ (v.lastChecked => v.tune)
        /\ Hears(v.sounds, modulator.tuning, v.lastChecked)
        /\ v.guiTimer = window.guiTimer /\ Seen(v)
    BY <1>0, <2>1, <2>2 DEF Same, Good, WindowInv, Seen
  <2>5. Good(window)' BY <1>1, <2>3, <2>4 DEF Good
  <2>6. Seen(window)' BY <2>3, <2>4 DEF Seen
  <2>7. SlotStep BY <2>3, <2>4 DEF SlotStep
  <2> QED BY <1>1, <2>5, <2>6, <2>7 DEF WindowInv
<1>2. \A s \in {"rx", "tx", "offline"}, c \in Seq(BOOLEAN) :
         update_after(c, s) \in {"none", "rx", "tx", "offline"}
  BY DEF update_after
<1>3. window.commands # <<>> =>
         Tail(window.commands) \in Seq(BOOLEAN) /\ Head(window.commands) \in BOOLEAN
  BY <1>0, HeadTailProperties
<1>4. CASE Obey
  <2> DEFINE on == Head(window.commands)
             u == update_after(Tail(window.commands), IF on THEN "tx" ELSE "rx")
  <2>1. Tail(window.commands) \in Seq(BOOLEAN) /\ on \in BOOLEAN BY <1>3, <1>4 DEF Obey
  <2>2. u \in {"none", "rx", "tx", "offline"} BY <1>2, <2>1
  <2>3. rig' = [rig EXCEPT !.ptt = on, !.update = u] BY <1>4 DEF Obey
  <2> HIDE DEF on, u
  <2>4. rig' \in Rigs BY <2>1, <2>2, <2>3 DEF WindowInv, Rigs
  <2> QED BY <1>1, <1>4, <2>1, <2>4 DEF Obey
<1>5. CASE Poll
  <2>1. rig' \in Rigs BY <1>5 DEF Poll, WindowInv, Rigs
  <2>2. UNCHANGED <<window, clock, modulator, clicks>> BY <1>5 DEF Poll
  <2>3. window' = [window EXCEPT !.commands = window.commands]
    BY <1>0, <2>2 DEF WindowState
  <2> QED BY <1>0, <1>1, <2>1, <2>2, <2>3
<1>6. CASE Fail
  <2>1. PICK left \in {window.commands} \cup
                      (IF window.commands = <<>> THEN {} ELSE {Tail(window.commands)}) :
          /\ window' = [window EXCEPT !.commands = left]
          /\ rig' = [state |-> "failed", ptt |-> FALSE, failure |-> TRUE,
                     update |-> update_after(left, "offline")]
    BY <1>6 DEF Fail
  <2>2. left \in Seq(BOOLEAN) BY <1>0, <1>3, <2>1
  <2>3. update_after(left, "offline") \in {"none", "rx", "tx", "offline"} BY <1>2, <2>2
  <2>4. rig' \in Rigs BY <2>1, <2>3 DEF Rigs
  <2> QED BY <1>1, <1>6, <2>1, <2>2, <2>4 DEF Fail
<1> QED BY <1>4, <1>5, <1>6

\* The Modulator follows the sounds it hears.
LEMMA ModulatorKept ==
    ASSUME WindowInv, Modulate \/ readData
    PROVE  WindowInv' /\ SlotStep
<1>0. /\ window \in WindowState /\ window.sounds \in Seq(Sounds)
      /\ window.lastChecked \in BOOLEAN /\ modulator \in Modulators
      /\ modulator.tuning \in BOOLEAN
  BY FieldTypes DEF WindowInv, Good, Modulators
<1>1. CASE Modulate
  <2> DEFINE h == Head(window.sounds)
             t == Tail(window.sounds)
  <2>1. /\ window.sounds # <<>> /\ window' = [window EXCEPT !.sounds = t]
        /\ UNCHANGED <<clock, rig, clicks>>
    BY <1>1 DEF Modulate
  <2>2. h \in Sounds BY <1>0, <2>1, HeadTailProperties DEF Sounds
  <2>3. /\ modulator' \in Modulators
        /\ h \notin Tones => modulator'.tuning = modulator.tuning
        /\ h = "tune" => modulator'.tuning
        /\ h = "untune" => ~modulator'.tuning
    <3> HIDE DEF h, t
    <3>1. CASE h = "start"
      <4>1. modulator' = start(modulator) BY <1>1, <3>1 DEF Modulate, h
      <4> QED BY <1>0, <3>1, <4>1 DEF start, Modulators, Tones
    <3>2. CASE h = "stop"
      <4>1. modulator' = stop(modulator) BY <1>1, <3>2 DEF Modulate, h
      <4> QED BY <1>0, <3>2, <4>1 DEF stop, Modulators, Tones
    <3>3. CASE h = "tune"
      <4>1. modulator' = tune(modulator, TRUE) BY <1>1, <3>3 DEF Modulate, h
      <4> QED BY <1>0, <3>3, <4>1 DEF tune, Modulators, Tones
    <3>4. CASE h = "untune"
      <4>1. modulator' = tune(modulator, FALSE) BY <1>1, <3>4 DEF Modulate, h
      <4> QED BY <1>0, <3>4, <4>1 DEF tune, stop, Modulators, Tones
    <3> QED BY <2>2, <3>1, <3>2, <3>3, <3>4 DEF Sounds
  <2>4. modulator'.tuning \in BOOLEAN BY <2>3 DEF Modulators
  <2>5. t \in Seq(Sounds) /\ Hears(t, modulator'.tuning, window.lastChecked)
    BY <1>0, <2>1, <2>3, <2>4, SoundHeard DEF WindowInv, Good
  <2> HIDE DEF t
  <2>6. window' \in WindowState BY <1>0, <2>1, <2>5 DEF WindowState, Sounds
  <2>7. /\ window'.g_iptt = window.g_iptt /\ window'.btxok0 = window.btxok0
        /\ window'.transmitting = window.transmitting /\ window'.guiTimer = window.guiTimer
        /\ window'.lastChecked = window.lastChecked /\ window'.tune = window.tune
        /\ window'.monitoring = window.monitoring /\ window'.sounds = t
    BY <1>0, <2>1 DEF WindowState
  <2>8. Good(window)' BY <2>5, <2>6, <2>7 DEF Good, WindowInv
  <2>9. Seen(window)' BY <2>7 DEF Seen, WindowInv
  <2>10. SlotStep BY <2>7 DEF SlotStep
  <2> QED BY <2>1, <2>3, <2>8, <2>9, <2>10 DEF WindowInv
<1>2. CASE readData
  <2>1. modulator' \in Modulators /\ modulator'.tuning = modulator.tuning
    BY <1>0, <1>2 DEF readData, stop, Modulators
  <2>2. UNCHANGED <<window, clock, rig, clicks>> BY <1>2 DEF readData
  <2>3. Good(window)' BY <2>1, <2>2 DEF Good, WindowInv
  <2>4. Seen(window)' BY <2>2 DEF Seen, WindowInv
  <2>5. SlotStep BY <2>2 DEF SlotStep
  <2> QED BY <2>1, <2>2, <2>3, <2>4, <2>5 DEF WindowInv
<1> QED BY <1>1, <1>2

\* A unit of time only runs the timers down.
LEMMA TimeKept ==
    ASSUME WindowInv, Pass \/ UNCHANGED vars
    PROVE  WindowInv' /\ SlotStep
<1>0. window \in WindowState /\ clock \in 0 .. 2 * Period - 1
  BY DEF WindowInv, Good
<1>1. CASE Pass
  <2> DEFINE g == elapsed(window.guiTimer)
             p == elapsed(window.ptt0Timer)
             q == elapsed(window.ptt1Timer)
             r == elapsed(window.tuneButtonTimer)
  <2>1. \A units \in Nat : \A timer \in Timer(units) : elapsed(timer) \in Timer(units)
    BY DEF Timer, elapsed, off
  <2>2. /\ g \in Timer(1) /\ p \in Timer(EndOfTx) /\ q \in Timer(TxDelay)
        /\ r \in Timer(EndOfTune)
    BY <1>0, <2>1, TimersStart DEF WindowState
  <2>3. window' = [window EXCEPT !.guiTimer = g, !.ptt0Timer = p, !.ptt1Timer = q,
                                 !.tuneButtonTimer = r]
    BY <1>1 DEF Pass
  <2> HIDE DEF g, p, q, r
  <2>4. window' \in WindowState BY <1>0, <2>2, <2>3 DEF WindowState
  <2>5. /\ window'.g_iptt = window.g_iptt /\ window'.btxok0 = window.btxok0
        /\ window'.transmitting = window.transmitting
        /\ window'.lastChecked = window.lastChecked /\ window'.tune = window.tune
        /\ window'.monitoring = window.monitoring /\ window'.sounds = window.sounds
    BY <1>0, <2>3 DEF WindowState
  <2>6. UNCHANGED <<rig, modulator, clicks>> /\ window.guiTimer # due
    BY <1>1 DEF Pass
  <2>7. clock' \in 0 .. 2 * Period - 1
    BY <1>0, <1>1, SequencerAssumption DEF Pass
  <2>8. Good(window)' BY <2>4, <2>5, <2>6 DEF Good, WindowInv
  <2>9. Seen(window)' BY <2>5 DEF Seen, WindowInv
  <2>10. SlotStep BY <2>6 DEF SlotStep
  <2> QED BY <2>6, <2>7, <2>8, <2>9, <2>10 DEF WindowInv
<1>2. CASE UNCHANGED vars
  <2>1. UNCHANGED <<window, clock, rig, modulator, clicks>> BY <1>2 DEF vars
  <2>2. Good(window)' BY <2>1 DEF Good, WindowInv
  <2>3. Seen(window)' BY <2>1 DEF Seen, WindowInv
  <2>4. SlotStep BY <2>1 DEF SlotStep
  <2> QED BY <2>1, <2>2, <2>3, <2>4 DEF WindowInv
<1> QED BY <1>1, <1>2

\* Every step of the three threads keeps the invariant, and leaves the station
\* transmitting in its slot or for a tune.
LEMMA WindowKept == WindowInv /\ [Next]_vars => WindowInv' /\ SlotStep
BY GuiUpdateKept, TimersKept, ClicksKept, RigSignalsKept, RigThreadKept, ModulatorKept, TimeKept
   DEF Next

\* So the invariant holds always.
LEMMA WindowAlways == Spec => []WindowInv
BY WindowInitially, WindowKept, PTL DEF Spec

\* With nothing on its way the Modulator has heard the last tone.
LEMMA WindowSuffices ==
    WindowInv => TypeOK /\ StopIsSeen /\ HalfDuplex /\ ToneOnlyWhenTuning
<1> SUFFICES ASSUME WindowInv PROVE TypeOK /\ StopIsSeen /\ HalfDuplex /\ ToneOnlyWhenTuning
  OBVIOUS
<1>1. TypeOK BY DEF WindowInv, Good, TypeOK, Rigs, Modulators
<1>2. StopIsSeen /\ HalfDuplex BY DEF WindowInv, Good, Seen, StopIsSeen, HalfDuplex
<1>3. ToneOnlyWhenTuning
  <2> SUFFICES ASSUME window.sounds = <<>>, modulator.tuning PROVE window.tune
    BY DEF ToneOnlyWhenTuning
  <2>1. Hears(window.sounds, modulator.tuning, window.lastChecked) BY DEF WindowInv, Good
  <2>2. modulator.tuning = window.lastChecked BY <2>1, NothingToHear
  <2> QED BY <2>2 DEF WindowInv, Good
<1> QED BY <1>1, <1>2, <1>3

-----------------------------------------------------------------------------
\* Every variable of the sequencer keeps its type, whatever handlers call each
\* other.
THEOREM TypeCorrect == Spec => []TypeOK
BY WindowAlways, WindowSuffices, PTL

\* A stop is never missed: while the PTT is up for a transmission guiUpdate has
\* seen the permission the time before, so that it sees the permission fall.
THEOREM StopsAreSeen == Spec => []StopIsSeen
BY WindowAlways, WindowSuffices, PTL

\* Half duplex: the window never receives while it transmits, whoever of
\* transmitDisplay, stopTx, the Monitor button and the rig sets m_monitoring.
THEOREM IsHalfDuplex == Spec => []HalfDuplex
BY WindowAlways, WindowSuffices, PTL

\* A message is not sent as a tone: once it has heard all the window emitted, the
\* Modulator is set to tune only while the window is tuning.
THEOREM TonesOnlyWhenTuning == Spec => []ToneOnlyWhenTuning
BY WindowAlways, WindowSuffices, PTL

\* The station keeps to its slot: no guiUpdate leaves it transmitting out of the
\* slot but for a tune, whatever stopped, failed or was clicked in between.
THEOREM KeepsToItsSlot == Spec => TransmitsInSlot
<1>1. WindowInv /\ [Next]_vars => [SlotStep]_vars BY WindowKept
<1>2. Spec => [][SlotStep]_vars BY <1>1, WindowAlways, PTL DEF Spec
<1> QED BY <1>2 DEF TransmitsInSlot, SlotStep
=============================================================================
