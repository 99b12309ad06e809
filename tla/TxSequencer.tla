------------------------------- MODULE TxSequencer -------------------------------
(***************************************************************************)
(* The transmit/receive sequencer of the main window, for the modes with   *)
(* slots on the clock: guiUpdate every 100 ms, the sequencer timers ptt0,  *)
(* ptt1 and tuneButton, the buttons Enable Tx, Halt Tx and Tune, and the   *)
(* updates and failures of the rig.                                        *)
(*                                                                         *)
(* Three threads take part.  The GUI thread runs one handler at a time; a  *)
(* handler is an operator from the state of the window to the next one, as *)
(* handlers call each other.  The rig thread obeys the commands posted to  *)
(* it, in order; Configuration.tla has it in detail.  The audio thread     *)
(* runs the Modulator.                                                     *)
(*                                                                         *)
(* A unit of time is the 100 ms of the GUI timer.  A timer that is running *)
(* holds the units it has left plus one, so that 1 is due and 0 is off.    *)
(***************************************************************************)
EXTENDS Naturals, Sequences

CONSTANTS
    Period,        \* m_TRperiod, in units
    TxLength,      \* the units of a slot in which to transmit
    TxDelay,       \* Configuration::txDelay, in units
    TuneWatchdog,  \* Configuration::tune_watchdog
    MonitorOn,     \* ~Configuration::monitor_off_at_startup
    Incidents,     \* what may come up in a guiUpdate: the dial in the WSPR band or, as
                   \* Fox, in a band of others ("wspr", "fox"), an idle user ("runaway"),
                   \* no text to send ("empty"), the last message of a QSO ("last");
                   \* and in an update of the rig: a high SWR ("swr")
    RigFails,      \* whether CAT calls may fail
    MaxClicks,     \* bound on the clicks of the user
    MaxQueue       \* bound on the events a thread leaves unhandled for a unit

ASSUME SequencerAssumption ==
    /\ Period \in Nat \ {0} /\ TxLength \in 1..Period
    /\ TxDelay \in Nat
    /\ TuneWatchdog \in BOOLEAN /\ MonitorOn \in BOOLEAN
    /\ RigFails \in BOOLEAN
    /\ Incidents \subseteq {"wspr", "fox", "runaway", "empty", "last", "swr"}
    /\ MaxClicks \in Nat /\ MaxQueue \in Nat

VARIABLES
    window,     \* the main window and the events it posted to the other threads
    clock,      \* the time in the cycle of a transmit and a receive slot
    rig,        \* the transceiver and the radio
    modulator,  \* the Modulator
    clicks      \* how often the user clicked

vars == <<window, clock, rig, modulator, clicks>>

off == 0
due == 1
starts(units) == units + 1

\* 200 ms, and 250 ms from any moment of a unit
EndOfTx == 2
EndOfTune == 3

-----------------------------------------------------------------------------
(* What handlers of the GUI thread do to the window. *)

\* a command, which carries the cached PTT; one that repeats the last command
\* in the queue has no effect of its own
send(w) == IF w.commands # <<>> /\ w.commands[Len(w.commands)] = w.ptt THEN w
           ELSE [w EXCEPT !.commands = Append(@, w.ptt)]

transceiver_ptt(w, on) == send([w EXCEPT !.ptt = on])
transceiver_tune(w) == send(w)

emit(w, s) == [w EXCEPT !.sounds = Append(@, s)]

monitor(w, state) == [w EXCEPT !.monitoring = state]

\* mutation: the button also works while transmitting
Mutant_on_monitorButton_clicked(w, checked) == monitor(w, checked)

on_monitorButton_clicked(w, checked) ==
    IF w.transmitting THEN w ELSE monitor(w, checked)

on_autoButton_clicked(w, checked) ==
    LET v == transceiver_tune(w)
    IN IF checked /\ w.tune_button THEN v ELSE [v EXCEPT !.auto = checked]

auto_tx_mode(w, state) == on_autoButton_clicked(w, state)

disable_tx(w) == IF w.auto THEN auto_tx_mode(w, FALSE) ELSE w

\* lastChecked is static in the function
on_tuneButton_clicked(w, checked) ==
    LET a == [disable_tx(transceiver_tune(w))
                EXCEPT !.tuneATU = checked /\ (TuneWatchdog \/ @)]
        b == [a EXCEPT !.lastChecked = checked]
        c == IF b.tune THEN [b EXCEPT !.tuneButtonTimer = starts(EndOfTune)]
             ELSE [on_monitorButton_clicked(b, TRUE) EXCEPT !.tune = TRUE]
    IN IF a.lastChecked = checked THEN a
       ELSE emit(c, IF checked THEN "tune" ELSE "untune")

\* mutation: the Modulator is not told
Mutant_stop_tuning(w) ==
    [w EXCEPT !.tuneATU = FALSE, !.tune_button = FALSE, !.bTxTime = FALSE, !.tune = FALSE]

stop_tuning(w) ==
    IF w.tune
    THEN [on_tuneButton_clicked([w EXCEPT !.tuneATU = FALSE], FALSE)
            EXCEPT !.tune_button = FALSE, !.bTxTime = FALSE, !.tune = FALSE]
    ELSE w

on_stopTxButton_clicked(w) ==
    [disable_tx(stop_tuning(w)) EXCEPT !.btxok = FALSE, !.tuneATU = FALSE]

end_tuning(w) == on_stopTxButton_clicked([w EXCEPT !.tuneATU = FALSE])

stopTuneATU(w) ==
    [on_tuneButton_clicked([w EXCEPT !.tuneATU = FALSE], FALSE) EXCEPT !.bTxTime = FALSE]

\* tx_watchdog (true)
tx_watchdog(w) == disable_tx(stop_tuning([w EXCEPT !.bTxTime = FALSE]))

\* mutation: the end-of-transmission timer is not started
Mutant_stopTx(w) ==
    monitor([emit(w, "stop") EXCEPT !.btxok = FALSE, !.transmitting = FALSE,
                                    !.g_iptt = 0], TRUE)

stopTx(w) ==
    monitor([emit(w, "stop") EXCEPT !.btxok = FALSE, !.transmitting = FALSE,
                                    !.g_iptt = 0, !.ptt0Timer = starts(EndOfTx)], TRUE)

stopTx2(w) == transceiver_ptt(w, FALSE)

\* isActive is read across threads
startTx2(w) == IF modulator.active THEN w ELSE emit(w, "start")

\* mutation: the transmission is not marked as allowed
Mutant_transmitDisplay(w) == monitor(w, FALSE)

\* the half duplex branch of transmitDisplay (true)
transmitDisplay(w) == [monitor(w, FALSE) EXCEPT !.btxok = TRUE]

\* mutation: the delay runs again with every update
Mutant_handle_transceiver_update(w, s, high_swr) ==
    LET a == IF s = "tx" /\ w.g_iptt = 1
             THEN [w EXCEPT !.ptt1Timer = @ + starts(TxDelay)] ELSE w
        b == IF high_swr THEN on_stopTxButton_clicked(a) ELSE a
        c == [b EXCEPT !.rig_online = s # "offline"]
    IN IF ~b.rig_online /\ c.rig_online THEN on_monitorButton_clicked(c, MonitorOn) ELSE c

handle_transceiver_update(w, s, high_swr) ==
    LET a == IF s = "tx" /\ w.tx_when_ready /\ w.g_iptt = 1
             THEN [w EXCEPT !.ptt1Timer = starts(TxDelay), !.tx_when_ready = FALSE] ELSE w
        b == IF high_swr THEN on_stopTxButton_clicked(a) ELSE a
        c == [b EXCEPT !.rig_online = s # "offline"]
    IN IF ~b.rig_online /\ c.rig_online THEN on_monitorButton_clicked(c, MonitorOn) ELSE c

-----------------------------------------------------------------------------
(* guiUpdate, in its parts. *)

\* clock < TxLength: the slot is the window's own (m_txFirst)
TxTime(w) == [w EXCEPT !.bTxTime = clock < TxLength \/ w.tune]

\* never transmit another mode in the WSPR band, nor as Fox where others are
guarded(w, now) ==
    LET v == IF now \cap {"wspr", "fox"} = {} THEN w
             ELSE disable_tx([w EXCEPT !.bTxTime = FALSE])
    IN IF "fox" \in now THEN stop_tuning(v) ELSE v

\* fTR < 0.75: late starts are allowed
key_down(w, now) ==
    IF /\ w.g_iptt = 0
       /\ w.tune \/ (w.bTxTime /\ 4 * clock < 3 * Period /\ "empty" \notin now)
    THEN [transceiver_ptt(w, TRUE) EXCEPT !.g_iptt = 1, !.tx_when_ready = TRUE] ELSE w

\* mutation: FT4 keeps its permission to transmit
Mutant_time_to_stop(w) == w

time_to_stop(w) == IF ~w.bTxTime /\ ~w.tune THEN [w EXCEPT !.btxok = FALSE] ELSE w

\* mutation: once Enable Tx is off, the slot is no longer looked at
Mutant_may_transmit(w, now) ==
    LET a == guarded(w, now)
        b == IF "runaway" \in now THEN tx_watchdog(a) ELSE a
        c == IF "empty" \in now /\ ~b.tune THEN on_stopTxButton_clicked(b) ELSE b
    IN IF w.auto \/ w.tune THEN time_to_stop(key_down(c, now)) ELSE w

may_transmit(w, now) ==
    LET a == guarded(w, now)
        b == IF "runaway" \in now THEN tx_watchdog(a) ELSE a
        c == IF "empty" \in now /\ ~b.tune THEN on_stopTxButton_clicked(b) ELSE b
    IN IF w.transmitting \/ w.auto \/ w.tune THEN time_to_stop(key_down(c, now)) ELSE w

\* g_iptt rose in this guiUpdate (m_iptt0 holds g_iptt from the one before): the
\* message is generated, and if it is the last of the QSO Enable Tx is cleared
begin(w, now) ==
    LET a == IF "last" \in now /\ ~w.tune THEN auto_tx_mode(w, FALSE) ELSE w
    IN IF w.g_iptt = 1 /\ window.g_iptt = 0
       THEN transmitDisplay([a EXCEPT !.transmitting = TRUE]) ELSE w

end(w) == IF ~w.btxok /\ w.btxok0 /\ w.g_iptt = 1 THEN stopTx(w) ELSE w

guiUpdate(now) ==
    LET w == end(begin(may_transmit(TxTime(window), now), now))
    IN [w EXCEPT !.btxok0 = w.btxok, !.guiTimer = starts(1)]

-----------------------------------------------------------------------------
Init ==
    /\ window = [auto |-> FALSE, tune |-> FALSE, tune_button |-> FALSE,
                 lastChecked |-> FALSE, tuneATU |-> FALSE, bTxTime |-> FALSE,
                 g_iptt |-> 0, btxok |-> FALSE, btxok0 |-> FALSE, tx_when_ready |-> FALSE,
                 transmitting |-> FALSE, monitoring |-> FALSE, rig_online |-> FALSE,
                 ptt |-> FALSE, guiTimer |-> due, ptt0Timer |-> off, ptt1Timer |-> off,
                 tuneButtonTimer |-> off, commands |-> <<>>, sounds |-> <<>>]
    /\ clock \in 0 .. 2 * Period - 1
    /\ rig = [state |-> "online", ptt |-> FALSE, update |-> "none", failure |-> FALSE]
    /\ modulator = [active |-> FALSE, tuning |-> FALSE]
    /\ clicks = 0

\* a handler of the GUI thread left the window in state w: a command it posted
\* makes the update under way an old one, which Configuration keeps to itself,
\* and goes nowhere when no rig is open
posted(w) == IF rig.state = "closed" THEN [w EXCEPT !.commands = <<>>] ELSE w

gui(w) ==
    /\ window' = posted(w)
    /\ rig' = IF w.commands = window.commands THEN rig ELSE [rig EXCEPT !.update = "none"]
    /\ UNCHANGED <<clock, modulator>>

GuiUpdate ==
    /\ window.guiTimer = due
    /\ \E now \in SUBSET (Incidents \ {"swr"}) : gui(guiUpdate(now))
    /\ UNCHANGED clicks

Ptt0 ==
    /\ window.ptt0Timer = due
    /\ gui(stopTx2([window EXCEPT !.ptt0Timer = off]))
    /\ UNCHANGED clicks

Ptt1 ==
    /\ window.ptt1Timer = due
    /\ gui(startTx2([window EXCEPT !.ptt1Timer = off]))
    /\ UNCHANGED clicks

TuneButtonTimer ==
    /\ window.tuneButtonTimer = due
    /\ gui(end_tuning([window EXCEPT !.tuneButtonTimer = off]))
    /\ UNCHANGED clicks

\* its time, of many seconds, is not modelled
TuneATU ==
    /\ window.tuneATU
    /\ gui(stopTuneATU(window))
    /\ UNCHANGED clicks

Click(w) == clicks < MaxClicks /\ gui(w) /\ clicks' = clicks + 1

\* also a double-click on a decode and the requests of UDP clients
EnableTx == Click(auto_tx_mode(window, TRUE))
DisableTx == window.auto /\ Click(auto_tx_mode(window, FALSE))
HaltTx == Click(on_stopTxButton_clicked(window))
Tune == LET checked == ~window.tune_button
        IN Click(on_tuneButton_clicked([window EXCEPT !.tune_button = checked], checked))
Monitor == Click(on_monitorButton_clicked(window, ~window.monitoring))

RigUpdate ==
    /\ rig.update # "none" /\ ~rig.failure
    /\ \E high_swr \in {FALSE, rig.update = "tx" /\ "swr" \in Incidents} :
          window' = posted(handle_transceiver_update(window, rig.update, high_swr))
    /\ rig' = [rig EXCEPT !.update = "none"]
    /\ UNCHANGED <<clock, modulator, clicks>>

\* Configuration closes the rig, which releases the radio
RigFailure ==
    /\ rig.failure
    /\ LET w == on_stopTxButton_clicked(window)
       IN /\ window' = [w EXCEPT !.commands = <<>>]
          /\ rig' = [state |-> "closed", ptt |-> FALSE, failure |-> FALSE,
                     update |-> IF w.auto = window.auto /\ w.tune = window.tune
                                THEN rig.update ELSE "none"]
    /\ UNCHANGED <<clock, modulator, clicks>>

\* the automatic retry or the user's; the cache of Configuration is reset
rigOpen ==
    /\ rig.state = "closed"
    /\ window' = [window EXCEPT !.ptt = FALSE]
    /\ rig' = [state |-> "online", ptt |-> FALSE, update |-> "none", failure |-> FALSE]
    /\ UNCHANGED <<clock, modulator, clicks>>

-----------------------------------------------------------------------------
(* The rig thread. *)

\* the update after a command is passed on if no command is left
update_after(commands, s) == IF commands = <<>> THEN s ELSE "none"

\* a rig that failed may do this until it is closed: see Configuration.tla
Obey ==
    /\ rig.state # "closed" /\ window.commands # <<>>
    /\ LET on == Head(window.commands)
       IN rig' = [rig EXCEPT !.ptt = on,
                             !.update = update_after(Tail(window.commands),
                                                     IF on THEN "tx" ELSE "rx")]
    /\ window' = [window EXCEPT !.commands = Tail(@)]
    /\ UNCHANGED <<clock, modulator, clicks>>

\* a poll, or the start of the rig
Poll ==
    /\ rig.state = "online" /\ window.commands = <<>> /\ rig.update = "none"
    /\ rig' = [rig EXCEPT !.update = IF rig.ptt THEN "tx" ELSE "rx"]
    /\ UNCHANGED <<window, clock, modulator, clicks>>

\* in a poll or in a command
Fail ==
    /\ RigFails /\ rig.state = "online"
    /\ \E left \in {window.commands} \cup
                   (IF window.commands = <<>> THEN {} ELSE {Tail(window.commands)}) :
          /\ window' = [window EXCEPT !.commands = left]
          /\ rig' = [state |-> "failed", ptt |-> FALSE, failure |-> TRUE,
                     update |-> update_after(left, "offline")]
    /\ UNCHANGED <<clock, modulator, clicks>>

-----------------------------------------------------------------------------
(* The audio thread. *)

start(m)   == [m EXCEPT !.active = TRUE]
stop(m)    == [m EXCEPT !.active = FALSE]
tune(m, newState) == IF newState THEN [m EXCEPT !.tuning = TRUE]
                     ELSE stop([m EXCEPT !.tuning = FALSE])

Modulate ==
    /\ window.sounds # <<>>
    /\ modulator' = CASE Head(window.sounds) = "start"  -> start(modulator)
                      [] Head(window.sounds) = "stop"   -> stop(modulator)
                      [] Head(window.sounds) = "tune"   -> tune(modulator, TRUE)
                      [] Head(window.sounds) = "untune" -> tune(modulator, FALSE)
    /\ window' = [window EXCEPT !.sounds = Tail(@)]
    /\ UNCHANGED <<clock, rig, clicks>>

\* readData reached the end of the message
readData ==
    /\ modulator.active /\ ~modulator.tuning
    /\ modulator' = stop(modulator)
    /\ UNCHANGED <<window, clock, rig, clicks>>

-----------------------------------------------------------------------------
elapsed(timer) == IF timer = off THEN off ELSE timer - 1

\* a unit of time passes once all that is due has been done
Pass ==
    /\ due \notin {window.guiTimer, window.ptt0Timer, window.ptt1Timer,
                   window.tuneButtonTimer}
    /\ Len(window.commands) <= MaxQueue /\ Len(window.sounds) <= MaxQueue
    /\ clock' = (clock + 1) % (2 * Period)
    /\ window' = [window EXCEPT !.guiTimer = elapsed(@), !.ptt0Timer = elapsed(@),
                                !.ptt1Timer = elapsed(@), !.tuneButtonTimer = elapsed(@)]
    /\ UNCHANGED <<rig, modulator, clicks>>

Next ==
    \/ GuiUpdate \/ Ptt0 \/ Ptt1 \/ TuneButtonTimer \/ TuneATU
    \/ EnableTx \/ DisableTx \/ HaltTx \/ Tune \/ Monitor
    \/ RigUpdate \/ RigFailure \/ rigOpen
    \/ Obey \/ Poll \/ Fail
    \/ Modulate \/ readData
    \/ Pass

Spec == Init /\ [][Next]_vars

\* the event loops of the three threads run, and a message ends
FairSpec ==
    /\ Spec
    /\ WF_vars(GuiUpdate) /\ WF_vars(Ptt0) /\ WF_vars(Ptt1) /\ WF_vars(TuneButtonTimer)
    /\ WF_vars(RigUpdate) /\ WF_vars(RigFailure) /\ WF_vars(Obey)
    /\ WF_vars(Modulate) /\ WF_vars(readData) /\ WF_vars(Pass)

-----------------------------------------------------------------------------
(* Properties. *)

Timer(units) == 0 .. units + 1

WindowState ==
    [auto : BOOLEAN, tune : BOOLEAN, tune_button : BOOLEAN, lastChecked : BOOLEAN,
     tuneATU : BOOLEAN, bTxTime : BOOLEAN, g_iptt : {0, 1}, btxok : BOOLEAN,
     btxok0 : BOOLEAN, tx_when_ready : BOOLEAN, transmitting : BOOLEAN,
     monitoring : BOOLEAN, rig_online : BOOLEAN, ptt : BOOLEAN,
     guiTimer : Timer(1), ptt0Timer : Timer(EndOfTx), ptt1Timer : Timer(TxDelay),
     tuneButtonTimer : Timer(EndOfTune), commands : Seq(BOOLEAN),
     sounds : Seq({"start", "stop", "tune", "untune"})]

\* Every variable keeps its type.
TypeOK ==
    /\ window \in WindowState
    /\ clock \in 0 .. 2 * Period - 1
    /\ rig \in [state : {"online", "failed", "closed"}, ptt : BOOLEAN,
                update : {"none", "rx", "tx", "offline"}, failure : BOOLEAN]
    /\ modulator \in [active : BOOLEAN, tuning : BOOLEAN]
    /\ clicks \in 0 .. MaxClicks

\* The PTT is never forgotten: while the radio is keyed with no command under
\* way, or the cache that goes with every command would key it, the sequencer is
\* in a transmission or has yet to lower the PTT (stopTx, stopTx2).
KeyedForATransmission ==
    window.ptt \/ (rig.ptt /\ window.commands = <<>>) =>
        window.g_iptt = 1 \/ window.ptt0Timer # off

\* A stop is never missed: guiUpdate sees the end of a transmission as the fall
\* of m_btxok, so that while PTT is up it must have seen it set the time before.
StopIsSeen == window.g_iptt = 1 => window.btxok0 /\ window.transmitting

\* The receiver is not running while the window transmits (transmitDisplay,
\* stopTx and the Monitor button share out m_monitoring).
HalfDuplex == window.transmitting => ~window.monitoring

\* A message is not sent as a tone: with nothing on its way to the audio thread
\* the Modulator is set to tune only while the window is tuning.
ToneOnlyWhenTuning ==
    window.sounds = <<>> /\ modulator.tuning => window.tune

\* guiUpdate leaves the station transmitting only in its slot or for a tune.
TransmitsInSlot ==
    [][window.guiTimer = due /\ window'.guiTimer # due /\ window'.g_iptt = 1
         => window'.tune \/ clock < TxLength]_vars

\* A station that is neither enabled nor tuning falls silent, the radio released
\* and the Modulator idle, whatever the timers were up to.
FallsSilent ==
    <>[](~window.auto /\ ~window.tune) => <>[](~rig.ptt /\ ~modulator.active)

\* Audio starts only in a transmission that has not been stopped.
AudioStartsInTransmission ==
    [][window'.sounds = Append(window.sounds, "start") => window.g_iptt = 1]_vars
=============================================================================
