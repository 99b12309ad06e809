---------------------------- MODULE HamlibTransceiver ----------------------------
(***************************************************************************)
(* What HamlibTransceiver does with the radio: the template methods do_*   *)
(* that TransceiverBase and PollingTransceiver call.                       *)
(*                                                                         *)
(* A transceiver object is a record o; every operator below takes the      *)
(* object and returns it as the method leaves it.  A C++ exception is the  *)
(* flag o.thrown: a method called while it is set is one the code never    *)
(* reaches and leaves the object alone.  The parameter X is the set of CAT *)
(* calls that fail during the handler being executed.  A PTT call may fail *)
(* in two ways: the rig ignored it ("ptt"), or the rig obeyed and the      *)
(* confirmation was lost ("ptt_late").                                     *)
(*                                                                         *)
(* do_stop is left out: it closes the connection ignoring any error and    *)
(* changes nothing of o.  No sub class's do_stop throws.                   *)
(*                                                                         *)
(* o.radio is the radio itself, external to the program: its receive VFO,  *)
(* its transmit VFO, its split switch, mode and whether it is keyed.       *)
(* o.unkey_failed and o.gave_up are history: the radio refused the last    *)
(* call to unkey it; the radio is in split as a call to leave split failed *)
(* or was not made because of an error.                                    *)
(***************************************************************************)
EXTENDS Transceiver

CONSTANTS
    OneVFO,    \* the rig is addressed one VFO at a time (one_VFO_)
    Readback,  \* what the rig reads back after a frequency is set
    Throwing   \* the CAT calls that may fail

CatCalls == {"start", "freq", "mode", "tickle", "tx", "ptt", "ptt_late",
             "tune", "poll"}

ASSUME HamlibAssumption ==
    /\ OneVFO \in BOOLEAN
    /\ Readback \in [Frequencies -> Frequencies]
    /\ Throwing \subseteq CatCalls

Radio ==
    [frequency : Frequencies, tx_frequency : Frequencies, split : BOOLEAN,
     mode : Modes, ptt : BOOLEAN]

throw(o) == [o EXCEPT !.thrown = TRUE]

-----------------------------------------------------------------------------
(* TransceiverBase's setters: what a sub class reports.  A receive         *)
(* frequency and a mode read from the rig also become the requested ones.  *)

update_rx_frequency(o, f) ==
    IF f = 0 THEN o
             ELSE [o EXCEPT !.actual.frequency = f, !.requested.frequency = f]

update_other_frequency(o, f) == [o EXCEPT !.actual.tx_frequency = f]

update_split(o, b) == [o EXCEPT !.actual.split = b]

update_mode(o, m) == [o EXCEPT !.actual.mode = m, !.requested.mode = m]

update_PTT(o, b) == [o EXCEPT !.actual.ptt = b]

-----------------------------------------------------------------------------
do_poll(o, X) ==
    IF o.thrown THEN o
    ELSE IF "poll" \in X THEN throw(o)
    ELSE LET a == update_split(o, o.radio.split)
             receiving == ~a.actual.ptt \/ ~a.actual.split
             b == IF receiving THEN update_rx_frequency(a, a.radio.frequency) ELSE a
             c == IF b.actual.split /\ ~OneVFO
                  THEN update_other_frequency(b, b.radio.tx_frequency) ELSE b
             d == IF receiving THEN update_mode(c, c.radio.mode) ELSE c
         IN update_PTT(d, d.radio.ptt)

\* opening the rig ends with a poll
do_start(o, X) ==
    IF o.thrown THEN o
    ELSE IF "start" \in X THEN throw(o)
    ELSE do_poll([o EXCEPT !.tickle_hamlib = TRUE], X)

do_ptt(o, on, X) ==
    CASE o.thrown -> o
      [] ~o.thrown /\ "ptt" \in X -> throw([o EXCEPT !.unkey_failed = ~on])
      [] ~o.thrown /\ "ptt_late" \in X ->
             throw([o EXCEPT !.radio.ptt = on, !.unkey_failed = FALSE])
      [] OTHER -> update_PTT([o EXCEPT !.radio.ptt = on, !.unkey_failed = FALSE], on)

\* of the audio commands only tune means something to a Hamlib rig; PTT shows
\* as on until the rig has accepted it
do_audio(o, a, X) ==
    CASE a # Tune -> o
      [] a = Tune /\ "tune" \in X -> throw(update_PTT(o, TRUE))
      [] OTHER -> update_PTT(o, FALSE)

\* ignored while transmitting split on a rig addressed one VFO at a time
do_frequency(o, f, m, no_ignore, X) ==
    IF o.thrown \/ (o.actual.ptt /\ o.actual.split /\ OneVFO /\ ~no_ignore) THEN o
    ELSE IF "freq" \in X THEN throw(o)
    ELSE LET a == update_rx_frequency([o EXCEPT !.radio.frequency = Readback[f]], f)
         IN IF m = UNK THEN a
            ELSE IF "mode" \in X THEN throw(a)
            ELSE update_mode([a EXCEPT !.radio.mode = m], m)

\* the first time in a session split is switched on beforehand
tickle(o, X) ==
    IF o.thrown \/ ~o.tickle_hamlib THEN o
    ELSE IF "tickle" \in X THEN throw(o)
    ELSE update_split([o EXCEPT !.radio.split = TRUE, !.tickle_hamlib = FALSE], TRUE)

set_tx_vfo(o, tx, X) ==
    IF o.thrown THEN o
    ELSE IF "tx" \in X THEN throw(o)
    ELSE update_other_frequency(
            [o EXCEPT !.radio.tx_frequency = Readback[tx], !.radio.split = TRUE,
                      !.gave_up = FALSE], tx)

do_tx_frequency(o, tx, no_ignore, X) ==
    IF o.thrown THEN o
    ELSE IF tx = 0
    THEN IF "tx" \in X THEN throw([o EXCEPT !.gave_up = o.radio.split])
         ELSE update_split(update_other_frequency([o EXCEPT !.radio.split = FALSE], 0), FALSE)
    ELSE LET a == tickle(o, X)
             b == set_tx_vfo(a, tx, X)
         IN IF a.actual.ptt /\ OneVFO THEN b
            ELSE IF a.thrown \/ (OneVFO /\ ~no_ignore) THEN a
            ELSE IF b.thrown THEN b
            ELSE update_split(b, TRUE)

=============================================================================
