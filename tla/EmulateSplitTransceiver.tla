------------------------- MODULE EmulateSplitTransceiver -------------------------
(***************************************************************************)
(* The transceiver a client gets from TransceiverFactory::create: a rig,   *)
(* and around it an EmulateSplitTransceiver if split is emulated.  That    *)
(* never tells the rig of split: it tunes it to the transmit dial for each *)
(* transmission and hides this from the client.  Both live in the rig      *)
(* thread and call each other directly, so a handler of the wrapper and    *)
(* the handler of the rig it calls are one action.                         *)
(*                                                                         *)
(* received is history: the frequencies the radio was tuned to by anyone,  *)
(* the emulation excepted.                                                 *)
(***************************************************************************)
EXTENDS Transceiver

CONSTANTS OneVFO, Readback, Throwing, Numbers, Requests, DialTurns

ASSUME EmulateSplitAssumption ==
    /\ Readback \in [Frequencies -> Frequencies]
    /\ Numbers \subseteq Nat
    /\ Requests \subseteq TransceiverState
    /\ DialTurns \subseteq Frequencies

VARIABLES
    object, command,               \* the rig: see TransceiverBase
    emulating,                     \* the rig is wrapped
    rx_frequency, tx_frequency, split, \* the wrapper's copy of the last request
    received

Wrapped == INSTANCE TransceiverBase

wrapper == <<rx_frequency, tx_frequency, split>>
rig == <<object, command>>
vars == <<rig, emulating, wrapper, received>>

-----------------------------------------------------------------------------
\* mutation: the rig stays on the receive dial if it transmits already
Mutant_emulated_state(s) ==
    [s EXCEPT !.frequency = IF s.ptt /\ s.split /\ ~object.requested.ptt
                            THEN s.tx_frequency ELSE @,
              !.split = FALSE, !.tx_frequency = 0]

\* the request as the rig gets it
emulated_state(s) ==
    [s EXCEPT !.frequency = IF s.ptt /\ s.split THEN s.tx_frequency ELSE @,
              !.split = FALSE, !.tx_frequency = 0]

\* mutation: what the rig is tuned to is not looked at
Mutant_transmit_dial(s) == s.ptt

\* the rig is on the transmit dial: it says it transmits, or did not say so yet
transmit_dial(s) ==
    s.ptt \/ (split /\ tx_frequency # 0 /\ s.frequency = tx_frequency /\ s.frequency # rx_frequency)

\* what the client is signalled for a signal e of the rig
handle_update(e) ==
    IF e.signal # "update" THEN e
    ELSE IF e.state.split THEN failure
    ELSE update([e.state EXCEPT !.frequency = IF transmit_dial(e.state) THEN rx_frequency ELSE @,
                                !.tx_frequency = tx_frequency, !.split = split], e.number)

signals == [i \in DOMAIN object.emits |->
              IF emulating THEN handle_update(object.emits[i]) ELSE object.emits[i]]

-----------------------------------------------------------------------------
Init ==
    /\ Wrapped!Init /\ emulating \in BOOLEAN
    /\ rx_frequency = 0 /\ tx_frequency = 0 /\ split = FALSE
    /\ received = {object.radio.frequency}

Start(n) == Wrapped!Start(n) /\ UNCHANGED <<emulating, wrapper, received>>

Set(s, n) ==
    /\ \/ /\ emulating
          /\ rx_frequency' = s.frequency /\ tx_frequency' = s.tx_frequency /\ split' = s.split
          /\ Wrapped!Set(emulated_state(s), n)
       \/ ~emulating /\ UNCHANGED wrapper /\ Wrapped!Set(s, n)
    /\ received' = received \cup {s.frequency}
    /\ UNCHANGED emulating

Stop == Wrapped!Stop /\ UNCHANGED <<emulating, wrapper, received>>

Poll ==
    /\ Wrapped!Poll
    /\ UNCHANGED <<emulating, wrapper, received>>

\* the radio reports a poll late that it was keyed
LatePoll ==
    /\ object.timer /\ object.radio.ptt
    /\ command' = "poll"
    /\ LET unkeyed == [object EXCEPT !.radio.ptt = FALSE, !.emits = <<>>]
       IN object' = [Wrapped!handle_timeout(unkeyed, {}, {}) EXCEPT !.radio.ptt = TRUE]
    /\ UNCHANGED <<emulating, wrapper, received>>

RadioOperated ==
    /\ Wrapped!RadioOperated
    /\ received' = received \cup {object'.radio.frequency}
    /\ UNCHANGED <<emulating, wrapper>>

\* the operator switches the radio to split
SplitAtRadio ==
    /\ emulating /\ command \notin {"create", "stop"}
    /\ ~object.radio.split
    /\ object' = [object EXCEPT !.radio.split = TRUE, !.emits = <<>>]
    /\ command' = "radio"
    /\ UNCHANGED <<emulating, wrapper, received>>

Create ==
    /\ Wrapped!Create
    /\ rx_frequency' = 0 /\ tx_frequency' = 0 /\ split' = FALSE
    /\ received' = {object.radio.frequency}
    /\ UNCHANGED emulating

Next ==
    \/ \E n \in Numbers : Start(n)
    \/ \E n \in Numbers, s \in Requests : Set(s, n)
    \/ Stop
    \/ Poll
    \/ LatePoll
    \/ RadioOperated
    \/ SplitAtRadio
    \/ Create

Spec == Init /\ [][Next]_vars

\* the poll timer fires for ever once it is started
FairSpec == Spec /\ WF_vars(Poll \/ LatePoll)

-----------------------------------------------------------------------------
(* Properties. *)

\* Split emulated, a request that leaves the rig transmitting in split leaves it on the
\* transmit dial, not on the receive dial or that of a former request, also when it changes
\* dials, PTT and split at once, after any poll and failure: set tunes the rig before it keys
\* it, and leaves it alone only where it is on record to be.  A dial turned at the radio and
\* not polled yet is not on record.  For requests that are no audio commands: such a one moves
\* no dial, and the wrapper copies its dials nevertheless.
TransmitsOnTxDial ==
    [][/\ command' = "set" /\ emulating /\ split'
       /\ object'.requested.online /\ object'.requested.ptt
       /\ object'.radio.ptt /\ ~object'.radio.split
       /\ ~object.requested.online \/ object.requested.frequency = object.radio.frequency
       => object'.radio.frequency = tx_frequency']_vars

\* The frequency the emulation tunes the rig to is never signalled to the client as the rig's
\* dial, for any moment at which PTT is polled and any request that changes the transmit dial
\* (test_emulate_split_transceiver.cpp: "fakeSplitDoesNotPublishTransientTxDialAsRxDial"),
\* unless a failure follows at once.  Again for requests that are no audio commands.
TxDialIsHidden ==
    emulating =>
        \A i \in DOMAIN signals :
            signals[i].signal = "update" =>
                \/ signals[i].state.frequency \in received \cup {0}
                \/ i < Len(signals) /\ signals[i + 1] = failure

\* The rig accepted a tune command while it was keyed: do_tune puts PTT on record as off
\* (HamlibTransceiver.cpp:1322) though the rig transmits.
TunedOnAir ==
    /\ command = "set" /\ object.requested.audio = Tune
    /\ object.radio.ptt /\ ~object.actual.ptt

\* A poll that withholds a change does so only a bounded number of times: what the clients
\* know catches up with what was read from the rig again and again, whatever the order of
\* commands, polls and dial turns, unless the rig was once tuned on the air.  The PTT off then
\* signalled may stay with the clients: the next poll reads PTT on, the state that was last
\* signalled from a poll, and signals nothing (PollingTransceiver.cpp:164).
ClientsCatchUp ==
    \/ []<>(~object.timer \/ object.last = object.actual)
    \/ <>TunedOnAir

=============================================================================
