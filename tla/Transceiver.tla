------------------------------- MODULE Transceiver -------------------------------
(***************************************************************************)
(* The value types of Transceiver/Transceiver.hpp: the aggregate state     *)
(* that a client requests of a rig and that a rig reports back, and the    *)
(* signals a Transceiver object emits.                                     *)
(*                                                                         *)
(* The TCI audio settings (audio, tx_audio, period, blocksize, ...) and    *)
(* tune are one field, audio: any difference makes the request an audio    *)
(* command.  Volumes and the meter readings (level,   *)
(* power, swr) are left out: no control decision of the classes modelled   *)
(* here reads them.                                                        *)
(***************************************************************************)
EXTENDS Naturals, Sequences

CONSTANTS
    Frequencies,   \* dial frequencies in use, natural numbers without 0
    Modes,         \* operating modes other than UNK
    AudioSettings  \* values of the TCI audio settings and of tune

ASSUME FrequenciesAssumption == Frequencies \subseteq Nat \ {0}

\* the default settings, and those that ask the rig to tune its antenna
Untouched == "untouched"
Tune == "tune"

ASSUME AudioAssumption == Untouched \in AudioSettings

\* "don't know and don't care" mode; the code's 0 frequency is "none"
UNK == "UNK"

ModesOrUNK == Modes \cup {UNK}

TransceiverState ==
    [online : BOOLEAN,
     frequency : Frequencies \cup {0},
     mode : ModesOrUNK,
     tx_frequency : Frequencies \cup {0},
     split : BOOLEAN,
     ptt : BOOLEAN,
     audio : AudioSettings]

\* TransceiverState {}
NoState ==
    [online |-> FALSE, frequency |-> 0, mode |-> UNK, tx_frequency |-> 0,
     split |-> FALSE, ptt |-> FALSE, audio |-> Untouched]

-----------------------------------------------------------------------------
(* Signals. *)

update(s, n) == [signal |-> "update", state |-> s, number |-> n]
failure      == [signal |-> "failure"]
finished     == [signal |-> "finished"]

-----------------------------------------------------------------------------
(* The signals a handler may emit, in order, on a command with number n or *)
(* while n is the last command's number; R is the set of online states the *)
(* rig reports.                                                            *)

\* the offline state, if it was not reported before
MaybeOffline(n) == {<<>>, <<update(NoState, n)>>}

\* a command was obeyed
Obeyed(R, n) == {<<update(s, n)>> : s \in R}

\* a command went wrong: while the rig was being started, or after that
NotStarted(n) == {<<failure, update(NoState, n)>>}
Refused(R, n) ==
    {<<update(s, n), failure>> \o post : s \in R, post \in MaybeOffline(n)}

\* a request that comes while the rig is offline starts it anew
After(n, E) == {pre \o e : pre \in MaybeOffline(n), e \in E}

\* the rig fails of its own accord; the rig is stopped
Faults(n) == {<<failure>> \o post : post \in MaybeOffline(n)}
Endings(n) == After(n, {<<finished>>})

=============================================================================
