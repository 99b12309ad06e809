------------------------------ MODULE Configuration ------------------------------
(***************************************************************************)
(* Rig management: the GUI thread's Configuration::impl and the rig thread *)
(* that runs the Transceiver objects, joined by queued signals.            *)
(*                                                                         *)
(* Qt delivers a queued signal by posting an event to the receiver's       *)
(* thread, so there is one FIFO per thread: to_rigs holds the calls for    *)
(* all rig objects, to_gui the signals for Configuration.  disconnect()    *)
(* stops later emissions and leaves the events already posted in place.    *)
(*                                                                         *)
(* A GUI handler is one action.  A rig handler runs to completion in its   *)
(* own thread, but the GUI may act between two of its emissions: its       *)
(* signals wait in emitting and are posted one by one, and the next        *)
(* handler of the rig thread starts when they are gone.                    *)
(*                                                                         *)
(* A rig is what TransceiverContract promises.  Rig objects are numbered   *)
(* in the order in which open_rig creates them; they all control the one   *)
(* radio.                                                                  *)
(***************************************************************************)
EXTENDS Transceiver

CONSTANTS
    IsTci,         \* the rig is a TCI rig (is_tci_)
    SplitMode,     \* a split mode is configured (split_mode ())
    DataModes,     \* the modes data_mode_ enforces, UNK for "leave alone"
    Reports,       \* the online states that rigs report
    MaxRigs,       \* bound on the rig objects created
    MaxCommands,   \* bound on transceiver_command_number_
    MaxEvents      \* bound on the GUI events outstanding when a rig reports a change

ASSUME ConfigurationAssumption ==
    /\ IsTci \in BOOLEAN /\ SplitMode \in BOOLEAN
    /\ DataModes \subseteq ModesOrUNK /\ DataModes # {}
    /\ Reports \subseteq {s \in TransceiverState : s.online}
    /\ MaxRigs \in Nat /\ MaxCommands \in Nat /\ MaxEvents \in Nat

VARIABLES
    rig_active,    \* rig_active_: the newest rig is connected
    newest,        \* number of rig objects created so far
    cached,        \* cached_rig_state_
    command_number, \* transceiver_command_number_
    rigs,          \* the rig objects
    to_rigs,       \* events posted to the rig thread
    to_gui,        \* events posted to the GUI thread
    emitting,      \* signals of the running rig handler yet to be emitted
    reported,      \* history: the last update passed on to clients
    asked          \* history: dial frequency last asked for by, or told to, clients

gui == <<rig_active, newest, cached, command_number, reported, asked>>
vars == <<gui, rigs, to_rigs, to_gui, emitting>>

Rigs == 1 .. MaxRigs
CommandNumbers == 0 .. MaxCommands

\* the rig whose signals and slots are connected to Configuration
connected(r) == rig_active /\ r = newest

-----------------------------------------------------------------------------
Init ==
    /\ rig_active = FALSE
    /\ newest = 0
    /\ cached = NoState
    /\ command_number = 0
    /\ rigs = [r \in Rigs |-> [life |-> "created", online |-> FALSE, number |-> 0]]
    /\ to_rigs = <<>>
    /\ to_gui = <<>>
    /\ emitting = [rig |-> 0, signals |-> <<>>]
    /\ reported = [rig |-> 0, number |-> 0]
    /\ asked = 0

-----------------------------------------------------------------------------
(* The GUI thread. *)

start_call(r, n)  == [rig |-> r, call |-> "start", state |-> NoState, number |-> n]
set_call(r, s, n) == [rig |-> r, call |-> "set", state |-> s, number |-> n]
stop_call(r)      == [rig |-> r, call |-> "stop", state |-> NoState, number |-> 0]

\* mutation: disconnect without stop
Mutant_closing == to_rigs

\* mutation: stop is emitted without looking at rig_active_
Mutant_closing_always == Append(to_rigs, stop_call(newest))

\* close_rig: the event queue of the rig thread that it leaves
closing == IF rig_active THEN Append(to_rigs, stop_call(newest)) ELSE to_rigs

\* mutation: the new rig is started before the old one is closed
Mutant_open_rig_order ==
    /\ newest < MaxRigs /\ command_number < MaxCommands
    /\ rig_active' = TRUE
    /\ newest' = newest + 1
    /\ cached' = NoState
    /\ command_number' = command_number + 1
    /\ to_rigs' = LET t == Append(to_rigs, start_call(newest + 1, command_number + 1))
                  IN IF rig_active THEN Append(t, stop_call(newest)) ELSE t
    /\ asked' = 0
    /\ UNCHANGED <<rigs, to_gui, emitting, reported>>

\* mutation: the start of a rig is not counted as a command
Mutant_open_rig_number ==
    /\ newest < MaxRigs
    /\ rig_active' = TRUE
    /\ newest' = newest + 1
    /\ cached' = NoState
    /\ to_rigs' = Append(closing, start_call(newest + 1, command_number))
    /\ asked' = 0
    /\ UNCHANGED <<command_number, rigs, to_gui, emitting, reported>>

\* open_rig (force): also when a rig is active, if its parameters changed
open_rig ==
    /\ newest < MaxRigs /\ command_number < MaxCommands
    /\ rig_active' = TRUE
    /\ newest' = newest + 1
    /\ cached' = NoState
    /\ command_number' = command_number + 1
    /\ to_rigs' = Append(closing, start_call(newest + 1, command_number + 1))
    /\ asked' = 0
    /\ UNCHANGED <<rigs, to_gui, emitting, reported>>

\* transceiver_offline, and open_rig when the factory cannot create the rig
close_rig ==
    /\ rig_active
    /\ rig_active' = FALSE
    /\ to_rigs' = closing
    /\ UNCHANGED <<newest, cached, command_number, rigs, to_gui, emitting, reported, asked>>

\* mutation: the number is advanced after it was sent
Mutant_set_transceiver_late(s) ==
    /\ command_number < MaxCommands
    /\ cached' = s
    /\ command_number' = command_number + 1
    /\ to_rigs' = IF rig_active
                  THEN Append(to_rigs, set_call(newest, s, command_number)) ELSE to_rigs
    /\ UNCHANGED <<rig_active, newest, rigs, to_gui, emitting, reported>>

\* Q_EMIT set_transceiver (cached_rig_state_, ++transceiver_command_number_)
set_transceiver(s) ==
    /\ command_number < MaxCommands
    /\ cached' = s
    /\ command_number' = command_number + 1
    /\ to_rigs' = IF rig_active
                  THEN Append(to_rigs, set_call(newest, s, command_number + 1))
                  ELSE to_rigs
    /\ UNCHANGED <<rig_active, newest, rigs, to_gui, emitting, reported>>

transceiver_frequency(f) ==
    /\ \E m \in DataModes :
         set_transceiver([cached EXCEPT !.online = TRUE, !.mode = m, !.frequency = f])
    /\ asked' = f

transceiver_tx_frequency(f) ==
    /\ SplitMode
    /\ \E m \in DataModes :
         set_transceiver([cached EXCEPT !.online = TRUE, !.mode = m,
                                        !.split = f # 0, !.tx_frequency = f])
    /\ UNCHANGED asked

transceiver_mode(m) ==
    /\ set_transceiver([cached EXCEPT !.online = TRUE, !.mode = m])
    /\ UNCHANGED asked

transceiver_ptt(on) ==
    /\ \E m \in DataModes :
         set_transceiver([cached EXCEPT !.online = TRUE, !.mode = m, !.ptt = on])
    /\ UNCHANGED asked

\* the audio commands: not sent when the cache already holds the setting
transceiver_audio(a) ==
    \E m \in DataModes :
        LET s == [cached EXCEPT !.online = TRUE, !.mode = m, !.audio = a]
        IN \/ /\ cached.audio # a
              /\ set_transceiver(s)
              /\ UNCHANGED asked
           \/ /\ cached.audio = a
              /\ cached' = s
              /\ UNCHANGED <<rig_active, newest, command_number, reported, asked,
                             rigs, to_rigs, to_gui, emitting>>

\* tune is sent even if the cache holds it
transceiver_tune(on) ==
    /\ \E m \in DataModes :
         set_transceiver([cached EXCEPT !.online = TRUE, !.mode = m,
                                        !.audio = IF on THEN Tune ELSE Untouched])
    /\ UNCHANGED asked

\* a new volume, which the model leaves out, is sent with the rest of the cache
transceiver_volume ==
    /\ \E m \in DataModes : set_transceiver([cached EXCEPT !.online = TRUE, !.mode = m])
    /\ UNCHANGED asked

\* the next event posted to the GUI thread
event == Head(to_gui).what
sender == Head(to_gui).from

\* follow the rig on some information even if the update is not current;
\* pass it on to the clients only if it is
handle_transceiver_update ==
    /\ to_gui # <<>> /\ event.signal = "update"
    /\ LET s == event.state
           current == event.number = command_number
           closes == ~s.online /\ (IsTci => current)
       IN /\ cached' = [cached EXCEPT !.online = s.online, !.frequency = s.frequency,
                                      !.mode = IF IsTci THEN @ ELSE s.mode,
                                      !.split = s.split]
          /\ rig_active' = (rig_active /\ ~closes)
          /\ to_rigs' = IF closes THEN closing ELSE to_rigs
          /\ reported' = IF current THEN [rig |-> sender, number |-> event.number]
                         ELSE reported
          /\ asked' = IF current THEN s.frequency ELSE asked
    /\ to_gui' = Tail(to_gui)
    /\ UNCHANGED <<newest, command_number, rigs, emitting>>

handle_transceiver_failure ==
    /\ to_gui # <<>> /\ event.signal = "failure"
    /\ rig_active' = FALSE
    /\ to_rigs' = closing
    /\ to_gui' = Tail(to_gui)
    /\ UNCHANGED <<newest, cached, command_number, reported, asked, rigs, emitting>>

-----------------------------------------------------------------------------
(* The rig thread. *)

idle == emitting.signals = <<>>

\* rig r ran a handler: its signals e are yet to be emitted
ran(r, e, life, online, n) ==
    /\ rigs' = [rigs EXCEPT ![r] = [life |-> life, online |-> online, number |-> n]]
    /\ emitting' = [rig |-> r, signals |-> e]

replied(r, n, well, wrong) ==
    \/ \E e \in well : ran(r, e, "running", TRUE, n)
    \/ \E e \in wrong : ran(r, e, "running", FALSE, n)

next_call(c) ==
    /\ idle /\ to_rigs # <<>> /\ Head(to_rigs).call = c
    /\ to_rigs' = Tail(to_rigs)
    /\ UNCHANGED <<gui, to_gui>>

start ==
    /\ next_call("start")
    /\ LET r == Head(to_rigs).rig
           n == Head(to_rigs).number
       IN replied(r, n, Obeyed(Reports, n), NotStarted(n))

set ==
    /\ next_call("set")
    /\ LET r == Head(to_rigs).rig
           n == Head(to_rigs).number
       IN \/ /\ rigs[r].online
             /\ replied(r, n, Obeyed(Reports, n), Refused(Reports, n))
          \/ /\ ~rigs[r].online
             /\ replied(r, n, After(n, Obeyed(Reports, n)),
                              After(n, NotStarted(n) \cup Refused(Reports, n)))

stop ==
    /\ next_call("stop")
    /\ LET r == Head(to_rigs).rig
       IN \E e \in Endings(rigs[r].number) : ran(r, e, "stopped", FALSE, rigs[r].number)

\* a poll of the rig, or the rig of its own accord
notice(r) ==
    /\ Len(to_gui) < MaxEvents
    /\ idle /\ rigs[r].life = "running" /\ rigs[r].online
    /\ LET n == rigs[r].number
       IN \/ \E e \in Obeyed(Reports, n) : ran(r, e, "running", TRUE, n)
          \/ \E e \in Faults(n) : ran(r, e, "running", FALSE, n)
    /\ UNCHANGED <<gui, to_rigs, to_gui>>

\* an emission reaches the GUI only while the rig is connected; finished is
\* connected to the object's own deleteLater
emit ==
    /\ ~idle
    /\ emitting' = [emitting EXCEPT !.signals = Tail(@)]
    /\ LET e == Head(emitting.signals)
       IN to_gui' = IF e # finished /\ connected(emitting.rig)
                    THEN Append(to_gui, [from |-> emitting.rig, what |-> e])
                    ELSE to_gui
    /\ UNCHANGED <<gui, rigs, to_rigs>>

-----------------------------------------------------------------------------
GuiRequest ==
    \/ open_rig
    \/ close_rig
    \/ \E f \in Frequencies : transceiver_frequency(f)
    \/ \E f \in Frequencies \cup {0} : transceiver_tx_frequency(f)
    \/ \E m \in Modes : transceiver_mode(m)
    \/ \E on \in BOOLEAN : transceiver_ptt(on)
    \/ \E a \in AudioSettings : transceiver_audio(a)
    \/ \E on \in {b \in BOOLEAN : b => Tune \in AudioSettings} : transceiver_tune(on)
    \/ transceiver_volume

GuiEvent == handle_transceiver_update \/ handle_transceiver_failure

RigCall == start \/ set \/ stop

Next == GuiRequest \/ GuiEvent \/ RigCall \/ emit \/ \E r \in Rigs : notice(r)

Spec == Init /\ [][Next]_vars

\* both event loops keep processing the events posted to them; a poll timer
\* delays the calls posted to the rig thread but does not for ever overtake them
FairSpec == Spec /\ WF_vars(GuiEvent) /\ WF_vars(emit) /\ SF_vars(RigCall)

-----------------------------------------------------------------------------
(* Properties. *)

Calls == [rig : Rigs, call : {"start", "set", "stop"}, state : TransceiverState,
          number : CommandNumbers]

Signals == [signal : {"update"}, state : TransceiverState, number : CommandNumbers]
           \cup {failure, finished}

TypeOK ==
    /\ rig_active \in BOOLEAN
    /\ newest \in 0 .. MaxRigs
    /\ cached \in TransceiverState
    /\ command_number \in CommandNumbers
    /\ rigs \in [Rigs -> [life : {"created", "running", "stopped"}, online : BOOLEAN,
                          number : CommandNumbers]]
    /\ to_rigs \in Seq(Calls)
    /\ to_gui \in Seq([from : Rigs, what : Signals \ {finished}])
    /\ emitting \in [rig : 0 .. MaxRigs, signals : Seq(Signals)]
    /\ reported \in [rig : 0 .. MaxRigs, number : CommandNumbers]
    /\ asked \in Frequencies \cup {0}

\* Two rig objects never have the radio's port open at once, however opens,
\* closes and failures interleave with the commands still queued.
OneRigOnline == \A r, q \in Rigs : rigs[r].online /\ rigs[q].online => r = q

\* An update on its way whose number is the current command number, the one
\* the clients will be shown, comes from the newest rig, and no command is
\* still waiting for the rig thread: a state from before the latest command
\* never reaches the clients.
Outstanding(n) ==
    \/ \E i \in DOMAIN to_gui : to_gui[i].what.signal = "update" /\ to_gui[i].what.number = n
    \/ \E i \in DOMAIN emitting.signals :
         emitting.signals[i].signal = "update" /\ emitting.signals[i].number = n

CurrentUpdatesAreLatest ==
    Outstanding(command_number) =>
        /\ rigs[newest].number = command_number
        /\ \A i \in DOMAIN to_rigs : to_rigs[i].call = "stop"

\* Every command sent to an active rig is answered to the clients, unless the
\* rig is closed or the next command is given first.
EveryCommandAnswered ==
    \A n \in CommandNumbers :
        rig_active /\ command_number = n
            ~> ~rig_active \/ command_number # n \/ reported.number = n

\* Every rig object that was closed or replaced is stopped, hence finished and
\* destroyed, in the end.
ClosedRigsFinish ==
    \A r \in Rigs : (r < newest \/ (r = newest /\ ~rig_active)) ~> rigs[r].life = "stopped"

\* "thus avoiding any unwanted ping-pong due to signals crossing in transit":
\* a command does not move the rig to another frequency than the one clients
\* last asked for or were told of.
NoPingPong ==
    [][Len(to_rigs') > Len(to_rigs) /\ to_rigs'[Len(to_rigs')].call = "set"
        => to_rigs'[Len(to_rigs')].state.frequency = asked']_vars

=============================================================================
