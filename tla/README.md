# WSJT-X: a model of its rig control, sequencing, decode cycle and spot upload

WSJT-X exchanges short digital messages between amateur radio stations in time
slots synchronised to UTC.  The program keys a real transmitter: what must not go
wrong is which rig is told what, in which order, when the transmitter is on, and
that it goes off again.  These modules model that part first: from the buttons and the
100 ms timer of the main window, through the rig management of `Configuration` and
the queued signals to the rig thread, to the CAT calls of a Hamlib rig.  Beside it they
model three protocols of the main window: Fox's conduct of several QSOs at once, the
exchange with the decoder process, and the upload of spots to WSPRnet.

Paths are relative to the root of the repository, line numbers those of the
commit the modules were written from.  `PROJECT.json` maps every definition
to its lines.

## 1. Inventory

### Threads and how they interact

* The **GUI thread** runs `MainWindow` and `Configuration`: buttons, menus,
  single-shot timers and `guiUpdate` every 100 ms, one handler at a time.
* The **rig thread** runs the `Transceiver` objects.  `Configuration` reaches them
  with queued signals (start, set, stop), they answer with queued signals (update,
  failure, finished).  A queued signal is an event posted to the receiver's thread;
  disconnecting stops later emissions but does not remove events already posted.
* The **audio thread** runs `Modulator`, `Detector` and the sound devices; `Modulator`
  is told with queued signals, `isActive()` is read without synchronisation.
* The **decoder** `jt9` is a process, fed through shared memory and read through a pipe.
* Reporting (PSK Reporter, WSPRnet, UDP clients) runs in the GUI thread over
  asynchronous sockets.

### Components

| Component | State | Operations | What is hard | What makes it correct |
|---|---|---|---|---|
| Transceiver base and polling (`src/Transceiver/`) | requested, actual and last signalled state; retries; poll timer; command number | `start`, `set`, `stop`, `handle_timeout` | any CAT call throws in the middle of a handler; updates withheld while the rig settles | every command is answered; the radio is left unkeyed and simplex; clients catch up with the rig |
| Hamlib transceiver | the radio and the connection to it | `do_*` methods | calls that fail, also after they took effect | the state reported is what the rig was told or said |
| Split emulation (`src/Transceiver/EmulateSplitTransceiver.cpp`) | wrapped rig, last request | `set`, `handle_update` | the rig below acts only on changes, and reports late that it transmits | transmissions on the transmit dial; the client never sees it as the receive dial |
| Other back ends | the rig's protocol | as a transceiver | protocols of their own | keep a transceiver's contract |
| Rig management (`src/Configuration.cpp`) | cached state, command number, connections, `rig_active_` | `open_rig`, `close_rig`, `transceiver_*`, update and failure handlers | signals crossing in transit; rigs replaced while events are queued | stale updates never reach the clients; one rig at a time; every rig is stopped |
| T/R sequencing (`src/widgets/mainwindow.cpp`, `src/Modulator/`) | about twenty flags, four sequencer timers, the Modulator | `guiUpdate`, Enable Tx, Halt Tx, Tune, Monitor, rig updates and failures, timers | edges seen only at ticks; timers that outlive what started them; three threads | PTT never forgotten; no audio and no transmission when stopped; falls silent |
| Automatic message sequence (`auto_sequence` 7496, `processMessage` 8918) | QSO progress, selected message | a decode addressed to us, a click | late and repeated decodes | a QSO goes forward and is logged once |
| Fox mode (14261-15110) | list and queue of callers, list and map of QSOs, what was logged | select a caller, receive, transmit, 13 s removal | four lists kept by two windows, a timer and the sequencer; four ways to time out | no call twice in QSO; RR73 only for a report; every QSO ends |
| Decode cycle (`dataSink` 2246, `decode` 5375, `readFromStdout` 6132, `decodeDone` 5707, `src/lib/jt9a.f90`) | busy flag, half-symbol count, shared memory, output of `jt9` | new audio, start, result line, finished | a decoder late or hung; flags shared by three decodes of a period | GUI and decoder stay in step; results and files are of their period |
| WSPR scheduling and hopping (`src/WSPR/`, 13705) | tables of slots, next band, `m_ntr` | schedule, end of slot | sequences never keyed; tune-up flag | the duty cycle is kept, scheduling never stalls |
| WSPRnet upload (`src/Network/wsprnet.cpp`, 13622) | spot file and queue, outstanding requests, timers | post, upload, work, reply, abort | replies out of order and late, errors; one file and one queue for two modes | no spot lost or sent twice; a fault's effects end |
| PSK Reporter (`src/Network/PSKReporter.cpp`) | spot queue, cache, descriptors | add spot, report, reconnect | errors after dequeue; bounded queue | no spot lost silently |
| UDP clients (`src/Network/MessageClient.cpp`) | server address, schema, backlog | look-up, message, send | look-ups out of order | backlog sent once, with the negotiated schema |
| Downloads, logbook services, settings, models, widgets | files and tables | - | little: sequential | - |
| `lib/` | - | numerical encoders and decoders | numerical | out of a model checker's reach |
| `map65/`, `qmap/`, `UDPExamples/`, vendored code | - | programs of their own | - | - |

The hazards of each, with their lines, are in `PROJECT.json`.

## 2. Modules

| Module | Models |
|---|---|
| `Transceiver` | states, signals and sequences of signals (`Transceiver.hpp`) |
| `TransceiverContract` | the abstract specification: what a transceiver promises its client |
| `HamlibTransceiver` | the `do_*` methods over a radio, each able to fail |
| `PollingTransceiver` | expected states, retries, elided updates, the poll timer |
| `TransceiverBase` | one rig object: `start`, `set`, `stop`, polls; composes the two above, and implements `TransceiverContract` |
| `TransceiverBase_proofs` | its theorems |
| `EmulateSplitTransceiver` | what `TransceiverFactory` makes: a rig, wrapped or not to emulate split; composes `TransceiverBase` (`Wrapped`) |
| `EmulateSplit_proofs` | its theorems |
| `Configuration` | GUI thread and rig thread with any number of rig objects in succession, each what the contract's signal sequences allow |
| `Configuration_proofs` | its theorems |
| `TxSequencer` | main window, rig and Modulator: the T/R sequencer of the slotted modes |
| `TxSequencer_proofs`, `TxSequencerWindow_proofs` | its theorems: about the PTT, and about the window and the Modulator |
| `FoxSequencer` | Fox mode: operator, Hounds, the sequencer and its timers |
| `FoxSequencer_proofs` | its theorems |
| `DecodeCycle` | main window and decoder process over the periods of FT8 |
| `DecodeCycle_proofs` | its theorems |
| `WSPRNet` | the upload of WSPR and FST4W spots, from the decoders to the server |
| `WSPRNet_proofs` | its theorems |
| `MC_*` | instances for TLC; `DecodeCycle` has plain constants and needs none |

### TransceiverBase, over PollingTransceiver and HamlibTransceiver

The state is one record, `object`: `requested_`, `actual_`, `last_` and
`last_sequence_number_` of `TransceiverBase`; `next_state_`, `last_signalled_state_`,
`retries_` and the running timer of `PollingTransceiver`; `tickle_hamlib_`; the
radio itself; and the signals the last handler emitted.  A C++ exception is the flag
`thrown`: methods called while it is set are ones the code never reaches.  A handler runs
to completion in the rig thread, so each is one action (`Start`, `Set`, `Stop`, `Poll`),
with a set `X` of CAT calls that fail in it, and a set `Y` that fail in the shutdown
it may make.  The same method may succeed in the handler and fail in the shutdown.
`RadioOperated` is the operator at the radio's dial, `Create` the next object for the
same radio.  `unkey_failed` and `gave_up` are history.

### EmulateSplitTransceiver

The wrapper lives in the rig's thread and calls it directly, so each action is the rig's action
with the request translated (`emulated_state`); `signals` is what the client gets for what the
rig emitted, translated back (`handle_update`).  `emulating` is the choice the factory made.
`LatePoll` is a poll that finds the radio keyed but not yet saying so; `SplitAtRadio` the
operator putting the radio in split, which the wrapper turns into a failure.  `received` is
history: the dials the client or the operator chose.

### Configuration

`to_rigs` and `to_gui` are the event queues of the two threads.  A GUI handler is one
action.  A rig handler emits several signals, and the GUI may act between two of them, so
its signals wait in `emitting` and are posted one by one; they are posted only while the
rig is connected.  `reported` and `asked` are history.  The rigs' answers are
the sets of signal sequences that `TransceiverContract` is built from, so that the
refinement checked for `TransceiverBase` is what makes this abstraction good.

### TxSequencer

`window` holds the flags of `MainWindow` under their own names (`auto`, `tune`,
`btxok`, `g_iptt`, `tx_when_ready`, ...), the timers and what it has posted to the rig
and audio threads; `rig` the transceiver and the update or failure on its way;
`modulator` the Modulator.  Handlers call one another, so each is an operator from
window to window, and an action applies one: `GuiUpdate` composes `TxTime`,
`may_transmit`, `begin` and `end` in the order of `guiUpdate`; `Ptt0`, `Ptt1`,
`TuneButtonTimer` and `TuneATU` are timers, and the buttons are actions.  Time is counted
in the 100 ms of the GUI timer; `Pass` lets a unit go by when all that is due has run.

What it abstracts, beyond names and texts:

* the modes with slots on the clock, half duplex, with audio through the sound card; not
  WSPR, FST4W and Echo, and not audio through TCI;
* which slot is ours is fixed (`m_txFirst` is not toggled);
* the 50 ms in which Tune is blocked after a click, and the early returns of SuperFox Hounds;
* the states Synchronizing and Active of the Modulator are one; `m_iptt0` equals
  `g_iptt` between two ticks; `m_tuneup` is FALSE outside the WSPR modes;
* commands that repeat the last one queued are one; updates that are not current are
  dropped, as `Configuration` does;
* closing a rig is one step; `Configuration` has it in detail;
* a failure is always passed on to the window: it is not while the settings dialog is visible;
* the SWR message box's own event loop.

`Configuration` leaves out the settings dialog, volume, power and SWR readings, and
the restart flag of TCI devices.  `HamlibTransceiver` leaves out opening the port, the rig's
capabilities and PTT through a second port.

### FoxSequencer

The variables are the members of `MainWindow` of the same names; `removals` counts the
13 s timers running for a call.  `Transmit` is the whole of `foxTxSequencer`, whose parts are
operators: `Plan` is whom the transmission is for (`List1` the three passes over
`m_foxQSO` for RR73, `CallAgain` and the head of the queue for reports), `AfterTx` and
`Over` what becomes of a QSO, `ToLog` whom it logs.  `m_foxQSO` is a `QMap`: reading it
with `operator[]` inserts a default entry, in which a report seems received (`Touch`,
`QSO`).  Calls are numbers, as the map's order decides who is served first.

What it abstracts: times are relative to the transmission counter, as only their
differences matter; ListHounds may list any callers not yet dealt with, whatever the
filters and the sort order; calls of which one contains another, and SuperFox's
message packing and verification, are left out; the log may refuse a QSO.

Two constants bring in behaviour under which properties fail, and are FALSE in `fox_sequencer`:
`Requeue`, an Active Stations click on a Hound that is logged and still in the map (run
`fox_requeue`); `EmptyClicks`, a double click on the queue or the list of QSOs while it is empty:
both show one line, of the empty call, and Alt (or, on the list of QSOs, any double click) takes it for a
Hound.  It may then be queued and in QSO at once, is sent RR73 and a report, and takes
transmissions to time out, so that `CalledOnce`, `RR73AnswersReport`, `OneMessageEach` and
`EveryQSOEnds` fail of it.

Fox may be halted and keyed again while the 13 s timer of a logged QSO runs.  `MaxTimers` and
`MaxOtherTimers` bound the timers that run then, with and without one for a Hound in the queue.
`rushed` (history) are the Hounds whose QSO began while such a timer ran for them: the timer takes the new QSO off
the list, so `StillCalled` and `EveryQSOEnds` except them, and no other property does.

### DecodeCycle

`start` and `done` are `ipc(2)` and `ipc(3)` of the shared memory, `stdout` what `jt9` printed and
the GUI has not read, `ready` the pending `readyRead`.  `Points` are the moments of a period at
which something happens: its half (which `decodeDone` compares with), 0.6 of it (when
files are removed), and the symbols 40, 41, 47 and 50.  `Tick` moves to the next one and runs
what `dataSink` and `killFile` do there; the decoder is as fast or slow as it likes.
`decode` of new data copies `dec_data` from `ipc` on, so it also clears a `done` that `jt9` has not seen yet:
`jt9` is then `Deaf` to the start that follows, and the window busy until `ClearHung` in the next period.
`disturbed`, `redone` and `heard` are history.  Modelled are FT8, the standard decoder and *Save decoded*;
the multithreaded decoder, files replayed (and with them the return of `decode` when no data are
available), SuperFox (whose even periods are decoded at the 50th symbol only), other modes and the exit of `jt9` are left out.

### WSPRNet

One variable per member of `WSPRNet`, and of `MainWindow` the mode, the delay before an upload and
`m_uploading`; `file` is `wspr_spots.txt`, `decoding` which decoder is at work, and whether `wsprd` writes to a file
that has been removed.  The mode changes at any moment, also while `jt9` decodes FST4W and between
`Post` and `DecodeEnd`, and `DecodeAgain` is the *Decode* button, which has `jt9` print the spots of the audio
it holds once more; `Post` queues whatever is printed, unchecked.  A request is the spot and how often it had been
sent, as the same spot may be in several.  `uploadWSPRSpots` is that function with the abort and
`upload` it calls; `networkReply` includes `uploadResponse`.  `Faults` names what may go
wrong; `failed` (history) is TRUE in a period in which a request failed, and `trouble` in one in which
anything else went wrong, that was decoded again, or whose beginning found something left of one before.
The properties speak of periods without trouble, `NothingLost` and `SentOnce` also of those with
failed requests, and `Recovers` of the end of `trouble`.  The encoding of spots and the text of replies are left out.

## 3. Runs

| Run | Question | Bounds and why they are enough |
|---|---|---|
| `rig_object` | `RadioReleased`: a rig that went offline left the radio keyed only if the radio itself refused. `SplitReleased` likewise for split. `TimerMatchesOnline`: polled exactly while online. `KeepsContract`: refinement of `TransceiverContract`. | Commands numbered 1 and 2, to tell an answer from a stale one; one frequency, as two of them are for `rig_split`; one failing call of any kind in the handler and one more in its shutdown. |
| `rig_split` | `TransmitsOnTxDial`, `TxDialIsHidden` with split emulated; `ClientsCatchUp`, emulated or not: polls withhold a change only for a while, unless the rig was tuned on the air. | Tune commands go to a rig that is not wrapped (`mcNext`): the first two properties are stated for requests that are no audio commands. Two frequencies: the receive dial and the transmit dial, the latter dropped and taken up again, and the dial turned away from a request and back; a rig addressed one VFO at a time; `freq` and `tickle` calls fail. `Readback` is the identity: the emulated transmit dial is 500 Hz steps from the receive dial, which rigs resolve. (On one that rounds it, as it may with a calibration, the comparison with the transmit dial fails and the late PTT shows through.) |
| `rig_threads` | `OneRigOnline`, `CurrentUpdatesAreLatest`, `EveryCommandAnswered`, `ClosedRigsFinish`, with a TCI rig, split and audio commands. | Two rig objects: overlap needs two. Three command numbers: open, open, command or open, command, command. One frequency, as no property compares two. TLC also found no error with `IsTci = FALSE`, nor (the invariants) with two frequencies and no split. |
| `tx_sequencer` | `KeyedForATransmission`, `StopIsSeen`, `HalfDuplex`, `ToneOnlyWhenTuning`, `TransmitsInSlot`. | Slots of 4 units, 3 to transmit, so all phases of two slots meet every timer; two clicks, as every incident of `Incidents` and every failure stops without a click. |
| `tx_silence` | `FallsSilent`. | Slots of 3 units; two clicks suffice to start, and the last message, a failure or the second click to stop. |
| `fox_sequencer` | `CalledOnce`, `RR73AnswersReport`, `StillCalled`, `LoggedWithReport`, `SlotsFit`, `OneMessageEach`, and `EveryQSOEnds`, a bound on the transmissions a silent Fox needs. | Two Hounds, two slots and two places in the queue: RR73 to one beside a report to the other, and a full queue; two repeats of a message and one transmission to wait, so that each of the four time-outs acts by itself; 8 transmissions, the `Deadline` of these limits, which some QSO needs (with 7 the run fails). Two bands, as a call is logged by band. Two 13 s timers running when Fox is keyed again, if one is that of a Hound in the queue, and otherwise none: these are the cases in which a timer meets a new QSO. |
| `decode_cycle` | `InStep`: busy means exactly one decode asked for, under way or reported. `AudioStays`, `NoStaleDecodes`, `SavedIfDecoded`, and `BusyEnds`. | Three periods, each received or not, as a hung decoder of one may disturb the next and a file of the next be removed for it; two clicks, as many as it takes to lose step twice. |
| `wsprnet_upload` | `NothingLost`, `SentOnce`, `Recovers`. | Two periods: one that leaves something behind and one that finds it; two spots in each, so that a reply comes while another is outstanding or queued; one period decoded again; every fault at any moment. TLC also found no error with three periods of one spot, one decoded again, and with three periods of two spots, none decoded again. |
| `rig_ping_pong`, `tx_late_audio`, `fox_requeue`, `decode_lost_done` | statements of the repository the code does not keep | the smallest instances that show it; see 3.1 |

`MaxEvents` and `MaxQueue` bound only new reports and the passing of time, never a
handler.  Deadlock is not checked in the runs of `Configuration`: with the command
numbers used up the model, not the program, has nothing left to do.

### 3.1 Where the code and the repository's statements differ

* `rig_ping_pong`: an update older than the last command still overwrites the cached
  frequency, and the next command of another kind takes the rig back to it.
* `tx_late_audio`: a halt within the Tx delay does not stop the delay, and the audio starts
  after the stop.
* `fox_requeue`: a Hound queued again while its logged QSO is in the map may be sent RR73 and
  called in one transmission; its new QSO is then lost, and its call hidden from the callers.
* `decode_lost_done`: the audio of the next decode is copied over the `ipc(3)` with which
  `decodeDone` told `jt9` to go on, if `jt9` has not looked within its 10 ms; `jt9` does not
  start and the window is busy until the next period.  `BusyEnds` excepts this (`Deaf`).

Not runs, but seen while modelling:

* a command already posted when the rig fails starts the failed object again
  (`TransceiverBase.cpp:70`), although a failure is "not recoverable, start new instance"
  (`Transceiver.hpp:250`); a failure posted by the previous rig closes the one opened since
  (`Configuration.cpp:5419`);
* states signalled by commands are not recorded, so that a poll that finds the state polled
  before them says nothing (`PollingTransceiver.cpp:164`): a tune command to a keyed rig signals
  PTT off (`HamlibTransceiver.cpp:1322`), and if the rig goes on transmitting the clients are not told.
  `ClientsCatchUp` excepts it (`TunedOnAir`); without the exception `rig_split` fails by just that;
* on a rig addressed one VFO at a time a transmit frequency set while it transmits switches split on
  without recording it (`HamlibTransceiver.cpp:991`-1013), so that a shutdown before the
  next poll leaves the rig in split (`TransceiverBase.cpp:244`); `rig_object` has the other rigs;
* a request to leave split that fails has already cleared `requested_.split`, so the shutdown
  after it does not try again (`TransceiverBase.cpp:170`, `:248`); `SplitReleased` allows for it;
* the 200 ms end-of-transmission timer is not stopped by a transmission begun within that time and
  lowers its PTT (`mainwindow.cpp:8578`);
* Fox: the bands are compared as substrings when logging (14856); a QSO the log refuses is marked
  as logged all the same (14875); a band change on the dial does not reset the queue (4138);
* decoding: `on_cbCQonly_toggled` starts the decoder although it is busy ("no decode
  here?", 14087, and 5377 "Don't start decoder if it's already busy."), which puts the two out of step; *Decode*
  pressed again after a period with decodes, finding none, lets `killFile` remove the file, and so
  does a last decode that takes until the next period; `jt9` does not read `ipc(1)`, which
  is set to "allow jt9 to bail out early" (2338); a period's last decode is not done if
  an earlier one is busy;
* WSPRnet: after one request that failed, `m_uploading` stays set, and the abort of the next FST4W upload
  clears the spots queued since, against "not clearing queue" (`wsprnet.cpp:181`); a
  `wspr_spots.txt` left behind of which no line is on the band silences FST4W until it is removed; a late
  reply removes the file of the next period; `m_uploadType` is not initialised (`wsprnet.h:57`), and with the value 3
  by chance nothing is uploaded until an FST4W spot is posted.

### 3.2 Fairness

* `EmulateSplitTransceiver` over `TransceiverBase`: WF of a poll of either kind, a repeating
  `QTimer`.
* `Configuration`: WF of the GUI's event loop and of emissions; SF of the calls in the rig
  thread, since polls share its event loop and disable a call while they run, but
  events are processed in the order posted and cannot be overtaken for ever.
* `TxSequencer`: WF of the handlers of each event loop, of time, and of the end of a message
  in `readData`.  Clicks, failures, reopening and the tune-up timer are never assumed.
* `DecodeCycle`: WF of `jt9`'s polls of shared memory and the end of its decodes (a decoder may be
  arbitrarily slow), and of `readFromStdout` in the event loop.  Time and clicks are not assumed.

`FoxSequencer` and `WSPRNet` have no liveness: `EveryQSOEnds` counts transmissions instead, and
whether the server answers is not the program's doing.

## 4. Proofs

All for every value of the constants that satisfies the named assumptions
(`FrequenciesAssumption`, `AudioAssumption`, `HamlibAssumption`, `RequestsAssumption`,
`EmulateSplitAssumption`, `ConfigurationAssumption`, `SequencerAssumption`,
`FoxAssumption`, `DecodeCycleAssumption`, `WSPRNetAssumption`), and the hypotheses given with a theorem below.
Each module proves an inductive invariant (`Init`, and every action), checked with TLC first,
and from it the properties.

**Rig management** (`Configuration_proofs`)

* `TypeCorrect` and `UpdatesAreLatest`: the types and `CurrentUpdatesAreLatest` follow from
  `NumbersInv`.  The property speaks of an update under way, so the invariant must say where
  numbers come from: nothing is about a rig not yet created (`RigsExist`), calls wait in
  increasing order of numbers greater than what any rig has executed, and a replaced rig
  gets none with the latest number (`CallsInOrder`), an update carries a number its rig has
  executed (`UpdatesExecuted`).
* `OneRigAtATime`: `OneRigOnline` needs `LivesInv` besides: the order of start, set and
  stop calls in the queue, that every rig but the connected one is stopped or has a stop
  waiting, and that a rig has begun only if all before it have stopped.

**A rig object** (`TransceiverBase_proofs`)

* `TypeCorrect`, `RadioIsReleased`, `TimerIsOnline`, `SplitIsReleased`: handlers compose up
  to ten methods, each of which may throw or be skipped for an earlier throw, so the lemmas
  go along the methods: what a poll, a setter, a CAT call, a part of `set` leaves as it was
  (`Calls`, `Records`, `Works`).  Between two handlers the object is up without an exception
  pending or down (`Idle`); `NextKnown`, `SplitKnown` and `Unkeyed` relate what is on record
  to the radio.  `SplitIsReleased` is for rigs not addressed one VFO at a time (`~OneVFO`): on
  the others it does not hold, see 3.1.
* `ImplementsContract`: every handler's signals are a sequence of the contract.  The step
  that is not obvious is that the offline state is signalled at most once: the second
  shutdown of a handler finds it in `last` (`Silent`), so a failed start or a failed request is
  followed by it exactly, or at most, once.  For requests that are online, as all that
  `Configuration` makes (`Configuration.cpp:5133`-5331 set `online (true)`): a request to go offline
  is not among what the contract promises an answer to.

**Split emulation** (`EmulateSplit_proofs`)

* `TxDialStaysHidden` and `TransmissionsOnTxDial`.  The dial the rig is on is what the last
  request, the operator or a failed request left there, and updates may come in any of these
  states.  `Inv` says: split was never requested of the rig, so that one that says it is in split
  is (`Simplex`) and shows as a failure; the dial on record is the one requested (`DialKnown`);
  and a rig that is online is on a dial received on, or on the transmit dial of the last request, and
  then on record to be (`OnDial`).  The last clause is what a request that changes dials while
  it transmits needs: the rig is left alone only if it is on record to be where it is asked for.
  Hypotheses: what is set is what is read back (`ReadsBack`, see the bounds of `rig_split`), and requests
  have a dial, in split a transmit dial, and no audio command (`RequestsPlain`): `Configuration`
  sets the transmit frequency and split together (5156-5157), and requests a frequency
  once one is known.  (Split without a transmit dial leaves the rig on the receive dial,
  for want of another.)

**T/R sequencing**

* `PttNeverForgotten` (`TxSequencer_proofs`): `KeyedForATransmission` follows from `KeyedInv`.
  The radio follows the cache only when the queue is empty, so the invariant says that the
  last queued command carries the cached PTT, that the cache is set only in a
  transmission or until `ptt0Timer` fires, and that a closed rig is unkeyed with no command.
  Its lemmas go along the calls: what keeps the PTT (`Keeps`) and what moves it (`Moves`).
* `TypeCorrect`, `StopsAreSeen`, `IsHalfDuplex`, `TonesOnlyWhenTuning` and `KeepsToItsSlot`
  (`TxSequencerWindow_proofs`): all from `WindowInv`: the flags of the window are consistent after
  every handler (`Good`), what `guiUpdate` saw last agrees with the PTT (`Seen`), and what is
  queued for the Modulator ends with what the window is doing (`Hears`), by which
  the Modulator lags behind the window and yet never ends up at another mode.

**Fox mode** (`FoxSequencer_proofs`)

* `FoxTypes`, `CallsAreOnce` and `MessagesFitSlots`, for an operator who clicks no empty list
  (`~EmptyClicks`, a hypothesis of all that follow too): `Lists` is the types, with
  the limits at which a QSO ends, `CalledOnce`, and that who is in QSO has an entry in the map
  (`InMap`).  These need each other: `removeOne` takes one entry of a call away, so that a call
  twice in the list would be left there without its entry, and read back as a QSO with a
  report.  `FoxTxFacts` sums up what a transmission does to the lists and to the map, `PlanFacts` and
  `PlanCounts` whom it is for.
* `RR73IsAnAnswer`: needs that a QSO with the time of a report has the report (`Answered`) and that
  the empty call has none (`Named`).
* `OneMessageToEach` and `LoggedIsAnswered`: need that a call that waits is not in the map (`Apart`), for an
  operator who does not queue one that still is (`~Requeue`).
* `HoundsAreStillCalled`: needs `Apart`, and that who is to be removed by a timer has answered
  (`RemovedAnswered`), but for those in `rushed`; for no `Requeue`, with which it fails, see 3.
* `QSOsEnd`: `EveryQSOEnds`, for no `Requeue`, from `Ending`, inductive with those above. The
  four time-outs take turns on one QSO, so no single count falls with every transmission.
  `Ending` divides the QSOs.  But for the `rushed`, Hounds that are to be called are on the list (`StillCalled`), and the calls
  left, those of queued Hounds included, are a finite set of pairs of Hound and number
  (`CallsLeft`), of which every transmission that is no stand-alone CQ takes one (`SomebodyCalled`,
  `TxCallsLeft`); and no two such CQs follow each other (`CallsEnd`).  Everyone else in the map is timed by the
  R+rpt or by a count of calls that goes on (`Timed`, `OthersEnd`), and one called for the last time joins them.
  `Deadline` is the larger of the two sums.  `FoxAssumption` has more than one slot for this, of the
  program's five, as SuperFox leaves a slot less for reports.
* The lemmas on lists: what a loop keeps (`PickFacts`, by counting the places kept), takes from the
  head (`FirstFacts`, `Dequeues`), takes away (`WithoutFacts`, `Removes`) and adds (`Joins`).

**Decode cycle** (`DecodeCycle_proofs`)

* `TypeCorrect`, `StaysInStep` and `AudioIsNotReplaced`: `DecodeInv` is
  the types, that lines are of a period (`LinesOfPeriods`), and `InStep`, which counts what
  is pending: a start not seen, a decode under way, reports not read.  `jt9` moves one
  from the first to the second to the third, `readFromStdout` takes the last away as it ends
  *busy*, and `decode` adds one only when not *busy*, hence when none is left.  `AudioStays`
  follows: the audio is copied only where none is pending, or after a clear.
* `NothingStaleIsRead` and `DecodedIsKept` need `ResultsInv` besides: output ends with a
  report unless the decoder decodes, and is all of the decode asked for last (`OutputEnds`,
  `OutputOfJob`); from its first decode on a period is what is decoded (`DecodesPeriod`); nothing is
  heard of a period ahead of its decodes (`NotAhead`); and the three flags among which the knowledge that
  something was decoded moves during a period never lose it (`Counts`, `Kept`).

**WSPRnet upload** (`WSPRNet_proofs`)

* `TypeCorrect`, `FaultsPass`, `NoSpotLost` and `NoSpotTwice`, from the types (`Types`), that no spot
  is of a period to come (`InTime`), and the two phases of a period without trouble (`Smooth`).
  `Prepared`, until the upload: nothing is left of former periods, nothing was sent, and the spots are in
  jt9's hands, in the queue or in the file, each in one of them.  `Uploaded`, from then on: what is queued
  is queued once, unsent and about to be sent, what the file has is sent or queued, and an upload not
  completed has something queued or outstanding, or had a request fail.  The mode may change in
  either, so decoder and delay tell the phases apart, not `mode`.

Only model-checked:

* liveness (`ClientsCatchUp`, `EveryCommandAnswered`, `ClosedRigsFinish`, `FallsSilent`, `BusyEnds`),
  which the prover does not reach;
* the runs that expect a violation.

## 5. Plan

1. WSPR modes: scheduling, and T/R switching with `m_ntr` and `m_tuneup`.
2. `auto_sequence` and `processMessage` of standard QSOs.
3. PSK Reporter's queue and `MessageClient`.
4. `TxSequencer` over `Configuration`: its rig refined to the two queues, with the failures
   that the settings dialog keeps.

The number of runs is kept small by checking several properties in one.

## 6. Not modelled

* `src/lib/` but for the decoder's protocol: numerical code.
* `src/translations/*.ts` are Qt translation catalogues, XML data although their suffix is TypeScript's:
  they have no behaviour.
* Settings, downloads, logbook services, data models and widgets: tables, files and drawing,
  sequential and without a protocol; `map65/`, `qmap/` and `UDPExamples/` are programs of their own; vendored code.
* What is planned (section 5) and, inside the modelled components, what section 2 lists.
