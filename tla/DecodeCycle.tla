----------------------------- MODULE DecodeCycle -----------------------------
(***************************************************************************)
(* The decode cycle of FT8: MainWindow and the decoder process jt9, which    *)
(* share memory and the decoder's standard output.  The audio of a period   *)
(* is decoded three times while it is received.  MainWindow copies it to    *)
(* shared memory and sets ipc(2); jt9 sees that, decodes, prints what it    *)
(* finds and DecodeFinished, and waits for ipc(3), which MainWindow sets as *)
(* it reads DecodeFinished.  Copying a period's audio overwrites all of     *)
(* shared memory, an ipc(3) that jt9 has not seen included.  A decoder not  *)
(* finished by the next period's decodes is taken for hung, and cleared as  *)
(* if it had finished.                                                      *)
(*                                                                          *)
(* The standard decoder, Save decoded, and periods received or transmitted. *)
(* SuperFox, whose decode () waits for the 50th symbol in even periods, and *)
(* audio read from disk are left out.                                       *)
(***************************************************************************)
EXTENDS Integers, Sequences, FiniteSets, SequencesExt

CONSTANTS
  MaxPeriods,  \* periods
  MaxClicks    \* how often the operator meddles with the decoder

ASSUME DecodeCycleAssumption == MaxPeriods \in Nat \ {0} /\ MaxClicks \in Nat

VARIABLES
  period,    \* number of the T/R period
  point,     \* how far it has come: an element of Points
  receiving, \* audio is received in this period
  busy,      \* m_decoderBusy
  nzhsym,    \* dec_data.params.nzhsym: symbols received when a decode was due
  nDecodes,  \* m_nDecodes is not 0
  bDecoded,  \* m_bDecoded
  killTimer, \* killFileTimer: "off", or fires "this" period or the "next"
  fnameWE,   \* m_fnameWE: period of the audio file saved last, 0 before the first
  saved,     \* that file exists
  start,     \* ipc(2) is 1
  done,      \* ipc(3) is 1
  audio,     \* period of the audio in shared memory
  jt9,       \* "waiting" for ipc(2), "decoding", or "finished", waiting for ipc(3)
  job,       \* period whose audio it decodes
  found,     \* it printed a decode
  stdout,    \* jt9's standard output not read: [of, finished], lines and DecodeFinished
  ready,     \* readyReadStandardOutput is to be handled
  clicks,    \* history: how often the operator did so
  heard,     \* history: periods a decode of which was read
  disturbed, \* history: decoder cleared or started while busy, and they are not in step since
  redone     \* history: the operator did that, or has had it decode again since fnameWE

time == <<period, point, receiving>>
files == <<killTimer, fnameWE, saved>>
results == <<nDecodes, bDecoded>>
decoder == <<jt9, job, found>>
pipe == <<stdout, ready>>
vars == <<time, busy, nzhsym, results, files, start, done, audio, decoder, pipe, clicks, heard,
          disturbed, redone>>

\* Half a period, 0.6 of it when audio files are removed, and counts of symbols.
Points == <<"start", "half", "kill", "40", "41", "47", "50">>
Stages == {"41", "47", "50"}
After(p) == Points[1 + CHOOSE i \in 1..6 : Points[i] = p]

Output == [of : 0..MaxPeriods, finished : BOOLEAN]
DecodeFinished(of) == [of |-> of, finished |-> TRUE]
Decode(of) == [of |-> of, finished |-> FALSE]

Init ==
  /\ period = 1 /\ point = "start" /\ receiving \in BOOLEAN
  /\ busy = FALSE /\ nzhsym = "50" /\ nDecodes = FALSE /\ bDecoded = FALSE
  /\ killTimer = "off" /\ fnameWE = 0 /\ saved = FALSE
  /\ start = FALSE /\ done = FALSE /\ audio = 0
  /\ jt9 = "waiting" /\ job = 0 /\ found = FALSE
  /\ stdout = <<>> /\ ready = FALSE
  /\ clicks = 0 /\ heard = {} /\ disturbed = FALSE /\ redone = FALSE

Finished(output) == {i \in DOMAIN output : output[i].finished}

\* Decodes that were started and not reported.
Pending ==
  (IF start THEN 1 ELSE 0) + (IF jt9 = "decoding" THEN 1 ELSE 0)
  + Cardinality(Finished(stdout))

-----------------------------------------------------------------------------
\* MainWindow.

\* The decodes of a period are not counted together.
Mutant_decodeDone(decodes) ==
  /\ bDecoded' = decodes
  /\ killTimer' = IF decodes THEN killTimer ELSE IF point = "start" THEN "this" ELSE "next"
  /\ busy' = FALSE
  /\ done' = TRUE
  /\ nDecodes' = FALSE

\* decodeDone ().  decodes: m_nDecodes is not 0.
decodeDone(decodes) ==
  /\ bDecoded' = decodes
  /\ killTimer' = IF decodes THEN killTimer ELSE IF point = "start" THEN "this" ELSE "next"
  /\ busy' = FALSE
  /\ done' = TRUE
  /\ nDecodes' = (decodes /\ nzhsym # "50")

\* A line only is read each time.
Mutant_readFromStdout ==
  /\ ready /\ ready' = FALSE
  /\ stdout # <<>> /\ stdout' = Tail(stdout)
  /\ LET line == Head(stdout)
     IN /\ heard' = heard \cup (IF line.finished THEN {} ELSE {line.of})
        /\ IF line.finished
             THEN decodeDone(nDecodes)
             ELSE nDecodes' = TRUE /\ UNCHANGED <<bDecoded, killTimer, busy, done>>
  /\ UNCHANGED <<time, nzhsym, fnameWE, saved, start, audio, decoder, clicks, disturbed,
                 redone>>

\* readFromStdout () reads up to a DecodeFinished, and returns there.
readFromStdout ==
  /\ ready /\ ready' = FALSE
  /\ \E last \in 0..Len(stdout) :
       LET ended == last \in Finished(stdout)
           lines == {stdout[i] : i \in (1..last) \ Finished(stdout)}
           decodes == nDecodes \/ lines # {}
       IN /\ Finished(stdout) \cap (1..last - 1) = {} /\ (ended \/ last = Len(stdout))
          /\ stdout' = SubSeq(stdout, last + 1, Len(stdout))
          /\ heard' = heard \cup {line.of : line \in lines}
          /\ IF ended THEN decodeDone(decodes)
             ELSE nDecodes' = decodes /\ UNCHANGED <<bDecoded, killTimer, busy, done>>
  /\ UNCHANGED <<time, nzhsym, fnameWE, saved, start, audio, decoder, clicks, disturbed, redone>>

Click == clicks < MaxClicks /\ clicks' = clicks + 1

\* A decoder that is busy is cleared: on a right click of the Decode button, and above
\* 45 MHz 7 seconds into a period.
Clear ==
  /\ busy /\ Click /\ decodeDone(nDecodes)
  /\ disturbed' = TRUE /\ redone' = TRUE
  /\ UNCHANGED <<time, nzhsym, fnameWE, saved, start, audio, decoder, pipe, heard>>

\* The Decode button does not mind a busy decoder.
Mutant_DecodeAgain ==
  /\ audio # 0 /\ Click
  /\ busy' = TRUE /\ start' = TRUE
  /\ redone' = TRUE
  /\ UNCHANGED <<time, nzhsym, results, files, done, audio, decoder, pipe, heard, disturbed>>

\* on_DecodeButton_clicked (): the audio in shared memory is decoded again.  Only what follows
\* it there is copied, so that ipc stays.
DecodeAgain ==
  /\ ~busy /\ audio # 0 /\ Click
  /\ busy' = TRUE /\ start' = TRUE
  /\ redone' = TRUE
  /\ UNCHANGED <<time, nzhsym, results, files, done, audio, decoder, pipe, heard, disturbed>>

\* on_cbCQonly_toggled () starts the decoder, busy or not.
on_cbCQonly_toggled ==
  /\ Click /\ busy' = TRUE /\ start' = TRUE
  /\ disturbed' = (disturbed \/ busy) /\ redone' = TRUE
  /\ UNCHANGED <<time, nzhsym, results, files, done, audio, decoder, pipe, heard>>

\* decode () does not mind a busy decoder.
Mutant_decode == busy' = TRUE /\ start' = TRUE /\ done' = FALSE /\ audio' = period

\* decode () of new data: dec_data, its ipc and all, is copied over shared memory, and jt9 is
\* to start.
decode ==
  IF busy THEN UNCHANGED <<busy, start, done, audio>>
  ELSE busy' = TRUE /\ start' = TRUE /\ done' = FALSE /\ audio' = period

\* killFile (), when its timer fires.
killFile ==
  /\ killTimer' = IF killTimer = "this" THEN "off" ELSE killTimer
  /\ saved' = (saved /\ (killTimer # "this" \/ bDecoded))
  /\ UNCHANGED fnameWE

\* The file is named after the period to come.
Mutant_dataSink(symbols) ==
  /\ nzhsym' = symbols
  /\ decode
  /\ IF symbols = "50"
       THEN fnameWE' = period + 1 /\ saved' = TRUE /\ redone' = disturbed
       ELSE UNCHANGED <<fnameWE, saved, redone>>
  /\ UNCHANGED <<results, killTimer, disturbed>>

\* dataSink () when a decode is due.  After the last the audio is saved.
dataSink(symbols) ==
  /\ nzhsym' = symbols
  /\ decode
  /\ IF symbols = "50"
       THEN fnameWE' = period /\ saved' = TRUE /\ redone' = (disturbed \/ (redone /\ busy))
       ELSE UNCHANGED <<fnameWE, saved, redone>>
  /\ UNCHANGED <<results, killTimer, disturbed>>

\* A slow decoder is left alone.
Mutant_ClearHung ==
  UNCHANGED <<results, files, busy, done, disturbed, nzhsym, start, audio, redone>>

\* dataSink () at the 40th symbol: a decoder still busy is taken for hung.
ClearHung ==
  /\ IF busy THEN decodeDone(nDecodes) /\ disturbed' = TRUE
     ELSE UNCHANGED <<results, killTimer, busy, done, disturbed>>
  /\ UNCHANGED <<nzhsym, start, audio, fnameWE, saved, redone>>

\* In step again, unnoticed by either side.
InStepAgain == disturbed' = (disturbed /\ (busy \/ Pending > 0))

\* Time passes.
Tick ==
  /\ point # "50"
  /\ point' = After(point) /\ UNCHANGED <<period, receiving>>
  /\ CASE point' = "kill" ->
            killFile /\ InStepAgain /\ UNCHANGED <<busy, nzhsym, results, start, done, audio, redone>>
       [] point' = "40" /\ receiving -> ClearHung
       [] point' \in Stages /\ receiving -> dataSink(point')
       [] OTHER -> InStepAgain /\ UNCHANGED <<busy, nzhsym, results, files, start, done, audio, redone>>
  /\ UNCHANGED <<decoder, pipe, clicks, heard>>

NextPeriod ==
  /\ point = "50" /\ period < MaxPeriods
  /\ period' = period + 1 /\ point' = "start" /\ receiving' \in BOOLEAN
  /\ killTimer' = IF killTimer = "next" THEN "this" ELSE killTimer
  /\ InStepAgain
  /\ UNCHANGED <<busy, nzhsym, results, fnameWE, saved, start, done, audio, decoder, pipe, clicks,
                 heard, redone>>

-----------------------------------------------------------------------------
\* jt9.

\* It sees ipc(2) and takes a copy of the parameters; the audio it reads where it is.
jt9_start ==
  /\ jt9 = "waiting" /\ start
  /\ start' = FALSE /\ jt9' = "decoding" /\ job' = audio /\ found' = FALSE
  /\ UNCHANGED <<time, busy, nzhsym, results, files, done, audio, pipe, clicks, heard,
                 disturbed, redone>>

jt9_decode ==
  /\ jt9 = "decoding" /\ ~found /\ job # 0
  /\ found' = TRUE
  /\ stdout' = Append(stdout, Decode(job)) /\ ready' = TRUE
  /\ UNCHANGED <<time, busy, nzhsym, results, files, start, done, audio, jt9, job, clicks, heard,
                 disturbed, redone>>

jt9_finish ==
  /\ jt9 = "decoding" /\ jt9' = "finished"
  /\ stdout' = Append(stdout, DecodeFinished(job)) /\ ready' = TRUE
  /\ UNCHANGED <<time, busy, nzhsym, results, files, start, done, audio, job, found, clicks,
                 heard, disturbed, redone>>

\* It sees ipc(3).
jt9_resume ==
  /\ jt9 = "finished" /\ done
  /\ done' = FALSE /\ jt9' = "waiting"
  /\ UNCHANGED <<time, busy, nzhsym, results, files, start, audio, job, found, pipe, clicks,
                 heard, disturbed, redone>>

Jt9 == jt9_start \/ jt9_finish \/ jt9_resume

Next ==
  \/ readFromStdout \/ Clear \/ DecodeAgain \/ on_cbCQonly_toggled
  \/ Tick \/ NextPeriod
  \/ Jt9 \/ jt9_decode

Spec == Init /\ [][Next]_vars

\* jt9 polls shared memory and its decoders end; the event loop handles output that arrived.
Fairness == WF_vars(Jt9) /\ WF_vars(readFromStdout)
FairSpec == Spec /\ Fairness

-----------------------------------------------------------------------------
\* The state is of its type.
TypeOK ==
  /\ period \in 1..MaxPeriods /\ point \in Range(Points) /\ receiving \in BOOLEAN
  /\ busy \in BOOLEAN /\ nDecodes \in BOOLEAN /\ bDecoded \in BOOLEAN /\ saved \in BOOLEAN
  /\ start \in BOOLEAN /\ done \in BOOLEAN /\ found \in BOOLEAN /\ ready \in BOOLEAN
  /\ disturbed \in BOOLEAN /\ redone \in BOOLEAN
  /\ nzhsym \in Stages /\ killTimer \in {"off", "this", "next"}
  /\ fnameWE \in 0..MaxPeriods /\ audio \in 0..MaxPeriods /\ job \in 0..MaxPeriods
  /\ jt9 \in {"waiting", "decoding", "finished"}
  /\ stdout \in Seq(Output)
  /\ clicks \in 0..MaxClicks /\ heard \subseteq 1..MaxPeriods

\* MainWindow and jt9 are in step: busy, there is one decode asked for, under way or
\* reported; not busy, there is none.  A clear puts them out of step and nothing brings them
\* back on purpose: a DecodeFinished too many is taken for the next decode's, an ipc(3) set
\* too often, unless the next audio overwrites it, lets jt9 run ahead.  Whenever both are idle
\* again, they are in step for good.
InStep == ~disturbed => Pending = IF busy THEN 1 ELSE 0

\* The audio jt9 reads in place is not replaced while it decodes, if they are in step.
AudioStays ==
  [][audio' # audio /\ (start \/ jt9 = "decoding") => disturbed]_vars

\* Once the first decode of a period was due, decodes read are of that period, if they are
\* in step and the operator did not ask for the last period again: readFromStdout leaves
\* lines unread that follow a DecodeFinished, and a slow decoder goes on into the period.
NoStaleDecodes ==
  [][\A p \in heard' \ heard :
       p # period /\ receiving /\ point \in Stages => disturbed \/ redone]_vars

\* Save decoded: the audio of a period of which decodes were read is not removed, unless the
\* last decode still goes on or the operator meddled with the decoder since (m_nDecodes is
\* reset at the end of one of three decodes, a timer set at the end of another removes
\* whatever file was saved last).
SavedIfDecoded ==
  [][saved /\ ~saved' => fnameWE \notin heard \/ busy \/ redone]_vars

\* jt9 waits for an ipc(3) that was overwritten before it saw it.
Deaf == jt9 = "finished" /\ ~done /\ Finished(stdout) = {}

\* In step, the decoder is not busy for ever, unless an ipc(3) was overwritten: then it is
\* until ClearHung, in a later period that is received.
BusyEnds == busy ~> ~busy \/ disturbed \/ Deaf

\* What jt9a.f90 counts on where it says "Wait here until GUI routine decodeDone() has set
\* ipc(3) to 1": in step, an ipc(3) set stays so until jt9 has seen it and goes on.
DoneIsSeen ==
  [][done /\ ~done' /\ ~disturbed => jt9 = "finished" /\ jt9' = "waiting"]_vars
=============================================================================
