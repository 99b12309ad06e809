------------------------- MODULE DecodeCycle_proofs -------------------------
(***************************************************************************)
(* That the main window and the decoder stay in step: InStep holds for any *)
(* number of periods and of clicks, with it the audio is not replaced      *)
(* while the decoder reads it (AudioStays), no decode is read in a later   *)
(* period (NoStaleDecodes), and a period with decodes keeps its file       *)
(* (SavedIfDecoded).                                                       *)
(*                                                                         *)
(* InStep counts what is pending: a start not seen, a decode under way,    *)
(* reports not read.  jt9 moves one from the first to the second to the    *)
(* third, readFromStdout takes the last away, and decode () adds one when  *)
(* none is left.  With the types, which also say that lines are those of   *)
(* a period, it is inductive.  ResultsInv says besides what the decoder    *)
(* printed and did not end yet.                                            *)
(***************************************************************************)
EXTENDS DecodeCycle, TLAPS, SequenceTheorems, FiniteSetTheorems

LinesOfPeriods == \A i \in DOMAIN stdout : stdout[i].finished \/ stdout[i].of # 0

DecodeInv == TypeOK /\ LinesOfPeriods /\ InStep

-----------------------------------------------------------------------------
(* Reports in the decoder's output. *)

\* Output has a finite number of reports.
LEMMA FinishedFinite ==
    ASSUME NEW s \in Seq(Output)
    PROVE  IsFiniteSet(Finished(s)) /\ Cardinality(Finished(s)) \in Nat
<1>1. IsFiniteSet(1 .. Len(s)) BY FS_Interval
<1>2. Finished(s) \in SUBSET (1 .. Len(s)) BY DEF Finished
<1> QED BY <1>1, <1>2, FS_Subset, FS_CardinalityType

\* Printing a decode adds no report, printing DecodeFinished adds one.
LEMMA FinishedAppend ==
    ASSUME NEW s \in Seq(Output), NEW x \in Output
    PROVE  Cardinality(Finished(Append(s, x)))
             = Cardinality(Finished(s)) + (IF x.finished THEN 1 ELSE 0)
<1>1. IsFiniteSet(Finished(s)) /\ Cardinality(Finished(s)) \in Nat BY FinishedFinite
<1>2. CASE x.finished
  <2>1. Finished(Append(s, x)) = Finished(s) \cup {Len(s) + 1} BY <1>2 DEF Finished
  <2>2. Len(s) + 1 \notin Finished(s) BY DEF Finished
  <2> QED BY <1>1, <1>2, <2>1, <2>2, FS_AddElement
<1>3. CASE ~x.finished
  <2>1. Finished(Append(s, x)) = Finished(s) BY <1>3 DEF Finished
  <2> QED BY <1>1, <1>3, <2>1
<1> QED BY <1>2, <1>3

\* What follows the only report holds none.
LEMMA NoneFollows ==
    ASSUME NEW s \in Seq(Output), Cardinality(Finished(s)) = 1, NEW last \in Finished(s)
    PROVE  Cardinality(Finished(SubSeq(s, last + 1, Len(s)))) = 0
<1>1. Finished(s) = {last} BY FinishedFinite, FS_Singleton
<1>2. last \in 1 .. Len(s) BY DEF Finished
<1>3. Finished(SubSeq(s, last + 1, Len(s))) = {}
  <2> SUFFICES ASSUME NEW i \in DOMAIN SubSeq(s, last + 1, Len(s)),
                      SubSeq(s, last + 1, Len(s))[i].finished
               PROVE  FALSE
    BY DEF Finished
  <2>1. /\ i \in 1 .. Len(s) - last
        /\ SubSeq(s, last + 1, Len(s))[i] = s[last + i]
    BY <1>2
  <2>2. last + i \in Finished(s) BY <1>2, <2>1 DEF Finished
  <2> QED BY <1>1, <1>2, <2>1, <2>2
<1> QED BY <1>3, FS_EmptySet

\* Pending is a number, and 0 means that nothing is.
LEMMA PendingType ==
    ASSUME TypeOK
    PROVE  /\ Pending \in Nat
           /\ Cardinality(Finished(stdout)) \in Nat
           /\ Pending = 0 => ~start /\ jt9 # "decoding" /\ Cardinality(Finished(stdout)) = 0
<1>1. Cardinality(Finished(stdout)) \in Nat BY FinishedFinite DEF TypeOK
<1> QED BY <1>1 DEF Pending

-----------------------------------------------------------------------------
(* The types, and of which period lines are. *)

Types == TypeOK /\ LinesOfPeriods

LEMMA TypesInitially == Init => Types
<1> SUFFICES ASSUME Init PROVE Types OBVIOUS
<1>1. stdout \in Seq(Output) /\ stdout = <<>> BY DEF Init
<1>2. point \in Range(Points)
  <2>1. point = Points[1] /\ 1 \in DOMAIN Points BY DEF Points, Init
  <2> QED BY <2>1 DEF Range
<1>3. TypeOK
  <2>1. /\ period \in 1 .. MaxPeriods /\ fnameWE \in 0 .. MaxPeriods
        /\ audio \in 0 .. MaxPeriods /\ job \in 0 .. MaxPeriods /\ clicks \in 0 .. MaxClicks
    BY DecodeCycleAssumption DEF Init
  <2>2. /\ busy \in BOOLEAN /\ nDecodes \in BOOLEAN /\ bDecoded \in BOOLEAN /\ saved \in BOOLEAN
        /\ start \in BOOLEAN /\ done \in BOOLEAN /\ found \in BOOLEAN /\ ready \in BOOLEAN
        /\ disturbed \in BOOLEAN /\ redone \in BOOLEAN /\ receiving \in BOOLEAN
    BY DEF Init
  <2>3. nzhsym \in Stages /\ killTimer = "off" /\ jt9 = "waiting" /\ heard = {}
    BY DEF Init, Stages
  <2> QED BY <1>1, <1>2, <2>1, <2>2, <2>3 DEF TypeOK
<1>4. LinesOfPeriods BY <1>1 DEF LinesOfPeriods
<1> QED BY <1>3, <1>4 DEF Types

\* decodeDone () leaves flags what they are.
LEMMA DecodeDoneTypes ==
    ASSUME TypeOK, NEW d \in BOOLEAN, decodeDone(d)
    PROVE  /\ busy' \in BOOLEAN /\ done' \in BOOLEAN /\ nDecodes' \in BOOLEAN /\ bDecoded' \in BOOLEAN
           /\ killTimer' \in {"off", "this", "next"}
BY DEF TypeOK, decodeDone

\* readFromStdout () keeps the types: it leaves the end of the output.
LEMMA ReadTypes ==
    ASSUME Types, readFromStdout
    PROVE  Types'
<1> DEFINE lines(last) == {stdout[i] : i \in (1 .. last) \ Finished(stdout)}
           decodes(last) == nDecodes \/ lines(last) # {}
<1>1. stdout \in Seq(Output) BY DEF Types, TypeOK
<1>2. PICK last \in 0 .. Len(stdout) :
        /\ stdout' = SubSeq(stdout, last + 1, Len(stdout))
        /\ heard' = heard \cup {line.of : line \in lines(last)}
        /\ IF last \in Finished(stdout) THEN decodeDone(decodes(last))
           ELSE /\ nDecodes' = decodes(last)
                /\ UNCHANGED <<bDecoded, killTimer, busy, done>>
  BY DEF readFromStdout
<1>3. /\ stdout' \in Seq(Output)
      /\ \A i \in DOMAIN stdout' : last + i \in DOMAIN stdout /\ stdout'[i] = stdout[last + i]
  BY <1>1, <1>2
<1>4. lines(last) \subseteq {x \in Output : x.of # 0}
  <2> SUFFICES ASSUME NEW i \in 1 .. last, i \notin Finished(stdout)
               PROVE  stdout[i] \in Output /\ stdout[i].of # 0
    OBVIOUS
  <2>1. i \in DOMAIN stdout BY <1>1, <1>2
  <2> QED BY <1>1, <2>1 DEF Types, LinesOfPeriods, Finished
<1>5. heard' \subseteq 1 .. MaxPeriods
  <2> HIDE DEF lines
  <2>1. \A line \in lines(last) : line.of \in 1 .. MaxPeriods
    BY <1>4, DecodeCycleAssumption DEF Output
  <2>2. heard' = heard \cup {line.of : line \in lines(last)} BY <1>2
  <2> QED BY <2>1, <2>2 DEF Types, TypeOK
<1>6. /\ busy' \in BOOLEAN /\ done' \in BOOLEAN /\ nDecodes' \in BOOLEAN /\ bDecoded' \in BOOLEAN
      /\ killTimer' \in {"off", "this", "next"}
  <2>1. decodes(last) \in BOOLEAN BY DEF Types, TypeOK
  <2> HIDE DEF decodes
  <2> QED BY <1>2, <2>1, DecodeDoneTypes DEF Types, TypeOK
<1>7. TypeOK' BY <1>3, <1>5, <1>6 DEF Types, TypeOK, readFromStdout, time, decoder
<1>8. LinesOfPeriods' BY <1>1, <1>2, <1>3 DEF Types, LinesOfPeriods
<1> QED BY <1>7, <1>8 DEF Types

\* decode () puts the audio of the period under way in place.
LEMMA DecodeTypes ==
    ASSUME TypeOK, decode
    PROVE  /\ busy' \in BOOLEAN /\ start' \in BOOLEAN /\ done' \in BOOLEAN
           /\ audio' \in 0 .. MaxPeriods
<1>1. CASE busy BY <1>1 DEF TypeOK, decode
<1>2. CASE ~busy
  <2>1. period \in 0 .. MaxPeriods BY DecodeCycleAssumption DEF TypeOK
  <2> QED BY <1>2, <2>1 DEF decode
<1> QED BY <1>1, <1>2

\* There is a point after each but the last.
LEMMA AfterType ==
    ASSUME NEW p \in Range(Points), p # "50"
    PROVE  After(p) \in Range(Points)
<1>1. \A i \in 1 .. 7 : Points[i] \in Range(Points) BY DEF Points, Range
<1>2. \E i \in 1 .. 6 : Points[i] = p BY DEF Points, Range
<1>3. PICK i \in 1 .. 6 : After(p) = Points[1 + i] BY <1>2 DEF After
<1> QED BY <1>1, <1>3

\* Time keeps the types.
LEMMA TickTypes ==
    ASSUME Types, Tick
    PROVE  Types'
<1> USE DEF Types, TypeOK
<1>1. point' \in Range(Points) BY AfterType DEF Tick
<1>2. /\ period' = period /\ receiving' = receiving
      /\ UNCHANGED <<decoder, pipe, clicks, heard>>
  BY DEF Tick
<1>3. CASE killFile /\ InStepAgain
           /\ UNCHANGED <<busy, nzhsym, results, start, done, audio, redone>>
  BY <1>1, <1>2, <1>3 DEF killFile, InStepAgain, results, decoder, pipe, LinesOfPeriods
<1>4. CASE ClearHung
  <2>1. /\ busy' \in BOOLEAN /\ done' \in BOOLEAN /\ nDecodes' \in BOOLEAN
        /\ bDecoded' \in BOOLEAN /\ disturbed' \in BOOLEAN
        /\ killTimer' \in {"off", "this", "next"}
    BY <1>4, DecodeDoneTypes DEF ClearHung, results
  <2>2. UNCHANGED <<nzhsym, start, audio, fnameWE, saved, redone>> BY <1>4 DEF ClearHung
  <2> QED BY <1>1, <1>2, <2>1, <2>2 DEF decoder, pipe, LinesOfPeriods
<1>5. ASSUME NEW symbols \in Stages, dataSink(symbols) PROVE Types'
  <2>0. period \in 0 .. MaxPeriods BY DecodeCycleAssumption
  <2>1. /\ nzhsym' \in Stages
        /\ fnameWE' \in 0 .. MaxPeriods /\ saved' \in BOOLEAN /\ redone' \in BOOLEAN
        /\ UNCHANGED <<results, killTimer, disturbed>>
    BY <1>5, <2>0 DEF dataSink
  <2>2. /\ busy' \in BOOLEAN /\ start' \in BOOLEAN /\ done' \in BOOLEAN
        /\ audio' \in 0 .. MaxPeriods
    BY <1>5, DecodeTypes DEF dataSink
  <2> QED BY <1>1, <1>2, <2>1, <2>2 DEF results, decoder, pipe, LinesOfPeriods
<1>6. CASE InStepAgain /\ UNCHANGED <<busy, nzhsym, results, files, start, done, audio, redone>>
  BY <1>1, <1>2, <1>6 DEF InStepAgain, results, files, decoder, pipe, LinesOfPeriods
<1> QED BY <1>3, <1>4, <1>5, <1>6 DEF Tick

\* Every step keeps the types.
LEMMA TypesStep ==
    ASSUME Types, [Next]_vars
    PROVE  Types'
<1> USE DEF Types, TypeOK
<1>1. CASE readFromStdout BY <1>1, ReadTypes
<1>2. CASE Clear
  <2>1. /\ busy' \in BOOLEAN /\ done' \in BOOLEAN /\ nDecodes' \in BOOLEAN
        /\ bDecoded' \in BOOLEAN /\ killTimer' \in {"off", "this", "next"}
    BY <1>2, DecodeDoneTypes DEF Clear
  <2> QED BY <1>2, <2>1, DecodeCycleAssumption
      DEF Clear, Click, time, decoder, pipe, LinesOfPeriods
<1>3. CASE DecodeAgain
  BY <1>3, DecodeCycleAssumption
  DEF DecodeAgain, Click, time, results, files, decoder, pipe, LinesOfPeriods
<1>4. CASE on_cbCQonly_toggled
  BY <1>4, DecodeCycleAssumption
  DEF on_cbCQonly_toggled, Click, time, results, files, decoder, pipe, LinesOfPeriods
<1>5. CASE Tick BY <1>5, TickTypes
<1>6. CASE NextPeriod
  <2>1. point' \in Range(Points)
    <3>1. point' = Points[1] /\ 1 \in DOMAIN Points BY <1>6 DEF NextPeriod, Points
    <3> QED BY <3>1 DEF Range
  <2>2. period' \in 1 .. MaxPeriods /\ receiving' \in BOOLEAN /\ disturbed' \in BOOLEAN
        /\ killTimer' \in {"off", "this", "next"}
    BY <1>6, DecodeCycleAssumption DEF NextPeriod, InStepAgain
  <2> QED BY <1>6, <2>1, <2>2 DEF NextPeriod, results, decoder, pipe, LinesOfPeriods
<1>7. CASE jt9_start
  BY ZenonT(60), <1>7 DEF jt9_start, time, results, files, pipe, LinesOfPeriods
<1>8. CASE jt9_decode
  <2>1. Decode(job) \in Output /\ Decode(job).of # 0 BY <1>8 DEF jt9_decode, Decode, Output
  <2>2. stdout' \in Seq(Output) /\ LinesOfPeriods'
    BY <1>8, <2>1 DEF jt9_decode, LinesOfPeriods
  <2> QED BY <1>8, <2>2 DEF jt9_decode, time, results, files
<1>9. CASE jt9_finish
  <2>1. DecodeFinished(job) \in Output /\ DecodeFinished(job).finished
    BY DEF DecodeFinished, Output
  <2>2. stdout' \in Seq(Output) /\ LinesOfPeriods'
    BY <1>9, <2>1 DEF jt9_finish, LinesOfPeriods
  <2>3. UNCHANGED <<period, point, receiving, busy, nzhsym, nDecodes, bDecoded, killTimer,
                    fnameWE, saved, start, done, audio, job, found, clicks, heard, disturbed,
                    redone>>
    BY <1>9 DEF jt9_finish, time, results, files
  <2>4. jt9' = "finished" /\ ready' = TRUE BY <1>9 DEF jt9_finish
  <2> QED BY <2>2, <2>3, <2>4
<1>10. CASE jt9_resume
  <2>1. UNCHANGED <<period, point, receiving, busy, nzhsym, nDecodes, bDecoded, killTimer,
                    fnameWE, saved, start, audio, job, found, stdout, ready, clicks, heard,
                    disturbed, redone>>
    BY <1>10 DEF jt9_resume, time, results, files, pipe
  <2>2. jt9' = "waiting" /\ done' = FALSE BY <1>10 DEF jt9_resume
  <2>3. LinesOfPeriods' BY <2>1 DEF LinesOfPeriods
  <2>4. done' \in BOOLEAN /\ jt9' \in {"waiting", "decoding", "finished"} BY <2>2
  <2>5. TypeOK' BY <2>1, <2>4
  <2> QED BY <2>3, <2>5
<1>11. CASE UNCHANGED vars
  <2>1. UNCHANGED <<period, point, receiving, busy, nzhsym, nDecodes, bDecoded, killTimer,
                    fnameWE, saved, start, done, audio, jt9, job, found, stdout, ready, clicks,
                    heard, disturbed, redone>>
    BY <1>11 DEF vars, time, results, files, decoder, pipe
  <2>2. LinesOfPeriods' BY <2>1 DEF LinesOfPeriods
  <2> QED BY <2>1, <2>2
<1> QED BY <1>1, <1>2, <1>3, <1>4, <1>5, <1>6, <1>7, <1>8, <1>9, <1>10, <1>11 DEF Next, Jt9

-----------------------------------------------------------------------------
(* Keeping in step. *)

\* When what is pending and what is busy stay the same, so does being in step.
LEMMA SameStep ==
    ASSUME Types, InStep, UNCHANGED <<busy, start, jt9, stdout>>,
           disturbed' = disturbed \/ InStepAgain
    PROVE  InStep'
<1>1. Pending' = Pending BY DEF Pending
<1>2. CASE disturbed' = disturbed BY <1>1, <1>2 DEF InStep
<1>3. CASE InStepAgain
  <2>1. Pending \in Nat BY PendingType DEF Types
  <2>2. CASE disturbed /\ ~disturbed'
    <3>1. ~busy /\ ~(Pending > 0) BY <1>3, <2>2, Zenon DEF InStepAgain
    <3>2. Pending = 0 BY <2>1, <3>1
    <3> QED BY <1>1, <3>1, <3>2 DEF InStep
  <2>3. CASE disturbed'
    BY <2>3 DEF InStep
  <2>4. CASE ~disturbed
    BY <1>1, <2>4 DEF InStep
  <2> QED BY <2>2, <2>3, <2>4
<1> QED BY <1>2, <1>3

\* A decoder that is idle, in step with the window, has nothing pending: one start then
\* makes it busy with one decode.
LEMMA StartStep ==
    ASSUME Types, InStep, ~busy, busy' = TRUE, start' = TRUE, UNCHANGED <<jt9, stdout>>,
           disturbed' = disturbed
    PROVE  InStep'
<1> SUFFICES ASSUME ~disturbed PROVE Pending' = 1 BY DEF InStep
<1>1. Pending = 0 BY DEF InStep
<1>2. jt9 # "decoding" /\ Cardinality(Finished(stdout)) = 0 BY <1>1, PendingType DEF Types
<1> QED BY <1>2 DEF Pending

\* readFromStdout () takes the one report away, and with it the decoder is idle.
LEMMA ReadInStep ==
    ASSUME Types, InStep, readFromStdout
    PROVE  InStep'
<1> SUFFICES ASSUME ~disturbed PROVE Pending' = IF busy' THEN 1 ELSE 0
  BY DEF InStep, readFromStdout
<1>1. stdout \in Seq(Output) /\ busy \in BOOLEAN BY DEF Types, TypeOK
<1>2. start' = start /\ jt9' = jt9 BY DEF readFromStdout, decoder
<1>3. PICK last \in 0 .. Len(stdout) :
        /\ Finished(stdout) \cap (1 .. last - 1) = {}
        /\ last \in Finished(stdout) \/ last = Len(stdout)
        /\ stdout' = SubSeq(stdout, last + 1, Len(stdout))
        /\ last \in Finished(stdout) => ~busy'
        /\ last \notin Finished(stdout) => busy' = busy
  BY DEF readFromStdout, decodeDone
<1>4. Pending = IF busy THEN 1 ELSE 0 BY DEF InStep
<1>5. CASE last \in Finished(stdout)
  <2>1. IsFiniteSet(Finished(stdout)) /\ Cardinality(Finished(stdout)) \in Nat
    BY <1>1, FinishedFinite
  <2>2. Cardinality(Finished(stdout)) # 0 BY <1>5, <2>1, FS_EmptySet
  <2>3. ~start /\ jt9 # "decoding" /\ Cardinality(Finished(stdout)) = 1
    BY <1>4, <2>1, <2>2 DEF Pending, Types, TypeOK
  <2>4. Cardinality(Finished(stdout')) = 0 BY <1>1, <1>3, <1>5, <2>3, NoneFollows
  <2> QED BY <1>2, <1>3, <1>5, <2>3, <2>4 DEF Pending
<1>6. CASE last \notin Finished(stdout)
  <2>1. Finished(stdout) = {}
    BY <1>1, <1>3, <1>6 DEF Finished
  <2>2. stdout' = <<>> BY <1>1, <1>3, <1>6
  <2>3. Finished(stdout') = {} BY <2>2 DEF Finished
  <2>4. Pending' = Pending BY <1>2, <2>1, <2>3 DEF Pending
  <2> QED BY <1>3, <1>4, <1>6, <2>4
<1> QED BY <1>5, <1>6

\* What dataSink () does as time passes.
LEMMA TickInStep ==
    ASSUME Types, InStep, Tick
    PROVE  InStep'
<1> USE DEF Types, TypeOK
<1>1. UNCHANGED <<jt9, stdout>> BY DEF Tick, decoder, pipe
<1>2. CASE UNCHANGED <<busy, start>> /\ InStepAgain BY <1>1, <1>2, SameStep
<1>3. CASE ClearHung
  <2>1. CASE busy BY <1>3, <2>1 DEF ClearHung, InStep
  <2>2. CASE ~busy BY <1>1, <1>3, <2>2, SameStep DEF ClearHung
  <2> QED BY <2>1, <2>2
<1>4. ASSUME NEW symbols \in Stages, dataSink(symbols) PROVE InStep'
  <2>1. decode /\ disturbed' = disturbed BY <1>4 DEF dataSink
  <2>2. CASE busy BY <1>1, <2>1, <2>2, SameStep DEF decode
  <2>3. CASE ~busy BY <1>1, <2>1, <2>3, StartStep DEF decode
  <2> QED BY <2>2, <2>3
<1> QED BY <1>2, <1>3, <1>4 DEF Tick

\* Every step keeps the window and the decoder in step.
LEMMA InStepStep ==
    ASSUME Types, InStep, [Next]_vars
    PROVE  InStep'
<1> USE DEF Types, TypeOK
<1>1. CASE readFromStdout BY <1>1, ReadInStep
<1>2. CASE Clear BY <1>2 DEF Clear, InStep
<1>3. CASE DecodeAgain BY <1>3, StartStep DEF DecodeAgain, decoder, pipe
<1>4. CASE on_cbCQonly_toggled
  <2>1. CASE busy BY <1>4, <2>1 DEF on_cbCQonly_toggled, InStep
  <2>2. CASE ~busy BY <1>4, <2>2, StartStep DEF on_cbCQonly_toggled, decoder, pipe
  <2> QED BY <2>1, <2>2
<1>5. CASE Tick BY <1>5, TickInStep
<1>6. CASE NextPeriod BY <1>6, SameStep DEF NextPeriod, decoder, pipe
<1>7. CASE jt9_start
  <2>1. Cardinality(Finished(stdout)) \in Nat BY PendingType
  <2>2. Pending' = Pending BY <1>7, <2>1 DEF jt9_start, pipe, Pending
  <2> QED BY <1>7, <2>2 DEF jt9_start, InStep
<1>8. CASE jt9_decode
  <2>1. Decode(job) \in Output /\ ~Decode(job).finished BY DEF Decode, Output
  <2>2. Cardinality(Finished(stdout')) = Cardinality(Finished(stdout))
    BY <1>8, <2>1, FinishedAppend, PendingType DEF jt9_decode
  <2>3. Pending' = Pending BY <1>8, <2>2 DEF jt9_decode, Pending
  <2> QED BY <1>8, <2>3 DEF jt9_decode, InStep
<1>9. CASE jt9_finish
  <2>1. DecodeFinished(job) \in Output /\ DecodeFinished(job).finished
    BY DEF DecodeFinished, Output
  <2>2. Cardinality(Finished(stdout')) = Cardinality(Finished(stdout)) + 1
    BY <1>9, <2>1, FinishedAppend DEF jt9_finish
  <2>3. Pending' = Pending BY <1>9, <2>2, PendingType DEF jt9_finish, Pending
  <2> QED BY <1>9, <2>3 DEF jt9_finish, InStep
<1>10. CASE jt9_resume
  <2>1. Pending' = Pending BY <1>10 DEF jt9_resume, pipe, Pending
  <2> QED BY <1>10, <2>1 DEF jt9_resume, InStep
<1>11. CASE UNCHANGED vars BY <1>11, SameStep DEF vars, decoder, pipe
<1> QED BY <1>1, <1>2, <1>3, <1>4, <1>5, <1>6, <1>7, <1>8, <1>9, <1>10, <1>11 DEF Next, Jt9

\* At first nothing is pending.
LEMMA InStepInitially == Init => InStep
<1> SUFFICES ASSUME Init PROVE Pending = 0 /\ ~busy BY DEF InStep
<1>1. Finished(stdout) = {} BY DEF Init, Finished
<1>2. Cardinality(Finished(stdout)) = 0 BY <1>1, FS_EmptySet
<1>3. start = FALSE /\ jt9 = "waiting" /\ busy = FALSE BY DEF Init
<1> QED BY <1>2, <1>3 DEF Pending

\* The audio is replaced by decode () alone, which finds nothing pending if they are in step.
LEMMA AudioStep ==
    ASSUME Types, InStep, [Next]_vars, audio' # audio, start \/ jt9 = "decoding"
    PROVE  disturbed
<1>1. Tick
  BY DEF Next, Jt9, vars, readFromStdout, Clear, DecodeAgain, on_cbCQonly_toggled, NextPeriod,
         jt9_start, jt9_decode, jt9_finish, jt9_resume
<1>2. ~busy BY <1>1 DEF Tick, ClearHung, dataSink, decode
<1>3. Pending # 0 BY PendingType DEF Types
<1> QED BY <1>2, <1>3 DEF InStep

-----------------------------------------------------------------------------
(* Results and files are of their period. *)

\* A period has been decoded, or its first decode is due.
Past(p) == p < period \/ (p = period /\ receiving /\ point \in Stages)

\* Decodes of the period are due before its audio is saved.
Between == receiving /\ point \in {"41", "47"}

\* jt9 prints DecodeFinished last.
OutputEnds == jt9 # "decoding" /\ stdout # <<>> => stdout[Len(stdout)].finished

\* In step, what is to be read is of the last decode.
OutputOfJob == ~disturbed => \A i \in DOMAIN stdout : stdout[i].of = job

\* In step, and not asked by the operator, jt9 decodes the period since its first decode
\* was due: before it a busy decoder is taken for hung.
DecodesPeriod ==
    ~disturbed /\ ~redone /\ receiving =>
      /\ point = "40" => ~busy
      /\ point \in Stages /\ busy => (IF start THEN audio ELSE job) = period

\* Nothing is of a period not yet decoded.
NotAhead ==
    /\ Past(audio) /\ Past(job) /\ \A p \in heard : Past(p)
    /\ \A i \in DOMAIN stdout : Past(stdout[i].of)

\* Decodes of the period are counted until the last of its decodes.
Counts == Between => nzhsym = point /\ (period \in heard => nDecodes)

\* A decode of the file saved last is counted, by m_nDecodes until the decoder is done and
\* by m_bDecoded then; only a hung decoder, cleared, is not in step.
Kept ==
    ~redone /\ ~Between =>
      /\ disturbed => receiving /\ point = "40"
      /\ ~disturbed /\ fnameWE \in heard => IF busy THEN nDecodes ELSE bDecoded

ResultsInv == OutputEnds /\ OutputOfJob /\ DecodesPeriod /\ NotAhead /\ Counts /\ Kept

\* The order of the points.
LEMMA AfterPoints ==
    /\ After("start") = "half" /\ After("half") = "kill" /\ After("kill") = "40"
    /\ After("40") = "41" /\ After("41") = "47" /\ After("47") = "50"
<1>1. \A p : \A i \in 1 .. 6 : Points[i] = p => After(p) = Points[1 + i]
  <2> SUFFICES ASSUME NEW p, NEW i \in 1 .. 6, Points[i] = p
               PROVE  After(p) = Points[1 + i]
    OBVIOUS
  <2>1. \A j \in 1 .. 6 : Points[j] = p => j = i BY DEF Points
  <2>2. (CHOOSE j \in 1 .. 6 : Points[j] = p) = i BY <2>1
  <2> QED BY <2>2 DEF After
<1>2. /\ Points[1] = "start" /\ Points[2] = "half" /\ Points[3] = "kill" /\ Points[4] = "40"
      /\ Points[5] = "41" /\ Points[6] = "47" /\ Points[7] = "50"
  BY DEF Points
<1> QED BY <1>1, <1>2

\* The points are seven.
LEMMA PointsAre == Range(Points) = {"start", "half", "kill", "40", "41", "47", "50"}
BY DEF Range, Points

\* With no decode pending everything has been read.
LEMMA NothingPending ==
    ASSUME Types, OutputEnds, Pending = 0
    PROVE  ~start /\ jt9 # "decoding" /\ stdout = <<>>
<1>1. ~start /\ jt9 # "decoding" /\ Cardinality(Finished(stdout)) = 0
  BY PendingType DEF Types
<1>2. stdout \in Seq(Output) BY DEF Types, TypeOK
<1>3. Finished(stdout) = {} BY <1>1, <1>2, FinishedFinite, FS_EmptySet
<1>4. ASSUME stdout # <<>> PROVE FALSE
  <2>1. Len(stdout) \in DOMAIN stdout BY <1>2, <1>4
  <2>2. Len(stdout) \in Finished(stdout) BY <1>1, <1>4, <2>1 DEF OutputEnds, Finished
  <2> QED BY <1>3, <2>2
<1> QED BY <1>1, <1>4

\* In step, output not read is of a decode that has been started, and busy.
LEMMA OutputMeansBusy ==
    ASSUME Types, InStep, OutputEnds, ~disturbed, stdout # <<>>
    PROVE  busy /\ ~start
<1>1. Pending # 0 BY NothingPending
<1>2. busy /\ Pending = 1 BY <1>1 DEF InStep
<1>3. CASE jt9 = "decoding" BY <1>2, <1>3, PendingType DEF Pending, Types, TypeOK
<1>4. CASE jt9 # "decoding"
  <2>1. stdout \in Seq(Output) BY DEF Types, TypeOK
  <2>2. Len(stdout) \in Finished(stdout) BY <1>4, <2>1 DEF OutputEnds, Finished
  <2>3. Cardinality(Finished(stdout)) # 0 BY <2>1, <2>2, FinishedFinite, FS_EmptySet
  <2> QED BY <1>2, <1>4, <2>3, PendingType DEF Pending, Types, TypeOK
<1> QED BY <1>2, <1>3, <1>4

\* What readFromStdout () does: it takes lines off the front of the output.
LEMMA ReadFacts ==
    ASSUME Types, readFromStdout
    PROVE  \E last \in 0 .. Len(stdout) :
             /\ stdout' = SubSeq(stdout, last + 1, Len(stdout))
             /\ Len(stdout') = Len(stdout) - last
             /\ \A i \in DOMAIN stdout' :
                  last + i \in DOMAIN stdout /\ stdout'[i] = stdout[last + i]
             /\ \A p \in heard' \ heard : \E i \in DOMAIN stdout : p = stdout[i].of
             /\ IF last \in Finished(stdout)
                THEN \E d \in BOOLEAN :
                       decodeDone(d) /\ (nDecodes \/ heard' # heard => d)
                ELSE /\ nDecodes => nDecodes'
                     /\ heard' # heard => nDecodes'
                     /\ UNCHANGED <<bDecoded, killTimer, busy, done>>
<1> DEFINE lines(last) == {stdout[i] : i \in (1 .. last) \ Finished(stdout)}
           decodes(last) == nDecodes \/ lines(last) # {}
<1>1. stdout \in Seq(Output) /\ nDecodes \in BOOLEAN BY DEF Types, TypeOK
<1>2. PICK last \in 0 .. Len(stdout) :
        /\ stdout' = SubSeq(stdout, last + 1, Len(stdout))
        /\ heard' = heard \cup {line.of : line \in lines(last)}
        /\ IF last \in Finished(stdout) THEN decodeDone(decodes(last))
           ELSE /\ nDecodes' = decodes(last)
                /\ UNCHANGED <<bDecoded, killTimer, busy, done>>
  BY DEF readFromStdout
<1>3. /\ Len(stdout') = Len(stdout) - last
      /\ \A i \in DOMAIN stdout' : last + i \in DOMAIN stdout /\ stdout'[i] = stdout[last + i]
  BY <1>1, <1>2
<1>4. heard' # heard => lines(last) # {} BY <1>2
<1>5. \A p \in heard' \ heard : \E i \in DOMAIN stdout : p = stdout[i].of
  <2> SUFFICES ASSUME NEW p \in heard' \ heard
               PROVE  \E i \in DOMAIN stdout : p = stdout[i].of
    OBVIOUS
  <2>1. PICK line \in lines(last) : p = line.of BY <1>2
  <2>2. PICK i \in (1 .. last) \ Finished(stdout) : line = stdout[i] BY <2>1
  <2> QED BY <1>1, <2>1, <2>2
<1>6. decodes(last) \in BOOLEAN /\ (nDecodes \/ heard' # heard => decodes(last))
  BY <1>1, <1>4
<1> HIDE DEF lines, decodes
<1>7. CASE last \in Finished(stdout) BY <1>2, <1>3, <1>5, <1>6, <1>7
<1>8. CASE last \notin Finished(stdout) BY <1>2, <1>3, <1>5, <1>6, <1>8
<1> QED BY <1>7, <1>8

\* jt9's output ends with a report unless it decodes.
LEMMA OutputEndsStep ==
    ASSUME Types, OutputEnds, [Next]_vars
    PROVE  OutputEnds'
<1>1. stdout \in Seq(Output) BY DEF Types, TypeOK
<1>2. CASE readFromStdout
  <2>1. PICK last \in 0 .. Len(stdout) :
          /\ stdout' = SubSeq(stdout, last + 1, Len(stdout))
          /\ Len(stdout') = Len(stdout) - last
          /\ \A i \in DOMAIN stdout' :
               last + i \in DOMAIN stdout /\ stdout'[i] = stdout[last + i]
    BY <1>2, ReadFacts
  <2>2. stdout' \in Seq(Output) /\ jt9' = jt9
    BY <1>2, ReadTypes DEF readFromStdout, decoder, Types, TypeOK
  <2>3. ASSUME jt9 # "decoding", stdout' # <<>> PROVE stdout'[Len(stdout')].finished
    <3>1. Len(stdout') \in DOMAIN stdout' BY <2>2, <2>3
    <3>2. stdout # <<>> BY <1>1, <2>1, <3>1
    <3>3. last + Len(stdout') = Len(stdout) BY <1>1, <2>1
    <3>4. stdout'[Len(stdout')] = stdout[Len(stdout)] BY <2>1, <3>1, <3>3
    <3> QED BY <2>3, <3>2, <3>4 DEF OutputEnds
  <2> QED BY <2>2, <2>3 DEF OutputEnds
<1>3. CASE jt9_finish
  <2>1. stdout' = Append(stdout, DecodeFinished(job)) /\ DecodeFinished(job).finished
    BY <1>3 DEF jt9_finish, DecodeFinished
  <2>2. stdout'[Len(stdout')] = DecodeFinished(job) BY <1>1, <2>1
  <2> QED BY <2>1, <2>2 DEF OutputEnds
<1>4. CASE jt9_start \/ jt9_decode BY <1>4 DEF jt9_start, jt9_decode, OutputEnds
<1>5. CASE jt9_resume BY <1>5 DEF jt9_resume, pipe, OutputEnds
<1>6. CASE Clear \/ DecodeAgain \/ on_cbCQonly_toggled \/ Tick \/ NextPeriod \/ UNCHANGED vars
  <2>1. UNCHANGED <<jt9, stdout>>
    BY <1>6 DEF Clear, DecodeAgain, on_cbCQonly_toggled, Tick, NextPeriod, vars, decoder, pipe
  <2> QED BY <2>1 DEF OutputEnds
<1> QED BY <1>2, <1>3, <1>4, <1>5, <1>6 DEF Next, Jt9

\* Whoever finds the two in step again finds no output.
LEMMA InStepAgainEmpty ==
    ASSUME Types, OutputEnds, InStepAgain, disturbed, ~disturbed'
    PROVE  ~busy /\ ~start /\ jt9 # "decoding" /\ stdout = <<>>
<1>1. Pending \in Nat BY PendingType DEF Types
<1>2. ~busy /\ ~(Pending > 0) BY Zenon DEF InStepAgain
<1>3. Pending = 0 BY <1>1, <1>2
<1> QED BY <1>2, <1>3, NothingPending

\* A Tick in a period received is one of dataSink () from the 40th symbol on.
LEMMA TickCases ==
    ASSUME Types, Tick
    PROVE  /\ point # "50" /\ point' = After(point)
           /\ UNCHANGED <<period, receiving, decoder, pipe, clicks, heard>>
           /\ \/ /\ killFile /\ InStepAgain /\ point' = "kill"
                 /\ UNCHANGED <<busy, nzhsym, results, start, done, audio, redone>>
              \/ point' = "40" /\ receiving /\ ClearHung
              \/ point' \in Stages /\ receiving /\ dataSink(point')
              \/ /\ InStepAgain /\ ~(receiving /\ point' \in Stages \cup {"40"})
                 /\ UNCHANGED <<busy, nzhsym, results, files, start, done, audio, redone>>
BY DEF Tick, Stages

\* In step, the output is of the last decode.
LEMMA OutputOfJobStep ==
    ASSUME Types, InStep, OutputEnds, OutputOfJob, [Next]_vars
    PROVE  OutputOfJob'
<1>1. stdout \in Seq(Output) BY DEF Types, TypeOK
<1>2. CASE readFromStdout
  <2>1. PICK last \in 0 .. Len(stdout) :
          \A i \in DOMAIN stdout' :
            last + i \in DOMAIN stdout /\ stdout'[i] = stdout[last + i]
    BY <1>2, ReadFacts
  <2>2. UNCHANGED <<disturbed, job>> BY <1>2 DEF readFromStdout, decoder
  <2> QED BY <2>1, <2>2 DEF OutputOfJob
<1>3. CASE jt9_start
  <2>1. ~disturbed => stdout = <<>> BY <1>3, OutputMeansBusy DEF jt9_start
  <2>2. stdout' = stdout /\ disturbed' = disturbed BY <1>3 DEF jt9_start, pipe
  <2> QED BY <2>1, <2>2 DEF OutputOfJob
<1>4. CASE jt9_decode
  <2>1. /\ stdout' = Append(stdout, Decode(job)) /\ Decode(job).of = job
        /\ UNCHANGED <<disturbed, job>>
    BY <1>4 DEF jt9_decode, Decode
  <2> QED BY <1>1, <2>1 DEF OutputOfJob
<1>5. CASE jt9_finish
  <2>1. /\ stdout' = Append(stdout, DecodeFinished(job)) /\ DecodeFinished(job).of = job
        /\ UNCHANGED <<disturbed, job>>
    BY <1>5 DEF jt9_finish, DecodeFinished
  <2> QED BY <1>1, <2>1 DEF OutputOfJob
<1>6. CASE jt9_resume BY <1>6 DEF jt9_resume, pipe, OutputOfJob
<1>7. CASE Clear \/ DecodeAgain \/ on_cbCQonly_toggled \/ Tick \/ NextPeriod \/ UNCHANGED vars
  <2>1. UNCHANGED <<job, stdout>>
    BY <1>7 DEF Clear, DecodeAgain, on_cbCQonly_toggled, Tick, NextPeriod, vars, decoder, pipe
  <2>2. ~disturbed' => ~disturbed \/ InStepAgain
    BY <1>7 DEF Clear, DecodeAgain, on_cbCQonly_toggled, Tick, NextPeriod, vars, ClearHung,
                dataSink
  <2>3. ~disturbed' => ~disturbed \/ stdout = <<>> BY <2>2, InStepAgainEmpty
  <2> QED BY <2>1, <2>3 DEF OutputOfJob
<1> QED BY <1>2, <1>3, <1>4, <1>5, <1>6, <1>7 DEF Next, Jt9

\* In step, the period is decoded from its first decode on.
LEMMA DecodesPeriodStep ==
    ASSUME Types, InStep, OutputEnds, DecodesPeriod, [Next]_vars
    PROVE  DecodesPeriod'
<1> USE DEF Types, TypeOK
<1>1. CASE readFromStdout
  <2>1. UNCHANGED <<period, point, receiving, start, audio, job, disturbed, redone>>
    BY <1>1 DEF readFromStdout, time, decoder
  <2>2. busy' => busy BY <1>1 DEF readFromStdout, decodeDone
  <2> QED BY <2>1, <2>2 DEF DecodesPeriod
<1>2. CASE Clear \/ DecodeAgain \/ on_cbCQonly_toggled
  BY <1>2 DEF Clear, DecodeAgain, on_cbCQonly_toggled, DecodesPeriod
<1>3. CASE Tick
  <2>1. CASE point' = "40" /\ receiving /\ ClearHung
    <3>1. ~disturbed' => ~busy' BY <2>1 DEF ClearHung, decodeDone
    <3> QED BY <2>1, <3>1 DEF DecodesPeriod, Stages
  <2>2. CASE point' \in Stages /\ receiving /\ dataSink(point')
    <3>1. point' # "40" BY <2>2 DEF Stages
    <3>2. ASSUME ~disturbed', ~redone' PROVE (IF start' THEN audio' ELSE job') = period'
      <4>1. UNCHANGED <<period, job, jt9>> /\ ~disturbed
        BY <1>3, <2>2, <3>2, TickCases DEF dataSink, decoder
      <4>2. CASE ~busy BY <2>2, <4>1, <4>2 DEF dataSink, decode
      <4>3. CASE busy
        <5>1. ~redone BY <2>2, <3>2, <4>3 DEF dataSink
        <5>2. UNCHANGED <<start, audio>> BY <2>2, <4>3 DEF dataSink, decode
        <5>3. point \in Stages
          BY <1>3, <2>2, <4>1, <4>3, <5>1, AfterPoints, PointsAre, TickCases
          DEF DecodesPeriod, Stages
        <5> QED BY <2>2, <4>1, <4>3, <5>1, <5>2, <5>3 DEF DecodesPeriod
      <4> QED BY <4>2, <4>3
    <3> QED BY <3>1, <3>2 DEF DecodesPeriod
  <2>3. CASE ~(receiving /\ point' \in Stages \cup {"40"})
    BY <1>3, <2>3, TickCases DEF DecodesPeriod
  <2> QED BY <1>3, <2>1, <2>2, <2>3, TickCases DEF Stages
<1>4. CASE NextPeriod BY <1>4 DEF NextPeriod, DecodesPeriod, Stages
<1>5. CASE jt9_start
  <2>1. UNCHANGED <<period, point, receiving, busy, disturbed, redone>>
    BY <1>5 DEF jt9_start, time
  <2>2. start /\ ~start' /\ job' = audio BY <1>5 DEF jt9_start
  <2> QED BY <2>1, <2>2 DEF DecodesPeriod
<1>6. CASE jt9_decode \/ jt9_finish \/ jt9_resume \/ UNCHANGED vars
  <2>1. UNCHANGED <<period, point, receiving, busy, start, audio, job, disturbed, redone>>
    BY <1>6 DEF jt9_decode, jt9_finish, jt9_resume, vars, time, decoder
  <2> QED BY <2>1 DEF DecodesPeriod
<1> QED BY <1>1, <1>2, <1>3, <1>4, <1>5, <1>6 DEF Next, Jt9

\* What has been decoded stays past.
LEMMA PastStep ==
    ASSUME Types, [Next]_vars, NEW p \in Int, Past(p)
    PROVE  Past(p)'
<1> USE DEF Types, TypeOK
<1>1. CASE Tick
  <2>1. UNCHANGED <<period, receiving>> /\ point # "50" /\ point' = After(point)
    BY <1>1, TickCases
  <2>2. point \in Stages => point' \in Stages BY <2>1, AfterPoints DEF Stages
  <2> QED BY <2>1, <2>2 DEF Past
<1>2. CASE NextPeriod
  <2>1. period' = period + 1 /\ period \in Int BY <1>2 DEF NextPeriod
  <2>2. CASE p < period BY <2>1, <2>2 DEF Past
  <2>3. CASE p = period BY <2>1, <2>3 DEF Past
  <2> QED BY <2>2, <2>3 DEF Past
<1>3. CASE UNCHANGED time BY <1>3 DEF time, Past
<1> QED BY <1>1, <1>2, <1>3
    DEF Next, Jt9, vars, readFromStdout, Clear, DecodeAgain, on_cbCQonly_toggled, jt9_start,
        jt9_decode, jt9_finish, jt9_resume

\* Nothing gets ahead: decode () copies the audio of a period whose first decode is due.
LEMMA NotAheadStep ==
    ASSUME Types, NotAhead, [Next]_vars
    PROVE  NotAhead'
<1>1. stdout \in Seq(Output) BY DEF Types, TypeOK
<1>2. \A p \in Int : Past(p) => Past(p)' BY PastStep
<1>0. /\ audio \in Int /\ job \in Int /\ heard \subseteq Int
      /\ \A i \in DOMAIN stdout : stdout[i].of \in Int
  <2>1. stdout \in Seq(Output) BY DEF Types, TypeOK
  <2>2. \A i \in DOMAIN stdout : stdout[i] \in Output BY <2>1
  <2>3. \A line \in Output : line.of \in Int BY DEF Output
  <2> QED BY <2>2, <2>3, DecodeCycleAssumption DEF Types, TypeOK
<1>3. CASE readFromStdout
  <2>1. PICK last \in 0 .. Len(stdout) :
          /\ \A i \in DOMAIN stdout' :
               last + i \in DOMAIN stdout /\ stdout'[i] = stdout[last + i]
          /\ \A p \in heard' \ heard : \E i \in DOMAIN stdout : p = stdout[i].of
    BY <1>3, ReadFacts
  <2>2. UNCHANGED <<audio, job>> BY <1>3 DEF readFromStdout, decoder
  <2>3. \A p \in heard' : p \in Int /\ Past(p) BY ZenonT(60), <1>0, <2>1 DEF NotAhead
  <2>4. \A i \in DOMAIN stdout' : stdout'[i].of \in Int /\ Past(stdout'[i].of)
    BY <1>0, <2>1 DEF NotAhead
  <2> QED BY <1>0, <1>2, <2>2, <2>3, <2>4 DEF NotAhead
<1>4. CASE jt9_decode \/ jt9_finish
  <2>1. UNCHANGED <<audio, job, heard>> BY <1>4 DEF jt9_decode, jt9_finish
  <2>2. PICK line : line.of = job /\ stdout' = Append(stdout, line)
    BY <1>4 DEF jt9_decode, jt9_finish, Decode, DecodeFinished
  <2>3. \A i \in DOMAIN stdout' : \/ i \in DOMAIN stdout /\ stdout'[i] = stdout[i]
                                  \/ stdout'[i] = line
    BY <1>1, <2>2
  <2>4. \A i \in DOMAIN stdout' : stdout'[i].of \in Int /\ Past(stdout'[i].of)
    BY <1>0, <2>2, <2>3 DEF NotAhead
  <2> QED BY <1>0, <1>2, <2>1, <2>4 DEF NotAhead
<1>5. CASE jt9_start
  <2>1. job' = audio /\ UNCHANGED <<audio, heard, stdout>> BY <1>5 DEF jt9_start, pipe
  <2> QED BY <1>0, <1>2, <2>1 DEF NotAhead
<1>6. CASE Tick
  <2>1. UNCHANGED <<job, heard, stdout>> BY <1>6 DEF Tick, decoder, pipe
  <2>2. audio' # audio => audio' = period' /\ receiving' /\ point' \in Stages
    <3>1. ASSUME point' \in Stages, receiving, dataSink(point'), audio' # audio
          PROVE  audio' = period
      BY <3>1 DEF dataSink, decode
    <3>2. period' = period /\ receiving' = receiving BY <1>6, TickCases
    <3>3. CASE ClearHung BY <3>3 DEF ClearHung
    <3> QED BY <1>6, <3>1, <3>2, <3>3, TickCases
  <2>3. CASE audio' = audio BY <1>0, <1>2, <2>1, <2>3 DEF NotAhead
  <2>4. CASE audio' # audio
    <3>1. Past(audio)' BY <2>2, <2>4 DEF Past
    <3> QED BY <1>0, <1>2, <2>1, <3>1 DEF NotAhead
  <2> QED BY <2>3, <2>4
<1>7. CASE Clear \/ DecodeAgain \/ on_cbCQonly_toggled \/ NextPeriod \/ jt9_resume
           \/ UNCHANGED vars
  <2>1. UNCHANGED <<audio, job, heard, stdout>>
    BY <1>7 DEF Clear, DecodeAgain, on_cbCQonly_toggled, NextPeriod, jt9_resume, vars, decoder,
                pipe
  <2> QED BY <1>0, <1>2, <2>1 DEF NotAhead
<1> QED BY <1>3, <1>4, <1>5, <1>6, <1>7 DEF Next, Jt9

\* Counting goes on: m_nDecodes is reset after the last decode only.
LEMMA CountsStep ==
    ASSUME Types, NotAhead, Counts, [Next]_vars
    PROVE  Counts'
<1> USE DEF Types, TypeOK
<1>1. CASE readFromStdout
  <2>1. UNCHANGED <<period, point, receiving, nzhsym>> BY <1>1 DEF readFromStdout, time
  <2>2. ASSUME Between, period \in heard' PROVE nDecodes'
    <3>1. nzhsym # "50" BY <2>2 DEF Between, Counts
    <3>2. nDecodes \/ heard' # heard BY <2>2 DEF Counts
    <3> QED BY <1>1, <3>1, <3>2, ReadFacts DEF decodeDone
  <2> QED BY <2>1, <2>2 DEF Counts, Between
<1>2. CASE Clear
  <2>1. UNCHANGED <<period, point, receiving, nzhsym, heard>> BY <1>2 DEF Clear, time
  <2>2. nzhsym # "50" => nDecodes' = nDecodes BY <1>2 DEF Clear, decodeDone
  <2> QED BY <2>1, <2>2 DEF Counts, Between
<1>3. CASE Tick
  <2>1. UNCHANGED <<period, receiving, heard>> /\ point # "50" /\ point' = After(point)
    BY <1>3, TickCases
  <2>2. SUFFICES ASSUME Between'
                 PROVE  nzhsym' = point' /\ (period \in heard => nDecodes')
    BY <2>1 DEF Counts
  <2>3. dataSink(point') BY <1>3, <2>1, <2>2, TickCases DEF Between, Stages
  <2>4. nzhsym' = point' /\ nDecodes' = nDecodes BY <2>3 DEF dataSink, results
  <2>5. period \in heard => point \in Stages BY DEF NotAhead, Past
  <2>6. CASE point = "41" BY <2>1, <2>2, <2>4, <2>6 DEF Counts, Between
  <2>7. CASE point # "41"
    <3>1. point \notin Stages BY <2>1, <2>2, <2>7, AfterPoints DEF Between, Stages
    <3> QED BY <2>4, <2>5, <3>1
  <2> QED BY <2>6, <2>7
<1>4. CASE NextPeriod BY <1>4 DEF NextPeriod, Counts, Between
<1>5. CASE DecodeAgain \/ on_cbCQonly_toggled \/ Jt9 \/ jt9_decode \/ UNCHANGED vars
  <2>1. UNCHANGED <<period, point, receiving, nzhsym, heard, nDecodes>>
    BY <1>5 DEF DecodeAgain, on_cbCQonly_toggled, Jt9, jt9_start, jt9_decode, jt9_finish,
                jt9_resume, vars, time, results
  <2> QED BY <2>1 DEF Counts, Between
<1> QED BY <1>1, <1>2, <1>3, <1>4, <1>5 DEF Next

\* What the window knows of the decodes of the file saved last is kept.
LEMMA KeptStep ==
    ASSUME Types, InStep, OutputEnds, Counts, Kept, [Next]_vars
    PROVE  Kept'
<1> USE DEF Types, TypeOK
<1>1. CASE readFromStdout
  <2>1. UNCHANGED <<period, point, receiving, disturbed, redone, fnameWE>>
    BY <1>1 DEF readFromStdout, time
  <2>2. ASSUME ~redone, ~Between, ~disturbed, fnameWE \in heard'
        PROVE  IF busy' THEN nDecodes' ELSE bDecoded'
    <3>1. PICK last \in 0 .. Len(stdout) :
            /\ \A p \in heard' \ heard : \E i \in DOMAIN stdout : p = stdout[i].of
            /\ IF last \in Finished(stdout)
               THEN \E d \in BOOLEAN : decodeDone(d) /\ (nDecodes \/ heard' # heard => d)
               ELSE /\ nDecodes => nDecodes'
                    /\ heard' # heard => nDecodes'
                    /\ UNCHANGED <<bDecoded, killTimer, busy, done>>
      BY <1>1, ReadFacts
    <3>2. last \in Finished(stdout) => stdout # <<>> BY DEF Finished
    <3>3. heard' # heard => stdout # <<>>
      <4>1. heard \subseteq heard' BY <1>1 DEF readFromStdout
      <4>2. heard' # heard => \E p : p \in heard' \ heard BY <4>1
      <4> QED BY <3>1, <4>2
    <3>4. heard' # heard \/ last \in Finished(stdout) => busy
      BY <2>2, <3>2, <3>3, OutputMeansBusy
    <3>5. fnameWE \in heard => IF busy THEN nDecodes ELSE bDecoded BY <2>2 DEF Kept
    <3>6. CASE last \in Finished(stdout)
      <4>1. nDecodes \/ heard' # heard BY <2>2, <3>4, <3>5, <3>6
      <4> QED BY <3>1, <3>6, <4>1 DEF decodeDone
    <3>7. CASE last \notin Finished(stdout)
      <4>1. busy' = busy /\ bDecoded' = bDecoded BY <3>1, <3>7
      <4>2. CASE heard' # heard BY <3>1, <3>4, <3>7, <4>1, <4>2
      <4>3. CASE heard' = heard BY <2>2, <3>1, <3>5, <3>7, <4>1, <4>3
      <4> QED BY <4>2, <4>3
    <3> QED BY <3>6, <3>7
  <2> QED BY <2>1, <2>2 DEF Kept, Between
<1>2. CASE Clear \/ DecodeAgain \/ on_cbCQonly_toggled
  BY <1>2 DEF Clear, DecodeAgain, on_cbCQonly_toggled, Kept
<1>3. CASE Tick
  <2>1. UNCHANGED <<period, receiving, heard>> /\ point # "50" /\ point' = After(point)
    BY <1>3, TickCases
  <2>2. CASE /\ InStepAgain /\ ~(receiving /\ point' \in Stages \cup {"40"})
             /\ UNCHANGED <<busy, results, redone, bDecoded, fnameWE>>
    <3>1. point # "40" \/ ~receiving BY <2>1, <2>2, AfterPoints DEF Stages
    <3>2. ~Between BY <2>1, <2>2, AfterPoints DEF Between, Stages
    <3>3. disturbed' => disturbed BY <2>2 DEF InStepAgain
    <3>4. ~redone => ~disturbed BY <3>1, <3>2 DEF Kept
    <3> QED BY <2>1, <2>2, <3>2, <3>3, <3>4 DEF Kept, results
  <2>3. CASE point' = "40" /\ receiving /\ ClearHung
    <3>1. UNCHANGED <<redone, fnameWE>> BY <2>3 DEF ClearHung
    <3>2. ~Between BY <2>1, <2>3, AfterPoints DEF Between
    <3>3. ~disturbed' => /\ ~disturbed /\ ~busy
                         /\ UNCHANGED <<busy, nDecodes, bDecoded>>
      BY <2>3 DEF ClearHung, results
    <3> QED BY <2>1, <2>3, <3>1, <3>2, <3>3 DEF Kept
  <2>4. CASE point' \in Stages /\ receiving /\ dataSink(point')
    <3>1. SUFFICES ASSUME ~redone', ~Between'
                   PROVE  ~disturbed' /\ (fnameWE' \in heard => busy' /\ nDecodes')
      BY <2>1 DEF Kept
    <3>2. point' = "50" BY <2>1, <2>4, <3>1 DEF Between, Stages
    <3>3. fnameWE' = period /\ ~disturbed /\ disturbed' = disturbed /\ nDecodes' = nDecodes
      BY <2>4, <3>1, <3>2 DEF dataSink, results
    <3>4. busy' BY <2>4 DEF dataSink, decode
    <3>5. point = "47" BY <2>1, <3>2, AfterPoints, PointsAre
    <3> QED BY <2>4, <3>3, <3>4, <3>5 DEF Counts, Between
  <2> QED BY <1>3, <2>2, <2>3, <2>4, TickCases DEF Stages, killFile, files, results
<1>4. CASE NextPeriod
  <2>1. UNCHANGED <<busy, nDecodes, bDecoded, fnameWE, heard, redone>> /\ ~Between
    BY <1>4 DEF NextPeriod, results, Between
  <2>2. ~redone => ~disturbed BY <1>4, <2>1 DEF NextPeriod, Kept
  <2>3. disturbed' => disturbed BY <1>4 DEF NextPeriod, InStepAgain
  <2> QED BY <2>1, <2>2, <2>3 DEF Kept
<1>5. CASE Jt9 \/ jt9_decode \/ UNCHANGED vars
  <2>1. UNCHANGED <<point, receiving, busy, nDecodes, bDecoded, fnameWE, heard, disturbed, redone>>
    BY <1>5 DEF Jt9, jt9_start, jt9_decode, jt9_finish, jt9_resume, vars, time, results, files
  <2> QED BY <2>1 DEF Kept, Between
<1> QED BY <1>1, <1>2, <1>3, <1>4, <1>5 DEF Next

\* All of it holds at first.
LEMMA ResultsInitially == Init => ResultsInv
BY DecodeCycleAssumption
DEF Init, ResultsInv, OutputEnds, OutputOfJob, DecodesPeriod, NotAhead, Past, Counts, Between, Kept

\* Lines read are of the last decode, and that is of the period.
LEMMA StaleStep ==
    ASSUME Types, InStep, ResultsInv, [Next]_vars, ~disturbed, ~redone, receiving,
           point \in Stages, NEW p \in heard' \ heard
    PROVE  p = period
<1>1. readFromStdout
  BY DEF Next, Jt9, vars, Clear, DecodeAgain, on_cbCQonly_toggled, Tick, NextPeriod, jt9_start,
         jt9_decode, jt9_finish, jt9_resume
<1>2. PICK i \in DOMAIN stdout : p = stdout[i].of BY <1>1, ReadFacts
<1>3. stdout # <<>> BY <1>2
<1>4. busy /\ ~start BY <1>3, OutputMeansBusy DEF ResultsInv
<1> QED BY <1>2, <1>4 DEF ResultsInv, OutputOfJob, DecodesPeriod

\* killFile () removes a file before the next decodes are due, when m_bDecoded says
\* whether it has any.
LEMMA RemovalStep ==
    ASSUME Types, ResultsInv, [Next]_vars, saved, ~saved', fnameWE \in heard, ~busy
    PROVE  redone
<1>1. Tick
  BY DEF Next, Jt9, vars, files, readFromStdout, Clear, DecodeAgain, on_cbCQonly_toggled,
         NextPeriod, jt9_start, jt9_decode, jt9_finish, jt9_resume
<1>2. point' = "kill" /\ killFile /\ point # "50" /\ point' = After(point)
  BY <1>1, TickCases DEF ClearHung, dataSink, files
<1>3. ~bDecoded BY <1>2 DEF killFile
<1>4. point # "40" /\ point # "41" /\ point # "47" BY <1>2, AfterPoints
<1> QED BY <1>3, <1>4 DEF ResultsInv, Kept, Between

-----------------------------------------------------------------------------
\* The state keeps its type, for any number of periods and clicks.
THEOREM TypeCorrect == Spec => []TypeOK
<1>1. Init => Types BY TypesInitially
<1>2. Types /\ [Next]_vars => Types' BY TypesStep
<1>3. Types => TypeOK BY DEF Types
<1> QED BY <1>1, <1>2, <1>3, PTL DEF Spec

\* The main window and the decoder process stay in step unless the decoder is cleared or
\* started while it is busy (decode (), decodeDone (), jt9a).
THEOREM StaysInStep == Spec => []InStep
<1>1. Init => DecodeInv BY TypesInitially, InStepInitially DEF DecodeInv, Types
<1>2. DecodeInv /\ [Next]_vars => DecodeInv' BY TypesStep, InStepStep DEF DecodeInv, Types
<1>3. DecodeInv => InStep BY DEF DecodeInv
<1> QED BY <1>1, <1>2, <1>3, PTL DEF Spec

\* In step, the audio is never replaced while a decode of it is asked for or under way.
THEOREM AudioIsNotReplaced == Spec => AudioStays
<1>1. Init => DecodeInv BY TypesInitially, InStepInitially DEF DecodeInv, Types
<1>2. DecodeInv /\ [Next]_vars => DecodeInv' BY TypesStep, InStepStep DEF DecodeInv, Types
<1>3. DecodeInv /\ [Next]_vars =>
        [audio' # audio /\ (start \/ jt9 = "decoding") => disturbed]_vars
  BY AudioStep DEF DecodeInv, Types
<1> QED BY <1>1, <1>2, <1>3, PTL DEF Spec, AudioStays

\* The facts about results are an invariant, with those of being in step.
LEMMA ResultsAlways == Spec => [](DecodeInv /\ ResultsInv)
<1>1. Init => DecodeInv /\ ResultsInv
  BY TypesInitially, InStepInitially, ResultsInitially DEF DecodeInv, Types
<1>2. DecodeInv /\ ResultsInv /\ [Next]_vars => (DecodeInv /\ ResultsInv)'
  BY TypesStep, InStepStep, OutputEndsStep, OutputOfJobStep, DecodesPeriodStep, NotAheadStep,
     CountsStep, KeptStep
  DEF DecodeInv, Types, ResultsInv
<1> QED BY <1>1, <1>2, PTL DEF Spec

\* In step, what is read of the decoder once the first decode of a period was due is of
\* that period: nothing of an earlier one is left in its output or still decoded.
THEOREM NothingStaleIsRead == Spec => NoStaleDecodes
<1>1. DecodeInv /\ ResultsInv /\ [Next]_vars =>
        [\A p \in heard' \ heard :
           p # period /\ receiving /\ point \in Stages => disturbed \/ redone]_vars
  BY StaleStep DEF DecodeInv, Types
<1> QED BY <1>1, ResultsAlways, PTL DEF Spec, NoStaleDecodes

\* The audio of a period with decodes is not removed while the file is watched by a
\* decoder in step: decodeDone () does not find too late, or too early, that there are none.
THEOREM DecodedIsKept == Spec => SavedIfDecoded
<1>1. DecodeInv /\ ResultsInv /\ [Next]_vars =>
        [saved /\ ~saved' => fnameWE \notin heard \/ busy \/ redone]_vars
  BY RemovalStep DEF DecodeInv, Types
<1> QED BY <1>1, ResultsAlways, PTL DEF Spec, SavedIfDecoded
=============================================================================
