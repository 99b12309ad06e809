------------------------------- MODULE WSPRNet -------------------------------
(***************************************************************************)
(* Uploading WSPR and FST4W spots to WSPRnet.org: class WSPRNet, and what   *)
(* MainWindow does to drive it.  In WSPR mode wsprd writes the spots of a   *)
(* period to a file; in FST4W mode each is queued as it is decoded.  Some   *)
(* seconds after the decode a single-shot timer queues the spots of the     *)
(* file, and another timer posts one spot every 200 ms.  The requests are   *)
(* answered in any order, perhaps in a later period, or fail.  The operator  *)
(* changes the mode at any time, and has an FST4W period decoded again.     *)
(*                                                                          *)
(* A spot is <<period, n>>.  <<period, 0>> is a line of the file that is no *)
(* spot to decodeLine (), like one whose call is known by its hash only.    *)
(***************************************************************************)
EXTENDS Integers, Sequences, FiniteSets, SequencesExt

CONSTANTS
  Modes,       \* modes the operator uses
  MaxPeriods,  \* periods received
  MaxSpots,    \* most spots of a period
  MaxAgain,    \* how often the operator has a period decoded again
  Faults       \* what may go wrong

AllFaults ==
  {"error",          \* a request fails
   "refused",        \* the server does not add a spot
   "late",           \* a request is answered after the next period
   "skipped",        \* the rig goes offline, or uploads are switched off, before the upload
   "unreadable",     \* no line of the file is a spot on the band
   "mode",           \* the operator changes from one mode to the other, decoding or not
   "uninitialised"}  \* m_uploadType, never initialised, is 3 by chance

ASSUME WSPRNetAssumption ==
  /\ Modes \subseteq {"WSPR", "FST4W"} /\ Modes # {}
  /\ {MaxPeriods, MaxSpots} \subseteq Nat \ {0} /\ MaxAgain \in Nat
  /\ Faults \subseteq AllFaults

VARIABLES
  mode,          \* m_mode
  period,        \* number of the period decoded last
  decoding,      \* the decoder at work: "no", "jt9", "wsprd", or "unlinked": wsprd writes to
                 \* a file that was removed
  audio,         \* the period whose audio jt9 has, 0 for none
  unprinted,     \* spots jt9 may still print
  file,          \* lines of wspr_spots.txt, {} when there is none
  uploadTimer,   \* MainWindow's delay before an upload is running
  uploading,     \* m_uploading
  spotQueue,     \* spot_queue_
  spotsToSend,   \* spots_to_send_ is not 0
  timer,         \* upload_timer_ is running
  uploadType,    \* m_uploadType
  outstanding,   \* m_outstandingRequests: [spot, nth], the nth request for that spot
  again,         \* history: how often a period was decoded again
  sent,          \* history: how often each spot was sent
  failed,        \* history: a request failed in the period
  trouble        \* history: something else went wrong in the period, it was decoded again,
                 \* or effects of that last

decoder == <<mode, period, decoding, audio, unprinted, again>>
vars == <<decoder, file, uploadTimer, uploading, spotQueue, spotsToSend, timer, uploadType,
          outstanding, sent, failed, trouble>>

Spots == (1..MaxPeriods) \X (1..MaxSpots)
Lines == (1..MaxPeriods) \X (0..MaxSpots)
Of(p) == {p} \X (1..MaxSpots)
NoSpot == <<0, 0>>  \* urlEncodeNoSpot (): the station received nothing
Items == Spots \cup {NoSpot}

May(fault) == fault \in Faults

Init ==
  /\ mode \in Modes /\ period = 0 /\ decoding = "no" /\ audio = 0 /\ unprinted = {}
  /\ file = {} /\ uploadTimer = FALSE /\ uploading = FALSE
  /\ spotQueue = <<>> /\ spotsToSend = FALSE /\ timer = FALSE
  /\ uploadType \in IF May("uninitialised") THEN {0, 3} ELSE {0}
  /\ outstanding = {} /\ again = 0 /\ sent = [s \in Items |-> 0]
  /\ failed = FALSE /\ trouble = (uploadType = 3)

\* Nothing is left of the periods before.
Clean ==
  /\ ~uploading /\ spotQueue = <<>> /\ outstanding = {} /\ uploadType # 3
  /\ mode = "FST4W" => file = {}

-----------------------------------------------------------------------------
\* The decoders and the operator.

\* A period ends and is decoded, if no decoder is at work.  wsprd opens its file anew; no
\* upload begins while it runs: the delay takes 20 seconds at most, wsprd runs at the end of
\* a period of minutes.
DecodeStart ==
  /\ decoding = "no" /\ period < MaxPeriods
  /\ mode = "WSPR" => ~uploadTimer /\ ~timer
  /\ May("late") \/ outstanding = {}
  /\ period' = period + 1
  /\ IF mode = "WSPR"
       THEN decoding' = "wsprd" /\ file' = {} /\ UNCHANGED <<audio, unprinted>>
       ELSE /\ decoding' = "jt9" /\ audio' = period' /\ unprinted' = Of(period')
            /\ UNCHANGED file
  /\ failed' = FALSE /\ trouble' = (uploadTimer \/ timer \/ ~Clean)
  /\ UNCHANGED <<mode, again, uploadTimer, uploading, spotQueue, spotsToSend, timer, uploadType,
                 outstanding, sent>>

\* on_DecodeButton_clicked () in FST4W mode: jt9 decodes the audio it has once more.
DecodeAgain ==
  /\ mode = "FST4W" /\ decoding = "no" /\ period # 0 /\ again < MaxAgain
  /\ again' = again + 1
  /\ decoding' = "jt9" /\ unprinted' = IF audio = 0 THEN {} ELSE Of(audio)
  /\ trouble' = TRUE
  /\ UNCHANGED <<mode, period, audio, file, uploadTimer, uploading, spotQueue, spotsToSend, timer,
                 uploadType, outstanding, sent, failed>>

\* readFromStdout (): each spot of FST4W is posted as it is decoded, if spots are uploaded.
Post(spot) ==
  /\ mode = "FST4W" /\ decoding = "jt9"
  /\ spot \in unprinted /\ unprinted' = unprinted \ {spot}
  /\ spotQueue' = Append(spotQueue, spot) /\ uploadType' = 2
  /\ UNCHANGED <<mode, period, decoding, audio, again, file, uploadTimer, uploading, spotsToSend,
                 timer, outstanding, sent, failed, trouble>>

\* p1ReadFromStdout () and decodeDone (): the decoder finished, and if spots are uploaded the
\* delay starts, for jt9 if the mode is FST4W still.  wsprd's lines are kept for the upload.
DecodeEnd(lines, upload) ==
  /\ decoding # "no" /\ decoding' = "no" /\ unprinted' = {}
  /\ upload \/ May("skipped")
  /\ LET starts == upload /\ (decoding = "jt9" => mode = "FST4W")
     IN /\ uploadTimer' = (uploadTimer \/ starts)
        /\ trouble' = (trouble \/ ~starts)
  /\ file' = CASE decoding = "jt9" -> file
               [] decoding = "wsprd" /\ upload -> lines
               [] OTHER -> {}
  /\ UNCHANGED <<mode, period, audio, again, uploading, spotQueue, spotsToSend, timer, uploadType,
                 outstanding, sent, failed>>

\* What wsprd may write.
Written ==
  IF decoding # "wsprd" THEN {{}}
  ELSE (SUBSET Of(period)) \cup
       {IF May("unreadable") THEN {<<period, 0>>} ELSE {}, {<<period, 0>>, <<period, 1>>}}

\* on_actionWSPR_triggered () and on_actionFST4W_triggered (), at any time.
ChangeMode ==
  /\ May("mode")
  /\ mode' \in Modes \ {mode}
  /\ UNCHANGED <<period, decoding, audio, unprinted, again, file, uploadTimer, uploading, spotQueue,
                 spotsToSend, timer, uploadType, outstanding, sent, failed, trouble>>

-----------------------------------------------------------------------------
\* uploadWSPRSpots (), when the delay is over.

\* MainWindow finds the transceiver offline or uploads switched off.
UploadSkipped ==
  /\ May("skipped") /\ uploadTimer /\ uploadTimer' = FALSE
  /\ trouble' = TRUE
  /\ UNCHANGED <<decoder, file, uploading, spotQueue, spotsToSend, timer, uploadType,
                 outstanding, sent, failed>>

\* The lines that are no spots are queued as well.
Mutant_QueuedAfter(queue, onBand) ==
  IF uploadType = 3 THEN queue
  ELSE IF file = {} THEN Append(queue, NoSpot)
  ELSE queue \o SetToSeq(onBand \cup (file \ Spots))

\* upload () appends the spots of the file that are on the band, or says there are none.
QueuedAfter(queue, onBand) ==
  IF uploadType = 3 THEN queue
  ELSE IF file = {} THEN Append(queue, NoSpot)
  ELSE queue \o SetToSeq(onBand)

\* An upload not completed is aborted: the queue is cleared, FST4W spots of this period and
\* all, and the handler of every outstanding request runs with an error.
uploadWSPRSpots(onBand) ==
  /\ uploadTimer /\ uploadTimer' = FALSE
  /\ LET queue == IF uploading THEN <<>> ELSE spotQueue
     IN /\ spotQueue' = QueuedAfter(queue, onBand)
        /\ trouble' = \/ trouble
                      \/ uploading /\ outstanding # {}
                      \/ spotQueue' = <<>>
  /\ uploading' = TRUE
  /\ outstanding' = IF uploading THEN {} ELSE outstanding
  /\ uploadType' = IF uploadType = 3 THEN 3
                   ELSE IF file = {} THEN 1
                   ELSE IF onBand = {} THEN uploadType ELSE 2
  /\ spotsToSend' = (spotQueue' # <<>>)
  /\ timer' = TRUE
  /\ UNCHANGED <<decoder, file, sent, failed>>

\* Lines of the file on the band: all of them, unless the file is left from another period.
OnBand ==
  LET spots == file \cap Spots IN IF file \subseteq Lines \cap ({period} \X Nat) THEN {spots}
                                  ELSE {spots, {}}

-----------------------------------------------------------------------------
\* A spot stays at the head of the queue.
Mutant_work ==
  /\ timer
  /\ IF spotsToSend /\ spotQueue # <<>>
       THEN LET spot == Head(spotQueue)
            IN /\ sent' = [sent EXCEPT ![spot] = @ + 1]
               /\ outstanding' = outstanding \cup {[spot |-> spot, nth |-> sent'[spot]]}
               /\ UNCHANGED <<timer, spotQueue>>
       ELSE timer' = FALSE /\ UNCHANGED <<spotQueue, outstanding, sent>>
  /\ UNCHANGED <<decoder, file, uploadTimer, uploading, spotsToSend, uploadType, failed, trouble>>

\* work (), every 200 ms: post a request, or stop.
work ==
  /\ timer
  /\ IF spotsToSend /\ spotQueue # <<>>
       THEN LET spot == Head(spotQueue)
            IN /\ spotQueue' = Tail(spotQueue)
               /\ sent' = [sent EXCEPT ![spot] = @ + 1]
               /\ outstanding' = outstanding \cup {[spot |-> spot, nth |-> sent'[spot]]}
               /\ timer' = timer
       ELSE timer' = FALSE /\ UNCHANGED <<spotQueue, outstanding, sent>>
  /\ UNCHANGED <<decoder, file, uploadTimer, uploading, spotsToSend, uploadType, failed, trouble>>

\* The server's answer shows whether a spot was added.  It does for a spot sent as one.
Answers(request) ==
  IF request.spot = NoSpot THEN BOOLEAN ELSE IF May("refused") THEN BOOLEAN ELSE {TRUE}

\* The upload is given up after a request that failed.
Mutant_networkError(request) ==
  /\ May("error")
  /\ outstanding' = outstanding \ {request}
  /\ failed' = TRUE
  /\ spotQueue' = <<>> /\ timer' = FALSE
  /\ UNCHANGED <<decoder, file, uploadTimer, uploading, spotsToSend, uploadType, sent, trouble>>

\* networkReply () for a request that failed: the others go on.
networkError(request) ==
  /\ May("error")
  /\ outstanding' = outstanding \ {request}
  /\ failed' = TRUE
  /\ UNCHANGED <<decoder, file, uploadTimer, uploading, spotQueue, spotsToSend, timer,
                 uploadType, sent, trouble>>

\* Done, and the window is not told.
Mutant_networkReply(request, added) ==
  LET refused == uploadType = 2 /\ ~added
      queue == IF refused THEN <<>> ELSE spotQueue
  IN /\ outstanding' = outstanding \ {request}
     /\ spotQueue' = queue
     /\ trouble' = (trouble \/ refused)
     /\ IF queue = <<>>
          THEN timer' = FALSE /\ file' = {}
          ELSE UNCHANGED <<timer, file>>
     /\ UNCHANGED <<decoder, uploading, uploadTimer, spotsToSend, uploadType, sent, failed>>

\* networkReply () for one that was answered.  The queue empty, the upload is done and the
\* file is removed: if wsprd is writing it, wsprd loses it where the system allows that.
networkReply(request, added) ==
  LET refused == uploadType = 2 /\ ~added
      queue == IF refused THEN <<>> ELSE spotQueue
  IN /\ outstanding' = outstanding \ {request}
     /\ spotQueue' = queue
     /\ trouble' = (trouble \/ refused)
     /\ IF queue = <<>>
          THEN /\ uploading' = FALSE /\ timer' = FALSE
               /\ IF decoding = "wsprd"
                    THEN file' = file /\ decoding' \in {"wsprd", "unlinked"}
                    ELSE file' = {} /\ decoding' = decoding
          ELSE UNCHANGED <<uploading, timer, file, decoding>>
     /\ UNCHANGED <<mode, period, audio, unprinted, again, uploadTimer, spotsToSend, uploadType, sent,
                    failed>>

Next ==
  \/ DecodeStart \/ DecodeAgain
  \/ \E spot \in Spots : Post(spot)
  \/ \E lines \in Written, upload \in BOOLEAN : DecodeEnd(lines, upload)
  \/ ChangeMode
  \/ UploadSkipped
  \/ \E onBand \in OnBand : uploadWSPRSpots(onBand)
  \/ work
  \/ \E request \in outstanding :
       networkError(request) \/ \E added \in Answers(request) : networkReply(request, added)

Spec == Init /\ [][Next]_vars

-----------------------------------------------------------------------------
\* The state is of its type.
TypeOK ==
  /\ mode \in Modes /\ period \in 0..MaxPeriods
  /\ decoding \in {"no", "jt9", "wsprd", "unlinked"}
  /\ audio \in 0..MaxPeriods /\ unprinted \subseteq Spots /\ file \subseteq Lines
  /\ spotQueue \in Seq(Items)
  /\ {uploadTimer, uploading, spotsToSend, timer, failed, trouble} \subseteq BOOLEAN
  /\ uploadType \in 0..3
  /\ outstanding \subseteq [spot : Items, nth : Nat]
  /\ again \in 0..MaxAgain /\ sent \in [Items -> Nat]

\* Spots still to be sent.
Unsent == {s \in Spots : sent[s] = 0 /\ s \in file \cup Range(spotQueue)}

\* What may go wrong in a period is trouble: the server refuses a spot, an upload is skipped or
\* aborted or has nothing to send, the mode is not FST4W when jt9 finishes, the period is
\* decoded again, or something was left of the periods before.

\* In a period without trouble no spot is dropped unsent, by an abort, a reply that removes the
\* file, or an upload that reads the wrong one (the file and the queue are emptied in five
\* places), also when requests fail: "not clearing queue or halting queuing as it may be a
\* transient one off request error".
NothingLost ==
  [][\A s \in Unsent \ Unsent' : sent'[s] > 0 \/ trouble \/ trouble']_vars

\* In a period without trouble, so one decoded once only, no spot is sent twice: the file
\* outlives its upload unless a reply removes it, and either mode uploads whatever file there is.
SentOnce ==
  [][\A s \in Spots : sent'[s] > sent[s] /\ sent[s] > 0 => trouble]_vars

\* A period without trouble whose requests did not fail leaves nothing behind once they are
\* answered: m_uploading, the queue and the file are reset by replies only, and by those that
\* find the queue empty, so that a fault's effects end with the next such period.
Recovers ==
  ~trouble /\ ~failed /\ decoding = "no" /\ ~uploadTimer /\ ~timer /\ outstanding = {} => Clean
=============================================================================
