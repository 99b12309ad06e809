-------------------------- MODULE TransceiverBase_proofs --------------------------
(***************************************************************************)
(* What a transceiver object promises, for every combination of CAT calls  *)
(* that fail, every request and every rig.                                 *)
(***************************************************************************)
EXTENDS TransceiverBase, TLAPS, SequenceTheorems

\* a stabilisation is under way only once the rig was started
NextKnown(o) == o.next_state.online \/ (o.next_state = NoState /\ o.retries = 0)

\* the record shows the split that the radio was brought into, or it was given up;
\* not so for a rig addressed one VFO at a time
SplitKnown(o) == ~OneVFO /\ o.radio.split => o.requested.split \/ o.gave_up

\* p is o after calls of an online rig
Calls(o, p) ==
    /\ p \in Objects
    /\ p.last = o.last /\ p.number = o.number /\ p.emits = o.emits /\ p.timer = o.timer
    /\ p.requested.online = o.requested.online /\ p.actual.online = o.actual.online
    /\ o.next_state.online => p.next_state.online
    /\ o.retries # 0 => p.retries # 0

\* p is o after calls that neither key the radio nor change its split
Records(o, p) ==
    /\ Calls(o, p)
    /\ p.radio.ptt = o.radio.ptt /\ p.radio.split = o.radio.split
    /\ p.requested.split = o.requested.split
    /\ p.unkey_failed = o.unkey_failed /\ p.gave_up = o.gave_up
    /\ p.next_state = o.next_state /\ p.retries = o.retries

\* p is o after the polling layer noted what to expect
Notes(o, p) ==
    /\ Calls(o, p)
    /\ p.radio = o.radio /\ p.actual = o.actual /\ p.requested = o.requested
    /\ p.unkey_failed = o.unkey_failed /\ p.gave_up = o.gave_up /\ p.thrown = o.thrown

-----------------------------------------------------------------------------
\* The default state, and the states a request may ask for, are states.
LEMMA States ==
    /\ NoState \in TransceiverState /\ Requests \subseteq TransceiverState
    /\ NoState.online = FALSE /\ NoState.split = FALSE /\ NoState.ptt = FALSE
    /\ NoState.tx_frequency = 0
  BY AudioAssumption, RequestsAssumption DEF NoState, TransceiverState, ModesOrUNK, Untouched

\* One call after another.
LEMMA CallsTwice ==
    ASSUME NEW o, NEW p, NEW q, Calls(p, q)
    PROVE  /\ Calls(o, p) => Calls(o, q)
           /\ Records(o, p) /\ Records(p, q) => Records(o, q)
  BY DEF Calls, Records

\* No call at all.
LEMMA NoCall == ASSUME NEW o \in Objects PROVE Calls(o, o) /\ Records(o, o) /\ Notes(o, o)
  BY DEF Calls, Notes, Records

\* expect
LEMMA ExpectNotes ==
    ASSUME NEW o \in Objects, NEW s \in TransceiverState,
           o.next_state.online => s.online
    PROVE  Notes(o, expect(o, s)) /\ expect(o, s).next_state = s
<1> DEFINE p == [o EXCEPT !.next_state = s, !.retries = polls_to_stabilize]
<1>1. polls_to_stabilize \in 0 .. polls_to_stabilize /\ polls_to_stabilize # 0
  BY DEF polls_to_stabilize
<1>2. p \in Objects BY <1>1 DEF Objects
<1>3. p.next_state = s /\ p.retries # 0 BY <1>1 DEF Objects
<1>4. /\ p.radio = o.radio /\ p.requested = o.requested /\ p.actual = o.actual
      /\ p.unkey_failed = o.unkey_failed /\ p.gave_up = o.gave_up /\ p.thrown = o.thrown
      /\ p.last = o.last /\ p.number = o.number /\ p.emits = o.emits /\ p.timer = o.timer
  BY DEF Objects
<1>5. expect(o, s) = p BY DEF expect
<1> HIDE DEF p
<1> QED BY <1>2, <1>3, <1>4, <1>5 DEF Calls, Notes, Records

\* The polling layer notes what a command is expected to lead to.
LEMMA PostsNote ==
    ASSUME NEW o \in Objects, NEW f \in Frequencies \cup {0}, NEW m \in ModesOrUNK, NEW b \in BOOLEAN
    PROVE  /\ Notes(o, do_post_frequency(o, f, m))
           /\ Notes(o, do_post_tx_frequency(o, f))
           /\ Notes(o, do_post_ptt(o, b))
<1> DEFINE s == o.next_state
           s1 == [s EXCEPT !.frequency = f, !.mode = IF m = UNK THEN @ ELSE m]
           s2 == [s EXCEPT !.tx_frequency = f, !.split = f # 0]
           s3 == [s EXCEPT !.ptt = b]
<1>0. s \in TransceiverState BY DEF Objects
<1>1. s1 \in TransceiverState /\ s1.online = s.online BY <1>0 DEF TransceiverState
<1>2. s2 \in TransceiverState /\ s2.online = s.online BY <1>0 DEF TransceiverState
<1>3. s3 \in TransceiverState /\ s3.online = s.online BY <1>0 DEF TransceiverState
<1>4. Notes(o, expect(o, s1)) /\ Notes(o, expect(o, s2)) /\ Notes(o, expect(o, s3))
  <2> HIDE DEF s1, s2, s3
  <2> QED BY <1>1, <1>2, <1>3, ExpectNotes
<1> QED
  BY <1>4, NoCall DEF do_post_frequency, do_post_tx_frequency, do_post_ptt

-----------------------------------------------------------------------------
(* The CAT calls. *)

\* What the setters of a sub class leave: the object with other frequencies or
\* another mode on record.
LEMMA SettersRecord ==
    ASSUME NEW o \in Objects, NEW f \in Frequencies \cup {0}, NEW m \in ModesOrUNK
    PROVE  /\ Records(o, update_rx_frequency(o, f))
           /\ Records(o, update_other_frequency(o, f))
           /\ Records(o, update_mode(o, m))
<1>1. Records(o, update_rx_frequency(o, f))
  <2> DEFINE p == [o EXCEPT !.actual.frequency = f, !.requested.frequency = f]
  <2>1. p \in Objects BY DEF Objects, TransceiverState
  <2>2. /\ p.requested.online = o.requested.online /\ p.actual.online = o.actual.online
        /\ p.requested.split = o.requested.split
    BY DEF Objects, TransceiverState
  <2>3. Records(o, p) BY <2>1, <2>2 DEF Calls, Records, Objects
  <2> HIDE DEF p
  <2> QED BY <2>3, NoCall DEF update_rx_frequency, p
<1>2. Records(o, update_other_frequency(o, f))
  BY DEF Calls, Records, Objects, TransceiverState, update_other_frequency
<1>3. Records(o, update_mode(o, m))
  BY ZenonT(60) DEF Calls, Records, Objects, TransceiverState, update_mode
<1> QED BY <1>1, <1>2, <1>3

\* The same for split and PTT.
LEMMA FlagsRecord ==
    ASSUME NEW o \in Objects, NEW b \in BOOLEAN
    PROVE  /\ Records(o, update_split(o, b)) /\ update_split(o, b).actual.split = b
           /\ Records(o, update_PTT(o, b))
<1>1. Records(o, update_split(o, b)) /\ update_split(o, b).actual.split = b
  BY ZenonT(60) DEF Calls, Records, Objects, TransceiverState, update_split
<1>2. Records(o, update_PTT(o, b))
  BY ZenonT(60) DEF Calls, Records, Objects, TransceiverState, update_PTT
<1> QED BY <1>1, <1>2

\* A call that fails leaves all but the error as it is.
LEMMA ThrowRecords == ASSUME NEW o \in Objects PROVE Records(o, throw(o))
  BY DEF Calls, Records, Objects, throw

\* A poll reads the radio into the record, or fails.
LEMMA PollRecords ==
    ASSUME NEW o \in Objects, NEW X PROVE Records(o, do_poll(o, X))
<1> DEFINE a == update_split(o, o.radio.split)
           receiving == ~a.actual.ptt \/ ~a.actual.split
           b == IF receiving THEN update_rx_frequency(a, a.radio.frequency) ELSE a
           c == IF b.actual.split /\ ~OneVFO
                THEN update_other_frequency(b, b.radio.tx_frequency) ELSE b
           d == IF receiving THEN update_mode(c, c.radio.mode) ELSE c
           e == update_PTT(d, d.radio.ptt)
<1> DEFINE Read(p) == Records(o, p) /\ p \in Objects
                      /\ p.radio.frequency \in Frequencies \cup {0}
                      /\ p.radio.tx_frequency \in Frequencies \cup {0}
                      /\ p.radio.mode \in ModesOrUNK
                      /\ p.radio.split \in BOOLEAN /\ p.radio.ptt \in BOOLEAN
<1>0. ASSUME NEW p, Records(o, p) PROVE Read(p)
  BY <1>0 DEF Records, Calls, Objects, Radio, ModesOrUNK
<1>1. Read(o) BY <1>0, NoCall
<1>2. Read(a) BY <1>0, <1>1, FlagsRecord
<1>3. Read(b)
  <2> HIDE DEF a
  <2>1. Records(a, update_rx_frequency(a, a.radio.frequency)) BY <1>2, SettersRecord
  <2> QED BY <1>0, <1>2, <2>1, CallsTwice DEF Records
<1>4. Read(c)
  <2> HIDE DEF b
  <2>1. Records(b, update_other_frequency(b, b.radio.tx_frequency)) BY <1>3, SettersRecord
  <2> QED BY <1>0, <1>3, <2>1, CallsTwice DEF Records
<1>5. Read(d)
  <2> HIDE DEF c, receiving
  <2>1. Records(c, update_mode(c, c.radio.mode)) BY <1>4, SettersRecord
  <2> QED BY <1>0, <1>4, <2>1, CallsTwice DEF Records
<1>6. Records(o, e)
  <2> HIDE DEF d
  <2>1. Records(d, update_PTT(d, d.radio.ptt)) BY <1>5, FlagsRecord
  <2> QED BY <1>5, <2>1, CallsTwice DEF Records
<1>7. do_poll(o, X) = IF o.thrown THEN o ELSE IF "poll" \in X THEN throw(o) ELSE e
  BY DEF do_poll
<1> HIDE DEF e
<1> QED BY <1>6, <1>7, NoCall, ThrowRecords

\* The start of a rig ends with a poll.
LEMMA StartRecords ==
    ASSUME NEW o \in Objects, NEW X PROVE Records(o, do_start(o, X))
<1> DEFINE a == [o EXCEPT !.tickle_hamlib = TRUE]
<1>1. Records(o, a) /\ a \in Objects BY DEF Calls, Records, Objects
<1> HIDE DEF a
<1>2. Records(a, do_poll(a, X)) BY <1>1, PollRecords
<1>3. Records(o, do_poll(a, X)) BY <1>1, <1>2, CallsTwice DEF Records
<1> QED BY <1>3, NoCall, ThrowRecords DEF do_start, a

\* Of the audio commands a Hamlib rig obeys tune, in which PTT may be on record.
LEMMA AudioRecords ==
    ASSUME NEW o \in Objects, NEW a, NEW X PROVE Records(o, do_audio(o, a, X))
<1> DEFINE p == update_PTT(o, TRUE)
<1>1. Records(o, p) /\ p \in Objects /\ Records(o, update_PTT(o, FALSE))
  BY FlagsRecord DEF Records, Calls
<1> HIDE DEF p
<1>2. Records(p, throw(p)) BY <1>1, ThrowRecords
<1>3. Records(o, throw(p)) BY <1>1, <1>2, CallsTwice DEF Records
<1> QED BY <1>1, <1>3, NoCall DEF do_audio, p

\* A change of the receive frequency or of the mode does not key the radio.
LEMMA FrequencyRecords ==
    ASSUME NEW o \in Objects, NEW f \in Frequencies, NEW m \in ModesOrUNK, NEW no_ignore, NEW X
    PROVE  Records(o, do_frequency(o, f, m, no_ignore, X))
<1> DEFINE r == [o EXCEPT !.radio.frequency = Readback[f]]
           a == update_rx_frequency(r, f)
           n == [a EXCEPT !.radio.mode = m]
           e == update_mode(n, m)
<1>0. Readback[f] \in Frequencies BY HamlibAssumption
<1>1. Records(o, r) /\ r \in Objects BY <1>0 DEF Calls, Records, Objects, Radio
<1>2. Records(o, a) /\ a \in Objects
  <2> HIDE DEF r
  <2>1. Records(r, a) BY <1>1, SettersRecord
  <2> HIDE DEF a
  <2> QED BY <1>1, <2>1, CallsTwice DEF Records, Calls
<1>3. ASSUME m # UNK PROVE Records(o, e)
  <2> HIDE DEF a
  <2>1. m \in Modes BY <1>3 DEF ModesOrUNK
  <2>2. Records(a, n) /\ n \in Objects BY <1>2, <2>1 DEF Calls, Records, Objects, Radio
  <2> HIDE DEF n
  <2>3. Records(n, e) BY <2>2, SettersRecord
  <2> HIDE DEF e
  <2> QED BY <1>2, <2>2, <2>3, CallsTwice DEF Records
<1>4. Records(o, throw(a))
  <2> HIDE DEF a
  <2>1. Records(a, throw(a)) BY <1>2, ThrowRecords
  <2> QED BY <1>2, <2>1, CallsTwice DEF Records
<1>5. \/ do_frequency(o, f, m, no_ignore, X) \in {o, throw(o), a, throw(a)}
      \/ m # UNK /\ do_frequency(o, f, m, no_ignore, X) = e
  BY DEF do_frequency
<1> HIDE DEF a, e
<1> QED BY <1>2, <1>3, <1>4, <1>5, NoCall, ThrowRecords

\* p is o after a call that keys or unkeys the radio
Keys(o, p) ==
    /\ Calls(o, p)
    /\ p.radio.split = o.radio.split /\ p.requested.split = o.requested.split
    /\ p.gave_up = o.gave_up
    /\ p.next_state = o.next_state /\ p.retries = o.retries

\* A call to key or unkey the radio: it is unkeyed unless it refused the call.
LEMMA PttKeys ==
    ASSUME NEW o \in Objects, NEW on \in BOOLEAN, NEW X
    PROVE  /\ Keys(o, do_ptt(o, on, X))
           /\ ~o.thrown /\ ~on =>
                (do_ptt(o, on, X).radio.ptt => do_ptt(o, on, X).unkey_failed)
<1> DEFINE a == [o EXCEPT !.unkey_failed = ~on]
           k == [o EXCEPT !.radio.ptt = on, !.unkey_failed = FALSE]
<1>1. Keys(o, a) /\ a \in Objects /\ a.unkey_failed = ~on BY DEF Calls, Keys, Objects
<1>2. Keys(o, k) /\ k \in Objects /\ k.radio.ptt = on BY DEF Calls, Keys, Objects, Radio
<1> HIDE DEF a, k
<1>3. Records(a, throw(a)) BY <1>1, ThrowRecords
<1>4. Records(k, throw(k)) BY <1>2, ThrowRecords
<1>5. Records(k, update_PTT(k, on)) BY <1>2, FlagsRecord
<1>6. /\ o.thrown => do_ptt(o, on, X) = o
      /\ ~o.thrown => do_ptt(o, on, X) \in {throw(a), throw(k), update_PTT(k, on)}
  BY DEF do_ptt, a, k
<1>7. Keys(o, o) BY NoCall DEF Keys
<1>8. ASSUME NEW p, NEW q, Keys(o, p), Records(p, q) PROVE Keys(o, q)
  BY <1>8, CallsTwice DEF Keys, Records
<1> QED BY <1>1, <1>2, <1>3, <1>4, <1>5, <1>6, <1>7, <1>8 DEF Records

\* p is o after calls that may change the split of the radio
Splits(o, p) ==
    /\ Calls(o, p)
    /\ p.radio.ptt = o.radio.ptt /\ p.unkey_failed = o.unkey_failed
    /\ p.requested.split = o.requested.split
    /\ p.next_state = o.next_state /\ p.retries = o.retries

\* Calls that do not change the split come before or after those that do.
LEMMA SplitsTwice ==
    ASSUME NEW o, NEW p, NEW q, Splits(o, p), Splits(p, q) \/ Records(p, q)
    PROVE  Splits(o, q)
  BY CallsTwice DEF Splits, Records

\* The tickle, the first time in a session.
LEMMA TickleSplits ==
    ASSUME NEW o \in Objects, NEW X PROVE Splits(o, tickle(o, X))
<1> DEFINE a == [o EXCEPT !.radio.split = TRUE, !.tickle_hamlib = FALSE]
<1>1. Splits(o, a) /\ a \in Objects BY DEF Calls, Splits, Objects, Radio
<1> HIDE DEF a
<1>2. Records(a, update_split(a, TRUE)) BY <1>1, FlagsRecord
<1>3. Splits(o, update_split(a, TRUE)) BY <1>1, <1>2, SplitsTwice
<1>4. Splits(o, o) /\ Splits(o, throw(o)) BY NoCall, ThrowRecords DEF Splits, Records
<1> QED BY <1>3, <1>4 DEF tickle, a

\* The transmit VFO is set, which brings the radio into split.
LEMMA SetTxVfoSplits ==
    ASSUME NEW o \in Objects, NEW tx \in Frequencies, NEW X
    PROVE  Splits(o, set_tx_vfo(o, tx, X))
<1> DEFINE a == [o EXCEPT !.radio.tx_frequency = Readback[tx], !.radio.split = TRUE,
                          !.gave_up = FALSE]
<1>0. Readback[tx] \in Frequencies BY HamlibAssumption
<1>1. Splits(o, a) /\ a \in Objects BY <1>0 DEF Calls, Splits, Objects, Radio
<1> HIDE DEF a
<1>2. Records(a, update_other_frequency(a, tx)) BY <1>1, SettersRecord DEF ModesOrUNK
<1>3. Splits(o, update_other_frequency(a, tx)) BY <1>1, <1>2, SplitsTwice
<1>4. Splits(o, o) /\ Splits(o, throw(o)) BY NoCall, ThrowRecords DEF Splits, Records
<1> QED BY <1>3, <1>4 DEF set_tx_vfo, a

\* A change of the transmit frequency. To leave split ends in simplex or is given
\* up. To enter it ends with the split on record, or in an error.
LEMMA TxFrequencySplits ==
    ASSUME NEW o \in Objects, NEW tx \in Frequencies \cup {0}, NEW no_ignore, NEW X,
           NEW p, p = do_tx_frequency(o, tx, no_ignore, X)
    PROVE  /\ Splits(o, p)
           /\ ~o.thrown /\ tx = 0 => (p.radio.split => p.gave_up /\ p.thrown)
           /\ ~o.thrown /\ tx # 0 /\ ~OneVFO => p.thrown \/ p.actual.split
           /\ o.thrown => p = o
<1>1. CASE o.thrown
  BY <1>1, NoCall DEF do_tx_frequency, Splits
<1>2. CASE ~o.thrown /\ tx = 0
  <2> DEFINE g == [o EXCEPT !.gave_up = o.radio.split]
             r == [o EXCEPT !.radio.split = FALSE]
             u == update_other_frequency(r, 0)
  <2>1. /\ Splits(o, g) /\ g \in Objects /\ g.gave_up = o.radio.split
        /\ g.radio.split = o.radio.split
    BY DEF Calls, Splits, Objects, Radio
  <2>2. Splits(o, r) /\ r \in Objects /\ r.radio.split = FALSE
    BY DEF Calls, Splits, Objects, Radio
  <2> HIDE DEF g, r
  <2>3. Splits(o, throw(g)) /\ throw(g).gave_up = g.gave_up
        /\ throw(g).radio.split = g.radio.split /\ throw(g).thrown
    BY <2>1, ThrowRecords, SplitsTwice DEF Records, throw, Objects
  <2>4. Splits(o, u) /\ u \in Objects /\ u.radio.split = FALSE
    <3>1. Records(r, u) BY <2>2, SettersRecord DEF ModesOrUNK
    <3> QED BY <2>2, <3>1, SplitsTwice DEF Records, Calls
  <2> HIDE DEF u
  <2>5. Splits(o, update_split(u, FALSE)) /\ update_split(u, FALSE).radio.split = FALSE
    <3>1. Records(u, update_split(u, FALSE)) BY <2>4, FlagsRecord
    <3> QED BY <2>4, <3>1, SplitsTwice DEF Records
  <2>6. p = throw(g) \/ p = update_split(u, FALSE)
    BY <1>2 DEF do_tx_frequency, g, u, r
  <2> QED BY <1>2, <2>1, <2>3, <2>5, <2>6
<1>3. CASE ~o.thrown /\ tx # 0
  <2> DEFINE a == tickle(o, X)
             b == set_tx_vfo(a, tx, X)
  <2>0. tx \in Frequencies BY <1>3
  <2>1. Splits(o, a) /\ a \in Objects BY TickleSplits DEF Splits, Calls
  <2> HIDE DEF a
  <2>2. Splits(a, b) BY <2>0, <2>1, SetTxVfoSplits
  <2> HIDE DEF b
  <2>3. Splits(o, b) /\ b \in Objects BY <2>1, <2>2, SplitsTwice DEF Splits, Calls
  <2>4. Splits(o, update_split(b, TRUE)) /\ update_split(b, TRUE).actual.split
    <3>1. Records(b, update_split(b, TRUE)) /\ update_split(b, TRUE).actual.split
      BY <2>3, FlagsRecord
    <3> QED BY <2>3, <3>1, SplitsTwice
  <2>5. p = IF a.actual.ptt /\ OneVFO THEN b
            ELSE IF a.thrown \/ (OneVFO /\ ~no_ignore) THEN a
            ELSE IF b.thrown THEN b ELSE update_split(b, TRUE)
    BY <1>3 DEF do_tx_frequency, a, b
  <2> QED BY <1>3, <2>1, <2>3, <2>4, <2>5
<1> QED BY <1>1, <1>2, <1>3

-----------------------------------------------------------------------------
(* The parts of set. *)

\* p is o after a part of set other than the PTT
Works(o, p) ==
    /\ Calls(o, p)
    /\ p.radio.ptt = o.radio.ptt /\ p.unkey_failed = o.unkey_failed
    /\ SplitKnown(o) => SplitKnown(p)

\* Calls that change neither PTT nor split, and notes, are such parts.
LEMMA RecordsWork == ASSUME NEW o, NEW p, Records(o, p) \/ Notes(o, p) PROVE Works(o, p)
  BY DEF Works, Records, Notes, SplitKnown

\* One part after the other.
LEMMA WorksTwice ==
    ASSUME NEW o, NEW p, NEW q, Works(o, p), Works(p, q) PROVE Works(o, q)
  BY CallsTwice DEF Works

\* A change of the receive frequency or of the mode.
LEMMA SetFrequencyWorks ==
    ASSUME NEW o \in Objects, NEW s \in TransceiverState, s.frequency # 0, NEW off, NEW X
    PROVE  Works(o, set_frequency(o, s, off, X))
<1> DEFINE r == [o EXCEPT !.requested.frequency = s.frequency, !.requested.mode = s.mode]
           a == IF o.thrown THEN o ELSE r
           f == do_frequency(a, s.frequency, s.mode, off, X)
           b == do_post_frequency(f, s.frequency, s.mode)
           c == [b EXCEPT !.requested.frequency = b.actual.frequency,
                          !.requested.mode = b.actual.mode]
<1>0. s.frequency \in Frequencies /\ s.mode \in ModesOrUNK BY DEF TransceiverState
<1>1. Records(o, r) BY <1>0 DEF Calls, Records, Objects, TransceiverState
<1>2. Records(o, a) /\ a \in Objects BY <1>1, NoCall DEF Records, Calls
<1> HIDE DEF a
<1>3. Records(o, f) /\ f \in Objects
  <2>1. Records(a, f) BY <1>0, <1>2, FrequencyRecords
  <2> HIDE DEF f
  <2> QED BY <1>2, <2>1, CallsTwice DEF Records, Calls
<1> HIDE DEF f
<1>4. Works(o, b) /\ b \in Objects
  <2>1. Notes(f, b) BY <1>0, <1>3, PostsNote
  <2> HIDE DEF b
  <2> QED BY <1>3, <2>1, RecordsWork, WorksTwice DEF Works, Calls
<1> HIDE DEF b
<1>5. Works(o, c)
  <2>1. Records(b, c) BY ZenonT(60), <1>4 DEF Calls, Records, Objects, TransceiverState
  <2> HIDE DEF c
  <2> QED BY <1>4, <2>1, RecordsWork, WorksTwice
<1> HIDE DEF c
<1>6. set_frequency(o, s, off, X) = IF b.thrown THEN b ELSE c
  BY DEF set_frequency, a, b, c, f
<1> QED BY <1>4, <1>5, <1>6

\* A change of the transmit frequency puts on record what became of the split.
LEMMA SetTxFrequencyWorks ==
    ASSUME NEW o \in Objects, NEW s \in TransceiverState, NEW ptt_on, NEW X
    PROVE  Works(o, set_tx_frequency(o, s, ptt_on, X))
<1> DEFINE t == s.tx_frequency
           r == [o EXCEPT !.requested.tx_frequency = t, !.requested.split = t # 0]
           a == IF o.thrown THEN o ELSE r
           f == do_tx_frequency(a, t, ptt_on, X)
           b == do_post_tx_frequency(f, t)
           c == [b EXCEPT !.requested.tx_frequency = b.actual.tx_frequency,
                          !.requested.split = b.actual.split]
<1>0. t \in Frequencies \cup {0} BY DEF TransceiverState
<1>r. set_tx_frequency(o, s, ptt_on, X) = IF b.thrown THEN b ELSE c
  BY DEF set_tx_frequency
<1> HIDE DEF t
<1>1. /\ Calls(o, r) /\ r \in Objects /\ r.requested.split = (t # 0)
      /\ r.radio = o.radio /\ r.unkey_failed = o.unkey_failed /\ r.thrown = o.thrown
  BY ZenonT(60), <1>0 DEF Calls, Objects, TransceiverState
<1>2. CASE o.thrown
  <2>1. f = o
    BY <1>2, <1>0, TxFrequencySplits
  <2>2. b = o BY <1>2, <2>1 DEF do_post_tx_frequency
  <2> HIDE DEF b
  <2> QED BY <1>2, <1>r, <2>2, NoCall, RecordsWork
<1>3. CASE ~o.thrown
  <2> HIDE DEF r
  <2>1. a = r BY <1>3
  <2> HIDE DEF a
  <2>2. /\ Splits(r, f)
        /\ t = 0 => (f.radio.split => f.gave_up /\ f.thrown)
        /\ t # 0 /\ ~OneVFO => f.thrown \/ f.actual.split
    BY <1>0, <1>1, <1>3, <2>1, TxFrequencySplits
  <2> HIDE DEF f
  <2>3. Notes(f, b) /\ b \in Objects
    <3>1. f \in Objects BY <2>2 DEF Splits, Calls
    <3>2. Notes(f, b) BY <1>0, <3>1, PostsNote DEF ModesOrUNK
    <3> QED BY <3>2 DEF Notes, Records, Calls
  <2> HIDE DEF b
  <2>4. /\ Calls(r, b) /\ b.radio.ptt = r.radio.ptt /\ b.unkey_failed = r.unkey_failed
        /\ b.requested.split = r.requested.split
    BY <2>2, <2>3, CallsTwice DEF Notes, Splits
  <2>5. Calls(o, b) /\ b.radio.ptt = o.radio.ptt /\ b.unkey_failed = o.unkey_failed
    BY <1>1, <2>4, CallsTwice
  <2>6. /\ t = 0 => (b.radio.split => b.gave_up /\ b.thrown)
        /\ t # 0 /\ ~OneVFO => b.thrown \/ b.actual.split
        /\ b.requested.split = (t # 0)
    BY <1>1, <2>2, <2>3, <2>4 DEF Notes
  <2>7. /\ Calls(b, c) /\ c.radio = b.radio /\ c.unkey_failed = b.unkey_failed
        /\ c.requested.split = b.actual.split /\ c.gave_up = b.gave_up
    BY ZenonT(60), <2>3 DEF Calls, Objects, TransceiverState
  <2> HIDE DEF c
  <2>8. Calls(o, c) BY <2>5, <2>7, CallsTwice
  <2>9. b.thrown => Works(o, b) BY <2>5, <2>6 DEF Works, SplitKnown
  <2>10. ~b.thrown => Works(o, c) BY <2>5, <2>6, <2>7, <2>8 DEF Works, SplitKnown
  <2> QED BY <1>r, <2>9, <2>10
<1> QED BY <1>2, <1>3

\* Either frequency, or none.
LEMMA SetFrequenciesWork ==
    ASSUME NEW o \in Objects, NEW s \in TransceiverState, NEW ptt_on, NEW ptt_off, NEW X
    PROVE  Works(o, set_frequencies(o, s, ptt_on, ptt_off, X))
<1>1. s.frequency # 0 => Works(o, set_frequency(o, s, ptt_off, X)) BY SetFrequencyWorks
<1>2. Works(o, set_tx_frequency(o, s, ptt_on, X)) BY SetTxFrequencyWorks
<1>3. Works(o, o) BY NoCall, RecordsWork
<1> QED BY <1>1, <1>2, <1>3 DEF set_frequencies

\* p is o after a set of an online rig
Sets(o, p) == Calls(o, p) /\ (SplitKnown(o) => SplitKnown(p))

\* PTT on or off.
LEMMA SetPttSets ==
    ASSUME NEW o \in Objects, NEW on \in BOOLEAN, NEW X
    PROVE  Sets(o, set_ptt(o, on, X))
<1> DEFINE p == do_ptt(o, on, X)
<1>1. Keys(o, p) /\ p \in Objects BY PttKeys DEF Keys, Calls
<1> HIDE DEF p
<1>2. Notes(p, do_post_ptt(p, on)) BY <1>1, PostsNote DEF ModesOrUNK
<1>3. Calls(o, do_post_ptt(p, on)) BY <1>1, <1>2, CallsTwice DEF Keys, Notes
<1> QED BY <1>1, <1>2, <1>3 DEF Sets, Keys, Notes, SplitKnown, set_ptt, p

\* A set does nothing to a rig that is offline.
LEMMA ApplySets ==
    ASSUME NEW o \in Objects, NEW s \in TransceiverState, NEW X
    PROVE  /\ Sets(o, apply(o, s, X))
           /\ ~o.requested.online => apply(o, s, X) = o
<1> DEFINE ptt_on  == s.ptt /\ ~o.requested.ptt
           ptt_off == ~s.ptt /\ o.requested.ptt
           a == IF ptt_off THEN set_ptt(o, FALSE, X) ELSE o
           b == set_frequencies(a, s, ptt_on, ptt_off, X)
           c == IF ptt_on THEN set_ptt(b, TRUE, X) ELSE b
           e == [c EXCEPT !.requested.ptt = c.actual.ptt]
           d == do_audio(o, s.audio, X)
           g == [d EXCEPT !.requested.audio = s.audio]
<1>r. /\ apply(o, s, X) \in {o, d, g, e, c}
      /\ ~o.requested.online => apply(o, s, X) = o
  BY DEF apply
<1>0. ASSUME NEW p, NEW q, Sets(o, p), Sets(p, q) PROVE Sets(o, q)
  BY <1>0, CallsTwice DEF Sets
<1>a. ASSUME NEW p, NEW q, Records(p, q) PROVE Sets(p, q)
  BY <1>a, RecordsWork DEF Works, Sets
<1>1. Sets(o, o) BY <1>a, NoCall
<1>2. Sets(o, a) /\ a \in Objects BY <1>1, SetPttSets DEF Sets, Calls
<1> HIDE DEF a, ptt_on, ptt_off
<1>3. Sets(o, b) /\ b \in Objects
  <2>1. Sets(a, b) BY <1>2, SetFrequenciesWork DEF Works, Sets
  <2> HIDE DEF b
  <2> QED BY <1>2, <1>0, <2>1 DEF Sets, Calls
<1> HIDE DEF b
<1>4. Sets(o, c) /\ c \in Objects
  <2>1. Sets(b, set_ptt(b, TRUE, X)) BY <1>3, SetPttSets
  <2>2. Sets(o, set_ptt(b, TRUE, X)) BY <1>3, <1>0, <2>1
  <2> QED BY <1>3, <2>2 DEF Sets, Calls
<1> HIDE DEF c
<1>5. Sets(o, e)
  <2>1. Records(c, e) BY ZenonT(60), <1>4 DEF Calls, Records, Objects, TransceiverState
  <2> HIDE DEF e
  <2> QED BY <1>4, <1>a, <1>0, <2>1
<1>6. Records(o, d) /\ d \in Objects BY AudioRecords DEF Records, Calls
<1> HIDE DEF d
<1>7. Sets(o, g)
  <2>1. Records(d, g) BY <1>6 DEF Calls, Records, Objects, TransceiverState
  <2> HIDE DEF g
  <2> QED BY <1>6, <1>a, <1>0, <2>1
<1> HIDE DEF e, g
<1> QED BY <1>r, <1>1, <1>4, <1>5, <1>6, <1>7, <1>a

-----------------------------------------------------------------------------
(* Going offline. *)

\* the radio is unkeyed unless it refused to be
Unkeyed(o) == o.radio.ptt => o.unkey_failed

\* an object online, and one offline
Up(o) ==
    /\ o \in Objects
    /\ o.requested.online /\ o.actual.online /\ o.timer
    /\ o.next_state.online /\ SplitKnown(o)

Down(o) ==
    /\ o \in Objects
    /\ o.requested = NoState /\ o.actual = NoState /\ ~o.timer /\ ~o.thrown
    /\ Unkeyed(o) /\ NextKnown(o) /\ SplitKnown(o)

\* what a shutdown needs
Sane(o) ==
    /\ o \in Objects /\ NextKnown(o) /\ SplitKnown(o)
    /\ ~o.requested.online => ~o.requested.split /\ Unkeyed(o)

\* an update with the offline state would be left out
Silent(o) == o.last = NoState \/ (o.retries # 0 /\ o.next_state.online)

\* p is o with the radio left unkeyed and simplex where that is possible
Releases(o, p) ==
    /\ Calls(o, p) /\ ~p.thrown
    /\ Unkeyed(p) /\ NextKnown(p)
    /\ ~OneVFO /\ p.radio.split => p.gave_up

\* The shutdown of an online rig unkeys the radio or is refused, and leaves split
\* or gives up.
LEMMA ShutdownRadioReleases ==
    ASSUME NEW o, Sane(o), ~o.thrown, NEW Y
    PROVE  Releases(o, shutdown_radio(o, Y))
<1> DEFINE k == do_ptt(o, FALSE, Y)
           p == do_post_ptt(k, FALSE)
           f == do_tx_frequency(p, 0, TRUE, Y)
           q == do_post_tx_frequency(f, 0)
           u == update_split(q, FALSE)
           r == IF p.thrown \/ ~o.requested.split THEN p
                ELSE IF q.thrown THEN q ELSE u
           z == [r EXCEPT !.thrown = FALSE, !.gave_up = (@ \/ r.thrown) /\ r.radio.split]
<1>0. /\ FALSE \in BOOLEAN /\ 0 \in Frequencies \cup {0} /\ UNK \in ModesOrUNK
      /\ o \in Objects /\ NextKnown(o) /\ SplitKnown(o)
      /\ ~o.requested.online => ~o.requested.split /\ Unkeyed(o)
  BY DEF ModesOrUNK, Sane
<1>1. Keys(o, k) /\ k \in Objects /\ Unkeyed(k)
  <2>1. Keys(o, k) /\ (k.radio.ptt => k.unkey_failed) BY <1>0, PttKeys
  <2> QED BY <2>1 DEF Keys, Calls, Unkeyed
<1> HIDE DEF k
<1>2. Notes(k, p) /\ p \in Objects /\ NextKnown(p)
  <2>1. Notes(k, p) BY <1>0, <1>1, PostsNote
  <2>2. NextKnown(k) BY <1>0, <1>1 DEF Keys, NextKnown
  <2>3. ASSUME k.next_state = NoState, k.retries = 0 PROVE p = k
    BY <2>3, States DEF do_post_ptt
  <2> QED BY <2>1, <2>2, <2>3 DEF Notes, Calls, NextKnown
<1>3. /\ Calls(o, p) /\ Unkeyed(p) /\ p.radio.split = o.radio.split
      /\ p.requested.split = o.requested.split /\ p.gave_up = o.gave_up
  BY <1>1, <1>2, CallsTwice DEF Keys, Notes, Unkeyed
<1> HIDE DEF p
<1>4. ASSUME ~p.thrown
      PROVE  /\ Splits(p, f) /\ f \in Objects
             /\ f.radio.split => f.gave_up /\ f.thrown
  <2>1. Splits(p, f) /\ (f.radio.split => f.gave_up /\ f.thrown)
    BY <1>0, <1>2, <1>4, TxFrequencySplits
  <2> QED BY <2>1 DEF Splits, Calls
<1> HIDE DEF f
<1>5. ASSUME ~p.thrown
      PROVE  /\ Calls(o, q) /\ q \in Objects /\ Unkeyed(q) /\ NextKnown(q)
             /\ q.radio.split => q.gave_up /\ q.thrown
  <2>1. Notes(f, q) BY <1>0, <1>4, <1>5, PostsNote
  <2>2. NextKnown(f) BY <1>2, <1>4, <1>5 DEF Splits, NextKnown
  <2>3. ASSUME f.next_state = NoState, f.retries = 0 PROVE q = f
    BY <2>3, States DEF do_post_tx_frequency
  <2>4. NextKnown(q) BY <2>1, <2>2, <2>3 DEF Notes, Calls, NextKnown
  <2>5. Calls(p, q) BY <1>4, <1>5, <2>1, CallsTwice DEF Splits, Notes
  <2>6. Calls(o, q) BY <1>3, <2>5, CallsTwice
  <2> QED BY <1>3, <1>4, <1>5, <2>1, <2>4, <2>6 DEF Splits, Notes, Unkeyed, Calls
<1> HIDE DEF q
<1>6. ASSUME ~p.thrown
      PROVE  /\ Calls(o, u) /\ Unkeyed(u) /\ NextKnown(u)
             /\ u.radio.split = q.radio.split
  <2>1. Records(q, u) BY <1>0, <1>5, <1>6, FlagsRecord
  <2>2. Calls(o, u) BY <1>5, <1>6, <2>1, CallsTwice DEF Records
  <2> QED BY <1>5, <1>6, <2>1, <2>2 DEF Records, Unkeyed, NextKnown
<1> HIDE DEF u
<1>7. ASSUME o.requested.online
      PROVE  /\ Calls(o, r) /\ Unkeyed(r) /\ NextKnown(r)
             /\ ~OneVFO /\ r.radio.split => r.gave_up \/ r.thrown
  <2>1. CASE p.thrown \/ ~o.requested.split
    BY <1>0, <1>2, <1>3, <2>1 DEF SplitKnown
  <2>2. CASE ~(p.thrown \/ ~o.requested.split)
    BY <1>5, <1>6, <2>2
  <2> QED BY <2>1, <2>2
<1>8. shutdown_radio(o, Y) = IF o.requested.online THEN z ELSE o
  <2>1. p.requested.split = o.requested.split BY <1>3
  <2> QED BY <2>1 DEF shutdown_radio, k, p, f, q, u
<1> HIDE DEF r
<1>9. ASSUME o.requested.online PROVE Releases(o, z)
  <2>0. r \in Objects /\ Calls(o, r) BY <1>7, <1>9 DEF Calls
  <2>1. /\ z \in Objects /\ ~z.thrown /\ z.radio = r.radio /\ z.unkey_failed = r.unkey_failed
        /\ z.next_state = r.next_state /\ z.retries = r.retries
        /\ z.gave_up = ((r.gave_up \/ r.thrown) /\ r.radio.split)
        /\ Calls(r, z)
    BY ZenonT(60), <2>0 DEF Objects, Radio, Calls
  <2>2. Calls(o, z) BY <2>0, <2>1, CallsTwice
  <2> QED BY <1>7, <1>9, <2>1, <2>2 DEF Releases, Unkeyed, NextKnown
<1> HIDE DEF z
<1>10. ASSUME ~o.requested.online PROVE Releases(o, o)
  BY <1>0, <1>10, NoCall DEF Releases, SplitKnown
<1> QED BY <1>8, <1>9, <1>10

\* p is o but for the signals
Shows(o, p) ==
    /\ p \in Objects
    /\ p.requested = o.requested /\ p.actual = o.actual /\ p.number = o.number
    /\ p.next_state = o.next_state /\ p.retries = o.retries /\ p.timer = o.timer
    /\ p.radio = o.radio /\ p.unkey_failed = o.unkey_failed /\ p.gave_up = o.gave_up
    /\ p.thrown = o.thrown

\* Signals are signals.
LEMMA SignalsShown ==
    ASSUME NEW o \in Objects, NEW x \in Signals
    PROVE  Shows(o, [o EXCEPT !.emits = Append(@, x)])
           /\ [o EXCEPT !.emits = Append(@, x)].emits = Append(o.emits, x)
           /\ [o EXCEPT !.emits = Append(@, x)].last = o.last
<1> DEFINE p == [o EXCEPT !.emits = Append(@, x)]
<1>1. o.emits \in Seq(Signals) BY DEF Objects
<1>2. Append(o.emits, x) \in Seq(Signals) BY <1>1
<1>3. p \in Objects BY <1>2 DEF Objects
<1> QED BY <1>3 DEF Shows, Objects

\* What is signalled is a signal.
LEMMA SignalTypes ==
    /\ failure \in Signals /\ finished \in Signals
    /\ \A s \in TransceiverState, n \in Numbers \cup {0} : update(s, n) \in Signals
  BY DEF Signals, failure, finished, update

\* An update is signalled if it is forced, or if it is news and none is awaited.
LEMMA UpdateShows ==
    ASSUME NEW o \in Objects, NEW force \in BOOLEAN
    PROVE  /\ Shows(o, update_complete(o, force))
           /\ IF force \/ (do_pre_update(o) /\ o.actual # o.last)
              THEN /\ update_complete(o, force).emits
                        = Append(o.emits, update(o.actual, o.number))
                   /\ update_complete(o, force).last = o.actual
              ELSE update_complete(o, force) = o
<1> DEFINE x == update(o.actual, o.number)
           e == Append(o.emits, x)
           p == [o EXCEPT !.emits = e, !.last = o.actual]
<1>1. x \in Signals BY SignalTypes DEF Objects
<1> HIDE DEF x
<1>2. o.emits \in Seq(Signals) /\ o.actual \in TransceiverState BY DEF Objects
<1>3. e \in Seq(Signals) BY <1>1, <1>2
<1> HIDE DEF e
<1>4. p \in Objects BY <1>2, <1>3 DEF Objects
<1>5. Shows(o, p) /\ p.emits = e /\ p.last = o.actual BY <1>4 DEF Shows, Objects
<1>6. update_complete(o, force) =
        IF force \/ (do_pre_update(o) /\ o.actual # o.last) THEN p ELSE o
  BY DEF update_complete, e, x
<1>7. Shows(o, o) BY DEF Shows
<1> HIDE DEF p
<1> QED BY <1>5, <1>6, <1>7 DEF e, x

\* p is o after it was shut down
Closes(o, p) ==
    /\ Down(p)
    /\ p.number = o.number
    /\ \/ p.emits = o.emits
       \/ ~Silent(o) /\ p.emits = Append(o.emits, update(NoState, o.number))
    /\ Silent(p)

\* A shutdown ends offline, with the offline state reported at most once: an object
\* that left it out, or reported it, leaves it out the next time.
LEMMA ShutdownCloses ==
    ASSUME NEW o, Sane(o), ~o.thrown, NEW Y
    PROVE  Closes(o, shutdown(o, Y))
<1> DEFINE r == shutdown_radio(o, Y)
           a == [r EXCEPT !.timer = FALSE]
           b == [a EXCEPT !.actual = NoState, !.requested = NoState]
           p == update_complete(b, FALSE)
<1>1. Releases(o, r) BY ShutdownRadioReleases
<1> HIDE DEF r
<1>2. /\ a \in Objects /\ Unkeyed(a) /\ NextKnown(a) /\ ~a.thrown /\ ~a.timer
      /\ ~OneVFO /\ a.radio.split => a.gave_up
      /\ a.number = o.number /\ a.emits = o.emits /\ a.last = o.last
      /\ o.next_state.online => a.next_state.online
      /\ o.retries # 0 => a.retries # 0
  BY <1>1 DEF Releases, Calls, Objects, Unkeyed, NextKnown
<1>3. do_post_stop(r) = a BY <1>1 DEF do_post_stop, Releases
<1> HIDE DEF a
<1>4. /\ b \in Objects /\ Unkeyed(b) /\ NextKnown(b) /\ SplitKnown(b) /\ ~b.thrown /\ ~b.timer
      /\ b.requested = NoState /\ b.actual = NoState
      /\ b.number = o.number /\ b.emits = o.emits /\ b.last = o.last
      /\ Silent(o) => Silent(b)
  <2>1. /\ b \in Objects /\ b.requested = NoState /\ b.actual = NoState
        /\ b.radio = a.radio /\ b.unkey_failed = a.unkey_failed /\ b.gave_up = a.gave_up
        /\ b.thrown = a.thrown /\ b.timer = a.timer /\ b.number = a.number
        /\ b.emits = a.emits /\ b.last = a.last /\ b.next_state = a.next_state
        /\ b.retries = a.retries
    BY <1>2, States DEF Objects
  <2> HIDE DEF b
  <2> QED BY <1>2, <2>1 DEF Unkeyed, NextKnown, SplitKnown, Silent
<1> HIDE DEF b
<1>5. /\ Shows(b, p)
      /\ IF do_pre_update(b) /\ b.actual # b.last
         THEN p.emits = Append(b.emits, update(b.actual, b.number)) /\ p.last = b.actual
         ELSE p = b
  BY <1>4, UpdateShows
<1> HIDE DEF p
<1>6. ASSUME do_pre_update(b) /\ b.actual # b.last PROVE Closes(o, p)
  <2>1. ~Silent(b) BY <1>4, <1>6, States DEF Silent, do_pre_update
  <2>2. p.emits = Append(o.emits, update(NoState, o.number)) /\ p.last = NoState
    BY <1>4, <1>5, <1>6
  <2>3. Silent(p) BY <2>2 DEF Silent
  <2> QED
    BY <1>4, <1>5, <2>1, <2>2, <2>3 DEF Closes, Down, Shows, Unkeyed, NextKnown, SplitKnown
<1>7. ASSUME ~(do_pre_update(b) /\ b.actual # b.last) PROVE Closes(o, p)
  <2>1. p = b BY <1>5, <1>7
  <2>2. Silent(b) BY <1>4, <1>7, States DEF Silent, do_pre_update, NextKnown
  <2> QED BY <1>4, <2>1, <2>2 DEF Closes, Down
<1>8. shutdown(o, Y) = p BY <1>3 DEF shutdown, p, b, r
<1> QED BY <1>6, <1>7, <1>8

\* p is o after it failed
Fails(o, p) ==
    /\ Down(p)
    /\ p.number = o.number
    /\ \/ p.emits = Append(o.emits, failure)
       \/ ~Silent(o) /\ p.emits = Append(Append(o.emits, failure), update(NoState, o.number))
    /\ Silent(p)

\* offline reports the failure, and then shuts down.
LEMMA OfflineFails ==
    ASSUME NEW o, Sane(o), NEW Y
    PROVE  Fails(o, offline(o, Y))
<1> DEFINE e == Append(o.emits, failure)
           f == [o EXCEPT !.emits = e, !.thrown = FALSE]
           p == offline(o, Y)
<1>1. e \in Seq(Signals) /\ o \in Objects BY SignalTypes DEF Objects, Sane
<1> HIDE DEF e
<1>2. /\ f \in Objects /\ f.requested = o.requested /\ f.radio = o.radio /\ f.emits = e
      /\ f.unkey_failed = o.unkey_failed /\ f.gave_up = o.gave_up /\ ~f.thrown
      /\ f.last = o.last /\ f.number = o.number /\ f.next_state = o.next_state
      /\ f.retries = o.retries
  BY <1>1 DEF Objects
<1>3. p = shutdown(f, Y) BY DEF offline, e
<1> HIDE DEF f, p
<1>4. Sane(f) /\ (Silent(f) <=> Silent(o))
  BY <1>2 DEF Sane, NextKnown, SplitKnown, Unkeyed, Silent
<1>5. Closes(f, p) BY <1>2, <1>3, <1>4, ShutdownCloses
<1> QED BY <1>2, <1>3, <1>4, <1>5 DEF Closes, Fails, p, e

-----------------------------------------------------------------------------
(* The handlers. *)

\* An object between two handlers, online or offline, may be shut down.
LEMMA IdleIsSane == ASSUME NEW o, Up(o) \/ Down(o) PROVE Sane(o)
  BY States DEF Up, Down, Sane, NextKnown

\* Signals do not change whether the object is online.
LEMMA ShowsIdle ==
    ASSUME NEW o, NEW p, Shows(o, p)
    PROVE  (Up(o) => Up(p)) /\ (Down(o) => Down(p))
  BY DEF Shows, Up, Down, SplitKnown, NextKnown, Unkeyed

\* A set leaves an object that is online online, though an error may be under way.
LEMMA SetsUp == ASSUME NEW o, NEW p, Sets(o, p), Up(o) PROVE Up(p)
  BY DEF Sets, Calls, Up

\* A rig that was started is online, and one that was not is offline again, with
\* nothing reported but the failure.
LEMMA StartupStarts ==
    ASSUME NEW o, Down(o), Silent(o), NEW X, NEW Y, NEW p, p = startup(o, X, Y)
    PROVE  /\ p.number = o.number
           /\ \/ Up(p) /\ ~p.thrown /\ p.emits = o.emits
              \/ Down(p) /\ p.emits = Append(o.emits, failure)
<1> DEFINE a == [o EXCEPT !.actual.online = TRUE, !.requested.online = TRUE]
           b == do_start(a, X)
           c == do_post_start(b)
<1>1. /\ a \in Objects /\ a.requested.online /\ a.actual.online /\ ~a.requested.split
      /\ a.number = o.number /\ a.emits = o.emits /\ ~a.thrown
      /\ NextKnown(a) /\ SplitKnown(a) /\ Silent(a)
  <2>1. a.requested.split = o.requested.split
    BY DEF Down, Objects, TransceiverState
  <2>2. /\ a \in Objects /\ a.requested.online /\ a.actual.online
        /\ a.number = o.number /\ a.emits = o.emits /\ a.thrown = o.thrown
        /\ a.next_state = o.next_state /\ a.retries = o.retries /\ a.last = o.last
        /\ a.radio = o.radio /\ a.gave_up = o.gave_up
    BY DEF Down, Objects, TransceiverState
  <2> HIDE DEF a
  <2> QED BY <2>1, <2>2, States DEF Down, NextKnown, SplitKnown, Silent
<1> HIDE DEF a
<1>2. Records(a, b) /\ b \in Objects
  <2>1. Records(a, b) BY <1>1, StartRecords
  <2> QED BY <2>1 DEF Records, Calls
<1> HIDE DEF b
<1>3. /\ b.requested.online /\ b.actual.online /\ ~b.requested.split
      /\ b.number = o.number /\ b.emits = o.emits
      /\ NextKnown(b) /\ SplitKnown(b) /\ Silent(b)
  BY <1>1, <1>2 DEF Records, Calls, NextKnown, SplitKnown, Silent
<1>4. p = catch_offline(c, Y) BY DEF startup, a, b
<1>5. CASE b.thrown
  <2>1. c = b BY <1>5 DEF do_post_start
  <2>2. p = offline(b, Y) BY <1>4, <1>5, <2>1 DEF catch_offline
  <2>3. Sane(b) BY <1>2, <1>3 DEF Sane
  <2>4. Fails(b, p) BY <2>2, <2>3, OfflineFails
  <2> QED BY <1>3, <2>4 DEF Fails
<1>6. CASE ~b.thrown
  <2> DEFINE t == [b EXCEPT !.timer = TRUE]
             s == [b.next_state EXCEPT !.online = TRUE]
  <2>1. /\ t \in Objects /\ t.timer /\ t.requested = b.requested /\ t.actual = b.actual
        /\ t.next_state = b.next_state /\ t.radio = b.radio /\ t.gave_up = b.gave_up
        /\ t.thrown = b.thrown /\ t.number = b.number /\ t.emits = b.emits
    BY <1>2 DEF Objects
  <2>2. s \in TransceiverState /\ s.online BY <1>2 DEF Objects, TransceiverState
  <2>3. c = IF b.next_state.online THEN t ELSE expect(t, s)
    BY <1>6, <2>1 DEF do_post_start
  <2> HIDE DEF t, s, c
  <2>4. Notes(t, expect(t, s)) /\ expect(t, s).next_state = s
    BY <2>1, <2>2, ExpectNotes
  <2>5. Up(c) /\ ~c.thrown /\ c.emits = o.emits /\ c.number = o.number
    BY <1>3, <1>6, <2>1, <2>2, <2>3, <2>4 DEF Notes, Calls, Up, SplitKnown
  <2> QED BY <1>4, <2>5 DEF catch_offline
<1> QED BY <1>5, <1>6

\* The number of the command is put on record first.
LEMMA Numbered ==
    ASSUME NEW o, Up(o) \/ Down(o), NEW n \in Numbers, NEW a, a = [o EXCEPT !.number = n]
    PROVE  /\ Up(o) <=> Up(a)
           /\ Down(o) <=> Down(a)
           /\ a.number = n /\ a.emits = o.emits /\ a.thrown = o.thrown
           /\ a.requested = o.requested /\ a.last = o.last
<1>1. /\ a \in Objects /\ a.requested = o.requested /\ a.actual = o.actual
      /\ a.number = n /\ a.emits = o.emits /\ a.thrown = o.thrown /\ a.last = o.last
      /\ a.next_state = o.next_state /\ a.retries = o.retries /\ a.timer = o.timer
      /\ a.radio = o.radio /\ a.unkey_failed = o.unkey_failed /\ a.gave_up = o.gave_up
  BY DEF Up, Down, Objects
<1> QED BY <1>1 DEF Up, Down, SplitKnown, NextKnown, Unkeyed

-----------------------------------------------------------------------------
(* The signals of a handler, in order. *)

\* Two or three signals one by one are the sequence of them.
LEMMA Tuples ==
    ASSUME NEW S, NEW x \in S, NEW y \in S, NEW z \in S
    PROVE  /\ Append(<<>>, x) = <<x>>
           /\ Append(<<x>>, y) = <<x, y>>
           /\ Append(<<x, y>>, z) = <<x, y, z>>
<1>1. Append(<<>>, x) = <<x>> OBVIOUS
<1>2. Append(<<x>>, y) = <<x, y>>
  <2>1. <<x>> \in Seq(S) /\ <<x, y>> \in Seq(S) /\ Len(<<x, y>>) = 2 OBVIOUS
  <2>2. Append(<<x>>, y) \in Seq(S) /\ Len(Append(<<x>>, y)) = 2 BY <2>1
  <2>3. \A i \in 1 .. 2 : Append(<<x>>, y)[i] = <<x, y>>[i] BY <2>1
  <2> QED BY <2>1, <2>2, <2>3, SeqEqual
<1>3. Append(<<x, y>>, z) = <<x, y, z>>
  <2>1. <<x, y>> \in Seq(S) /\ <<x, y, z>> \in Seq(S) /\ Len(<<x, y, z>>) = 3 OBVIOUS
  <2>2. Append(<<x, y>>, z) \in Seq(S) /\ Len(Append(<<x, y>>, z)) = 3 BY <2>1
  <2>3. \A i \in 1 .. 3 : Append(<<x, y>>, z)[i] = <<x, y, z>>[i] BY <2>1
  <2> QED BY <2>1, <2>2, <2>3, SeqEqual
<1> QED BY <1>1, <1>2, <1>3

\* Signals that follow others are appended to them.
LEMMA OneFollows ==
    ASSUME NEW S, NEW pre \in Seq(S), NEW x \in S
    PROVE  Append(pre, x) = pre \o <<x>>
  OBVIOUS

\* The same for two signals.
LEMMA TwoFollow ==
    ASSUME NEW S, NEW pre \in Seq(S), NEW x \in S, NEW y \in S
    PROVE  /\ Append(Append(pre, x), y) = pre \o <<x, y>>
           /\ <<x, y>> \o <<>> = <<x, y>>
  OBVIOUS

\* The same for three signals, as the answers have them.
LEMMA ThreeFollow ==
    ASSUME NEW S, NEW pre \in Seq(S), NEW x \in S, NEW y \in S, NEW z \in S
    PROVE  Append(Append(Append(pre, x), y), z) = pre \o (<<x, y>> \o <<z>>)
<1>1. Append(Append(Append(pre, x), y), z) = pre \o <<x, y, z>> OBVIOUS
<1>2. <<x, y>> \o <<z>> = Append(<<x, y>>, z)
  <2>1. <<x, y>> \in Seq(S) OBVIOUS
  <2> QED BY <2>1
<1> QED BY <1>1, <1>2, Tuples

\* the answers of an object: pre was signalled before
Answers(p, pre, well, wrong) ==
    \/ Up(p) /\ ~p.thrown /\ \E e \in well : p.emits = pre \o e
    \/ Down(p) /\ \E e \in wrong : p.emits = pre \o e

\* what is left of a set once the rig was brought online or offline
Applied(o, s, X, Y) == catch_offline(update_complete(apply(o, s, X), TRUE), Y)

\* A set of a rig that is online answers with the state, and if it went wrong with
\* a failure after it, and then with the offline state unless that is left out.
LEMMA ApplyAnswers ==
    ASSUME NEW o, Up(o), ~o.thrown, NEW s \in TransceiverState, NEW X, NEW Y
    PROVE  /\ Applied(o, s, X, Y).number = o.number
           /\ Answers(Applied(o, s, X, Y), o.emits, Obeyed(OnlineStates, o.number),
                      Refused(OnlineStates, o.number))
<1> DEFINE b == apply(o, s, X)
           u == update_complete(b, TRUE)
           p == catch_offline(u, Y)
           x == update(b.actual, o.number)
           y == update(NoState, o.number)
<1>1. Sets(o, b) BY ApplySets DEF Up
<1> HIDE DEF b
<1>2. Up(b) /\ b.number = o.number /\ b.emits = o.emits
  BY <1>1, SetsUp DEF Sets, Calls
<1>3. Shows(b, u) /\ u.emits = Append(b.emits, update(b.actual, b.number))
  BY <1>2, UpdateShows DEF Up
<1> HIDE DEF u
<1>4. Up(u) /\ u.number = o.number /\ u.emits = Append(o.emits, x)
  BY <1>2, <1>3, ShowsIdle DEF Shows
<1>5. b.actual \in OnlineStates BY <1>2 DEF Up, Objects, OnlineStates
<1>6. /\ x \in Signals /\ y \in Signals /\ failure \in Signals
      /\ o.emits \in Seq(Signals)
  <2>1. o.number \in Numbers \cup {0} /\ o.emits \in Seq(Signals) BY DEF Up, Objects
  <2> QED BY <1>5, <2>1, SignalTypes, States DEF OnlineStates
<1>7. /\ <<x>> \in Obeyed(OnlineStates, o.number)
      /\ <<x, failure>> \o <<>> \in Refused(OnlineStates, o.number)
      /\ <<x, failure>> \o <<y>> \in Refused(OnlineStates, o.number)
  <2>1. <<>> \in MaybeOffline(o.number) /\ <<y>> \in MaybeOffline(o.number)
    BY DEF MaybeOffline
  <2>2. ASSUME NEW post \in MaybeOffline(o.number)
        PROVE  <<x, failure>> \o post \in Refused(OnlineStates, o.number)
    BY <1>5 DEF Refused
  <2>3. <<x>> \in Obeyed(OnlineStates, o.number) BY <1>5 DEF Obeyed
  <2> QED BY <2>1, <2>2, <2>3
<1> HIDE DEF x, p
<1>8. CASE ~u.thrown
  <2>1. p = u BY <1>8 DEF catch_offline, p
  <2>2. p.emits = o.emits \o <<x>> BY <1>4, <1>6, <2>1, OneFollows
  <2>3. Answers(p, o.emits, Obeyed(OnlineStates, o.number),
                Refused(OnlineStates, o.number))
    BY <1>4, <1>7, <1>8, <2>1, <2>2 DEF Answers
  <2> QED BY <1>4, <2>1, <2>3 DEF Applied, p, u, b
<1>9. CASE u.thrown
  <2>1. p = offline(u, Y) BY <1>9 DEF catch_offline, p
  <2>2. Fails(u, p) BY <1>4, <2>1, IdleIsSane, OfflineFails
  <2>3. /\ Down(p) /\ p.number = o.number
        /\ \/ p.emits = Append(Append(o.emits, x), failure)
           \/ p.emits = Append(Append(Append(o.emits, x), failure), y)
    BY <1>4, <2>2 DEF Fails
  <2>4. \/ p.emits = o.emits \o (<<x, failure>> \o <<>>)
        \/ p.emits = o.emits \o (<<x, failure>> \o <<y>>)
    <3> HIDE DEF y
    <3>1. Append(Append(o.emits, x), failure) = o.emits \o (<<x, failure>> \o <<>>)
      BY <1>6, TwoFollow
    <3>2. Append(Append(Append(o.emits, x), failure), y)
            = o.emits \o (<<x, failure>> \o <<y>>)
      BY <1>6, ThreeFollow
    <3> QED BY <2>3, <3>1, <3>2
  <2>5. Answers(p, o.emits, Obeyed(OnlineStates, o.number),
                Refused(OnlineStates, o.number))
    BY <1>7, <2>3, <2>4 DEF Answers
  <2> QED BY <2>3, <2>5 DEF Applied, p, u, b
<1> QED BY <1>8, <1>9

\* A set of a rig that is offline, as it could not be started, answers with that.
LEMMA ApplyOffline ==
    ASSUME NEW o, Down(o), NEW s \in TransceiverState, NEW X, NEW Y
    PROVE  /\ Applied(o, s, X, Y).number = o.number
           /\ Down(Applied(o, s, X, Y))
           /\ Applied(o, s, X, Y).emits = Append(o.emits, update(NoState, o.number))
<1> DEFINE u == update_complete(o, TRUE)
<1>1. apply(o, s, X) = o BY ApplySets, States DEF Down
<1>2. Shows(o, u) /\ u.emits = Append(o.emits, update(o.actual, o.number))
  BY UpdateShows DEF Down
<1> HIDE DEF u
<1>3. Down(u) BY <1>2, ShowsIdle
<1>4. catch_offline(u, Y) = u BY <1>3 DEF catch_offline, Down
<1>5. Applied(o, s, X, Y) = u BY <1>1, <1>4 DEF Applied, u
<1> QED BY <1>2, <1>3, <1>5 DEF Down, Shows

-----------------------------------------------------------------------------
(* The handlers. *)

Idle(o) == (Up(o) /\ ~o.thrown) \/ Down(o)

\* A rig that was just shut down is started, or the failure to do so is reported
\* with the offline state as the answer.
LEMMA StartedAnswers ==
    ASSUME NEW o, Idle(o), NEW n \in Numbers, NEW X, NEW Y,
           o.emits = <<>>, o.last = NoState, Down(o)
    PROVE  LET p == started(o, n, X, Y)
           IN /\ p.number = n
              /\ Answers(p, <<>>, Obeyed(OnlineStates, n), NotStarted(n))
<1> DEFINE a == [o EXCEPT !.number = n]
           c == shutdown(a, Y)
           g == startup(c, X, Y)
           p == update_complete(g, TRUE)
           x == update(g.actual, n)
           y == update(NoState, n)
<1>1. Down(a) /\ a.number = n /\ a.emits = <<>> /\ a.last = NoState /\ ~a.thrown
  <2>1. ~o.thrown BY DEF Down
  <2> HIDE DEF a
  <2> QED BY <2>1, Numbered DEF a
<1> HIDE DEF a
<1>2. Closes(a, c) BY <1>1, IdleIsSane, ShutdownCloses
<1> HIDE DEF c
<1>3. Down(c) /\ c.emits = <<>> /\ c.number = n /\ Silent(c)
  BY <1>1, <1>2 DEF Closes, Silent
<1>4. /\ g.number = n
      /\ \/ Up(g) /\ ~g.thrown /\ g.emits = <<>>
         \/ Down(g) /\ g.emits = Append(<<>>, failure)
  BY <1>3, StartupStarts
<1> HIDE DEF g
<1>5. Shows(g, p) /\ p.emits = Append(g.emits, x)
  BY <1>4, UpdateShows DEF Up, Down
<1> HIDE DEF p
<1>6. started(o, n, X, Y) = p BY DEF started, p, g, c, a
<1>7. CASE Up(g) /\ ~g.thrown /\ g.emits = <<>>
  <2>1. g.actual \in OnlineStates BY <1>7 DEF Up, Objects, OnlineStates
  <2>2. x \in Signals BY <2>1, SignalTypes DEF OnlineStates
  <2>3. p.emits = <<>> \o <<x>> BY <1>5, <1>7, <2>2, EmptySeq, OneFollows
  <2>4. <<x>> \in Obeyed(OnlineStates, n) BY <2>1 DEF Obeyed
  <2>5. Up(p) /\ ~p.thrown /\ p.number = n BY <1>4, <1>5, <1>7, ShowsIdle DEF Shows
  <2> QED BY <1>6, <2>3, <2>4, <2>5 DEF Answers
<1>8. CASE Down(g) /\ g.emits = Append(<<>>, failure)
  <2>1. g.actual = NoState BY <1>8 DEF Down
  <2>2. x = y BY <2>1
  <2>3. y \in Signals BY SignalTypes, States
  <2>4. p.emits = <<>> \o <<failure, y>>
    <3>1. <<>> \in Seq(Signals) /\ failure \in Signals BY EmptySeq, SignalTypes
    <3>2. p.emits = Append(Append(<<>>, failure), y) BY <1>5, <1>8, <2>2
    <3> HIDE DEF y
    <3> QED BY ZenonT(60), <2>3, <3>1, <3>2, TwoFollow
  <2>5. <<failure, y>> \in NotStarted(n) BY DEF NotStarted
  <2>6. Down(p) /\ p.number = n BY <1>4, <1>5, <1>8, ShowsIdle DEF Shows
  <2> QED BY <1>6, <2>4, <2>5, <2>6 DEF Answers
<1> QED BY <1>4, <1>7, <1>8

\* A shutdown reports the offline state or nothing.
LEMMA ClosesMaybe ==
    ASSUME NEW o, NEW p, Closes(o, p), o.emits = <<>>, o.number \in Numbers \cup {0}
    PROVE  p.emits \in MaybeOffline(o.number) /\ p.emits \in Seq(Signals)
<1> DEFINE y == update(NoState, o.number)
<1>1. y \in Signals BY SignalTypes, States
<1>2. p.emits = <<>> \/ p.emits = Append(<<>>, y) BY DEF Closes
<1> HIDE DEF y
<1>3. Append(<<>>, y) = <<y>> /\ <<y>> \in Seq(Signals) /\ <<>> \in Seq(Signals)
  BY <1>1, Tuples
<1> QED BY <1>2, <1>3 DEF MaybeOffline, y

\* A set of a rig that is online leaves it so or answers with a failure.
LEMMA SetOnline ==
    ASSUME NEW o, Up(o), ~o.thrown, o.emits = <<>>, NEW s \in TransceiverState, s.online,
           NEW n \in Numbers, NEW X, NEW Y
    PROVE  LET p == has_been_set(o, s, n, X, Y)
           IN p.number = n /\ Answers(p, <<>>, Obeyed(OnlineStates, n), Refused(OnlineStates, n))
<1> DEFINE a == [o EXCEPT !.number = n]
<1>1. Up(a) /\ ~a.thrown /\ a.number = n /\ a.emits = <<>> BY Numbered
<1> HIDE DEF a
<1>2. go_online_or_offline(a, s, X, Y) = a BY <1>1 DEF go_online_or_offline, Up
<1>3. has_been_set(o, s, n, X, Y) = Applied(a, s, X, Y)
  BY <1>2 DEF has_been_set, Applied, a
<1> QED BY <1>1, <1>3, ApplyAnswers

\* A set of a rig that is offline starts it anew.
LEMMA SetOffline ==
    ASSUME NEW o, Down(o), o.emits = <<>>, NEW s \in TransceiverState, s.online,
           NEW n \in Numbers, NEW X, NEW Y
    PROVE  LET p == has_been_set(o, s, n, X, Y)
           IN /\ p.number = n
              /\ \E pre \in MaybeOffline(n) :
                   Answers(p, pre, Obeyed(OnlineStates, n),
                           NotStarted(n) \cup Refused(OnlineStates, n))
<1> DEFINE a == [o EXCEPT !.number = n]
           c == shutdown(a, Y)
           g == startup(c, X, Y)
           p == Applied(g, s, X, Y)
           y == update(NoState, n)
<1>1. Down(a) /\ a.number = n /\ a.emits = <<>>
  <2> HIDE DEF a
  <2> QED BY Numbered DEF a
<1> HIDE DEF a
<1>2. Closes(a, c) /\ ~a.thrown BY <1>1, IdleIsSane, ShutdownCloses DEF Down
<1>3. go_online_or_offline(a, s, X, Y) = g
  BY <1>1, States DEF go_online_or_offline, Down, c, g
<1>4. has_been_set(o, s, n, X, Y) = p BY <1>3 DEF has_been_set, Applied, a, p
<1> HIDE DEF c
<1>5. Down(c) /\ c.number = n /\ Silent(c) /\ c.emits \in MaybeOffline(n)
      /\ c.emits \in Seq(Signals)
  BY <1>1, <1>2, ClosesMaybe DEF Closes
<1>6. /\ g.number = n
      /\ \/ Up(g) /\ ~g.thrown /\ g.emits = c.emits
         \/ Down(g) /\ g.emits = Append(c.emits, failure)
  BY <1>5, StartupStarts
<1> HIDE DEF g
<1>7. CASE Up(g) /\ ~g.thrown /\ g.emits = c.emits
  <2>1. p.number = n /\ Answers(p, c.emits, Obeyed(OnlineStates, n),
                                Refused(OnlineStates, n))
    BY <1>6, <1>7, ApplyAnswers
  <2> HIDE DEF p
  <2> QED BY <1>4, <1>5, <2>1 DEF Answers
<1>8. CASE Down(g) /\ g.emits = Append(c.emits, failure)
  <2>1. p.number = n /\ Down(p) /\ p.emits = Append(g.emits, y)
    BY SMTT(30), <1>6, <1>8, ApplyOffline
  <2> HIDE DEF p
  <2>2. y \in Signals BY SignalTypes, States
  <2>3. <<failure, y>> \in NotStarted(n) BY DEF NotStarted
  <2> HIDE DEF y
  <2>4. p.emits = c.emits \o <<failure, y>>
    BY <1>5, <1>8, <2>1, <2>2, SignalTypes, TwoFollow
  <2> QED BY <1>4, <1>5, <2>1, <2>3, <2>4 DEF Answers
<1> QED BY <1>6, <1>7, <1>8

\* Whatever is requested, the object is online or offline for good after it.
LEMMA SetIdle ==
    ASSUME NEW o, Idle(o), o.emits = <<>>, NEW s \in TransceiverState,
           NEW n \in Numbers, NEW X, NEW Y
    PROVE  Idle(has_been_set(o, s, n, X, Y)) /\ has_been_set(o, s, n, X, Y).number = n
<1>1. CASE s.online
  <2>1. CASE Up(o) /\ ~o.thrown BY <1>1, <2>1, SetOnline DEF Answers, Idle
  <2>2. CASE Down(o) BY <1>1, <2>2, SetOffline DEF Answers, Idle
  <2> QED BY <2>1, <2>2 DEF Idle
<1>2. CASE ~s.online
  <2> DEFINE a == [o EXCEPT !.number = n]
             g == go_online_or_offline(a, s, X, Y)
  <2>1. (Up(a) \/ Down(a)) /\ a.number = n /\ ~a.thrown
    <3>1. ~o.thrown BY DEF Idle, Down
    <3> HIDE DEF a
    <3> QED BY <3>1, Numbered DEF a, Idle
  <2> HIDE DEF a
  <2>2. Down(g) /\ g.number = n
    <3>1. CASE Up(a)
      <4>1. Closes(a, shutdown(a, Y)) BY <2>1, IdleIsSane, ShutdownCloses
      <4>2. g = shutdown(a, Y) BY <1>2, <3>1 DEF go_online_or_offline, Up
      <4> QED BY <2>1, <4>1, <4>2 DEF Closes
    <3>2. CASE Down(a)
      <4>1. g = a
        BY <1>2, <3>2, States DEF go_online_or_offline, Down, TransceiverState
      <4> QED BY <2>1, <3>2, <4>1
    <3> QED BY <2>1, <3>1, <3>2
  <2> HIDE DEF g
  <2>3. Down(Applied(g, s, X, Y)) /\ Applied(g, s, X, Y).number = n
    BY <2>2, ApplyOffline
  <2> QED BY <2>3 DEF has_been_set, Applied, g, a, Idle
<1> QED BY <1>1, <1>2

\* A rig that is stopped goes offline and reports that it finished.
LEMMA StoppedAnswers ==
    ASSUME NEW o, Idle(o), o.emits = <<>>, NEW Y
    PROVE  /\ Down(stopped(o, Y)) /\ stopped(o, Y).number = o.number
           /\ stopped(o, Y).emits \in Endings(o.number)
<1> DEFINE c == shutdown(o, Y)
           p == [c EXCEPT !.emits = Append(@, finished)]
<1>1. (Up(o) \/ Down(o)) /\ ~o.thrown /\ o.number \in Numbers \cup {0}
  BY DEF Idle, Up, Down, Objects
<1>2. Closes(o, c) BY <1>1, IdleIsSane, ShutdownCloses
<1> HIDE DEF c
<1>3. Down(c) /\ c.number = o.number /\ c.emits \in MaybeOffline(o.number)
      /\ c.emits \in Seq(Signals)
  BY <1>1, <1>2, ClosesMaybe DEF Closes
<1>4. Shows(c, p) /\ p.emits = Append(c.emits, finished)
  BY <1>3, SignalsShown, SignalTypes DEF Down
<1> HIDE DEF p
<1>5. Down(p) /\ p.number = o.number BY <1>3, <1>4, ShowsIdle DEF Shows
<1>6. p.emits = c.emits \o <<finished>> BY <1>3, <1>4, SignalTypes, OneFollows
<1>7. p.emits \in Endings(o.number)
  <2>1. ASSUME NEW E, NEW pre \in MaybeOffline(o.number), NEW e \in E
        PROVE  pre \o e \in After(o.number, E)
    BY DEF After
  <2>2. c.emits \o <<finished>> \in After(o.number, {<<finished>>}) BY <1>3, <2>1
  <2> QED BY <1>6, <2>2 DEF Endings
<1> QED BY <1>5, <1>7 DEF stopped, p, c

\* After a poll the object is as it was, with the polls left counted down, or the
\* state is signalled.
LEMMA AfterPollAnswers ==
    ASSUME NEW o, Up(o), ~o.thrown, o.emits = <<>>
    PROVE  /\ Up(after_poll(o)) /\ ~after_poll(o).thrown /\ after_poll(o).number = o.number
           /\ after_poll(o).emits \in Obeyed(OnlineStates, o.number) \cup {<<>>}
<1> DEFINE left == IF o.retries = 0 THEN 0 ELSE o.retries - 1
           w == [o EXCEPT !.retries = left]
           a == [o EXCEPT !.retries = 0, !.next_state = o.actual, !.last_signalled = o.actual]
           u == update_complete(a, TRUE)
           x == update(a.actual, o.number)
<1>1. /\ left \in 0 .. polls_to_stabilize /\ 0 \in 0 .. polls_to_stabilize
      /\ o \in Objects /\ o.actual \in OnlineStates
  BY DEF Up, Objects, polls_to_stabilize, OnlineStates
<1> HIDE DEF left
<1>2. Up(w) /\ ~w.thrown /\ w.number = o.number /\ w.emits = <<>>
  <2>1. w \in Objects BY <1>1 DEF Objects
  <2>2. /\ w.requested = o.requested /\ w.actual = o.actual /\ w.timer = o.timer
        /\ w.next_state = o.next_state /\ w.radio = o.radio /\ w.gave_up = o.gave_up
        /\ w.thrown = o.thrown /\ w.number = o.number /\ w.emits = o.emits
    BY <1>1 DEF Objects
  <2> HIDE DEF w
  <2> QED BY <2>1, <2>2 DEF Up, SplitKnown
<1>3. Up(a) /\ ~a.thrown /\ a.number = o.number /\ a.emits = <<>> /\ a.actual = o.actual
  <2>1. a \in Objects BY <1>1 DEF Objects, OnlineStates
  <2>2. /\ a.requested = o.requested /\ a.actual = o.actual /\ a.timer = o.timer
        /\ a.next_state = o.actual /\ a.radio = o.radio /\ a.gave_up = o.gave_up
        /\ a.thrown = o.thrown /\ a.number = o.number /\ a.emits = o.emits
    BY <1>1 DEF Objects
  <2> HIDE DEF a
  <2> QED BY <2>1, <2>2 DEF Up, SplitKnown
<1> HIDE DEF a
<1>4. Shows(a, u) /\ u.emits = Append(<<>>, x) BY <1>3, UpdateShows DEF Up
<1>5. x \in Signals BY <1>1, <1>3, SignalTypes DEF OnlineStates, Objects
<1>6. u.emits = <<x>> /\ <<x>> \in Obeyed(OnlineStates, o.number)
  <2>1. <<x>> \in Obeyed(OnlineStates, o.number) BY <1>1, <1>3 DEF Obeyed
  <2> HIDE DEF u, x
  <2> QED BY <1>4, <1>5, <2>1, Tuples
<1>7. Up(u) /\ ~u.thrown /\ u.number = o.number BY <1>3, <1>4, ShowsIdle DEF Shows
<1>8. after_poll(o) = u \/ after_poll(o) = w BY DEF after_poll, u, a, w, left
<1> HIDE DEF u, w
<1> QED BY <1>2, <1>6, <1>7, <1>8

\* A poll finds the rig as it is, or finds it gone, which ends in a failure.
LEMMA PollAnswers ==
    ASSUME NEW o, Up(o), ~o.thrown, o.emits = <<>>, NEW X, NEW Y
    PROVE  LET p == handle_timeout(o, X, Y)
           IN /\ p.number = o.number
              /\ \/ /\ Up(p) /\ ~p.thrown
                    /\ p.emits \in Obeyed(OnlineStates, o.number) \cup {<<>>}
                 \/ Down(p) /\ p.emits \in Faults(o.number)
<1> DEFINE a == do_poll(o, X)
           p == handle_timeout(o, X, Y)
           y == update(NoState, o.number)
<1>1. Records(o, a) BY PollRecords DEF Up
<1>2. p = IF a.thrown THEN offline(a, Y) ELSE after_poll(a) BY DEF handle_timeout
<1> HIDE DEF a, p
<1>3. Up(a) /\ a.number = o.number /\ a.emits = <<>>
  BY <1>1 DEF Records, Calls, Up, SplitKnown
<1>4. CASE ~a.thrown
  <2>1. p = after_poll(a) BY <1>2, <1>4
  <2> QED BY <1>3, <1>4, <2>1, AfterPollAnswers DEF p
<1>5. CASE a.thrown
  <2>1. Fails(a, p) BY <1>2, <1>3, <1>5, IdleIsSane, OfflineFails
  <2>2. y \in Signals /\ failure \in Signals
    BY <1>3, SignalTypes, States DEF Up, Objects
  <2>3. Append(<<>>, failure) = <<failure>> \o <<>>
        /\ Append(Append(<<>>, failure), y) = <<failure>> \o <<y>>
    <3> HIDE DEF y
    <3>1. Append(<<>>, failure) = <<failure>> BY <2>2, Tuples
    <3>2. <<failure>> \in Seq(Signals) BY <2>2
    <3> QED BY <2>2, <3>1, <3>2, OneFollows
  <2>4. p.emits = <<failure>> \o <<>> \/ p.emits = <<failure>> \o <<y>>
    BY <1>3, <2>1, <2>3 DEF Fails
  <2>5. p.emits \in Faults(o.number) BY <2>4 DEF Faults, MaybeOffline
  <2> QED BY <1>3, <2>1, <2>5 DEF Fails, p
<1> QED BY <1>4, <1>5

-----------------------------------------------------------------------------
(* The inductive invariant. *)

Commands == {"create", "start", "set", "stop", "poll", "radio"}

Inv ==
    /\ Idle(object) /\ command \in Commands
    /\ command \in {"create", "stop"} => Down(object)
    /\ command = "create" =>
         object.emits = <<>> /\ object.last = NoState /\ object.number = 0

\* A fresh object is offline and has signalled nothing, whatever its radio.
LEMMA CreatedDown ==
    ASSUME NEW r \in Radio, NEW k \in BOOLEAN, NEW g \in BOOLEAN, r.ptt => k, ~OneVFO /\ r.split => g
    PROVE  LET c == Created(r, k, g)
           IN Down(c) /\ c.emits = <<>> /\ c.last = NoState /\ c.number = 0
<1> DEFINE c == Created(r, k, g)
<1>1. 0 \in 0 .. polls_to_stabilize BY DEF polls_to_stabilize
<1>2. <<>> \in Seq(Signals) BY EmptySeq
<1>3. c \in Objects BY <1>1, <1>2, States DEF Created, Objects
<1>4. /\ c.requested = NoState /\ c.actual = NoState /\ c.timer = FALSE /\ c.thrown = FALSE
      /\ c.radio = r /\ c.unkey_failed = k /\ c.gave_up = g /\ c.next_state = NoState
      /\ c.retries = 0 /\ c.emits = <<>> /\ c.last = NoState /\ c.number = 0
  BY DEF Created
<1> HIDE DEF c
<1>5. Down(c) BY <1>3, <1>4 DEF Down, Unkeyed, NextKnown, SplitKnown
<1> QED BY <1>4, <1>5 DEF c

\* Before a handler runs the signals of the one before are delivered.
LEMMA QuietIdle ==
    ASSUME Inv
    PROVE  /\ Quiet.emits = <<>> /\ Quiet.last = object.last
           /\ Quiet.number = object.number /\ Quiet.requested = object.requested
           /\ Quiet.thrown = object.thrown /\ Quiet.radio = object.radio
           /\ (Up(object) <=> Up(Quiet)) /\ (Down(object) <=> Down(Quiet))
           /\ Idle(Quiet)
<1> DEFINE q == [object EXCEPT !.emits = <<>>]
<1>1. object \in Objects BY DEF Inv, Idle, Up, Down
<1>2. <<>> \in Seq(Signals) BY EmptySeq
<1>3. /\ q \in Objects /\ q.emits = <<>> /\ q.last = object.last
      /\ q.number = object.number /\ q.requested = object.requested
      /\ q.thrown = object.thrown /\ q.radio = object.radio /\ q.actual = object.actual
      /\ q.timer = object.timer /\ q.next_state = object.next_state
      /\ q.retries = object.retries /\ q.unkey_failed = object.unkey_failed
      /\ q.gave_up = object.gave_up
  BY <1>1, <1>2 DEF Objects
<1>4. Quiet = q BY DEF Quiet
<1> HIDE DEF q
<1>5. (Up(object) <=> Up(q)) /\ (Down(object) <=> Down(q))
  BY <1>1, <1>3 DEF Up, Down, Unkeyed, NextKnown, SplitKnown
<1> QED BY <1>3, <1>4, <1>5 DEF Inv, Idle

\* Initially the radio is unkeyed and simplex.
LEMMA InvInitially == Init => Inv
<1> SUFFICES ASSUME Init PROVE Inv OBVIOUS
<1>1. PICK r \in Radio : ~r.ptt /\ ~r.split /\ object = Created(r, FALSE, FALSE)
  BY DEF Init
<1> QED BY <1>1, CreatedDown DEF Init, Inv, Idle, Commands

\* The operator at the radio changes neither PTT nor split.
LEMMA OperatedIdle ==
    ASSUME Inv, RadioOperated
    PROVE  /\ Idle(object') /\ object'.emits = <<>> /\ object'.number = object.number
           /\ object'.requested = object.requested
<1>1. PICK f \in DialTurns, m \in Modes :
        object' = [Quiet EXCEPT !.radio.frequency = f, !.radio.mode = m]
  BY DEF RadioOperated
<1> DEFINE q == Quiet
<1>2. Idle(q) /\ q.emits = <<>> /\ q.number = object.number /\ q.requested = object.requested
  BY QuietIdle
<1>3. q \in Objects BY <1>2 DEF Idle, Up, Down
<1>4. object' = [q EXCEPT !.radio.frequency = f, !.radio.mode = m] BY <1>1
<1> HIDE DEF q
<1>5. f \in Frequencies BY RequestsAssumption
<1>6. object' \in Objects BY <1>3, <1>4, <1>5 DEF Objects, Radio
<1>7. /\ object'.requested = q.requested /\ object'.actual = q.actual
      /\ object'.timer = q.timer /\ object'.thrown = q.thrown
      /\ object'.next_state = q.next_state /\ object'.retries = q.retries
      /\ object'.radio.ptt = q.radio.ptt /\ object'.radio.split = q.radio.split
      /\ object'.unkey_failed = q.unkey_failed /\ object'.gave_up = q.gave_up
      /\ object'.emits = q.emits /\ object'.number = q.number
  BY <1>3, <1>4 DEF Objects, Radio
<1>8. Idle(object')
  BY <1>2, <1>6, <1>7 DEF Idle, Up, Down, Unkeyed, NextKnown, SplitKnown
<1> QED BY <1>2, <1>7, <1>8

\* The object is started.
LEMMA StartStep ==
    ASSUME Inv, NEW n \in Numbers, Start(n)
    PROVE  /\ Inv' /\ command' = "start" /\ object'.number = n
           /\ Answers(object', <<>>, Obeyed(OnlineStates, n), NotStarted(n))
<1>1. PICK X \in Failures, Y \in ShutdownFailures : object' = started(Quiet, n, X, Y)
  BY DEF Start
<1>2. Down(Quiet) /\ Quiet.last = NoState /\ Quiet.emits = <<>> /\ Idle(Quiet)
  BY QuietIdle DEF Inv, Start
<1>3. object'.number = n
      /\ Answers(object', <<>>, Obeyed(OnlineStates, n), NotStarted(n))
  BY <1>1, <1>2, StartedAnswers
<1> QED BY <1>3 DEF Start, Inv, Answers, Idle, Commands

\* A state is requested of it.
LEMMA SetStep ==
    ASSUME Inv, NEW n \in Numbers, NEW s \in Requests, Set(s, n)
    PROVE  /\ Inv' /\ command' = "set" /\ object'.number = n
           /\ s.online /\ Up(object) =>
                Answers(object', <<>>, Obeyed(OnlineStates, n), Refused(OnlineStates, n))
           /\ s.online /\ Down(object) =>
                \E pre \in MaybeOffline(n) :
                   Answers(object', pre, Obeyed(OnlineStates, n),
                           NotStarted(n) \cup Refused(OnlineStates, n))
<1>0. s \in TransceiverState BY States
<1>1. PICK X \in Failures, Y \in ShutdownFailures : object' = has_been_set(Quiet, s, n, X, Y)
  BY DEF Set
<1>2. /\ Idle(Quiet) /\ Quiet.emits = <<>> /\ (Up(object) <=> Up(Quiet))
      /\ (Down(object) <=> Down(Quiet)) /\ ~Quiet.thrown
  BY QuietIdle DEF Inv, Idle, Down
<1>3. Idle(object') /\ object'.number = n BY <1>0, <1>1, <1>2, SetIdle
<1>4. Inv' /\ command' = "set" BY <1>3 DEF Set, Inv, Commands
<1>5. s.online /\ Up(object) =>
        Answers(object', <<>>, Obeyed(OnlineStates, n), Refused(OnlineStates, n))
  BY <1>0, <1>1, <1>2, SetOnline
<1>6. s.online /\ Down(object) =>
        \E pre \in MaybeOffline(n) :
           Answers(object', pre, Obeyed(OnlineStates, n),
                   NotStarted(n) \cup Refused(OnlineStates, n))
  BY <1>0, <1>1, <1>2, SetOffline
<1> QED BY <1>3, <1>4, <1>5, <1>6

\* It is stopped.
LEMMA StopStep ==
    ASSUME Inv, Stop
    PROVE  /\ Inv' /\ command' = "stop" /\ command \notin {"create", "stop"}
           /\ Down(object') /\ object'.number = object.number
           /\ object'.emits \in Endings(object.number)
<1>1. PICK Y \in ShutdownFailures : object' = stopped(Quiet, Y)
  BY DEF Stop
<1>2. Idle(Quiet) /\ Quiet.emits = <<>> /\ Quiet.number = object.number
  BY QuietIdle
<1>3. /\ Down(object') /\ object'.number = object.number
      /\ object'.emits \in Endings(object.number)
  BY <1>1, <1>2, StoppedAnswers
<1> QED BY <1>3 DEF Stop, Inv, Idle, Commands

\* It polls the rig, which it does only while it is online.
LEMMA PollStep ==
    ASSUME Inv, Poll
    PROVE  /\ Inv' /\ command' = "poll" /\ command \notin {"create", "stop"}
           /\ Up(object) /\ object'.number = object.number
           /\ \/ /\ Up(object')
                 /\ object'.emits \in Obeyed(OnlineStates, object.number) \cup {<<>>}
              \/ Down(object') /\ object'.emits \in Faults(object.number)
<1>1. PICK X \in Failures, Y \in ShutdownFailures : object' = handle_timeout(Quiet, X, Y)
  BY DEF Poll
<1>2. Up(object) /\ ~object.thrown /\ command \notin {"create", "stop"}
  BY DEF Poll, Inv, Idle, Down
<1>3. Up(Quiet) /\ ~Quiet.thrown /\ Quiet.emits = <<>> /\ Quiet.number = object.number
  BY <1>2, QuietIdle
<1>4. /\ object'.number = object.number
      /\ \/ /\ Up(object') /\ ~object'.thrown
            /\ object'.emits \in Obeyed(OnlineStates, object.number) \cup {<<>>}
         \/ Down(object') /\ object'.emits \in Faults(object.number)
  BY <1>1, <1>3, PollAnswers
<1> QED BY <1>2, <1>4 DEF Poll, Inv, Idle, Commands

\* It is destroyed, and another is created for the radio as it was left.
LEMMA CreateStep ==
    ASSUME Inv, Create
    PROVE  /\ Inv' /\ command' = "create" /\ command = "stop"
           /\ Down(object') /\ object'.number = 0 /\ object'.emits = <<>>
<1>1. Down(object) BY DEF Create, Inv
<1>2. /\ object.radio \in Radio /\ object.unkey_failed \in BOOLEAN
      /\ object.gave_up \in BOOLEAN /\ (object.radio.ptt => object.unkey_failed)
      /\ (~OneVFO /\ object.radio.split => object.gave_up)
  BY <1>1, States DEF Down, Objects, Unkeyed, SplitKnown
<1>3. Down(object') /\ object'.emits = <<>> /\ object'.last = NoState /\ object'.number = 0
  BY <1>2, CreatedDown DEF Create
<1> QED BY <1>3 DEF Create, Inv, Idle, Commands

\* Every handler keeps the invariant.
LEMMA InvKept == Inv /\ [Next]_vars => Inv'
<1> SUFFICES ASSUME Inv, [Next]_vars PROVE Inv' OBVIOUS
<1>1. CASE \E n \in Numbers : Start(n) BY <1>1, StartStep
<1>2. CASE \E n \in Numbers, s \in Requests : Set(s, n) BY <1>2, SetStep
<1>3. CASE Stop BY <1>3, StopStep
<1>4. CASE Poll BY <1>4, PollStep
<1>5. CASE RadioOperated BY <1>5, OperatedIdle DEF RadioOperated, Inv, Commands
<1>6. CASE Create BY <1>6, CreateStep
<1>7. CASE UNCHANGED vars BY <1>7 DEF vars, Inv, Idle, Up, Down, Unkeyed, NextKnown, SplitKnown
<1> QED BY <1>1, <1>2, <1>3, <1>4, <1>5, <1>6, <1>7 DEF Next

\* What the invariant says of the properties.
LEMMA InvSuffices ==
    ASSUME Inv
    PROVE  /\ TypeOK /\ RadioReleased /\ TimerMatchesOnline
           /\ ~OneVFO => SplitReleased
<1>1. TypeOK BY DEF Inv, Idle, Up, Down, TypeOK, Commands
<1>2. CASE Up(object)
  BY <1>1, <1>2 DEF Up, Objects, RadioReleased, TimerMatchesOnline, SplitReleased
<1>3. CASE Down(object)
  <2>1. ~object.requested.online /\ ~object.requested.split /\ ~object.timer
    BY <1>3, States DEF Down
  <2>2. object.requested.online \in BOOLEAN /\ object.timer \in BOOLEAN
    BY <1>1 DEF TypeOK, Objects, TransceiverState
  <2> QED BY <1>1, <1>3, <2>1, <2>2 DEF Down, Unkeyed, SplitKnown, RadioReleased,
             TimerMatchesOnline, SplitReleased
<1> QED BY <1>2, <1>3 DEF Inv, Idle

\* Every variable keeps its type, so that among others the polls left never wrap.
THEOREM TypeCorrect == Spec => []TypeOK
  BY InvInitially, InvKept, InvSuffices, PTL DEF Spec

\* A transceiver that went offline leaves the radio unkeyed unless the radio refused
\* the call to unkey it, whichever CAT calls failed on the way.
THEOREM RadioIsReleased == Spec => []RadioReleased
  BY InvInitially, InvKept, InvSuffices, PTL DEF Spec

\* The poll timer runs exactly while the transceiver is online.
THEOREM TimerIsOnline == Spec => []TimerMatchesOnline
  BY InvInitially, InvKept, InvSuffices, PTL DEF Spec

\* A transceiver that went offline leaves the radio in split only if a call to leave
\* split failed or was not reached, on rigs whose VFOs are addressed separately.
THEOREM SplitIsReleased ==
    ASSUME ~OneVFO
    PROVE  Spec => []SplitReleased
  BY InvInitially, InvKept, InvSuffices, PTL DEF Spec

-----------------------------------------------------------------------------
(* The contract, step by step. *)

\* Whether an object is offline does not depend on how it is told.
LEMMA OnlineOrNot ==
    /\ \A o : Up(o) => o.requested.online
    /\ \A o : Down(o) => ~o.requested.online
  BY States DEF Up, Down

\* Nothing was signalled before: the answers are those of the handler alone.
LEMMA FirstAnswers ==
    ASSUME NEW p, NEW well, NEW wrong, Answers(p, <<>>, well, wrong),
           \A e \in well \cup wrong : e \in Seq(Signals)
    PROVE  \/ Up(p) /\ p.emits \in well
           \/ Down(p) /\ p.emits \in wrong
<1>1. \A e \in Seq(Signals) : <<>> \o e = e BY ConcatEmptySeq
<1> QED BY <1>1 DEF Answers

\* The answers are signals.
LEMMA AnswersAreSignals ==
    ASSUME NEW n \in Numbers \cup {0}
    PROVE  /\ \A e \in Obeyed(OnlineStates, n) : e \in Seq(Signals)
           /\ \A e \in NotStarted(n) : e \in Seq(Signals)
           /\ \A e \in Refused(OnlineStates, n) : e \in Seq(Signals)
<1> DEFINE y == update(NoState, n)
<1>1. y \in Signals /\ failure \in Signals BY SignalTypes, States
<1> HIDE DEF y
<1>2. \A t \in OnlineStates : update(t, n) \in Signals BY SignalTypes DEF OnlineStates
<1>3. ASSUME NEW e \in Obeyed(OnlineStates, n) PROVE e \in Seq(Signals)
  <2>1. PICK t \in OnlineStates : e = <<update(t, n)>> BY <1>3 DEF Obeyed
  <2> DEFINE x == update(t, n)
  <2>2. x \in Signals BY <1>2
  <2> HIDE DEF x
  <2>3. <<x>> \in Seq(Signals) BY <2>2
  <2> QED BY <2>1, <2>3 DEF x
<1>4. \A e \in NotStarted(n) : e \in Seq(Signals)
  <2>1. <<failure, y>> \in Seq(Signals) BY <1>1
  <2> QED BY <2>1 DEF NotStarted, y
<1>5. ASSUME NEW e \in Refused(OnlineStates, n) PROVE e \in Seq(Signals)
  <2>1. PICK t \in OnlineStates, post \in MaybeOffline(n) :
          e = <<update(t, n), failure>> \o post
    BY <1>5 DEF Refused
  <2>2. update(t, n) \in Signals BY <1>2
  <2> DEFINE x == update(t, n)
  <2>3. x \in Signals BY <2>2
  <2> HIDE DEF x
  <2>4. <<x, failure>> \in Seq(Signals) BY <1>1, <2>3
  <2>5. <<>> \in Seq(Signals) /\ <<y>> \in Seq(Signals) BY <1>1, EmptySeq
  <2>6. post \in Seq(Signals) BY <2>1, <2>5 DEF MaybeOffline, y
  <2>7. <<x, failure>> \o post \in Seq(Signals) BY <2>4, <2>6
  <2> QED BY <2>1, <2>7 DEF x
<1> QED BY <1>3, <1>4, <1>5

\* The contract speaks of the same signals and answers.
LEMMA SameAnswers ==
    ASSUME NEW n, NEW E
    PROVE  /\ Contract!After(n, E) = After(n, E)
           /\ Contract!Obeyed(OnlineStates, n) = Obeyed(OnlineStates, n)
           /\ Contract!NotStarted(n) = NotStarted(n)
           /\ Contract!Refused(OnlineStates, n) = Refused(OnlineStates, n)
           /\ Contract!MaybeOffline(n) = MaybeOffline(n)
           /\ Contract!Faults(n) = Faults(n)
           /\ Contract!Endings(n) = Endings(n)
  BY DEF Contract!Obeyed, Contract!NotStarted, Contract!Refused, Contract!MaybeOffline,
     Contract!Faults, Contract!Endings, Contract!After, Contract!update, Contract!failure,
     Contract!finished, Contract!NoState, Contract!UNK, Contract!Untouched,
     Obeyed, NotStarted, Refused, MaybeOffline, Faults, Endings, After, update, failure,
     finished, NoState, UNK, Untouched

\* A fresh object is a fresh object of the contract.
LEMMA ContractInitially == Init => Contract!Init
<1> SUFFICES ASSUME Init PROVE Contract!Init OBVIOUS
<1>1. Inv BY InvInitially
<1>2. command = "create" BY DEF Init
<1>3. ~object.requested.online /\ object.number = 0 /\ object.emits = <<>>
  BY <1>1, <1>2, OnlineOrNot DEF Inv
<1>4. object.requested.online = FALSE
  BY <1>1, <1>3 DEF Inv, Idle, Up, Down, Objects, TransceiverState
<1> QED BY <1>2, <1>3, <1>4 DEF Contract!Init

\* Every handler is a step of the contract.
LEMMA ContractKept ==
    ASSUME \A s \in Requests : s.online, Inv, [Next]_vars
    PROVE  [Contract!Next]_Contract!contractVars
<1>0. (Up(object) /\ object.requested.online) \/ (Down(object) /\ ~object.requested.online)
  BY OnlineOrNot DEF Inv, Idle
<1>1. ASSUME NEW n \in Numbers, Start(n) PROVE Contract!Start(n)
  <2>1. /\ command' = "start" /\ object'.number = n /\ command = "create"
        /\ Answers(object', <<>>, Obeyed(OnlineStates, n), NotStarted(n))
    BY <1>1, StartStep DEF Start
  <2>2. \/ Up(object') /\ object'.emits \in Obeyed(OnlineStates, n)
        \/ Down(object') /\ object'.emits \in NotStarted(n)
    BY <2>1, AnswersAreSignals, FirstAnswers
  <2> QED BY <2>1, <2>2, OnlineOrNot, SameAnswers DEF Contract!Start, Contract!Reply
<1>2. ASSUME NEW n \in Numbers, NEW s \in Requests, Set(s, n) PROVE Contract!Set(n)
  <2> DEFINE well == Obeyed(OnlineStates, n)
             wrong == NotStarted(n) \cup Refused(OnlineStates, n)
  <2>1. /\ command' = "set" /\ object'.number = n /\ command \notin {"create", "stop"}
        /\ Up(object) => Answers(object', <<>>, well, Refused(OnlineStates, n))
        /\ Down(object) => \E pre \in MaybeOffline(n) : Answers(object', pre, well, wrong)
    BY <1>2, SetStep DEF Set
  <2>2. Up(object) => \/ Up(object') /\ object'.emits \in well
                      \/ Down(object') /\ object'.emits \in Refused(OnlineStates, n)
    BY <2>1, AnswersAreSignals, FirstAnswers
  <2>3. Down(object) => \/ Up(object') /\ object'.emits \in After(n, well)
                        \/ Down(object') /\ object'.emits \in After(n, wrong)
    <3> HIDE DEF well, wrong
    <3> QED BY SMTT(30), <2>1 DEF Answers, After
  <2> QED BY <1>0, <2>1, <2>2, <2>3, OnlineOrNot, SameAnswers DEF Contract!Set, Contract!Reply
<1>3. ASSUME Stop PROVE Contract!Stop
  <2>1. /\ command' = "stop" /\ command \notin {"create", "stop"}
        /\ Down(object') /\ object'.number = object.number
        /\ object'.emits \in Endings(object.number)
    BY <1>3, StopStep
  <2> QED BY <2>1, OnlineOrNot, SameAnswers DEF Contract!Stop
<1>4. ASSUME Poll PROVE Contract!Notice
  <2>1. /\ command' = "poll" /\ command \notin {"create", "stop"}
        /\ Up(object) /\ object'.number = object.number
        /\ \/ /\ Up(object')
              /\ object'.emits \in Obeyed(OnlineStates, object.number) \cup {<<>>}
           \/ Down(object') /\ object'.emits \in Faults(object.number)
    BY <1>4, PollStep
  <2> QED BY <2>1, OnlineOrNot, SameAnswers DEF Contract!Notice
<1>5. ASSUME RadioOperated PROVE Contract!Rest
  BY <1>5, OperatedIdle DEF Contract!Rest, RadioOperated
<1>6. ASSUME Create PROVE Contract!Create
  <2>1. /\ command' = "create" /\ command = "stop"
        /\ Down(object') /\ object'.number = 0 /\ object'.emits = <<>>
    BY <1>6, CreateStep
  <2>2. object'.requested.online = FALSE BY <2>1, States DEF Down
  <2> QED BY <2>1, <2>2 DEF Contract!Create
<1>7. ASSUME UNCHANGED vars PROVE UNCHANGED Contract!contractVars
  BY <1>7 DEF vars, Contract!contractVars
<1> QED BY <1>1, <1>2, <1>3, <1>4, <1>5, <1>6, <1>7 DEF Next, Contract!Next

\* A transceiver keeps its contract with the client, if only online states are
\* requested of it, as Configuration does: every command is answered by an update
\* with its number or by a failure, nothing but the offline state follows a failure
\* and finished ends a stop, whichever CAT calls fail.
THEOREM ImplementsContract ==
    ASSUME \A s \in Requests : s.online
    PROVE  Spec => KeepsContract
<1>1. Init => Contract!Init BY ContractInitially
<1>2. Inv /\ [Next]_vars => [Contract!Next]_Contract!contractVars BY ContractKept
<1> QED BY <1>1, <1>2, InvInitially, InvKept, PTL DEF Spec, KeepsContract, Contract!Spec
=============================================================================
