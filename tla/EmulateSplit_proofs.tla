---------------------------- MODULE EmulateSplit_proofs ----------------------------
(***************************************************************************)
(* What split emulation promises, for any number of dials, every rig that  *)
(* resolves them, and every combination of CAT calls that fail: the client *)
(* never sees the transmit dial as the rig's dial (TxDialIsHidden), and    *)
(* transmissions in split are on it (TransmitsOnTxDial).                   *)
(*                                                                         *)
(* The wrapper never asks its rig for split, so a rig in split was put in  *)
(* it by its operator and stays there: it shows in every update, which the *)
(* wrapper turns into a failure.  Otherwise what the rig is tuned to is a  *)
(* dial received on or the transmit dial of the last request, in split.    *)
(***************************************************************************)
EXTENDS EmulateSplitTransceiver, TLAPS, SequenceTheorems

Objects == Wrapped!Objects

-----------------------------------------------------------------------------
(* Calls of a rig that split is emulated on. *)

\* Split was never requested of the rig; one that says it is in split is.
Simplex(o) ==
    /\ o \in Objects
    /\ o.requested.tx_frequency = 0 /\ ~o.requested.split /\ o.requested.audio = Untouched
    /\ o.actual.split => o.radio.split

\* The dial on record is the one requested.
DialKnown(o) == o.requested.frequency = o.actual.frequency

\* p is o after calls that emit nothing
Calls(o, p) ==
    /\ p \in Objects
    /\ Simplex(o) => Simplex(p)
    /\ p.emits = o.emits /\ p.last = o.last /\ p.number = o.number /\ p.timer = o.timer
    /\ p.requested.online = o.requested.online
    /\ p.radio.split = o.radio.split

\* p is o after calls that neither tune nor key the rig
Keeps(o, p) ==
    /\ Calls(o, p)
    /\ p.requested = o.requested /\ p.actual = o.actual /\ p.radio = o.radio

\* One call after another.
LEMMA CallsTwice ==
    ASSUME NEW o, NEW p, NEW q, Calls(o, p), Calls(p, q)
    PROVE  Calls(o, q) /\ (Keeps(o, p) /\ Keeps(p, q) => Keeps(o, q))
  BY DEF Calls, Keeps

\* The rig's values are the client's.
LEMMA SameValues ==
    /\ Wrapped!UNK = UNK /\ Wrapped!ModesOrUNK = ModesOrUNK
    /\ Wrapped!TransceiverState = TransceiverState /\ Wrapped!NoState = NoState
    /\ Wrapped!failure = failure /\ Wrapped!finished = finished
    /\ \A s, n : Wrapped!update(s, n) = update(s, n)
  BY DEF Wrapped!UNK, UNK, Wrapped!ModesOrUNK, ModesOrUNK, Wrapped!TransceiverState,
         TransceiverState, Wrapped!NoState, NoState, Wrapped!Untouched, Untouched,
         Wrapped!failure, failure, Wrapped!finished, finished, Wrapped!update, update

\* expect
LEMMA ExpectKeeps ==
    ASSUME NEW o \in Objects, NEW s \in TransceiverState
    PROVE  Keeps(o, Wrapped!expect(o, s)) /\ Wrapped!expect(o, s).thrown = o.thrown
<1> DEFINE n == Wrapped!polls_to_stabilize
           p == [o EXCEPT !.next_state = s, !.retries = n]
<1>1. n \in 0 .. n BY DEF Wrapped!polls_to_stabilize
<1>2. Wrapped!expect(o, s) = p BY DEF Wrapped!expect
<1>3. p \in Objects BY <1>1, SameValues DEF Objects, Wrapped!Objects
<1>4. /\ p.emits = o.emits /\ p.last = o.last /\ p.number = o.number /\ p.timer = o.timer
      /\ p.requested = o.requested /\ p.actual = o.actual /\ p.radio = o.radio
      /\ p.thrown = o.thrown
  BY DEF Objects, Wrapped!Objects
<1> HIDE DEF p
<1> QED BY <1>2, <1>3, <1>4 DEF Keeps, Calls, Simplex

\* What the polling layer notes is kept by all it does to the object.
LEMMA PostsKeep ==
    ASSUME NEW o \in Objects, NEW f \in Frequencies \cup {0}, NEW m \in ModesOrUNK, NEW b \in BOOLEAN
    PROVE  /\ Keeps(o, Wrapped!do_post_frequency(o, f, m))
           /\ Wrapped!do_post_frequency(o, f, m).thrown = o.thrown
           /\ Keeps(o, Wrapped!do_post_ptt(o, b))
           /\ Wrapped!do_post_ptt(o, b).thrown = o.thrown
<1> DEFINE s == o.next_state
           s1 == [s EXCEPT !.frequency = f, !.mode = IF m = UNK THEN @ ELSE m]
           s2 == [s EXCEPT !.ptt = b]
<1>0. s \in TransceiverState BY SameValues DEF Objects, Wrapped!Objects
<1>1. s1 \in TransceiverState /\ s2 \in TransceiverState BY <1>0 DEF TransceiverState
<1>2. Keeps(o, o) BY DEF Keeps, Calls
<1>3. /\ Keeps(o, Wrapped!expect(o, s1)) /\ Wrapped!expect(o, s1).thrown = o.thrown
      /\ Keeps(o, Wrapped!expect(o, s2)) /\ Wrapped!expect(o, s2).thrown = o.thrown
  <2> HIDE DEF s1, s2
  <2> QED BY <1>1, ExpectKeeps
<1> QED BY <1>2, <1>3, SameValues DEF Wrapped!do_post_frequency, Wrapped!do_post_ptt

-----------------------------------------------------------------------------
(* The setters of a sub class, and the poll. *)

\* p is o after a setter: what is on record is other than it was
Marks(o, p) ==
    /\ p \in Objects
    /\ p.emits = o.emits /\ p.last = o.last /\ p.number = o.number /\ p.timer = o.timer
    /\ p.radio = o.radio /\ p.thrown = o.thrown
    /\ p.requested.online = o.requested.online /\ p.requested.ptt = o.requested.ptt
    /\ p.requested.tx_frequency = o.requested.tx_frequency
    /\ p.requested.split = o.requested.split /\ p.requested.audio = o.requested.audio

\* The receive dial and the mode.
LEMMA DialSetters ==
    ASSUME NEW o \in Objects, NEW f \in Frequencies, NEW m \in ModesOrUNK
    PROVE  /\ Marks(o, Wrapped!update_rx_frequency(o, f))
           /\ Wrapped!update_rx_frequency(o, f).requested.frequency = f
           /\ Wrapped!update_rx_frequency(o, f).actual =
                [o.actual EXCEPT !.frequency = f]
           /\ Marks(o, Wrapped!update_mode(o, m))
           /\ Wrapped!update_mode(o, m).requested.frequency = o.requested.frequency
           /\ Wrapped!update_mode(o, m).actual = [o.actual EXCEPT !.mode = m]
<1>0. f # 0 BY FrequenciesAssumption
<1>1. /\ o.requested \in TransceiverState /\ o.actual \in TransceiverState
  BY SameValues DEF Objects, Wrapped!Objects
<1> DEFINE ra == [o.requested EXCEPT !.frequency = f]
           aa == [o.actual EXCEPT !.frequency = f]
           rm == [o.requested EXCEPT !.mode = m]
           am == [o.actual EXCEPT !.mode = m]
<1>2. /\ ra \in TransceiverState /\ aa \in TransceiverState
      /\ rm \in TransceiverState /\ am \in TransceiverState
  BY <1>1 DEF TransceiverState
<1>3. /\ ra.frequency = f /\ rm.frequency = o.requested.frequency
      /\ \A r \in {ra, rm} :
            /\ r.online = o.requested.online /\ r.ptt = o.requested.ptt
            /\ r.tx_frequency = o.requested.tx_frequency
            /\ r.split = o.requested.split /\ r.audio = o.requested.audio
  BY <1>1 DEF TransceiverState
<1> DEFINE With(x, r) == [o EXCEPT !.actual = x, !.requested = r]
<1>4. /\ Wrapped!update_rx_frequency(o, f) = With(aa, ra)
      /\ Wrapped!update_mode(o, m) = With(am, rm)
  BY <1>0 DEF Wrapped!update_rx_frequency, Wrapped!update_mode, Objects, Wrapped!Objects
<1> HIDE DEF ra, aa, rm, am
<1>5. ASSUME NEW x \in TransceiverState, NEW r \in TransceiverState
      PROVE  /\ With(x, r) \in Objects /\ With(x, r).actual = x /\ With(x, r).requested = r
             /\ With(x, r).emits = o.emits /\ With(x, r).last = o.last
             /\ With(x, r).number = o.number /\ With(x, r).timer = o.timer
             /\ With(x, r).radio = o.radio /\ With(x, r).thrown = o.thrown
  BY SameValues DEF Objects, Wrapped!Objects
<1> HIDE DEF With
<1>6. Marks(o, With(aa, ra)) /\ Marks(o, With(am, rm)) BY <1>2, <1>3, <1>5 DEF Marks
<1>7. /\ With(aa, ra).actual = aa /\ With(aa, ra).requested = ra
      /\ With(am, rm).actual = am /\ With(am, rm).requested = rm
  BY <1>2, <1>5
<1> QED BY <1>3, <1>4, <1>6, <1>7 DEF aa, am

\* The transmit dial, split and PTT.
LEMMA FlagSetters ==
    ASSUME NEW o \in Objects, NEW f \in Frequencies \cup {0}, NEW b \in BOOLEAN
    PROVE  /\ Marks(o, Wrapped!update_other_frequency(o, f))
           /\ Wrapped!update_other_frequency(o, f).actual = [o.actual EXCEPT !.tx_frequency = f]
           /\ Wrapped!update_other_frequency(o, f).requested = o.requested
           /\ Marks(o, Wrapped!update_split(o, b))
           /\ Wrapped!update_split(o, b).actual = [o.actual EXCEPT !.split = b]
           /\ Wrapped!update_split(o, b).requested = o.requested
           /\ Marks(o, Wrapped!update_PTT(o, b))
           /\ Wrapped!update_PTT(o, b).actual = [o.actual EXCEPT !.ptt = b]
           /\ Wrapped!update_PTT(o, b).requested = o.requested
<1>1. o.actual \in TransceiverState BY SameValues DEF Objects, Wrapped!Objects
<1> DEFINE at == [o.actual EXCEPT !.tx_frequency = f]
           as == [o.actual EXCEPT !.split = b]
           ap == [o.actual EXCEPT !.ptt = b]
<1>2. at \in TransceiverState /\ as \in TransceiverState /\ ap \in TransceiverState
  BY <1>1 DEF TransceiverState
<1>3. /\ Wrapped!update_other_frequency(o, f) = [o EXCEPT !.actual = at]
      /\ Wrapped!update_split(o, b) = [o EXCEPT !.actual = as]
      /\ Wrapped!update_PTT(o, b) = [o EXCEPT !.actual = ap]
  BY DEF Wrapped!update_other_frequency, Wrapped!update_split, Wrapped!update_PTT,
         Objects, Wrapped!Objects
<1> HIDE DEF at, as, ap
<1>4. ASSUME NEW x \in TransceiverState, NEW p, p = [o EXCEPT !.actual = x]
      PROVE  Marks(o, p) /\ p.actual = x /\ p.requested = o.requested
  BY <1>4, SameValues DEF Objects, Wrapped!Objects, Marks
<1> QED BY <1>2, <1>3, <1>4 DEF at, as, ap

\* One setter after another.
LEMMA MarksTwice ==
    ASSUME NEW o, NEW p, NEW q, Marks(o, p), Marks(p, q) PROVE Marks(o, q)
  BY DEF Marks

\* A setter that reports no split the rig is not in is a call.
LEMMA MarksCall ==
    ASSUME NEW o, NEW p, Marks(o, p), p.actual.split => o.actual.split \/ o.radio.split
    PROVE  Calls(o, p)
  BY DEF Marks, Calls, Simplex

\* p is o after a poll: the rig's split and, unless it transmits in split, its dial
\* are on record
Polled(o, p) ==
    /\ Calls(o, p)
    /\ p.radio = o.radio /\ p.requested.ptt = o.requested.ptt
    /\ ~p.thrown => /\ DialKnown(p)
                    /\ p.actual.split = o.radio.split
                    /\ ~o.actual.ptt \/ ~o.radio.split =>
                         p.actual.frequency = o.radio.frequency

\* do_poll
LEMMA PollReads ==
    ASSUME NEW o \in Objects, ~o.thrown, DialKnown(o), NEW X
    PROVE  Polled(o, Wrapped!do_poll(o, X))
<1> DEFINE a == Wrapped!update_split(o, o.radio.split)
           receiving == ~a.actual.ptt \/ ~a.actual.split
           b == IF receiving THEN Wrapped!update_rx_frequency(a, a.radio.frequency) ELSE a
           c == IF b.actual.split /\ ~OneVFO
                THEN Wrapped!update_other_frequency(b, b.radio.tx_frequency) ELSE b
           d == IF receiving THEN Wrapped!update_mode(c, c.radio.mode) ELSE c
           e == Wrapped!update_PTT(d, d.radio.ptt)
           Read(p) == /\ Marks(o, p) /\ DialKnown(p)
                      /\ p.actual \in TransceiverState
                      /\ p.actual.split = o.radio.split
<1>0. /\ o.radio.frequency \in Frequencies /\ o.radio.tx_frequency \in Frequencies \cup {0}
      /\ o.radio.mode \in ModesOrUNK /\ o.radio.split \in BOOLEAN /\ o.radio.ptt \in BOOLEAN
      /\ o.actual \in TransceiverState
  BY SameValues DEF Objects, Wrapped!Objects, Wrapped!Radio, ModesOrUNK
<1>1. Read(a) /\ a.actual.ptt = o.actual.ptt
  <2> DEFINE t == [o.actual EXCEPT !.split = o.radio.split]
  <2>1. /\ Marks(o, a) /\ a.requested = o.requested /\ a.actual = t
    BY <1>0, FlagSetters
  <2>2. /\ t \in TransceiverState
        /\ t.frequency = o.actual.frequency /\ t.ptt = o.actual.ptt /\ t.split = o.radio.split
    BY <1>0 DEF TransceiverState
  <2> HIDE DEF a, t
  <2> QED BY <2>1, <2>2 DEF DialKnown
<1>2. Read(b) /\ (receiving => b.actual.frequency = o.radio.frequency)
  <2>1. a \in Objects /\ a.radio = o.radio BY <1>1 DEF Marks
  <2> HIDE DEF a
  <2>2. /\ Marks(a, Wrapped!update_rx_frequency(a, o.radio.frequency))
        /\ Wrapped!update_rx_frequency(a, o.radio.frequency).requested.frequency
             = o.radio.frequency
        /\ Wrapped!update_rx_frequency(a, o.radio.frequency).actual
             = [a.actual EXCEPT !.frequency = o.radio.frequency]
    BY <1>0, <2>1, DialSetters DEF ModesOrUNK
  <2>3. [a.actual EXCEPT !.frequency = o.radio.frequency] \in TransceiverState
    BY <1>0, <1>1 DEF TransceiverState
  <2>4. /\ [a.actual EXCEPT !.frequency = o.radio.frequency].frequency = o.radio.frequency
        /\ [a.actual EXCEPT !.frequency = o.radio.frequency].split = o.radio.split
    BY <1>1 DEF TransceiverState
  <2>5. Read(Wrapped!update_rx_frequency(a, o.radio.frequency))
    BY <1>1, <2>2, <2>3, <2>4, MarksTwice DEF DialKnown
  <2> QED BY <1>1, <2>1, <2>2, <2>4, <2>5
<1>3. Read(c) /\ (receiving => c.actual.frequency = o.radio.frequency)
  <2>1. b \in Objects /\ b.radio = o.radio BY <1>2 DEF Marks
  <2> HIDE DEF b, receiving
  <2> DEFINE t == [b.actual EXCEPT !.tx_frequency = o.radio.tx_frequency]
  <2>2. /\ Marks(b, Wrapped!update_other_frequency(b, o.radio.tx_frequency))
        /\ Wrapped!update_other_frequency(b, o.radio.tx_frequency).requested = b.requested
        /\ Wrapped!update_other_frequency(b, o.radio.tx_frequency).actual = t
    BY <1>0, <2>1, FlagSetters
  <2>3. /\ t \in TransceiverState
        /\ t.frequency = b.actual.frequency /\ t.split = b.actual.split
    BY <1>0, <1>2 DEF TransceiverState
  <2> HIDE DEF t
  <2>4. Read(Wrapped!update_other_frequency(b, o.radio.tx_frequency))
    BY <1>2, <2>2, <2>3, MarksTwice DEF DialKnown
  <2> QED BY <1>2, <2>1, <2>2, <2>3, <2>4
<1>4. Read(d) /\ (receiving => d.actual.frequency = o.radio.frequency)
  <2>1. c \in Objects /\ c.radio = o.radio BY <1>3 DEF Marks
  <2> HIDE DEF c, receiving
  <2> DEFINE t == [c.actual EXCEPT !.mode = o.radio.mode]
  <2>2. /\ Marks(c, Wrapped!update_mode(c, o.radio.mode))
        /\ Wrapped!update_mode(c, o.radio.mode).requested.frequency = c.requested.frequency
        /\ Wrapped!update_mode(c, o.radio.mode).actual = t
    BY ZenonT(60), <1>0, <2>1, DialSetters
  <2>3. /\ t \in TransceiverState
        /\ t.frequency = c.actual.frequency /\ t.split = c.actual.split
    BY <1>0, <1>3 DEF TransceiverState
  <2> HIDE DEF t
  <2>4. Read(Wrapped!update_mode(c, o.radio.mode))
    BY <1>3, <2>2, <2>3, MarksTwice DEF DialKnown
  <2> QED BY <1>3, <2>1, <2>2, <2>3, <2>4
<1>5. Read(e) /\ (receiving => e.actual.frequency = o.radio.frequency)
  <2>1. d \in Objects /\ d.radio = o.radio BY <1>4 DEF Marks
  <2> HIDE DEF d, receiving
  <2> DEFINE t == [d.actual EXCEPT !.ptt = o.radio.ptt]
  <2>2. /\ Marks(d, Wrapped!update_PTT(d, o.radio.ptt))
        /\ Wrapped!update_PTT(d, o.radio.ptt).requested = d.requested
        /\ Wrapped!update_PTT(d, o.radio.ptt).actual = t
    BY <1>0, <2>1, FlagSetters
  <2>3. /\ t \in TransceiverState
        /\ t.frequency = d.actual.frequency /\ t.split = d.actual.split
    BY <1>0, <1>4 DEF TransceiverState
  <2> HIDE DEF t
  <2>4. Read(Wrapped!update_PTT(d, o.radio.ptt))
    BY <1>4, <2>2, <2>3, MarksTwice DEF DialKnown
  <2> QED BY <1>4, <2>1, <2>2, <2>3, <2>4
<1>6. Wrapped!do_poll(o, X) = IF "poll" \in X THEN Wrapped!throw(o) ELSE e
  BY DEF Wrapped!do_poll
<1>7. receiving = (~o.actual.ptt \/ ~o.radio.split) BY <1>1
<1> HIDE DEF e, receiving
<1>8. Polled(o, e)
  <2>1. Calls(o, e) BY <1>5, MarksCall
  <2> QED BY <1>5, <1>7, <2>1 DEF Polled, Marks
<1>9. Polled(o, Wrapped!throw(o))
  BY DEF Wrapped!throw, Polled, Calls, Simplex, Objects, Wrapped!Objects
<1> QED BY <1>6, <1>8, <1>9

\* Opening the rig ends with a poll.
LEMMA StartReads ==
    ASSUME NEW o \in Objects, ~o.thrown, DialKnown(o), NEW X
    PROVE  Polled(o, Wrapped!do_start(o, X))
<1> DEFINE a == [o EXCEPT !.tickle_hamlib = TRUE]
<1>1. Keeps(o, a) /\ a \in Objects /\ ~a.thrown /\ DialKnown(a)
  BY DEF Objects, Wrapped!Objects, Keeps, Calls, Simplex, DialKnown
<1> HIDE DEF a
<1>2. Polled(a, Wrapped!do_poll(a, X)) BY <1>1, PollReads
<1>3. Polled(o, Wrapped!do_poll(a, X)) BY <1>1, <1>2, CallsTwice DEF Polled, Keeps
<1>4. Polled(o, Wrapped!throw(o))
  BY DEF Wrapped!throw, Polled, Calls, Simplex, Objects, Wrapped!Objects
<1> QED BY <1>3, <1>4 DEF Wrapped!do_start, a

-----------------------------------------------------------------------------
(* The parts of set. *)

\* p is o after a call for PTT
Keyed(o, on, p) ==
    /\ Calls(o, p)
    /\ p.requested = o.requested
    /\ p.actual.frequency = o.actual.frequency /\ p.actual.split = o.actual.split
    /\ p.radio.frequency = o.radio.frequency
    /\ o.thrown => p.thrown
    /\ ~p.thrown => p.actual.ptt = on

\* do_ptt, and set_ptt
LEMMA PttKeyed ==
    ASSUME NEW o \in Objects, NEW on \in BOOLEAN, NEW X
    PROVE  Keyed(o, on, Wrapped!do_ptt(o, on, X)) /\ Keyed(o, on, Wrapped!set_ptt(o, on, X))
<1> DEFINE a == [o EXCEPT !.unkey_failed = ~on]
           k == [o EXCEPT !.radio.ptt = on, !.unkey_failed = FALSE]
           q == Wrapped!do_ptt(o, on, X)
           Kept(p) == /\ Calls(o, p) /\ p.requested = o.requested
                      /\ p.radio.frequency = o.radio.frequency
                      /\ p \in Objects /\ p.actual = o.actual /\ p.thrown = o.thrown
<1>1. Kept(a)
  BY DEF Calls, Simplex, Objects, Wrapped!Objects
<1>2. Kept(k)
  BY DEF Calls, Simplex, Objects, Wrapped!Objects, Wrapped!Radio
<1>3. Kept(o) BY DEF Calls
<1> HIDE DEF a, k
<1>4. ASSUME NEW p, Kept(p) PROVE Keyed(o, on, Wrapped!throw(p))
  BY <1>4 DEF Wrapped!throw, Calls, Simplex, Objects, Wrapped!Objects, Keyed
<1>5. ASSUME NEW p, Kept(p), ~o.thrown PROVE Keyed(o, on, Wrapped!update_PTT(p, on))
  <2> DEFINE t == [p.actual EXCEPT !.ptt = on]
             u == Wrapped!update_PTT(p, on)
  <2>1. Marks(p, u) /\ u.actual = t /\ u.requested = p.requested BY <1>5, FlagSetters
  <2>2. p.actual \in TransceiverState BY <1>5, SameValues DEF Objects, Wrapped!Objects
  <2>3. t.frequency = o.actual.frequency /\ t.split = o.actual.split /\ t.ptt = on
    BY <1>5, <2>2 DEF TransceiverState
  <2> HIDE DEF t, u
  <2>4. Calls(p, u) BY <1>5, <2>1, <2>3, MarksCall
  <2>5. Calls(o, u) BY <1>5, <2>4, CallsTwice
  <2> QED BY <1>5, <2>1, <2>3, <2>5 DEF Keyed, Marks, u
<1>6. o.thrown => Keyed(o, on, o) BY <1>3 DEF Keyed
<1>7. Keyed(o, on, q)
  <2>1. /\ o.thrown => q = o
        /\ ~o.thrown => q \in {Wrapped!throw(a), Wrapped!throw(k), Wrapped!update_PTT(k, on)}
    BY DEF Wrapped!do_ptt, a, k
  <2> HIDE DEF q
  <2> QED BY <1>1, <1>2, <1>4, <1>5, <1>6, <2>1
<1> DEFINE r == Wrapped!do_post_ptt(q, on)
<1>8. Keyed(o, on, r)
  <2> HIDE DEF q
  <2>1. q \in Objects BY <1>7 DEF Keyed, Calls
  <2>2. Keeps(q, r) /\ r.thrown = q.thrown
    BY <2>1, PostsKeep DEF ModesOrUNK
  <2> HIDE DEF r
  <2>3. Calls(o, r) BY <1>7, <2>2, CallsTwice DEF Keyed, Keeps
  <2> QED BY <1>7, <2>2, <2>3 DEF Keyed, Keeps
<1> QED BY <1>7, <1>8 DEF Wrapped!set_ptt

\* What is set is what is read back.
ReadsBack == \A f \in Frequencies : Readback[f] = f

\* p is o after an attempt to tune the rig to f: it is on f, or ignored the call for it
\* transmits in split
TunedTo(o, f, p) ==
    /\ Calls(o, p)
    /\ p.requested.ptt = o.requested.ptt
    /\ o.thrown => p.thrown
    /\ ~p.thrown => /\ DialKnown(p)
                    /\ p.actual.split \/ (p.actual.frequency = f /\ p.radio.frequency = f)
                    /\ p.actual.ptt = o.actual.ptt

\* set_frequency
LEMMA SetFrequencyTunes ==
    ASSUME NEW o \in Objects, NEW s \in TransceiverState, s.frequency # 0, ReadsBack,
           NEW off, NEW X
    PROVE  TunedTo(o, s.frequency, Wrapped!set_frequency(o, s, off, X))
<1> DEFINE f == s.frequency
           rr == [o.requested EXCEPT !.frequency = f, !.mode = s.mode]
           g == [o EXCEPT !.requested.frequency = f, !.requested.mode = s.mode]
           a == IF o.thrown THEN o ELSE g
           d == Wrapped!do_frequency(a, f, s.mode, off, X)
           b == Wrapped!do_post_frequency(d, f, s.mode)
           c == [b EXCEPT !.requested.frequency = b.actual.frequency,
                          !.requested.mode = b.actual.mode]
<1>0. /\ f \in Frequencies /\ s.mode \in ModesOrUNK
      /\ o.requested \in TransceiverState /\ o.actual \in TransceiverState
  BY SameValues DEF TransceiverState, Objects, Wrapped!Objects
<1>1. Wrapped!set_frequency(o, s, off, X) = IF b.thrown THEN b ELSE c
  BY DEF Wrapped!set_frequency
<1> HIDE DEF f
<1> DEFINE Kept(p) == /\ Calls(o, p) /\ p \in Objects
                      /\ p.requested.ptt = o.requested.ptt
                      /\ p.actual \in TransceiverState /\ p.actual.ptt = o.actual.ptt
<1>2. Kept(a) /\ a.thrown = o.thrown
  <2>1. /\ rr \in TransceiverState /\ rr.online = o.requested.online
        /\ rr.ptt = o.requested.ptt /\ rr.tx_frequency = o.requested.tx_frequency
        /\ rr.split = o.requested.split /\ rr.audio = o.requested.audio
    BY <1>0 DEF TransceiverState
  <2>2. g = [o EXCEPT !.requested = rr] BY DEF Objects, Wrapped!Objects
  <2> HIDE DEF g, rr
  <2>3. Kept(g) /\ g.thrown = o.thrown
    BY <1>0, <2>1, <2>2, SameValues DEF Objects, Wrapped!Objects, Calls, Simplex
  <2> QED BY <1>0, <2>3 DEF Calls
<1> DEFINE r == [a EXCEPT !.radio.frequency = Readback[f]]
           u == Wrapped!update_rx_frequency(r, f)
           n == [u EXCEPT !.radio.mode = s.mode]
           e == Wrapped!update_mode(n, s.mode)
           On(p) == Kept(p) /\ p.actual.frequency = f /\ p.radio.frequency = f
<1>3. Kept(r) /\ r.radio.frequency = f /\ r.thrown = a.thrown
  <2>1. Readback[f] = f BY <1>0 DEF ReadsBack
  <2>2. a \in Objects BY <1>2
  <2> HIDE DEF a
  <2>3. r \in Objects /\ Calls(a, r) /\ r.requested = a.requested /\ r.actual = a.actual
        /\ r.radio.frequency = f /\ r.thrown = a.thrown
    BY <1>0, <2>1, <2>2 DEF Objects, Wrapped!Objects, Wrapped!Radio, Calls, Simplex
  <2> HIDE DEF r
  <2> QED BY <1>2, <2>3, CallsTwice
<1> HIDE DEF r, a
<1>4. On(u) /\ u.thrown = r.thrown
  <2> DEFINE t == [r.actual EXCEPT !.frequency = f]
  <2>1. Marks(r, u) /\ u.actual = t BY <1>0, <1>3, DialSetters
  <2>2. /\ t \in TransceiverState /\ t.frequency = f /\ t.split = r.actual.split
        /\ t.ptt = r.actual.ptt
    BY <1>0, <1>3 DEF TransceiverState
  <2> HIDE DEF t, u
  <2>3. Calls(r, u) BY <2>1, <2>2, MarksCall
  <2> QED BY <1>3, <2>1, <2>2, <2>3, CallsTwice DEF Marks
<1> HIDE DEF u
<1>5. ASSUME s.mode # UNK PROVE On(e) /\ e.thrown = r.thrown
  <2>0. s.mode \in Modes BY <1>0, <1>5 DEF ModesOrUNK
  <2>1. On(n) /\ n.thrown = r.thrown
    <3>1. Calls(u, n) /\ n \in Objects /\ n.requested = u.requested /\ n.actual = u.actual
          /\ n.radio.frequency = u.radio.frequency /\ n.thrown = u.thrown
      BY <1>4, <2>0 DEF Objects, Wrapped!Objects, Wrapped!Radio, Calls, Simplex
    <3> HIDE DEF n
    <3> QED BY <1>4, <3>1, CallsTwice
  <2> HIDE DEF n
  <2> DEFINE t == [n.actual EXCEPT !.mode = s.mode]
  <2>2. Marks(n, e) /\ e.actual = t BY <1>0, <2>1, DialSetters
  <2>3. /\ t \in TransceiverState /\ t.frequency = f /\ t.split = n.actual.split
        /\ t.ptt = n.actual.ptt
    BY <1>0, <2>1 DEF TransceiverState
  <2> HIDE DEF t, e
  <2>4. Calls(n, e) BY <2>2, <2>3, MarksCall
  <2> QED BY <2>1, <2>2, <2>3, <2>4, CallsTwice DEF Marks
<1> HIDE DEF e
<1>6. Kept(d) /\ (o.thrown => d.thrown)
      /\ (d.thrown \/ d.actual.split \/ On(d))
  <2>1. ASSUME NEW p, Kept(p) PROVE Kept(Wrapped!throw(p)) /\ Wrapped!throw(p).thrown
    <3>1. Calls(p, Wrapped!throw(p)) /\ Wrapped!throw(p) \in Objects
          /\ Wrapped!throw(p).requested = p.requested /\ Wrapped!throw(p).actual = p.actual
          /\ Wrapped!throw(p).thrown
      BY <2>1 DEF Wrapped!throw, Objects, Wrapped!Objects, Calls, Simplex
    <3> QED BY <2>1, <3>1, CallsTwice
  <2>2. \/ d = a /\ (a.thrown \/ (a.actual.split /\ ~a.thrown))
        \/ d = Wrapped!throw(a)
        \/ d = u /\ ~a.thrown
        \/ d = Wrapped!throw(u)
        \/ d = e /\ ~a.thrown /\ s.mode # UNK
    BY SameValues DEF Wrapped!do_frequency, r, u, e
  <2> HIDE DEF d
  <2> QED BY <1>2, <1>4, <1>5, <2>1, <2>2
<1> HIDE DEF d
<1>7. Kept(b) /\ (o.thrown => b.thrown) /\ (b.thrown \/ b.actual.split \/ On(b))
  <2>1. Keeps(d, b) /\ b.thrown = d.thrown BY <1>0, <1>6, PostsKeep
  <2> HIDE DEF b
  <2> QED BY <1>6, <2>1, CallsTwice DEF Keeps, Calls
<1> HIDE DEF b
<1>8. /\ Kept(c) /\ DialKnown(c) /\ c.thrown = b.thrown
      /\ c.actual = b.actual /\ c.radio = b.radio
  <2> DEFINE t == [b.requested EXCEPT !.frequency = b.actual.frequency,
                                      !.mode = b.actual.mode]
  <2>0. b.requested \in TransceiverState /\ b \in Objects
    BY <1>7, SameValues DEF Objects, Wrapped!Objects
  <2>1. /\ t \in TransceiverState /\ t.online = b.requested.online
        /\ t.ptt = b.requested.ptt /\ t.tx_frequency = b.requested.tx_frequency
        /\ t.split = b.requested.split /\ t.audio = b.requested.audio
        /\ t.frequency = b.actual.frequency
    BY <1>7, <2>0 DEF TransceiverState
  <2>2. c = [b EXCEPT !.requested = t] BY <2>0 DEF Objects, Wrapped!Objects
  <2> HIDE DEF c, t
  <2>3. /\ Calls(b, c) /\ c \in Objects /\ c.requested = t /\ c.actual = b.actual
        /\ c.radio = b.radio /\ c.thrown = b.thrown
    BY <2>0, <2>1, <2>2, SameValues DEF Objects, Wrapped!Objects, Calls, Simplex
  <2> QED BY <1>7, <2>1, <2>3, CallsTwice DEF DialKnown
<1> HIDE DEF c
<1>9. b.thrown => TunedTo(o, f, b) BY <1>7 DEF TunedTo
<1>10. ~b.thrown => TunedTo(o, f, c) BY <1>7, <1>8 DEF TunedTo
<1> QED BY <1>1, <1>9, <1>10 DEF f

\* p is o after set: an object on record to be on f may be left alone
Tuned(o, f, p) ==
    /\ Calls(o, p)
    /\ o.thrown => p.thrown
    /\ ~p.thrown =>
         /\ DialKnown(p)
         /\ \/ p.actual.split
            \/ /\ p.actual.frequency = f
               /\ \/ p.radio.frequency = f
                  \/ p.radio.frequency = o.radio.frequency /\ o.requested.frequency = f

\* what the rig is asked for: no split, no audio
Plain(s) ==
    /\ s \in TransceiverState /\ s.online /\ s.frequency # 0
    /\ s.tx_frequency = 0 /\ ~s.split /\ s.audio = Untouched

\* set_frequencies
LEMMA SetFrequenciesTune ==
    ASSUME NEW o \in Objects, Simplex(o), ~o.thrown => DialKnown(o), NEW s, Plain(s), ReadsBack,
           NEW on, NEW off, NEW X,
           NEW p, p = Wrapped!set_frequencies(o, s, on, off, X)
    PROVE  /\ Tuned(o, s.frequency, p)
           /\ p.requested.ptt = o.requested.ptt
           /\ ~p.thrown => p.actual.ptt = o.actual.ptt
<1>1. p = Wrapped!set_frequency(o, s, off, X) \/ (p = o /\ s.frequency = o.requested.frequency)
  BY SameValues DEF Wrapped!set_frequencies, Plain, Simplex
<1>2. TunedTo(o, s.frequency, Wrapped!set_frequency(o, s, off, X))
  BY SetFrequencyTunes DEF Plain
<1>3. Calls(o, o) BY DEF Calls
<1> QED BY <1>1, <1>2, <1>3 DEF TunedTo, Tuned, DialKnown

\* apply
LEMMA ApplyTunes ==
    ASSUME NEW o \in Objects, Simplex(o), ~o.thrown, DialKnown(o), o.requested.online,
           NEW s, Plain(s), ReadsBack, NEW X,
           NEW p, p = Wrapped!apply(o, s, X)
    PROVE  Tuned(o, s.frequency, p) /\ (~p.thrown /\ p.requested.ptt => s.ptt)
<1> DEFINE ptt_on  == s.ptt /\ ~o.requested.ptt
           ptt_off == ~s.ptt /\ o.requested.ptt
           a == IF ptt_off THEN Wrapped!set_ptt(o, FALSE, X) ELSE o
           b == Wrapped!set_frequencies(a, s, ptt_on, ptt_off, X)
           c == IF ptt_on THEN Wrapped!set_ptt(b, TRUE, X) ELSE b
           e == [c EXCEPT !.requested.ptt = c.actual.ptt]
<1>1. p = IF (ptt_on \/ ptt_off) /\ ~c.thrown THEN e ELSE c
  BY DEF Wrapped!apply, Simplex, Plain
<1>2. /\ Calls(o, a) /\ a \in Objects /\ Simplex(a) /\ a.requested = o.requested
      /\ a.radio.frequency = o.radio.frequency
      /\ ~a.thrown => DialKnown(a) /\ (ptt_off => ~a.actual.ptt)
  <2>1. Keyed(o, FALSE, Wrapped!set_ptt(o, FALSE, X)) BY PttKeyed
  <2>2. Calls(o, o) BY DEF Calls
  <2> QED BY <2>1, <2>2 DEF Keyed, Calls, DialKnown
<1> HIDE DEF a
<1>3. /\ Calls(o, b) /\ b \in Objects /\ Tuned(o, s.frequency, b)
      /\ b.requested.ptt = o.requested.ptt
      /\ ~b.thrown => (ptt_off => ~b.actual.ptt)
  <2>1. /\ Tuned(a, s.frequency, b) /\ b.requested.ptt = a.requested.ptt
        /\ ~b.thrown => b.actual.ptt = a.actual.ptt
    BY <1>2, SetFrequenciesTune
  <2> HIDE DEF b
  <2>2. Calls(o, b) BY <1>2, <2>1, CallsTwice DEF Tuned
  <2> QED BY <1>2, <2>1, <2>2 DEF Tuned, Calls
<1> HIDE DEF b
<1>4. /\ Calls(o, c) /\ c \in Objects /\ Tuned(o, s.frequency, c)
      /\ c.requested.ptt = o.requested.ptt
      /\ ~c.thrown => (ptt_off => ~c.actual.ptt)
  <2>1. CASE ~ptt_on BY <1>3, <2>1
  <2>2. CASE ptt_on
    <3>1. c = Wrapped!set_ptt(b, TRUE, X) BY <2>2
    <3>2. Keyed(b, TRUE, c) BY <1>3, <3>1, PttKeyed
    <3> HIDE DEF c
    <3>3. Calls(o, c) BY <1>3, <3>2, CallsTwice DEF Keyed
    <3> QED BY <1>3, <2>2, <3>2, <3>3 DEF Keyed, Tuned, Calls, DialKnown
  <2> QED BY <2>1, <2>2
<1> HIDE DEF c
<1>5. /\ Calls(o, e) /\ Tuned(o, s.frequency, e)
      /\ e.requested.ptt = c.actual.ptt
  <2> DEFINE t == [c.requested EXCEPT !.ptt = c.actual.ptt]
  <2>0. c.requested \in TransceiverState /\ c.actual \in TransceiverState
    BY <1>4, SameValues DEF Objects, Wrapped!Objects
  <2>1. /\ t \in TransceiverState /\ t.online = c.requested.online
        /\ t.ptt = c.actual.ptt /\ t.tx_frequency = c.requested.tx_frequency
        /\ t.split = c.requested.split /\ t.audio = c.requested.audio
        /\ t.frequency = c.requested.frequency
    BY <2>0 DEF TransceiverState
  <2>2. e = [c EXCEPT !.requested = t] BY <1>4 DEF Objects, Wrapped!Objects
  <2> HIDE DEF e, t
  <2>3. /\ Calls(c, e) /\ e \in Objects /\ e.requested = t /\ e.actual = c.actual
        /\ e.radio = c.radio /\ e.thrown = c.thrown
    BY ZenonT(60), <1>4, <2>1, <2>2, SameValues DEF Objects, Wrapped!Objects, Calls, Simplex
  <2>4. Calls(o, e) BY <1>4, <2>3, CallsTwice
  <2> QED BY <1>4, <2>1, <2>3, <2>4 DEF Tuned, DialKnown
<1> HIDE DEF e
<1>6. s.ptt \in BOOLEAN /\ o.requested.ptt \in BOOLEAN
  BY SameValues DEF Plain, TransceiverState, Objects, Wrapped!Objects
<1> QED BY <1>1, <1>4, <1>5, <1>6

-----------------------------------------------------------------------------
(* What is signalled. *)

\* every update among the signals e shows split, or one of the dials D, or is
\* followed by a failure
Shown(e, D) ==
    \A i \in DOMAIN e :
        e[i].signal = "update" =>
            \/ e[i].state.split \/ e[i].state.frequency \in D
            \/ i < Len(e) /\ e[i + 1] = failure

Emitted == Seq(Wrapped!Signals)

\* The signals.
LEMMA SignalsAre ==
    ASSUME NEW s \in TransceiverState, NEW n \in Numbers \cup {0}
    PROVE  /\ failure \in Wrapped!Signals /\ failure.signal = "failure"
           /\ finished \in Wrapped!Signals /\ finished.signal = "finished"
           /\ update(s, n) \in Wrapped!Signals /\ update(s, n).signal = "update"
           /\ update(s, n).state = s
  BY SameValues DEF Wrapped!Signals, failure, finished, update

\* One more signal, and what is signalled just before a failure.
LEMMA MoreShown ==
    ASSUME NEW e \in Emitted, NEW D, Shown(e, D), NEW x \in Wrapped!Signals
    PROVE  /\ (x.signal = "update" => x.state.split \/ x.state.frequency \in D)
                => Shown(Append(e, x), D)
           /\ Shown(Append(Append(e, x), failure), D)
<1> DEFINE a == Append(e, x)
           b == Append(a, failure)
<1>0. /\ Len(e) \in Nat /\ DOMAIN e = 1 .. Len(e) /\ failure \in Wrapped!Signals
  BY SameValues DEF Emitted, Wrapped!Signals
<1>1. /\ Len(a) = Len(e) + 1 /\ DOMAIN a = 1 .. Len(e) + 1 /\ a[Len(e) + 1] = x
      /\ \A i \in 1 .. Len(e) : a[i] = e[i]
      /\ a \in Seq(Wrapped!Signals)
  BY AppendProperties DEF Emitted
<1> HIDE DEF a
<1>2. /\ Len(b) = Len(e) + 2 /\ DOMAIN b = 1 .. Len(e) + 2 /\ b[Len(e) + 2] = failure
      /\ \A i \in 1 .. Len(e) + 1 : b[i] = a[i]
  BY <1>0, <1>1, AppendProperties
<1> HIDE DEF b
<1>3. ASSUME x.signal = "update" => x.state.split \/ x.state.frequency \in D
      PROVE  Shown(a, D)
  <2> SUFFICES ASSUME NEW i \in DOMAIN a, a[i].signal = "update"
               PROVE  \/ a[i].state.split \/ a[i].state.frequency \in D
                      \/ i < Len(a) /\ a[i + 1] = failure
    BY DEF Shown
  <2>1. CASE i = Len(e) + 1 BY <1>1, <1>3, <2>1
  <2>2. CASE i # Len(e) + 1
    <3>1. i \in 1 .. Len(e) BY <1>0, <1>1, <2>2
    <3>2. i + 1 \in 1 .. Len(e) \/ i = Len(e) BY <1>0, <3>1
    <3> QED BY <1>0, <1>1, <3>1, <3>2 DEF Shown
  <2> QED BY <2>1, <2>2
<1>4. Shown(b, D)
  <2> SUFFICES ASSUME NEW i \in DOMAIN b, b[i].signal = "update"
               PROVE  \/ b[i].state.split \/ b[i].state.frequency \in D
                      \/ i < Len(b) /\ b[i + 1] = failure
    BY DEF Shown
  <2>0. failure.signal # "update" BY DEF failure
  <2>1. CASE i \in 1 .. Len(e)
    <3>1. i + 1 \in 1 .. Len(e) \/ i = Len(e) BY <1>0, <2>1
    <3> QED BY <1>0, <1>1, <1>2, <2>1, <3>1 DEF Shown
  <2>2. CASE i = Len(e) + 1 BY <1>0, <1>2, <2>2
  <2>3. CASE i = Len(e) + 2 BY <1>2, <2>0, <2>3
  <2> QED BY <1>0, <1>2, <2>1, <2>2, <2>3
<1> QED BY <1>3, <1>4 DEF a, b

\* p is o after signals
Signalled(o, p) ==
    /\ p \in Objects
    /\ p.requested = o.requested /\ p.actual = o.actual /\ p.radio = o.radio
    /\ p.thrown = o.thrown /\ p.number = o.number /\ p.timer = o.timer

\* update_complete
LEMMA UpdateSignals ==
    ASSUME NEW o \in Objects, NEW b
    PROVE  /\ Signalled(o, Wrapped!update_complete(o, b))
           /\ Wrapped!update_complete(o, TRUE).emits
                = Append(o.emits, update(o.actual, o.number))
           /\ \A D : Shown(o.emits, D) /\ (o.actual.split \/ o.actual.frequency \in D)
                       => Shown(Wrapped!update_complete(o, b).emits, D)
<1> DEFINE x == update(o.actual, o.number)
           p == [o EXCEPT !.emits = Append(@, x), !.last = o.actual]
<1>1. /\ o.emits \in Emitted /\ o.actual \in TransceiverState
      /\ o.number \in Numbers \cup {0}
  BY SameValues DEF Objects, Wrapped!Objects, Emitted
<1>2. x \in Wrapped!Signals /\ x.state = o.actual BY <1>1, SignalsAre
<1>3. /\ Wrapped!update_complete(o, b) \in {o, p}
      /\ Wrapped!update_complete(o, TRUE) = p
  BY SameValues DEF Wrapped!update_complete
<1> HIDE DEF x
<1>4. Append(o.emits, x) \in Emitted BY <1>1, <1>2, AppendProperties DEF Emitted
<1>5. Signalled(o, p) /\ p.emits = Append(o.emits, x)
  <2>1. [o EXCEPT !.emits = Append(@, x), !.last = o.actual]
          = [o EXCEPT !.emits = Append(o.emits, x), !.last = o.actual]
    BY DEF Objects, Wrapped!Objects
  <2> DEFINE y == Append(o.emits, x)
             q == [o EXCEPT !.emits = y, !.last = o.actual]
  <2>2. y \in Seq(Wrapped!Signals) BY <1>4 DEF Emitted
  <2> HIDE DEF y
  <2>3. Signalled(o, q) /\ q.emits = y
    BY <1>1, <2>2, SameValues DEF Objects, Wrapped!Objects, Signalled
  <2> QED BY <2>1, <2>3 DEF y
<1>6. Signalled(o, o) BY DEF Signalled
<1>7. ASSUME NEW D, Shown(o.emits, D), o.actual.split \/ o.actual.frequency \in D
      PROVE  Shown(Append(o.emits, x), D)
  BY <1>1, <1>2, <1>7, MoreShown
<1> HIDE DEF p
<1> QED BY <1>3, <1>5, <1>6, <1>7 DEF x

\* p is offline: all that is signalled of it shows the dials D
Offline(p, D) ==
    /\ p \in Objects /\ Simplex(p) /\ ~p.thrown /\ ~p.timer
    /\ p.requested = NoState /\ p.actual = NoState
    /\ Shown(p.emits, D)

\* p is o gone offline
Down(o, p, D) ==
    /\ Offline(p, D)
    /\ p.radio.frequency = o.radio.frequency /\ p.radio.split = o.radio.split

\* The default state is a state without a dial.
LEMMA NoStateIs ==
    /\ NoState \in TransceiverState /\ ~NoState.online /\ NoState.frequency = 0
    /\ ~NoState.split /\ NoState.tx_frequency = 0 /\ NoState.audio = Untouched
    /\ ~NoState.ptt
  BY AudioAssumption DEF NoState, TransceiverState, ModesOrUNK, Untouched

\* shutdown
LEMMA ShutdownDown ==
    ASSUME NEW o \in Objects, Simplex(o), ~o.thrown, NEW Y,
           NEW D, 0 \in D, Shown(o.emits, D)
    PROVE  Down(o, Wrapped!shutdown(o, Y), D)
<1> DEFINE k == Wrapped!do_post_ptt(Wrapped!do_ptt(o, FALSE, Y), FALSE)
           u == [k EXCEPT !.thrown = FALSE, !.gave_up = (@ \/ k.thrown) /\ k.radio.split]
           r == Wrapped!shutdown_radio(o, Y)
           a == Wrapped!do_post_stop(r)
           z == [a EXCEPT !.actual = NoState, !.requested = NoState]
           Same(p) == /\ p \in Objects /\ ~p.thrown
                      /\ p.radio.frequency = o.radio.frequency
                      /\ p.radio.split = o.radio.split
                      /\ p.number = o.number /\ p.emits = o.emits
<1>1. Same(r)
  <2>1. Keyed(o, FALSE, k) BY PttKeyed DEF Wrapped!set_ptt
  <2> HIDE DEF k
  <2>2. /\ k \in Objects /\ ~k.requested.split
        /\ k.radio.frequency = o.radio.frequency /\ k.radio.split = o.radio.split
        /\ k.number = o.number /\ k.emits = o.emits
    BY <2>1 DEF Keyed, Calls, Simplex
  <2>3. Same(u) BY ZenonT(60), <2>2 DEF Objects, Wrapped!Objects, Wrapped!Radio
  <2>4. r \in {o, u}
    BY <2>2, SameValues DEF Wrapped!shutdown_radio, k
  <2> HIDE DEF u, r
  <2> QED BY <2>3, <2>4
<1> HIDE DEF r
<1>2. Same(a) /\ ~a.timer BY <1>1 DEF Wrapped!do_post_stop, Objects, Wrapped!Objects
<1> HIDE DEF a
<1>3. Same(z) /\ ~z.timer /\ z.actual = NoState /\ z.requested = NoState
  BY <1>2, SameValues, NoStateIs DEF Objects, Wrapped!Objects
<1>4. Wrapped!shutdown(o, Y) = Wrapped!update_complete(z, FALSE)
  BY SameValues DEF Wrapped!shutdown, z, a, r
<1> HIDE DEF z
<1> DEFINE p == Wrapped!update_complete(z, FALSE)
<1>5. Signalled(z, p) /\ Shown(p.emits, D)
  BY <1>3, UpdateSignals, NoStateIs
<1> HIDE DEF p
<1>6. Down(o, p, D) BY <1>3, <1>5, NoStateIs DEF Down, Offline, Signalled, Simplex
<1> QED BY <1>4, <1>6 DEF p

\* offline
LEMMA OfflineDown ==
    ASSUME NEW o \in Objects, Simplex(o), NEW Y,
           NEW D, 0 \in D, Shown(Append(o.emits, failure), D)
    PROVE  Down(o, Wrapped!offline(o, Y), D)
<1> DEFINE a == [o EXCEPT !.emits = Append(@, failure), !.thrown = FALSE]
<1>1. Append(o.emits, failure) \in Emitted
  <2>1. o.emits \in Emitted BY DEF Objects, Wrapped!Objects, Emitted
  <2>2. failure \in Wrapped!Signals BY SameValues DEF Wrapped!Signals
  <2> QED BY <2>1, <2>2, AppendProperties DEF Emitted
<1>2. /\ a \in Objects /\ Simplex(a) /\ ~a.thrown /\ Shown(a.emits, D)
      /\ a.radio = o.radio /\ a.number = o.number
  BY <1>1 DEF Objects, Wrapped!Objects, Emitted, Simplex
<1>3. Wrapped!offline(o, Y) = Wrapped!shutdown(a, Y) BY SameValues DEF Wrapped!offline
<1> HIDE DEF a
<1> QED BY <1>2, <1>3, ShutdownDown DEF Down

\* Failure alone.
LEMMA FailureShown ==
    ASSUME NEW o \in Objects, NEW D, Shown(o.emits, D)
    PROVE  Shown(Append(o.emits, failure), D)
<1>1. /\ o.emits \in Emitted /\ failure \in Wrapped!Signals /\ failure.signal # "update"
  BY SameValues DEF Objects, Wrapped!Objects, Emitted, Wrapped!Signals, failure
<1> QED BY <1>1, MoreShown

\* p is o started: its dial was read
Up(o, p, D) ==
    /\ p \in Objects /\ Simplex(p) /\ ~p.thrown
    /\ p.requested.online /\ DialKnown(p)
    /\ p.actual.frequency = o.radio.frequency
    /\ p.radio.frequency = o.radio.frequency /\ p.radio.split = o.radio.split
    /\ Shown(p.emits, D)

\* startup
LEMMA StartupUpOrDown ==
    ASSUME NEW o \in Objects, Simplex(o), ~o.thrown,
           o.requested = NoState, o.actual = NoState, NEW X, NEW Y,
           NEW D, 0 \in D, Shown(o.emits, D)
    PROVE  Up(o, Wrapped!startup(o, X, Y), D) \/ Down(o, Wrapped!startup(o, X, Y), D)
<1> DEFINE rr == [NoState EXCEPT !.online = TRUE]
           a == [o EXCEPT !.actual.online = TRUE, !.requested.online = TRUE]
           b == Wrapped!do_start(a, X)
           c == Wrapped!do_post_start(b)
<1>1. /\ rr \in TransceiverState /\ rr.online /\ rr.frequency = 0 /\ rr.tx_frequency = 0
      /\ ~rr.split /\ ~rr.ptt /\ rr.audio = Untouched
  BY NoStateIs DEF TransceiverState
<1>2. a = [o EXCEPT !.actual = rr, !.requested = rr] BY DEF Objects, Wrapped!Objects
<1> HIDE DEF rr, a
<1>3. /\ a \in Objects /\ a.actual = rr /\ a.requested = rr /\ ~a.thrown
      /\ a.radio = o.radio /\ a.number = o.number /\ a.emits = o.emits
  BY <1>1, <1>2, SameValues DEF Objects, Wrapped!Objects
<1>4. Simplex(a) /\ DialKnown(a) BY <1>1, <1>3 DEF Simplex, DialKnown
<1>5. Polled(a, b) BY <1>3, <1>4, StartReads
<1> HIDE DEF b
<1>6. /\ b \in Objects /\ Simplex(b) /\ b.requested.online /\ b.radio = o.radio
      /\ b.number = o.number /\ b.emits = o.emits
      /\ ~b.thrown => DialKnown(b) /\ b.actual.frequency = o.radio.frequency
  BY <1>1, <1>3, <1>4, <1>5 DEF Polled, Calls
<1>7. /\ c \in Objects /\ c.requested = b.requested /\ c.actual = b.actual
      /\ c.radio = b.radio /\ c.number = b.number /\ c.emits = b.emits
      /\ c.thrown = b.thrown
  <2> DEFINE t == [b EXCEPT !.timer = TRUE]
             n == [t.next_state EXCEPT !.online = TRUE]
  <2>1. /\ t \in Objects /\ t.requested = b.requested /\ t.actual = b.actual
        /\ t.radio = b.radio /\ t.number = b.number /\ t.emits = b.emits
        /\ t.thrown = b.thrown /\ t.next_state = b.next_state
    BY <1>6 DEF Objects, Wrapped!Objects
  <2> HIDE DEF t
  <2>2. t.next_state \in TransceiverState
    BY <2>1, SameValues DEF Objects, Wrapped!Objects
  <2>3. n \in TransceiverState BY <2>2 DEF TransceiverState
  <2> HIDE DEF n
  <2>4. Keeps(t, Wrapped!expect(t, n)) /\ Wrapped!expect(t, n).thrown = t.thrown
    BY <2>1, <2>3, ExpectKeeps
  <2>5. c \in {b, t, Wrapped!expect(t, n)}
    BY <2>1 DEF Wrapped!do_post_start, t, n
  <2> HIDE DEF c
  <2> QED BY <1>6, <2>1, <2>4, <2>5 DEF Keeps, Calls
<1> HIDE DEF c
<1>8. Wrapped!startup(o, X, Y) = IF c.thrown THEN Wrapped!offline(c, Y) ELSE c
  BY DEF Wrapped!startup, Wrapped!catch_offline, a, b, c
<1>9. Simplex(c) BY <1>6, <1>7 DEF Simplex
<1>10. CASE c.thrown
  <2>1. Shown(Append(c.emits, failure), D) BY <1>6, <1>7, FailureShown
  <2>2. Down(c, Wrapped!offline(c, Y), D) BY <1>7, <1>9, <2>1, OfflineDown
  <2> QED BY <1>6, <1>7, <1>8, <1>10, <2>2 DEF Down
<1>11. CASE ~c.thrown
  BY <1>6, <1>7, <1>8, <1>9, <1>11 DEF Up, DialKnown
<1> QED BY <1>10, <1>11

-----------------------------------------------------------------------------
(* The handlers. *)

\* stopped
LEMMA StoppedDown ==
    ASSUME NEW o \in Objects, Simplex(o), ~o.thrown, NEW Y,
           NEW D, 0 \in D, Shown(o.emits, D)
    PROVE  Down(o, Wrapped!stopped(o, Y), D)
<1> DEFINE a == Wrapped!shutdown(o, Y)
           e == Append(a.emits, finished)
           p == [a EXCEPT !.emits = e]
<1>1. Down(o, a, D) BY ShutdownDown
<1>2. Wrapped!stopped(o, Y) = p
  BY <1>1, SameValues DEF Wrapped!stopped, Down, Offline, Objects, Wrapped!Objects
<1> HIDE DEF a
<1>3. /\ a \in Objects /\ a.emits \in Emitted
      /\ finished \in Wrapped!Signals /\ finished.signal # "update"
  BY <1>1, SameValues
  DEF Down, Offline, Objects, Wrapped!Objects, Emitted, Wrapped!Signals, finished
<1>4. Shown(e, D) BY <1>1, <1>3, MoreShown DEF Down, Offline
<1>5. e \in Seq(Wrapped!Signals) BY <1>3, AppendProperties DEF Emitted
<1> HIDE DEF e
<1>6. /\ p \in Objects /\ p.emits = e /\ p.requested = a.requested /\ p.actual = a.actual
      /\ p.radio = a.radio /\ p.thrown = a.thrown /\ p.number = a.number /\ p.timer = a.timer
  BY <1>3, <1>5 DEF Objects, Wrapped!Objects
<1> HIDE DEF p
<1>7. Down(o, p, D) BY <1>1, <1>4, <1>6 DEF Down, Offline, Simplex
<1> QED BY <1>2, <1>7

\* started: the dial of the radio is signalled
LEMMA StartedUpOrDown ==
    ASSUME NEW o \in Objects, Simplex(o), ~o.thrown, NEW X, NEW Y, NEW n \in Numbers,
           NEW D, 0 \in D, o.radio.frequency \in D, Shown(o.emits, D)
    PROVE  Up(o, Wrapped!started(o, n, X, Y), D) \/ Down(o, Wrapped!started(o, n, X, Y), D)
<1> DEFINE a == [o EXCEPT !.number = n]
           b == Wrapped!shutdown(a, Y)
           c == Wrapped!startup(b, X, Y)
           p == Wrapped!update_complete(c, TRUE)
<1>1. /\ a \in Objects /\ Simplex(a) /\ ~a.thrown /\ a.emits = o.emits
      /\ a.radio = o.radio
  BY DEF Objects, Wrapped!Objects, Simplex
<1> HIDE DEF a
<1>2. Down(a, b, D) BY <1>1, ShutdownDown
<1> HIDE DEF b
<1>3. Up(b, c, D) \/ Down(b, c, D)
  BY <1>2, StartupUpOrDown DEF Down, Offline
<1> HIDE DEF c
<1>4. c \in Objects /\ c.actual.frequency \in D
  BY <1>1, <1>2, <1>3, NoStateIs DEF Up, Down, Offline
<1>5. Signalled(c, p) /\ (Shown(c.emits, D) => Shown(p.emits, D))
  BY <1>4, UpdateSignals
<1>6. Wrapped!started(o, n, X, Y) = p BY DEF Wrapped!started, a, b, c
<1> HIDE DEF p
<1>7. Up(a, p, D) \/ Down(a, p, D)
  BY <1>1, <1>2, <1>3, <1>5 DEF Up, Down, Offline, Signalled, Simplex, DialKnown
<1> QED BY <1>1, <1>6, <1>7 DEF Up, Down

\* p is o after a poll of a rig that stays online
Watched(o, p, D) ==
    /\ p \in Objects /\ Simplex(p) /\ ~p.thrown /\ DialKnown(p)
    /\ p.requested.online = o.requested.online
    /\ p.radio = o.radio /\ Shown(p.emits, D)
    /\ p.actual.split \/ p.actual.frequency = p.radio.frequency

\* handle_timeout
LEMMA TimeoutWatches ==
    ASSUME NEW o \in Objects, Simplex(o), ~o.thrown, DialKnown(o), NEW X, NEW Y,
           NEW D, 0 \in D, Shown(o.emits, D), o.radio.split \/ o.radio.frequency \in D
    PROVE  Watched(o, Wrapped!handle_timeout(o, X, Y), D)
           \/ Down(o, Wrapped!handle_timeout(o, X, Y), D)
<1> DEFINE a == Wrapped!do_poll(o, X)
<1>1. Polled(o, a) BY PollReads
<1>2. Wrapped!handle_timeout(o, X, Y)
        = IF a.thrown THEN Wrapped!offline(a, Y) ELSE Wrapped!after_poll(a)
  BY DEF Wrapped!handle_timeout
<1> HIDE DEF a
<1>3. /\ a \in Objects /\ Simplex(a) /\ a.radio = o.radio /\ a.number = o.number
      /\ a.requested.online = o.requested.online /\ Shown(a.emits, D)
  BY <1>1 DEF Polled, Calls
<1>4. CASE a.thrown
  <2>1. Shown(Append(a.emits, failure), D) BY <1>3, FailureShown
  <2>2. Down(a, Wrapped!offline(a, Y), D) BY <1>3, <2>1, OfflineDown
  <2> QED BY <1>2, <1>3, <1>4, <2>2 DEF Down
<1>5. CASE ~a.thrown
  <2> DEFINE left == IF a.retries = 0 THEN 0 ELSE a.retries - 1
             u == [a EXCEPT !.retries = 0, !.next_state = a.actual, !.last_signalled = a.actual]
             w == [a EXCEPT !.retries = left]
             Kept(p) == /\ p \in Objects /\ p.radio = a.radio /\ p.requested = a.requested
                        /\ p.actual = a.actual /\ p.thrown = a.thrown
  <2>1. Kept(u) /\ u.emits = a.emits
    <3>1. 0 \in 0 .. Wrapped!polls_to_stabilize BY DEF Wrapped!polls_to_stabilize
    <3> QED BY <1>3, <3>1 DEF Objects, Wrapped!Objects
  <2>2. Kept(w) /\ w.emits = a.emits
    <3>1. left \in 0 .. Wrapped!polls_to_stabilize
      BY <1>3 DEF Objects, Wrapped!Objects, Wrapped!polls_to_stabilize
    <3> HIDE DEF left
    <3> QED BY <1>3, <3>1 DEF Objects, Wrapped!Objects
  <2>3. a.actual.split \/ a.actual.frequency = a.radio.frequency
    <3>1. o.actual.ptt \in BOOLEAN /\ o.radio.split \in BOOLEAN
      BY SameValues DEF Objects, Wrapped!Objects, Wrapped!Radio, TransceiverState
    <3> QED BY <1>1, <1>5, <3>1 DEF Polled
  <2>4. a.actual.split \/ a.actual.frequency \in D
    <3>1. a.actual.split = o.radio.split BY <1>1, <1>5 DEF Polled
    <3> QED BY <1>3, <2>3, <3>1
  <2>5. Wrapped!after_poll(a) \in {w, Wrapped!update_complete(u, TRUE)}
    BY SameValues DEF Wrapped!after_poll
  <2>6. DialKnown(a) BY <1>1, <1>5 DEF Polled
  <2> HIDE DEF u, w
  <2>7. Watched(o, w, D)
    BY <1>3, <1>5, <2>2, <2>3, <2>6 DEF Watched, Simplex, DialKnown
  <2>8. Watched(o, Wrapped!update_complete(u, TRUE), D)
    <3> DEFINE p == Wrapped!update_complete(u, TRUE)
    <3>1. Signalled(u, p) /\ Shown(p.emits, D) BY <1>3, <2>1, <2>4, UpdateSignals
    <3> HIDE DEF p
    <3>2. Watched(o, p, D)
      BY <1>3, <1>5, <2>1, <2>3, <2>6, <3>1 DEF Watched, Signalled, Simplex, DialKnown
    <3> QED BY <3>2 DEF p
  <2> QED BY <1>2, <1>5, <2>5, <2>7, <2>8
<1> QED BY <1>4, <1>5

\* p is o after a request for s that left the rig online
Obeys(o, s, p, D) ==
    /\ p \in Objects /\ Simplex(p) /\ ~p.thrown /\ DialKnown(p)
    /\ p.requested.online /\ Shown(p.emits, D)
    /\ p.radio.split = o.radio.split
    /\ p.requested.ptt => s.ptt
    /\ \/ p.actual.split
       \/ /\ p.actual.frequency = s.frequency
          /\ \/ p.radio.frequency = s.frequency
             \/ /\ o.requested.online /\ o.requested.frequency = s.frequency
                /\ p.radio.frequency = o.radio.frequency

\* has_been_set
LEMMA SetObeysOrDown ==
    ASSUME NEW o \in Objects, Simplex(o), ~o.thrown, DialKnown(o), NEW s, Plain(s), ReadsBack,
           NEW X, NEW Y, NEW n \in Numbers,
           NEW D, 0 \in D, s.frequency \in D, Shown(o.emits, D)
    PROVE  Obeys(o, s, Wrapped!has_been_set(o, s, n, X, Y), D)
           \/ Offline(Wrapped!has_been_set(o, s, n, X, Y), D)
<1> DEFINE a == [o EXCEPT !.number = n]
           z == Wrapped!shutdown(a, Y)
           g == Wrapped!go_online_or_offline(a, s, X, Y)
           b == Wrapped!apply(g, s, X)
           u == Wrapped!update_complete(b, TRUE)
<1>1. /\ a \in Objects /\ Simplex(a) /\ ~a.thrown /\ DialKnown(a) /\ a.emits = o.emits
      /\ a.radio = o.radio /\ a.requested = o.requested
  BY DEF Objects, Wrapped!Objects, Simplex, DialKnown
<1>r. Wrapped!has_been_set(o, s, n, X, Y) = IF u.thrown THEN Wrapped!offline(u, Y) ELSE u
  BY DEF Wrapped!has_been_set, Wrapped!catch_offline, a, g, b, u
<1> HIDE DEF a
<1>2. /\ g \in Objects /\ Simplex(g) /\ ~g.thrown /\ DialKnown(g) /\ Shown(g.emits, D)
      /\ \/ g = a /\ o.requested.online
         \/ /\ ~o.requested.online /\ g.requested.online
            /\ g.radio.frequency = o.radio.frequency /\ g.radio.split = o.radio.split
            /\ g.requested.frequency = o.radio.frequency
         \/ Offline(g, D)
  <2>0. o.requested.online \in BOOLEAN
    BY SameValues DEF Objects, Wrapped!Objects, TransceiverState
  <2>1. CASE o.requested.online
    <3>1. g = a BY <1>1, <2>1 DEF Wrapped!go_online_or_offline, Plain
    <3> QED BY <1>1, <2>1, <3>1
  <2>2. CASE ~o.requested.online
    <3>1. g = Wrapped!startup(z, X, Y)
      BY <1>1, <2>2, SameValues DEF Wrapped!go_online_or_offline, Plain
    <3>2. Down(a, z, D) BY <1>1, ShutdownDown
    <3> HIDE DEF z, g
    <3>3. Up(z, g, D) \/ Down(z, g, D)
      BY <3>1, <3>2, StartupUpOrDown DEF Down, Offline
    <3> QED BY <1>1, <2>2, <3>2, <3>3 DEF Up, Down, Offline, DialKnown
  <2> QED BY <2>0, <2>1, <2>2
<1> HIDE DEF g
<1>3. CASE Offline(g, D)
  <2>1. b = g BY <1>3, NoStateIs DEF Wrapped!apply, Offline
  <2> HIDE DEF b
  <2>2. Signalled(g, u) /\ Shown(u.emits, D)
    BY <1>2, <1>3, <2>1, UpdateSignals, NoStateIs DEF Offline
  <2> HIDE DEF u
  <2>3. Offline(u, D) BY <1>3, <2>2 DEF Offline, Signalled, Simplex
  <2> QED BY <1>r, <2>3 DEF Offline
<1>4. CASE ~Offline(g, D)
  <2>0. g.requested.online BY <1>1, <1>2, <1>4
  <2>1. Tuned(g, s.frequency, b) /\ (~b.thrown /\ b.requested.ptt => s.ptt)
    BY <1>2, <2>0, ApplyTunes
  <2> HIDE DEF b
  <2>2. /\ b \in Objects /\ Simplex(b) /\ Shown(b.emits, D) /\ b.requested.online
        /\ b.radio.split = o.radio.split
    BY <1>1, <1>2, <1>4, <2>0, <2>1 DEF Tuned, Calls
  <2>3. Signalled(b, u) /\ u.emits = Append(b.emits, update(b.actual, b.number))
    BY <2>2, UpdateSignals
  <2>4. CASE b.thrown
    <3>1. /\ b.emits \in Emitted
          /\ update(b.actual, b.number) \in Wrapped!Signals
      BY <2>2, SameValues, SignalsAre DEF Objects, Wrapped!Objects, Emitted
    <3>2. Shown(Append(u.emits, failure), D) BY <2>2, <2>3, <3>1, MoreShown
    <3> HIDE DEF u
    <3>3. Down(u, Wrapped!offline(u, Y), D)
      BY <2>2, <2>3, <3>2, OfflineDown DEF Signalled, Simplex
    <3> QED BY <1>r, <2>3, <2>4, <3>3 DEF Down, Signalled
  <2>5. CASE ~b.thrown
    <3>1. b.actual.split \/ b.actual.frequency \in D BY <2>1, <2>5 DEF Tuned
    <3>2. Shown(u.emits, D) BY <2>2, <3>1, UpdateSignals
    <3>3. \/ b.actual.split
          \/ /\ b.actual.frequency = s.frequency
             /\ \/ b.radio.frequency = s.frequency
                \/ /\ o.requested.online /\ o.requested.frequency = s.frequency
                   /\ b.radio.frequency = o.radio.frequency
      BY <1>1, <1>2, <1>4, <2>1, <2>5 DEF Tuned
    <3> HIDE DEF u
    <3>4. Obeys(o, s, u, D)
      BY <2>1, <2>2, <2>3, <2>5, <3>2, <3>3 DEF Obeys, Signalled, Simplex, Tuned, DialKnown
    <3> QED BY <1>r, <2>3, <2>5, <3>4 DEF Signalled
  <2> QED BY <2>4, <2>5
<1> QED BY <1>3, <1>4

-----------------------------------------------------------------------------
(* The invariant. *)

\* the dials that may show: those received on, and the transmit dial in split
Dials == received \cup {0} \cup (IF split /\ tx_frequency # 0 THEN {tx_frequency} ELSE {})

\* A rig that is online and not in split is on a dial that may show, and on the transmit
\* dial only if that is on record; one not started yet is where its operator left it.
OnDial ==
    /\ object.requested.online /\ ~object.radio.split =>
          \/ object.radio.frequency \in received
          \/ object.radio.frequency \in Dials /\ object.radio.frequency = object.actual.frequency
    /\ command = "create" => object.radio.frequency \in received

Inv ==
    emulating =>
        /\ Simplex(object) /\ ~object.thrown /\ DialKnown(object)
        /\ object.timer => object.requested.online
        /\ rx_frequency \in received \cup {0}
        /\ OnDial
        /\ Shown(object.emits, Dials)

\* What the rig is requested: an online state on a dial, with the transmit dial in split,
\* and no audio command.
RequestsPlain ==
    \A s \in Requests :
        /\ s.online /\ s.frequency # 0 /\ s.audio = Untouched
        /\ s.split => s.tx_frequency # 0

\* Nothing was signalled.
LEMMA NothingShown == (\A D : Shown(<<>>, D)) /\ <<>> \in Seq(Wrapped!Signals)
<1>1. \A D : Shown(<<>>, D) BY DEF Shown
<1>2. \A S : <<>> \in Seq(S) BY EmptySeq
<1> QED BY <1>1, <1>2

\* The object as a handler finds it.
LEMMA QuietIs ==
    ASSUME object \in Objects
    PROVE  /\ Wrapped!Quiet \in Objects
           /\ Wrapped!Quiet.requested = object.requested
           /\ Wrapped!Quiet.actual = object.actual /\ Wrapped!Quiet.radio = object.radio
           /\ Wrapped!Quiet.thrown = object.thrown /\ Wrapped!Quiet.timer = object.timer
           /\ Wrapped!Quiet.emits = <<>>
  BY NothingShown DEF Wrapped!Quiet, Objects, Wrapped!Objects

\* The rig gets neither split nor an audio command.
LEMMA EmulatedIsPlain ==
    ASSUME RequestsPlain, NEW s \in Requests
    PROVE  /\ Plain(emulated_state(s))
           /\ emulated_state(s).ptt = s.ptt
           /\ emulated_state(s).frequency = IF s.ptt /\ s.split THEN s.tx_frequency
                                            ELSE s.frequency
<1>1. s \in TransceiverState BY EmulateSplitAssumption
<1> DEFINE f == IF s.ptt /\ s.split THEN s.tx_frequency ELSE s.frequency
<1>2. f \in Frequencies \cup {0} /\ f # 0 BY <1>1 DEF RequestsPlain, TransceiverState
<1>3. emulated_state(s) = [s EXCEPT !.frequency = f, !.split = FALSE, !.tx_frequency = 0]
  BY <1>1 DEF emulated_state, TransceiverState
<1> HIDE DEF f
<1>4. Plain(emulated_state(s)) /\ emulated_state(s).ptt = s.ptt
      /\ emulated_state(s).frequency = f
  BY <1>1, <1>2, <1>3 DEF RequestsPlain, Plain, TransceiverState
<1> QED BY <1>4 DEF f

\* The new object of a radio that is on dial f.
LEMMA CreatedIs ==
    ASSUME NEW r \in Wrapped!Radio, NEW b \in BOOLEAN, NEW g \in BOOLEAN,
           NEW p, p = Wrapped!Created(r, b, g)
    PROVE  /\ Simplex(p) /\ ~p.thrown /\ DialKnown(p) /\ ~p.timer /\ ~p.requested.online
           /\ p.radio = r /\ p.emits = <<>>
<1>1. 0 \in 0 .. Wrapped!polls_to_stabilize BY DEF Wrapped!polls_to_stabilize
<1>2. p \in Objects BY <1>1, SameValues, NoStateIs, NothingShown
  DEF Wrapped!Created, Objects, Wrapped!Objects
<1> QED BY <1>2, SameValues, NoStateIs DEF Wrapped!Created, Simplex, DialKnown

\* Initially no dial but the radio's is known.
LEMMA InitInv == Init => Inv
<1> SUFFICES ASSUME Init, emulating PROVE Inv BY DEF Inv
<1>1. PICK r \in Wrapped!Radio : object = Wrapped!Created(r, FALSE, FALSE)
  BY DEF Init, Wrapped!Init
<1>2. /\ Simplex(object) /\ ~object.thrown /\ DialKnown(object) /\ ~object.timer
      /\ ~object.requested.online /\ object.emits = <<>>
  BY <1>1, CreatedIs
<1> QED BY <1>2, NothingShown DEF Init, Inv, OnDial

\* Every handler keeps to the invariant.
LEMMA NextInv ==
    ASSUME Inv, [Next]_vars, ReadsBack, RequestsPlain PROVE Inv'
<1> SUFFICES ASSUME emulating' PROVE Inv' BY DEF Inv
<1>0. /\ emulating => /\ object \in Objects /\ Simplex(object) /\ ~object.thrown
                      /\ DialKnown(object) /\ (object.timer => object.requested.online)
                      /\ rx_frequency \in received \cup {0} /\ OnDial
                      /\ Shown(object.emits, Dials)
  BY DEF Inv, Simplex
<1>d. 0 \in Dials /\ received \subseteq Dials BY DEF Dials
<1>q. emulating => /\ Wrapped!Quiet \in Objects /\ Simplex(Wrapped!Quiet)
                   /\ ~Wrapped!Quiet.thrown /\ DialKnown(Wrapped!Quiet)
                   /\ Wrapped!Quiet.requested = object.requested
                   /\ Wrapped!Quiet.actual = object.actual
                   /\ Wrapped!Quiet.radio = object.radio
                   /\ \A D : Shown(Wrapped!Quiet.emits, D)
  BY <1>0, QuietIs, NothingShown DEF Simplex, DialKnown
<1>1. CASE \E n \in Numbers : Start(n)
  <2>1. PICK n \in Numbers : Start(n) BY <1>1
  <2>2. /\ command = "create" /\ command' = "start"
        /\ UNCHANGED <<emulating, wrapper, received>>
        /\ \E X, Y : object' = Wrapped!started(Wrapped!Quiet, n, X, Y)
    BY <2>1 DEF Start, Wrapped!Start
  <2>3. PICK X, Y : object' = Wrapped!started(Wrapped!Quiet, n, X, Y) BY <2>2
  <2>4. object.radio.frequency \in received BY <1>0, <2>2 DEF OnDial
  <2>5. Up(Wrapped!Quiet, object', Dials) \/ Down(Wrapped!Quiet, object', Dials)
    BY <1>d, <1>q, <2>2, <2>3, <2>4, StartedUpOrDown
  <2>6. Dials' = Dials BY <2>2 DEF Dials, wrapper
  <2>7. OnDial'
    BY <1>q, <2>2, <2>4, <2>5, NoStateIs DEF OnDial, Up, Down, Offline
  <2> QED BY <1>0, <2>2, <2>5, <2>6, <2>7, NoStateIs
          DEF Inv, Up, Down, Offline, DialKnown, wrapper
<1>2. CASE \E n \in Numbers, s \in Requests : Set(s, n)
  <2>1. PICK n \in Numbers, s \in Requests : Set(s, n) BY <1>2
  <2> DEFINE es == emulated_state(s)
  <2>2. emulating BY <2>1 DEF Set
  <2>3. /\ command' = "set" /\ rx_frequency' = s.frequency
        /\ tx_frequency' = s.tx_frequency /\ split' = s.split
        /\ received' = received \cup {s.frequency}
        /\ \E X, Y : object' = Wrapped!has_been_set(Wrapped!Quiet, es, n, X, Y)
    BY <2>1, <2>2 DEF Set, Wrapped!Set
  <2>4. /\ Plain(es) /\ es.frequency = IF s.ptt /\ s.split THEN s.tx_frequency
                                        ELSE s.frequency
    BY EmulatedIsPlain
  <2> HIDE DEF es
  <2>5. PICK X, Y : object' = Wrapped!has_been_set(Wrapped!Quiet, es, n, X, Y) BY <2>3
  <2>6. 0 \in Dials' /\ es.frequency \in Dials' /\ received' \subseteq Dials'
    BY <2>3, <2>4 DEF Dials, Plain
  <2>7. Obeys(Wrapped!Quiet, es, object', Dials') \/ Offline(object', Dials')
    BY <1>q, <2>2, <2>4, <2>5, <2>6, SetObeysOrDown
  <2>8. OnDial'
    <3>1. CASE Offline(object', Dials') BY <2>3, <3>1, NoStateIs DEF OnDial, Offline
    <3>2. CASE Obeys(Wrapped!Quiet, es, object', Dials')
      <4> SUFFICES ASSUME ~object'.radio.split
                   PROVE  \/ object'.radio.frequency \in received'
                          \/ /\ object'.radio.frequency \in Dials'
                             /\ object'.radio.frequency = object'.actual.frequency
        BY <2>3 DEF OnDial
      <4>1. ~object.radio.split /\ ~object'.actual.split
        BY <1>q, <2>2, <3>2 DEF Obeys, Simplex
      <4>2. CASE object'.radio.frequency = es.frequency
        BY <2>6, <3>2, <4>1, <4>2 DEF Obeys
      <4>3. CASE object'.radio.frequency # es.frequency
        <5>1. /\ object.requested.online /\ object.requested.frequency = es.frequency
              /\ object'.radio.frequency = object.radio.frequency
              /\ object'.actual.frequency = es.frequency
          BY <1>q, <2>2, <3>2, <4>1, <4>3 DEF Obeys
        <5>2. object.radio.frequency \in received
          BY <1>0, <2>2, <4>1, <4>3, <5>1 DEF OnDial, DialKnown
        <5> QED BY <2>3, <5>1, <5>2
      <4> QED BY <4>2, <4>3
    <3> QED BY <2>7, <3>1, <3>2
  <2> QED BY <2>3, <2>7, <2>8, NoStateIs DEF Inv, Obeys, Offline, DialKnown
<1>3. CASE Stop
  <2>2. /\ command' = "stop" /\ UNCHANGED <<emulating, wrapper, received>>
        /\ \E Y : object' = Wrapped!stopped(Wrapped!Quiet, Y)
    BY <1>3 DEF Stop, Wrapped!Stop
  <2>3. PICK Y : object' = Wrapped!stopped(Wrapped!Quiet, Y) BY <2>2
  <2>5. Down(Wrapped!Quiet, object', Dials) BY <1>d, <1>q, <2>2, <2>3, StoppedDown
  <2>6. Dials' = Dials BY <2>2 DEF Dials, wrapper
  <2> QED BY <1>0, <2>2, <2>5, <2>6, NoStateIs
          DEF Inv, Down, Offline, DialKnown, wrapper, OnDial
<1>w. ASSUME NEW o \in Objects, Simplex(o), ~o.thrown, DialKnown(o), Shown(o.emits, Dials),
             emulating, object.timer,
             o.requested = object.requested, o.actual = object.actual,
             o.radio.frequency = object.radio.frequency, o.radio.split = object.radio.split,
             NEW X, NEW Y, NEW p, p = Wrapped!handle_timeout(o, X, Y)
      PROVE  /\ Simplex(p) /\ ~p.thrown /\ DialKnown(p)
             /\ p.timer => p.requested.online
             /\ Shown(p.emits, Dials)
             /\ p.requested.online /\ ~p.radio.split =>
                  \/ p.radio.frequency \in received
                  \/ p.radio.frequency \in Dials /\ p.radio.frequency = p.actual.frequency
  <2>1. o.radio.split \/ o.radio.frequency \in Dials
    BY <1>0, <1>d, <1>w DEF OnDial
  <2>2. Watched(o, p, Dials) \/ Down(o, p, Dials)
    BY <1>d, <1>w, <2>1, TimeoutWatches
  <2>3. CASE Down(o, p, Dials) BY <2>3, NoStateIs DEF Down, Offline, DialKnown
  <2>4. CASE Watched(o, p, Dials)
    BY <1>0, <1>w, <2>4 DEF Watched, OnDial, Simplex
  <2> QED BY <2>2, <2>3, <2>4
<1>4. CASE Poll
  <2>2. /\ object.timer /\ command' = "poll" /\ UNCHANGED <<emulating, wrapper, received>>
        /\ \E X, Y : object' = Wrapped!handle_timeout(Wrapped!Quiet, X, Y)
    BY <1>4 DEF Poll, Wrapped!Poll
  <2>3. PICK X, Y : object' = Wrapped!handle_timeout(Wrapped!Quiet, X, Y) BY <2>2
  <2>5. /\ Simplex(object') /\ ~object'.thrown /\ DialKnown(object')
        /\ object'.timer => object'.requested.online
        /\ Shown(object'.emits, Dials)
        /\ object'.requested.online /\ ~object'.radio.split =>
              \/ object'.radio.frequency \in received
              \/ /\ object'.radio.frequency \in Dials
                 /\ object'.radio.frequency = object'.actual.frequency
    BY <1>q, <1>w, <2>2, <2>3
  <2>6. Dials' = Dials BY <2>2 DEF Dials, wrapper
  <2> QED BY <1>0, <2>2, <2>5, <2>6 DEF Inv, DialKnown, wrapper, OnDial
<1>5. CASE LatePoll
  <2> DEFINE u == [object EXCEPT !.radio.ptt = FALSE, !.emits = <<>>]
             w == Wrapped!handle_timeout(u, {}, {})
  <2>2. /\ object.timer /\ command' = "poll" /\ UNCHANGED <<emulating, wrapper, received>>
        /\ object' = [w EXCEPT !.radio.ptt = TRUE]
    BY <1>5 DEF LatePoll
  <2>3. /\ u \in Objects /\ Simplex(u) /\ ~u.thrown /\ DialKnown(u) /\ u.emits = <<>>
        /\ u.requested = object.requested /\ u.actual = object.actual
        /\ u.radio.frequency = object.radio.frequency /\ u.radio.split = object.radio.split
    BY <1>0, <2>2, NothingShown
    DEF Objects, Wrapped!Objects, Wrapped!Radio, Simplex, DialKnown
  <2> HIDE DEF u
  <2>5. /\ Simplex(w) /\ ~w.thrown /\ DialKnown(w)
        /\ w.timer => w.requested.online
        /\ Shown(w.emits, Dials)
        /\ w.requested.online /\ ~w.radio.split =>
              \/ w.radio.frequency \in received
              \/ w.radio.frequency \in Dials /\ w.radio.frequency = w.actual.frequency
    BY <1>w, <2>2, <2>3, NothingShown
  <2> HIDE DEF w
  <2>6. /\ object' \in Objects /\ Simplex(object') /\ object'.thrown = w.thrown
        /\ object'.requested = w.requested /\ object'.actual = w.actual
        /\ object'.timer = w.timer /\ object'.emits = w.emits
        /\ object'.radio.frequency = w.radio.frequency /\ object'.radio.split = w.radio.split
    BY <2>2, <2>5 DEF Objects, Wrapped!Objects, Wrapped!Radio, Simplex
  <2>7. Dials' = Dials BY <2>2 DEF Dials, wrapper
  <2> QED BY <1>0, <2>2, <2>5, <2>6, <2>7 DEF Inv, DialKnown, wrapper, OnDial
<1>6. CASE RadioOperated
  <2>1. PICK f \in DialTurns, m \in Modes :
          object' = [Wrapped!Quiet EXCEPT !.radio.frequency = f, !.radio.mode = m]
    BY <1>6 DEF RadioOperated, Wrapped!RadioOperated
  <2>2. /\ command' = "radio" /\ UNCHANGED <<emulating, wrapper>>
        /\ received' = received \cup {object'.radio.frequency}
    BY <1>6 DEF RadioOperated, Wrapped!RadioOperated
  <2>3. f \in Frequencies BY EmulateSplitAssumption
  <2>4. /\ Simplex(object') /\ object'.requested = object.requested
        /\ object'.actual = object.actual /\ ~object'.thrown
        /\ object'.timer = object.timer /\ object'.emits = <<>>
        /\ object'.radio.split = object.radio.split
    BY <1>0, <1>q, <2>1, <2>2, <2>3, QuietIs
    DEF Objects, Wrapped!Objects, Wrapped!Radio, Simplex
  <2> QED BY <1>0, <2>2, <2>4, NothingShown DEF Inv, DialKnown, wrapper, OnDial
<1>7. CASE SplitAtRadio
  <2>2. /\ object' = [object EXCEPT !.radio.split = TRUE, !.emits = <<>>]
        /\ command' = "radio" /\ UNCHANGED <<emulating, wrapper, received>>
    BY <1>7 DEF SplitAtRadio
  <2>3. /\ Simplex(object') /\ object'.requested = object.requested
        /\ object'.actual = object.actual /\ ~object'.thrown
        /\ object'.timer = object.timer /\ object'.emits = <<>>
        /\ object'.radio.split
    BY <1>0, <2>2, NothingShown DEF Objects, Wrapped!Objects, Wrapped!Radio, Simplex
  <2> QED BY <1>0, <2>2, <2>3, NothingShown DEF Inv, DialKnown, wrapper, OnDial
<1>8. CASE Create
  <2>1. /\ object' = Wrapped!Created(object.radio, object.unkey_failed, object.gave_up)
        /\ rx_frequency' = 0 /\ received' = {object.radio.frequency}
        /\ UNCHANGED emulating
    BY <1>8 DEF Create, Wrapped!Create
  <2>2. /\ object.radio \in Wrapped!Radio /\ object.unkey_failed \in BOOLEAN
        /\ object.gave_up \in BOOLEAN
    BY <1>0, <2>1 DEF Objects, Wrapped!Objects
  <2>3. /\ Simplex(object') /\ ~object'.thrown /\ DialKnown(object') /\ ~object'.timer
        /\ ~object'.requested.online /\ object'.radio = object.radio
        /\ object'.emits = <<>>
    BY <2>1, <2>2, CreatedIs
  <2> QED BY <2>1, <2>3, NothingShown DEF Inv, DialKnown, OnDial
<1>9. CASE UNCHANGED vars
  BY <1>0, <1>9 DEF vars, rig, wrapper, Inv, Simplex, DialKnown, OnDial, Dials
<1> QED BY <1>1, <1>2, <1>3, <1>4, <1>5, <1>6, <1>7, <1>8, <1>9 DEF Next

LEMMA InvAlways == ASSUME ReadsBack, RequestsPlain PROVE Spec => []Inv
<1>1. Init => Inv BY InitInv
<1>2. Inv /\ [Next]_vars => Inv' BY NextInv
<1> QED BY <1>1, <1>2, PTL DEF Spec

\* What is signalled of the rig shows dials that may show, and the wrapper hides the one
\* of them that must not.
LEMMA InvHides == Inv => TxDialIsHidden
<1> SUFFICES ASSUME Inv, emulating, NEW i \in DOMAIN signals, signals[i].signal = "update"
             PROVE  \/ signals[i].state.frequency \in received \cup {0}
                    \/ i < Len(signals) /\ signals[i + 1] = failure
  BY DEF TxDialIsHidden
<1> DEFINE e == object.emits
<1>1. /\ e \in Seq(Wrapped!Signals) /\ Shown(e, Dials) /\ rx_frequency \in received \cup {0}
  BY DEF Inv, Simplex, Objects, Wrapped!Objects
<1>2. signals = [j \in DOMAIN e |-> handle_update(e[j])] BY DEF signals
<1> HIDE DEF e
<1>3. /\ Len(e) \in Nat /\ DOMAIN e = 1 .. Len(e) /\ DOMAIN signals = 1 .. Len(e)
  BY <1>1, <1>2
<1>4. Len(signals) = Len(e)
  <2> DEFINE S == {handle_update(e[j]) : j \in DOMAIN e}
  <2>0. signals \in [1 .. Len(e) -> S] BY <1>2, <1>3
  <2> HIDE DEF S
  <2>1. signals \in Seq(S) BY <1>3, <2>0, SeqDef
  <2> QED BY <1>3, <2>1, LenProperties
<1>5. i \in DOMAIN e /\ signals[i] = handle_update(e[i]) BY <1>2, <1>3
<1>6. failure.signal # "update" /\ handle_update(failure) = failure
  BY DEF handle_update, failure
<1>7. e[i].signal = "update" BY <1>5 DEF handle_update
<1>8. CASE i < Len(e) /\ e[i + 1] = failure
  BY <1>2, <1>3, <1>4, <1>5, <1>6, <1>8
<1>9. CASE ~(i < Len(e) /\ e[i + 1] = failure)
  <2> DEFINE s == e[i].state
  <2>1. s.split \/ s.frequency \in Dials BY <1>1, <1>5, <1>7, <1>9 DEF Shown
  <2>2. ~s.split BY <1>5, <1>6, <1>7 DEF handle_update
  <2>3. e[i] \in Wrapped!Signals BY <1>1, <1>5
  <2>4. s \in TransceiverState
    BY <1>7, <2>3, SameValues DEF Wrapped!Signals, failure, finished
  <2> DEFINE f == IF transmit_dial(s) THEN rx_frequency ELSE s.frequency
             t == [s EXCEPT !.frequency = f, !.tx_frequency = tx_frequency, !.split = split]
  <2>5. signals[i] = update(t, e[i].number)
    BY <1>5, <1>7, <2>2, <2>4 DEF handle_update, TransceiverState
  <2> HIDE DEF s, f
  <2>6. signals[i].state.frequency = f
    <3>1. t.frequency = f BY <2>4 DEF TransceiverState
    <3> HIDE DEF t
    <3> QED BY <2>5, <3>1 DEF update
  <2>7. ~transmit_dial(s) => s.frequency \in received \cup {0}
    BY <1>1, <2>1, <2>2 DEF transmit_dial, Dials
  <2> QED BY <1>1, <2>6, <2>7 DEF f
<1> QED BY <1>8, <1>9

\* The step that TransmitsOnTxDial promises.
TransmitStep ==
    /\ command' = "set" /\ emulating /\ split'
    /\ object'.requested.online /\ object'.requested.ptt
    /\ object'.radio.ptt /\ ~object'.radio.split
    /\ ~object.requested.online \/ object.requested.frequency = object.radio.frequency
    => object'.radio.frequency = tx_frequency'

\* A request tunes the rig to the dial it transmits on, or finds it there.
LEMMA InvTransmits ==
    ASSUME ReadsBack, RequestsPlain PROVE Inv /\ [Next]_vars => [TransmitStep]_vars
<1> SUFFICES ASSUME Inv, Next,
                    command' = "set", emulating, split',
                    object'.requested.online, object'.requested.ptt, ~object'.radio.split,
                    ~object.requested.online \/ object.requested.frequency = object.radio.frequency
             PROVE  object'.radio.frequency = tx_frequency'
  BY DEF TransmitStep
<1>1. PICK n \in Numbers, s \in Requests : Set(s, n)
  BY DEF Next, Start, Wrapped!Start, Stop, Wrapped!Stop, Poll, Wrapped!Poll, LatePoll,
         RadioOperated, Wrapped!RadioOperated, SplitAtRadio, Create, Wrapped!Create
<1> DEFINE es == emulated_state(s)
<1>2. /\ tx_frequency' = s.tx_frequency /\ split' = s.split
      /\ \E X, Y : object' = Wrapped!has_been_set(Wrapped!Quiet, es, n, X, Y)
  BY <1>1 DEF Set, Wrapped!Set
<1>3. /\ Plain(es) /\ es.ptt = s.ptt
      /\ es.frequency = IF s.ptt /\ s.split THEN s.tx_frequency ELSE s.frequency
  BY EmulatedIsPlain
<1> HIDE DEF es
<1>4. PICK X, Y : object' = Wrapped!has_been_set(Wrapped!Quiet, es, n, X, Y) BY <1>2
<1>5. /\ Wrapped!Quiet \in Objects /\ Simplex(Wrapped!Quiet)
      /\ ~Wrapped!Quiet.thrown /\ DialKnown(Wrapped!Quiet)
      /\ Wrapped!Quiet.requested = object.requested /\ Wrapped!Quiet.radio = object.radio
      /\ \A D : Shown(Wrapped!Quiet.emits, D)
  BY QuietIs, NothingShown DEF Inv, Simplex, DialKnown
<1> DEFINE D == {0, es.frequency}
<1>6. Obeys(Wrapped!Quiet, es, object', D) \/ Offline(object', D)
  BY <1>3, <1>4, <1>5, SetObeysOrDown
<1>7. Obeys(Wrapped!Quiet, es, object', D) BY <1>6, NoStateIs DEF Offline
<1>8. ~object'.actual.split /\ s.ptt BY <1>3, <1>7 DEF Obeys, Simplex
<1>9. es.frequency = tx_frequency' BY <1>2, <1>3, <1>8
<1> QED BY <1>5, <1>7, <1>8, <1>9 DEF Obeys

-----------------------------------------------------------------------------
\* The client never sees the transmit dial as the rig's dial, for any number of dials,
\* any rig that is tuned to what it is told, any moment a poll reports PTT late and any
\* CAT call that fails.
THEOREM TxDialStaysHidden ==
    ASSUME ReadsBack, RequestsPlain
    PROVE  Spec => []TxDialIsHidden
BY InvAlways, InvHides, PTL

\* A rig that split is emulated on transmits on the transmit dial of the request that
\* keyed it, or moved it.
THEOREM TransmissionsOnTxDial ==
    ASSUME ReadsBack, RequestsPlain
    PROVE  Spec => TransmitsOnTxDial
<1>1. Inv /\ [Next]_vars => [TransmitStep]_vars BY InvTransmits
<1>2. Spec => [][TransmitStep]_vars BY <1>1, InvAlways, PTL DEF Spec
<1> QED BY <1>2 DEF TransmitsOnTxDial, TransmitStep
=============================================================================
