----------------------------- MODULE TransceiverBase -----------------------------
(***************************************************************************)
(* One transceiver object in the rig thread: the slots start, set and stop *)
(* of TransceiverBase and the poll timer of PollingTransceiver, over a     *)
(* Hamlib rig.                                                             *)
(*                                                                         *)
(* The thread runs one handler at a time, so each handler is one action.   *)
(* The signals it emits are collected, in order, in object.emits, which    *)
(* holds the signals of the last handler only.                             *)
(***************************************************************************)
EXTENDS PollingTransceiver

CONSTANTS
    Numbers,       \* command sequence numbers
    Requests,      \* the states clients request
    DialTurns      \* the frequencies the operator tunes to at the radio

ASSUME RequestsAssumption ==
    /\ Numbers \subseteq Nat
    /\ Requests \subseteq TransceiverState
    /\ DialTurns \subseteq Frequencies

VARIABLES
    object,        \* the transceiver object and the radio it controls
    command        \* the handler that ran last

vars == <<object, command>>

-----------------------------------------------------------------------------
(* The private methods. *)

\* mutation: the radio is unkeyed only if it was keyed on record
Mutant_shutdown_radio(o, Y) ==
    IF o.requested.online /\ o.requested.ptt
    THEN [do_ptt(o, FALSE, Y) EXCEPT !.thrown = FALSE] ELSE o

\* mutation: split is left as it is
Mutant_shutdown_radio_split(o, Y) ==
    LET p == do_post_ptt(do_ptt(o, FALSE, Y), FALSE)
    IN IF o.requested.online
       THEN [p EXCEPT !.thrown = FALSE, !.gave_up = (@ \/ p.thrown) /\ p.radio.split] ELSE o

\* leave the radio unkeyed and simplex if it was online, ignoring errors
shutdown_radio(o, Y) ==
    LET p == do_post_ptt(do_ptt(o, FALSE, Y), FALSE)
        q == do_post_tx_frequency(do_tx_frequency(p, 0, TRUE, Y), 0)
        r == IF p.thrown \/ ~p.requested.split THEN p
             ELSE IF q.thrown THEN q ELSE update_split(q, FALSE)
    IN IF o.requested.online THEN [r EXCEPT !.thrown = FALSE,
                                             !.gave_up = (@ \/ r.thrown) /\ r.radio.split] ELSE o

\* do_stop, which has no effect on the object, comes before do_post_stop
shutdown(o, Y) ==
    LET a == do_post_stop(shutdown_radio(o, Y))
    IN update_complete([a EXCEPT !.actual = NoState, !.requested = NoState], FALSE)

offline(o, Y) ==
    shutdown([o EXCEPT !.emits = Append(@, failure), !.thrown = FALSE], Y)

\* catch (...) {...} if (!message.isEmpty ()) offline (message)
catch_offline(o, Y) == IF o.thrown THEN offline(o, Y) ELSE o

startup(o, X, Y) ==
    LET a == [o EXCEPT !.actual.online = TRUE, !.requested.online = TRUE]
    IN catch_offline(do_post_start(do_start(a, X)), Y)

-----------------------------------------------------------------------------
(* The parts of set. *)

go_online_or_offline(o, s, X, Y) ==
    IF o.requested.online = s.online THEN o
    ELSE IF s.online THEN startup(shutdown(o, Y), X, Y)
    ELSE shutdown(o, Y)

set_ptt(o, on, X) == do_post_ptt(do_ptt(o, on, X), on)

set_frequency(o, s, ptt_off, X) ==
    LET a == IF o.thrown THEN o
             ELSE [o EXCEPT !.requested.frequency = s.frequency, !.requested.mode = s.mode]
        b == do_post_frequency(do_frequency(a, s.frequency, s.mode, ptt_off, X),
                               s.frequency, s.mode)
    IN IF b.thrown THEN b
       ELSE [b EXCEPT !.requested.frequency = b.actual.frequency,
                      !.requested.mode = b.actual.mode]

set_tx_frequency(o, s, ptt_on, X) ==
    LET a == IF o.thrown THEN o
             ELSE [o EXCEPT !.requested.tx_frequency = s.tx_frequency,
                            !.requested.split = s.tx_frequency # 0]
        b == do_post_tx_frequency(do_tx_frequency(a, s.tx_frequency, ptt_on, X),
                                  s.tx_frequency)
    IN IF b.thrown THEN b
       ELSE [b EXCEPT !.requested.tx_frequency = b.actual.tx_frequency,
                      !.requested.split = b.actual.split]

\* a receive QSY, or else a transmit QSY, but never both
set_frequencies(o, s, ptt_on, ptt_off, X) ==
    LET new_mode == s.mode # UNK /\ s.mode # o.requested.mode
    IN IF s.frequency # 0 /\ (s.frequency # o.requested.frequency \/ new_mode)
       THEN set_frequency(o, s, ptt_off, X)
       ELSE IF \/ s.tx_frequency # o.requested.tx_frequency
               \/ new_mode
               \/ s.tx_frequency # 0 /\ ptt_on
       THEN set_tx_frequency(o, s, ptt_on, X)
       ELSE o

\* PTT off comes before and PTT on after the frequencies; an audio command
\* leaves PTT and frequencies alone
apply(o, s, X) ==
    LET ptt_on  == s.ptt /\ ~o.requested.ptt
        ptt_off == ~s.ptt /\ o.requested.ptt
        a == IF ptt_off THEN set_ptt(o, FALSE, X) ELSE o
        b == set_frequencies(a, s, ptt_on, ptt_off, X)
        c == IF ptt_on THEN set_ptt(b, TRUE, X) ELSE b
        d == do_audio(o, s.audio, X)
    IN IF ~o.requested.online THEN o
       ELSE IF o.requested.audio # s.audio
       THEN IF d.thrown THEN d ELSE [d EXCEPT !.requested.audio = s.audio]
       ELSE IF (ptt_on \/ ptt_off) /\ ~c.thrown
       THEN [c EXCEPT !.requested.ptt = c.actual.ptt]
       ELSE c

-----------------------------------------------------------------------------
(* The handlers: X are the calls that fail in the handler proper, Y those  *)
(* that fail in the shutdowns it makes.                                    *)

started(o, n, X, Y) ==
    update_complete(startup(shutdown([o EXCEPT !.number = n], Y), X, Y), TRUE)

\* mutation: the sequence number is recorded after the work is done
Mutant_has_been_set(o, s, n, X, Y) ==
    LET b == apply(go_online_or_offline(o, s, X, Y), s, X)
    IN [catch_offline(update_complete(b, TRUE), Y) EXCEPT !.number = n]

has_been_set(o, s, n, X, Y) ==
    LET a == [o EXCEPT !.number = n]
        b == apply(go_online_or_offline(a, s, X, Y), s, X)
    IN catch_offline(update_complete(b, TRUE), Y)

stopped(o, Y) ==
    [shutdown(o, Y) EXCEPT !.emits = Append(@, finished)]

handle_timeout(o, X, Y) ==
    LET a == do_poll(o, X)
    IN IF a.thrown THEN offline(a, Y) ELSE after_poll(a)

-----------------------------------------------------------------------------
Failures == {{}} \cup {{c} : c \in Throwing}
ShutdownFailures == {F \in Failures : F \subseteq {"ptt", "ptt_late", "tx"}}

Quiet == [object EXCEPT !.emits = <<>>]

\* a fresh object for radio r
Created(r, unkey_failed, gave_up) ==
    [requested |-> NoState, actual |-> NoState, last |-> NoState, number |-> 0,
     next_state |-> NoState, last_signalled |-> NoState, retries |-> 0,
     timer |-> FALSE, tickle_hamlib |-> FALSE, unkey_failed |-> unkey_failed,
     gave_up |-> gave_up, radio |-> r, emits |-> <<>>, thrown |-> FALSE]

Init ==
    /\ \E r \in Radio :
         /\ ~r.ptt /\ ~r.split
         /\ object = Created(r, FALSE, FALSE)
    /\ command = "create"

\* an object is started once, right after it was created
Start(n) ==
    /\ command = "create"
    /\ \E X \in Failures, Y \in ShutdownFailures :
         object' = started(Quiet, n, X, Y)
    /\ command' = "start"

Set(s, n) ==
    /\ command \notin {"create", "stop"}
    /\ \E X \in Failures, Y \in ShutdownFailures :
         object' = has_been_set(Quiet, s, n, X, Y)
    /\ command' = "set"

Stop ==
    /\ command \notin {"create", "stop"}
    /\ \E Y \in ShutdownFailures : object' = stopped(Quiet, Y)
    /\ command' = "stop"

Poll ==
    /\ object.timer
    /\ command' = "poll"
    /\ \E X \in Failures, Y \in ShutdownFailures :
         object' = handle_timeout(Quiet, X, Y)

\* the operator turns the dial at the radio, or switches to another mode
RadioOperated ==
    /\ command \notin {"create", "stop"}
    /\ \E f \in DialTurns, m \in Modes :
         object' = [Quiet EXCEPT !.radio.frequency = f, !.radio.mode = m]
    /\ command' = "radio"

\* the finished object is destroyed, the client makes another for the radio
Create ==
    /\ command = "stop"
    /\ object' = Created(object.radio, object.unkey_failed, object.gave_up)
    /\ command' = "create"

Next ==
    \/ \E n \in Numbers : Start(n)
    \/ \E n \in Numbers, s \in Requests : Set(s, n)
    \/ Stop
    \/ Poll
    \/ RadioOperated
    \/ Create

Spec == Init /\ [][Next]_vars

-----------------------------------------------------------------------------
(* Properties. *)

Signals == [signal : {"update"}, state : TransceiverState, number : Numbers \cup {0}]
           \cup {failure, finished}

Objects ==
    [requested : TransceiverState, actual : TransceiverState, last : TransceiverState,
     number : Numbers \cup {0}, next_state : TransceiverState,
     last_signalled : TransceiverState, retries : 0 .. polls_to_stabilize,
     timer : BOOLEAN, tickle_hamlib : BOOLEAN, unkey_failed : BOOLEAN,
     gave_up : BOOLEAN, radio : Radio, emits : Seq(Signals), thrown : BOOLEAN]

TypeOK ==
    /\ object \in Objects
    /\ command \in {"create", "start", "set", "stop", "poll", "radio"}

\* A transceiver that went offline, on request or by any failure of any CAT
\* call on the way, leaves the radio keyed only if the radio refused the call
\* to unkey it ("try and ensure PTT isn't left set").
RadioReleased ==
    ~object.requested.online /\ object.radio.ptt => object.unkey_failed

\* A transceiver that went offline leaves the radio in split only if a call to
\* leave split failed or an error cut the shutdown short before it ("try and
\* reset split mode"), also when the request that failed had put the split on
\* record as left.
SplitReleased ==
    ~object.requested.online /\ object.radio.split => object.gave_up

\* The poll timer runs exactly while the transceiver is online: a rig that
\* failed is never polled again and one that is online never goes unwatched.
TimerMatchesOnline == object.timer = object.requested.online

OnlineStates == {s \in TransceiverState : s.online}

\* The transceiver implements what is promised of it: see TransceiverContract.
Contract == INSTANCE TransceiverContract WITH
    Reports <- OnlineStates,
    life <- CASE command = "create" -> "created" [] command = "stop" -> "stopped"
              [] OTHER -> "running",
    online <- object.requested.online,
    number <- object.number,
    emits <- object.emits

\* Every start or set is answered in its handler by an update with its number
\* or by a failure, nothing but the offline state follows a failure, and a stop
\* ends with finished, for every combination of failing CAT calls.
KeepsContract == Contract!Spec

=============================================================================
