--------------------------- MODULE PollingTransceiver ---------------------------
(***************************************************************************)
(* PollingTransceiver: the layer that polls the rig on a timer and gives   *)
(* it polls_to_stabilize polls to reach a requested state before a change  *)
(* is signalled.                                                           *)
(*                                                                         *)
(* next_state is the state the requests lead one to expect, retries the    *)
(* polls left to wait for it, last_signalled the state last signalled from *)
(* a poll, timer whether the poll timer runs.  None of them but the timer  *)
(* is reset when the rig is stopped.                                       *)
(***************************************************************************)
EXTENDS HamlibTransceiver

polls_to_stabilize == 3

expect(o, next) == [o EXCEPT !.next_state = next, !.retries = polls_to_stabilize]

do_post_start(o) ==
    LET a == [o EXCEPT !.timer = TRUE]
    IN CASE o.thrown -> o
         [] ~o.thrown /\ o.next_state.online -> a
         [] OTHER -> expect(a, [o.next_state EXCEPT !.online = TRUE])

\* mutation: the timer is left running
Mutant_do_post_stop(o) == o

do_post_stop(o) == IF o.thrown THEN o ELSE [o EXCEPT !.timer = FALSE]

do_post_frequency(o, f, m) ==
    IF o.thrown \/ (o.next_state.frequency = f /\ (m = UNK \/ o.next_state.mode = m))
    THEN o
    ELSE expect(o, [o.next_state EXCEPT !.frequency = f, !.mode = IF m = UNK THEN @ ELSE m])

do_post_tx_frequency(o, f) ==
    IF o.thrown \/ o.next_state.tx_frequency = f
    THEN o
    ELSE expect(o, [o.next_state EXCEPT !.tx_frequency = f, !.split = f # 0])

do_post_ptt(o, p) ==
    IF o.thrown \/ o.next_state.ptt = p
    THEN o
    ELSE expect(o, [o.next_state EXCEPT !.ptt = p])

\* withhold the signal while a change is awaited
do_pre_update(o) == o.retries = 0 \/ o.actual = o.next_state

update_complete(o, force) ==
    IF force \/ (do_pre_update(o) /\ o.actual # o.last)
    THEN [o EXCEPT !.emits = Append(@, update(o.actual, o.number)), !.last = o.actual]
    ELSE o

\* mutation: retries_ (unsigned) is decremented without looking at it
Mutant_after_poll_wraps(o) == [o EXCEPT !.retries = o.retries - 1]

\* mutation: the polls are not counted down
Mutant_after_poll_waits(o) ==
    IF o.retries # 0 /\ o.actual # o.next_state THEN o
    ELSE update_complete([o EXCEPT !.retries = 0, !.next_state = o.actual,
                                   !.last_signalled = o.actual], TRUE)

\* the body of handle_timeout once do_poll has returned
after_poll(o) ==
    LET left == IF o.retries = 0 THEN 0 ELSE o.retries - 1
        force == IF o.retries # 0
                 THEN o.actual = o.next_state \/ left = 0
                 ELSE o.actual # o.last_signalled
    IN IF force
       THEN update_complete([o EXCEPT !.retries = 0, !.next_state = o.actual,
                                      !.last_signalled = o.actual], TRUE)
       ELSE [o EXCEPT !.retries = left]

=============================================================================
