-------------------------- MODULE TransceiverContract --------------------------
(***************************************************************************)
(* What a Transceiver object promises the client of its slots and signals, *)
(* whichever sub class it is: the abstraction that TransceiverBase         *)
(* implements and on which Configuration relies.                           *)
(*                                                                         *)
(* Every command is answered, in the same handler, by an update that       *)
(* carries the command's number, or by a failure; after a failure nothing  *)
(* but the offline state is reported; between commands the rig may report  *)
(* a change or fail; a stop is answered by finished.                       *)
(***************************************************************************)
EXTENDS Transceiver

CONSTANTS
    Numbers,       \* command sequence numbers
    Reports        \* the online states that rigs report

VARIABLES
    life,          \* "created", "running" or "stopped"
    online,        \* has the rig open
    number,        \* number of the last command
    emits          \* the signals emitted by the last handler, in order

contractVars == <<life, online, number, emits>>

-----------------------------------------------------------------------------
Init == life = "created" /\ online = FALSE /\ number = 0 /\ emits = <<>>

\* the command n, with the signals that tell it went well or wrong
Reply(n, well, wrong) ==
    /\ number' = n
    /\ \/ online' /\ emits' \in well
       \/ ~online' /\ emits' \in wrong

Start(n) ==
    /\ life = "created" /\ life' = "running"
    /\ Reply(n, Obeyed(Reports, n), NotStarted(n))

Set(n) ==
    /\ life = "running" /\ UNCHANGED life
    /\ \/ online /\ Reply(n, Obeyed(Reports, n), Refused(Reports, n))
       \/ ~online /\ Reply(n, After(n, Obeyed(Reports, n)),
                             After(n, NotStarted(n) \cup Refused(Reports, n)))

Notice ==
    /\ life = "running" /\ online
    /\ UNCHANGED <<life, number>>
    /\ \/ online' /\ emits' \in Obeyed(Reports, number) \cup {<<>>}
       \/ ~online' /\ emits' \in Faults(number)

Stop ==
    /\ life = "running" /\ life' = "stopped"
    /\ ~online' /\ UNCHANGED number
    /\ emits' \in Endings(number)

Create == life = "stopped" /\ life' = "created" /\ online' = FALSE /\ number' = 0 /\ emits' = <<>>

\* nothing happens but that the signals have been delivered
Rest == emits' = <<>> /\ UNCHANGED <<life, online, number>>

Next == Rest \/ Create \/ Stop \/ Notice \/ \E n \in Numbers : Start(n) \/ Set(n)

Spec == Init /\ [][Next]_contractVars

=============================================================================
