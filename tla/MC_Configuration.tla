---------------------------- MODULE MC_Configuration ----------------------------
(* A small station: one or two dial frequencies, rigs that report any state in mcReports. *)
EXTENDS Configuration
mcReports == {[NoState EXCEPT !.online = TRUE, !.frequency = f] : f \in Frequencies}
=============================================================================
