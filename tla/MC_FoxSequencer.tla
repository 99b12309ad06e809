-------------------------- MODULE MC_FoxSequencer --------------------------
(* FoxSequencer with Hounds that are numbers and bands that are alike, for TLC. *)
EXTENDS FoxSequencer
HoundCalls == {1, 2}
Alike == Permutations(Bands)
=============================================================================
