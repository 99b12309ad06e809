------------------------------ MODULE MC_TxSequencer ------------------------------
(* A slot of a few units, a few clicks. *)
EXTENDS TxSequencer
=============================================================================
