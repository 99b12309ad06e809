----------------------------- MODULE MC_WSPRNet -----------------------------
(* WSPRNet with everything that may go wrong, for TLC. *)
EXTENDS WSPRNet
Everything == AllFaults
=============================================================================
