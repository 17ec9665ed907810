----------------------------- MODULE MCMlServer -----------------------------
(* Instances of MlServer for TLC. *)
EXTENDS MlServer

CONSTANTS m1, m2, m3
=============================================================================
