--------------------------- MODULE MCLlamaServer ---------------------------
(* Instances of LlamaServer for TLC. *)
EXTENDS LlamaServer

CONSTANTS m1, m2, m3
=============================================================================
