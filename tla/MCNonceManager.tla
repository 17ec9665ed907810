--------------------------- MODULE MCNonceManager ---------------------------
(* Instances of NonceManager for TLC. *)
EXTENDS NonceManager

NoFaults == {}
=============================================================================
