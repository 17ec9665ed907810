--------------------------- MODULE MCTdxAttestation ---------------------------
(* A small instance of TdxAttestation. *)
EXTENDS TdxAttestation

CONSTANTS c1, c2
=============================================================================
