--------------------------- MODULE MCGcpAttestation ---------------------------
(* A small instance of GcpAttestation: the expected image, a later build of it
   and another one. *)
EXTENDS GcpAttestation, TLC

CONSTANTS c1, c2

Golden0 == [reference |-> "0.1.0", digest |-> "d1"]
MCImages == {Golden0, [reference |-> "0.1.0", digest |-> "d2"],
             [reference |-> "0.2.0", digest |-> "d1"]}
=============================================================================
