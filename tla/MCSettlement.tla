---------------------------- MODULE MCSettlement ----------------------------
(* Instances of Settlement for TLC: call 1 is a transfer. *)
EXTENDS Settlement

MCKind == [c \in Calls |-> IF c = 1 THEN "transfer" ELSE "chat"]
=============================================================================
