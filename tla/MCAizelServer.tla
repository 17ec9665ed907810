--------------------------- MODULE MCAizelServer ---------------------------
(* Instances of AizelServer for TLC: networks n1 to n3, calls 1 to 5. *)
EXTENDS AizelServer, TLC

CONSTANTS n1, n2, n3

MCNetworkOf ==
    [c \in Calls |-> IF c \in {1, 2, 3} THEN n1 ELSE IF c = 4 THEN n2 ELSE n3]
MCKind ==
    [c \in Calls |-> IF c \in {1, 4} THEN "transfer" ELSE IF c = 3 THEN "ml" ELSE "chat"]
LiveKind == [c \in Calls |-> IF c \in {1, 5} THEN "transfer" ELSE "chat"]
Call2  == {2}

AllFaults  == Networks \X FaultNames
\* n1 may fail in every way but the one that n2 may: to wait for ever.
FaultsApart == ({n1} \X (FaultNames \ {"hang"})) \cup {<<n2, "hang">>}
=============================================================================
