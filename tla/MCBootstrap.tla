---------------------------- MODULE MCBootstrap ----------------------------
(* Instances of Bootstrap for TLC: a second network is listed, then named. *)
EXTENDS Bootstrap

MCWanted == [v \in 0 .. Last |-> IF v = 0 THEN {"aizel"} ELSE {"aizel", "avax"}]
MCListed == [w \in 0 .. LastList |-> IF w = 0 THEN {"aizel"} ELSE {"aizel", "avax"}]
=============================================================================
