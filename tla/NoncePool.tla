------------------------------ MODULE NoncePool ------------------------------
(***************************************************************************)
(* What a nonce manager promises to the transactions of one wallet on one  *)
(* network, however it keeps its nonces: every nonce from low on is        *)
(* unborn, in one borrower's hands, given back, or spent, a new one is     *)
(* born only when none is given back, and none ever disappears.            *)
(***************************************************************************)
EXTENDS Naturals

VARIABLES
    open,   \* whether nonces may be taken
    low,    \* the nonce the pool was opened with
    fresh,  \* the next nonce to be born
    free,   \* nonces given back
    taken,  \* nonces in somebody's hands
    spent   \* nonces of accepted transactions

vars == <<open, low, fresh, free, taken, spent>>

Init ==
    /\ open = FALSE
    /\ low = 0
    /\ fresh = 0
    /\ free = {}
    /\ taken = {}
    /\ spent = {}

Open ==
    /\ ~open
    /\ open' = TRUE
    /\ fresh' \in Nat
    /\ low' = fresh'
    /\ UNCHANGED <<free, taken, spent>>

TakeFresh ==
    /\ open
    /\ free = {}
    /\ taken' = taken \cup {fresh}
    /\ fresh' = fresh + 1
    /\ UNCHANGED <<open, low, free, spent>>

TakeFree(n) ==
    /\ open
    /\ n \in free
    /\ free' = free \ {n}
    /\ taken' = taken \cup {n}
    /\ UNCHANGED <<open, low, fresh, spent>>

GiveBack(n) ==
    /\ n \in taken
    /\ taken' = taken \ {n}
    /\ free' = free \cup {n}
    /\ UNCHANGED <<open, low, fresh, spent>>

Spend(n) ==
    /\ n \in taken
    /\ taken' = taken \ {n}
    /\ spent' = spent \cup {n}
    /\ UNCHANGED <<open, low, fresh, free>>

\* The owner dies and the pool with it.
Close ==
    /\ open
    /\ open' = FALSE
    /\ low' = 0
    /\ fresh' = 0
    /\ free' = {}
    /\ taken' = {}
    /\ spent' = {}

Next ==
    \/ Open
    \/ TakeFresh
    \/ \E n \in free : TakeFree(n)
    \/ \E n \in taken : GiveBack(n) \/ Spend(n)
    \/ Close

Spec == Init /\ [][Next]_vars
=============================================================================
