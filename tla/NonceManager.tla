---------------------------- MODULE NonceManager ----------------------------
(***************************************************************************)
(* The nonces of the node's wallet on one network: LocalNonceManager       *)
(* (chains/nonce_manager.rs) and its three callers in chains/contract.rs,  *)
(* register, submit_inference and transfer, which all take a nonce, send a *)
(* transaction that carries it and give the nonce back if send() fails.    *)
(*                                                                         *)
(* A caller is a tokio task: the network's worker (transfer, and           *)
(* submit_inference from handle_error), the tasks it spawns to submit a    *)
(* result, or register at start-up.  They interleave at every await.       *)
(*                                                                         *)
(* The EVM node behind the RPC url is not in the repository.  It is        *)
(* modelled by what send() and the account nonce are used for: a set of    *)
(* pending transactions, named by their nonces, mined in nonce order.      *)
(***************************************************************************)
EXTENDS Naturals, Sequences, Functions

CONSTANTS
    Callers,     \* the tasks that send transactions on this network
    Faults,      \* what may go wrong between the node and the chain
    MaxNonce,    \* bound: nonces handed out stay below it (u64::MAX in the code)
    MaxRestarts  \* bound: crashes of the process

\* "refuse":  send() fails and nothing reaches the chain (gas estimation
\*            reverts, the connection is refused, the fee is too low).
\* "timeout": send() fails but the transaction was accepted, or still will be.
\* "evict":   the chain drops a pending transaction.
\* "sever":   the process dies when a transaction in send() has left already.
AllFaults == {"refuse", "timeout", "evict", "sever"}

ASSUME FaultsAssumption == Faults \subseteq AllFaults
ASSUME BoundsAssumption == MaxNonce \in Nat /\ MaxRestarts \in Nat

VARIABLES
    up,        \* register has called initialize_nonce and the process is alive
    nonces,    \* LocalNonceManager.nonces
    unused,    \* LocalNonceManager.unused, front first
    step,      \* where each caller is: between calls, in send(), or in its Err arm
    nonce,     \* the local variable nonce of each caller (0 between calls)
    first,     \* history: what initialize_nonce stored
    sent,      \* history: the nonces whose send() returned Ok in this run
    mined,     \* chain: the account's transaction count in the latest block
    pool,      \* chain: the nonces of pending transactions
    wire,      \* transactions a failed send() left on their way to the chain
    dropped,   \* history: the nonces of transactions the chain dropped
    astray,    \* history: the nonces of transactions sent behind the manager's back
    restarts

manager == <<up, nonces, unused, first, sent>>
callers == <<step, nonce>>
chain   == <<mined, pool, wire, dropped>>
vars    == <<manager, callers, chain, astray, restarts>>

Held     == {nonce[c] : c \in {d \in Callers : step[d] # "idle"}}
Returned == Range(unused)
Flying   == {nonce[c] : c \in {d \in Callers : step[d] = "sending"}}

Init ==
    /\ up = FALSE
    /\ nonces = 0
    /\ unused = << >>
    /\ step = [c \in Callers |-> "idle"]
    /\ nonce = [c \in Callers |-> 0]
    /\ first = 0
    /\ sent = {}
    /\ mined = 0
    /\ pool = {}
    /\ wire = {}
    /\ dropped = {}
    /\ astray = {}
    /\ restarts = 0

-----------------------------------------------------------------------------
(* The process. *)

\* Node::register reads the account's count in the latest block, pending
\* transactions not counted, and stores it before anything is sent.
initialize_nonce ==
    /\ ~up
    /\ up' = TRUE
    /\ nonces' = mined
    /\ first' = mined
    /\ astray' = pool \cup wire
    /\ UNCHANGED <<unused, sent, callers, chain, restarts>>

\* Mutants: load and no add; a queue that is not looked at.
NextFreshLoad(c) ==
    /\ unused = << >> /\ nonces < MaxNonce
    /\ nonce' = [nonce EXCEPT ![c] = nonces]
    /\ UNCHANGED <<nonces, unused>>
NextFreshAlways(c) ==
    /\ nonces < MaxNonce
    /\ nonces' = nonces + 1
    /\ nonce' = [nonce EXCEPT ![c] = nonces]
    /\ UNCHANGED unused

\* The unused queue empty: fetch_add.
NextFresh(c) ==
    /\ unused = << >>
    /\ nonces < MaxNonce
    /\ nonces' = nonces + 1
    /\ nonce' = [nonce EXCEPT ![c] = nonces]
    /\ UNCHANGED unused

\* Mutant: peek instead of remove.
NextUnusedPeek(c) ==
    /\ unused # << >>
    /\ nonce' = [nonce EXCEPT ![c] = Head(unused)]
    /\ UNCHANGED <<nonces, unused>>

\* Otherwise the oldest returned nonce.
NextUnused(c) ==
    /\ unused # << >>
    /\ unused' = Tail(unused)
    /\ nonce' = [nonce EXCEPT ![c] = Head(unused)]
    /\ UNCHANGED nonces

\* get_nonce: both branches run under the queue's mutex.
next(c) ==
    /\ up
    /\ step[c] = "idle"
    /\ NextFresh(c) \/ NextUnused(c)
    /\ step' = [step EXCEPT ![c] = "sending"]
    /\ UNCHANGED <<up, first, sent, chain, astray, restarts>>

\* send() returned Ok: the transaction is pending.  The nonce of a pending
\* transaction may be accepted too: the new one replaces the old.  The
\* PendingTransaction is dropped, so the caller never learns what became of it.
SendOk(c) ==
    /\ step[c] = "sending"
    /\ nonce[c] >= mined
    /\ pool' = pool \cup {nonce[c]}
    /\ dropped' = dropped \ {nonce[c]}
    /\ sent' = sent \cup {nonce[c]}
    /\ step' = [step EXCEPT ![c] = "idle"]
    /\ nonce' = [nonce EXCEPT ![c] = 0]
    /\ UNCHANGED <<up, nonces, unused, first, mined, wire, astray, restarts>>

\* Mutant: the Err arm returns before unuse_nonce.
SendRefusedForgets(c) ==
    /\ step[c] = "sending"
    /\ nonce[c] < mined \/ nonce[c] \in pool \/ "refuse" \in Faults
    /\ step' = [step EXCEPT ![c] = "idle"]
    /\ nonce' = [nonce EXCEPT ![c] = 0]
    /\ UNCHANGED <<manager, chain, astray, restarts>>

\* send() returned Err and nothing was accepted: always possible for a nonce
\* that is spent or pending, else one of the faults.
SendRefused(c) ==
    /\ step[c] = "sending"
    /\ nonce[c] < mined \/ nonce[c] \in pool \/ "refuse" \in Faults
    /\ step' = [step EXCEPT ![c] = "failed"]
    /\ UNCHANGED <<manager, nonce, chain, astray, restarts>>

\* send() returned Err although the transaction is on its way.
SendTimeout(c) ==
    /\ step[c] = "sending"
    /\ "timeout" \in Faults
    /\ wire' = wire \cup {nonce[c]}
    /\ astray' = astray \cup {nonce[c]}
    /\ step' = [step EXCEPT ![c] = "failed"]
    /\ UNCHANGED <<manager, nonce, mined, pool, dropped, restarts>>

\* unuse_nonce, in the Err arm of every caller.
save_unused(c) ==
    /\ step[c] = "failed"
    /\ unused' = Append(unused, nonce[c])
    /\ step' = [step EXCEPT ![c] = "idle"]
    /\ nonce' = [nonce EXCEPT ![c] = 0]
    /\ UNCHANGED <<up, nonces, first, sent, chain, astray, restarts>>

\* The process dies: the manager is in memory only.  A transaction in send() has
\* not left, or with fault "sever" may have.
Crash ==
    /\ up
    /\ restarts < MaxRestarts
    /\ restarts' = restarts + 1
    /\ up' = FALSE
    /\ nonces' = 0
    /\ unused' = << >>
    /\ first' = 0
    /\ sent' = {}
    /\ step' = [c \in Callers |-> "idle"]
    /\ nonce' = [c \in Callers |-> 0]
    /\ \E S \in SUBSET (IF "sever" \in Faults THEN Flying ELSE {}) : wire' = wire \cup S
    /\ UNCHANGED <<mined, pool, dropped, astray>>

-----------------------------------------------------------------------------
(* The chain (external). *)

LateArrival(n) ==
    /\ n \in wire
    /\ wire' = wire \ {n}
    /\ pool' = IF n >= mined THEN pool \cup {n} ELSE pool
    /\ dropped' = dropped \ {n}
    /\ UNCHANGED <<manager, callers, mined, astray, restarts>>

Mine ==
    /\ mined \in pool
    /\ mined' = mined + 1
    /\ pool' = pool \ {mined}
    /\ UNCHANGED <<manager, callers, wire, dropped, astray, restarts>>

Evict(n) ==
    /\ "evict" \in Faults
    /\ n \in pool
    /\ pool' = pool \ {n}
    /\ dropped' = dropped \cup {n}
    /\ UNCHANGED <<manager, callers, mined, wire, astray, restarts>>

Next ==
    \/ initialize_nonce
    \/ Crash
    \/ Mine
    \/ \E n \in wire : LateArrival(n)
    \/ \E n \in pool : Evict(n)
    \/ \E c \in Callers :
        next(c) \/ SendOk(c) \/ SendRefused(c) \/ SendTimeout(c) \/ save_unused(c)

Spec == Init /\ [][Next]_vars

\* Requests keep coming (next is fair: bounded demand, as nonces < MaxNonce),
\* a tokio task that can run does, the chain mines what it can, and send()
\* does not fail for ever.
Fairness ==
    /\ WF_vars(initialize_nonce)
    /\ WF_vars(Mine)
    /\ \A c \in Callers :
        WF_vars(next(c)) /\ SF_vars(SendOk(c)) /\ WF_vars(save_unused(c))

FairSpec == Spec /\ Fairness

-----------------------------------------------------------------------------
(* Properties. *)

\* The type of every variable.
TypeOK ==
    /\ up \in BOOLEAN
    /\ nonces \in Nat
    /\ unused \in Seq(Nat)
    /\ step \in [Callers -> {"idle", "sending", "failed"}]
    /\ nonce \in [Callers -> Nat]
    /\ first \in Nat
    /\ sent \subseteq Nat
    /\ mined \in Nat
    /\ pool \subseteq Nat
    /\ wire \subseteq Nat
    /\ dropped \subseteq Nat
    /\ astray \subseteq Nat
    /\ restarts \in Nat

\* No nonce is in two hands: two tasks never work with the same one, the queue
\* never holds one twice, and one in use is neither queued nor known as sent.
\* It is what the mutex of next and save_unused is for.
Exclusive ==
    /\ \A c, d \in Callers :
        step[c] # "idle" /\ step[d] # "idle" /\ nonce[c] = nonce[d] => c = d
    /\ IsInjective(unused)
    /\ Held \cap Returned = {}
    /\ sent \cap (Held \cup Returned) = {}

\* No nonce is lost: each one handed out since initialize_nonce was accepted,
\* is in a caller's hands or waits in unused.  A nonce lost on some error path
\* would leave a gap that blocks every later transaction of the wallet.
Conserved == up => first .. (nonces - 1) = Held \cup Returned \cup sent

\* A gap below a pending transaction is never the manager's doing: the missing
\* nonce is still to be handed out, in a caller's hands or in unused, or the
\* chain dropped its transaction.  Else the wallet would be blocked for good.
NoOrphanGap ==
    up => \A n \in pool : \A k \in mined .. n :
        k \in pool \cup Held \cup Returned \cup dropped \/ k >= nonces

\* next "Returns the next nonce to be used" (nonce_manager.rs:29): a nonce
\* taken from the manager is neither mined nor pending.
NextIsUnspent ==
    \A c \in Callers :
        step[c] = "sending" => nonce[c] >= mined /\ nonce[c] \notin pool

\* A nonce is handed out again although it is spent only if the manager was
\* never told of its transaction: the reply to it was lost, or it was pending
\* when initialize_nonce stored the count of the latest block.
OnlyAstrayReused ==
    \A c \in Callers :
        step[c] = "sending" /\ nonce[c] \notin astray
            => nonce[c] >= mined /\ nonce[c] \notin pool

\* The manager behaves as a pool of nonces each of which is in one place only.
Pool == INSTANCE NoncePool WITH
    open <- up, low <- first, fresh <- nonces, free <- Returned,
    taken <- Held, spent <- sent

ImplementsPool == Pool!Spec

\* Every transaction the chain accepted is mined in the end, unless the chain
\* drops one or one goes astray: a gap left by a caller whose send() was refused
\* is filled by the callers after it, in this run of the node or the next.
AcceptedIsMined ==
    \A n \in 0 .. (MaxNonce - 1) : n \in pool ~> n < mined \/ dropped \cup astray # {}
=============================================================================
