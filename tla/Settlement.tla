----------------------------- MODULE Settlement -----------------------------
(***************************************************************************)
(* AizelServer and NonceManager on one network: what becomes on the chain  *)
(* of the transfers and verdicts that the worker and the submission tasks  *)
(* send.  In AizelServer to send is one step, in NonceManager a            *)
(* transaction is its nonce; here a call that reaches Contract::transfer   *)
(* or submit_inference takes a nonce, awaits send() and, if it fails,      *)
(* gives the nonce back before its worker or task goes on, while others    *)
(* take and return nonces; the account keeps which transaction each nonce  *)
(* carries.  A call is in one place at a time, so it is itself the caller. *)
(***************************************************************************)
EXTENDS Naturals, Sequences, Functions

CONSTANTS
    net,           \* the network
    Calls, Kind, Capacity, WithinTee,  \* as in AizelServer
    ServerFaults,  \* the calls to other services that may fail
    ChainFaults,   \* what may go wrong between the node and the chain
    MaxNonce       \* bound: nonces handed out stay below it

ASSUME KindAssumption == Kind \in [Calls -> {"chat", "transfer", "ml"}]
ASSUME CapacityAssumption == Capacity \in Nat \ {0}
ASSUME TeeAssumption == WithinTee \in BOOLEAN
ASSUME MaxNonceAssumption == MaxNonce \in Nat

VARIABLES
    rpc, queue, worker, job, task, gate, chain, end,  \* AizelServer
    up, nonces, unused, step, nonce, dropped, astray, \* NonceManager
    ledger,    \* the account's mined transactions, by nonce (the first is 0)
    pending,   \* the account's pending transactions: nonce -> transaction
    wired,     \* <<nonce, transaction>> a failed send() left on their way
    told,      \* history: those whose send() returned Ok
    lost,      \* history: those whose send() failed although they left
    recycled   \* history: the nonces that were given back

S == INSTANCE AizelServer WITH
    Networks <- {net}, NetworkOf <- [c \in Calls |-> net], BadKey <- {},
    Faults <- {net} \X (ServerFaults \cup {"refuse", "lost"})

N == INSTANCE NonceManager WITH
    Callers <- Calls, Faults <- ChainFaults, MaxRestarts <- 0, restarts <- 0,
    first <- 0, sent <- {t[1] : t \in told},
    mined <- Len(ledger), pool <- DOMAIN pending, wire <- {w[1] : w \in wired}

ASSUME FaultsAssumption ==
    ServerFaults \subseteq S!FaultNames /\ ChainFaults \subseteq N!AllFaults

server  == <<rpc, queue, worker, job, task, gate, chain, end>>
manager == <<up, nonces, unused, step, nonce, recycled>>
account == <<ledger, pending, wired, dropped, astray, told, lost>>
vars    == <<server, manager, account>>

Init ==
    /\ ledger = << >> /\ pending = << >> /\ wired = {}
    /\ told = {} /\ lost = {} /\ recycled = {}
    /\ S!Init
    /\ N!Init

-----------------------------------------------------------------------------
(* Steps that send nothing.                                                *)

Register ==
    /\ UNCHANGED <<server, ledger, pending, wired, told, lost, recycled>>
    /\ N!initialize_nonce

\* The gRPC server listens after register.
Handle(c) ==
    /\ up
    /\ S!Handle(c)
    /\ UNCHANGED <<manager, account>>

Idle == \A c \in Calls : job[net] = <<c>> => step[c] = "idle"

Work ==
    /\ \/ S!Start(net) \/ S!Recv(net)
       \/ Idle /\ S!Die(net)
       \/ \E c \in Calls :
            \/ S!QueryModel(net, c) \/ S!RunModel(net, c) \/ S!GetInput(net, c)
            \/ S!Infer(net, c) \/ S!Report(net, c)
            \/ S!HandleError(net, c) \/ S!UploadError(net, c)
    /\ UNCHANGED <<manager, account>>

Upload(c) == S!UploadOutput(c) /\ UNCHANGED <<manager, account>>

-----------------------------------------------------------------------------
(* Contract::transfer and Contract::submit_inference.                      *)

\* What call c is at sending, in the worker's hands or in its task.
Transaction(c) ==
    CASE S!At(net, c, "transfer") -> <<c, "transfer">>
      [] S!At(net, c, "submit")   -> <<c, "error">>
      [] OTHER                    -> <<c, "output">>

Sends(c) ==
    S!At(net, c, "transfer") \/ S!At(net, c, "submit") \/ task[c] = "submit"

\* The caller goes on: its transaction was sent or not, and it was told so or not.
Ends(c, sent, ok) ==
    /\ S!Transfer(net, c) \/ S!SubmitError(net, c) \/ S!SubmitOutput(c)
    /\ chain' = IF sent THEN Append(chain, Transaction(c)) ELSE chain
    /\ worker[net] = "transfer" /\ job[net] = <<c>> =>
        worker'[net] = IF ok THEN "report" ELSE "handle_error"

Carry(n, t) ==
    [m \in DOMAIN pending \cup {n} |-> IF m = n THEN t ELSE pending[m]]

TakeNonce(c) ==
    /\ Sends(c)
    /\ UNCHANGED <<server, account, recycled>>
    /\ N!next(c)

SendOk(c) ==
    /\ step[c] = "sending"
    /\ pending' = Carry(nonce[c], Transaction(c))
    /\ told' = told \cup {<<nonce[c], Transaction(c)>>}
    /\ UNCHANGED <<ledger, wired, lost, recycled>>
    /\ N!SendOk(c)
    /\ Ends(c, TRUE, TRUE)

SendRefused(c) ==
    /\ UNCHANGED <<server, account, recycled>>
    /\ N!SendRefused(c)

SendTimeout(c) ==
    /\ step[c] = "sending"
    /\ wired' = wired \cup {<<nonce[c], Transaction(c)>>}
    /\ lost' = lost \cup {<<nonce[c], Transaction(c)>>}
    /\ UNCHANGED <<server, ledger, pending, told, recycled>>
    /\ N!SendTimeout(c)

\* Mutant: a send that failed is tried again.
GiveBackRetries(c) ==
    /\ step[c] = "failed"
    /\ recycled' = recycled \cup {nonce[c]}
    /\ UNCHANGED <<server, ledger, pending, wired, told, lost>>
    /\ N!save_unused(c)

\* unuse_nonce, then the Err of send() reaches the worker or the task.
GiveBack(c) ==
    /\ step[c] = "failed"
    /\ recycled' = recycled \cup {nonce[c]}
    /\ UNCHANGED <<ledger, pending, wired, told, lost>>
    /\ N!save_unused(c)
    /\ Ends(c, <<nonce[c], Transaction(c)>> \in lost, FALSE)

-----------------------------------------------------------------------------
(* The chain (external).  Of several transactions on their way under one   *)
(* nonce at most one comes to be pending; it may replace the one that is.  *)

Arrive(n, t) ==
    /\ wired' = {w \in wired : w[1] # n}
    /\ \/ n >= Len(ledger) /\ pending' = Carry(n, t)
       \/ (n < Len(ledger) \/ n \in DOMAIN pending) /\ UNCHANGED pending
    /\ UNCHANGED <<server, manager, ledger, told, lost>>
    /\ N!LateArrival(n)

Mine ==
    /\ Len(ledger) \in DOMAIN pending
    /\ ledger' = Append(ledger, pending[Len(ledger)])
    /\ pending' = Restrict(pending, DOMAIN pending \ {Len(ledger)})
    /\ UNCHANGED <<server, manager, wired, told, lost>>
    /\ N!Mine

Evict(n) ==
    /\ pending' = Restrict(pending, DOMAIN pending \ {n})
    /\ UNCHANGED <<server, manager, ledger, wired, told, lost>>
    /\ N!Evict(n)

Next ==
    \/ Register \/ Work \/ Mine
    \/ \E c \in Calls :
        \/ Handle(c) \/ Upload(c)
        \/ TakeNonce(c) \/ SendOk(c) \/ SendRefused(c) \/ SendTimeout(c) \/ GiveBack(c)
    \/ \E w \in wired : Arrive(w[1], w[2])
    \/ \E n \in DOMAIN pending : Evict(n)

Spec == Init /\ [][Next]_vars

\* tokio runs what is ready, every call out of the node ends, the chain mines
\* what it can, and send() does not fail for ever.
Fairness ==
    /\ WF_vars(Register) /\ WF_vars(Work) /\ WF_vars(Mine)
    /\ \A c \in Calls :
        /\ SF_vars(Handle(c)) /\ WF_vars(Upload(c))
        /\ WF_vars(TakeNonce(c)) /\ SF_vars(SendOk(c)) /\ WF_vars(GiveBack(c))

FairSpec == Spec /\ Fairness

-----------------------------------------------------------------------------
(* Properties.                                                             *)

\* The type of every variable of its own.
TypeOK ==
    /\ ledger \in Seq(S!Transactions)
    /\ DOMAIN pending \subseteq 0 .. (MaxNonce - 1)
    /\ Range(pending) \subseteq S!Transactions
    /\ \A h \in {wired, told, lost} : h \subseteq (0 .. (MaxNonce - 1)) \X S!Transactions
    /\ recycled \subseteq 0 .. (MaxNonce - 1)

Mined(t) == t \in Range(ledger)

\* The transaction that the account holds under nonce n.
Holds(n, t) ==
    \/ n < Len(ledger) /\ ledger[n + 1] = t
    \/ n \in DOMAIN pending /\ pending[n] = t

\* Nonces the chain, not the node, decided about: it dropped their transaction,
\* or a send() under them failed although the transaction left.
Loose == dropped \cup astray

\* A transaction whose send() returned Ok stays in the account under its nonce: no
\* other call's transaction ever takes its place, unless its nonce is loose.
AcceptedKept == \A t \in told : t[1] \in Loose \/ Holds(t[1], t[2])

\* The account never mines a transfer twice, nor two verdicts of one call, however
\* often nonces were given back and sent again.
SettledOnce ==
    \A i, j \in DOMAIN ledger :
        i # j /\ ledger[i][1] = ledger[j][1]
            => "transfer" \in {ledger[i][2], ledger[j][2]} /\ ledger[i] # ledger[j]

\* A mined output of a transfer is backed by the transfer: that is mined before
\* it, or the nonce of one of the two is out of order, given back or loose.
OutputBacked ==
    \A i \in DOMAIN ledger :
        LET c == ledger[i][1] IN
        ledger[i][2] = "output" /\ Kind[c] = "transfer" =>
            \/ \E j \in 1 .. (i - 1) : ledger[j] = <<c, "transfer">>
            \/ (i - 1) \in recycled
            \/ \E t \in told : t[2] = <<c, "transfer">> /\ t[1] \in Loose

\* "failed to transfer token" (contract.rs:385): a request whose mined verdict is
\* an error has moved no token.
ErrorMovedNothing ==
    \A c \in Calls : ~(Mined(<<c, "transfer">>) /\ Mined(<<c, "error">>))

\* Unless a nonce that was given back waits for ever, or one is loose, nothing stays
\* pending: all that the node was told is accepted is mined in the end.
Settles ==
    []<>(unused = << >>) /\ [](Loose = {}) => <>[](DOMAIN pending = {})
=============================================================================
