-------------------------- MODULE SettlementProofs --------------------------
(***************************************************************************)
(* Proofs about Settlement: what is proved of AizelServer and of           *)
(* NonceManager holds of their composition, and from it what becomes of    *)
(* the transactions in the account, for any calls, faults and bounds.      *)
(***************************************************************************)
EXTENDS Settlement, SequenceTheorems, TLAPS

SP == INSTANCE AizelServerProofs WITH
    Networks <- {net}, NetworkOf <- [c \in Calls |-> net], BadKey <- {},
    onChain <- [n \in {net} |-> chain],
    Faults <- {net} \X (ServerFaults \cup {"refuse", "lost"})

NP == INSTANCE NonceManagerProofs WITH
    Callers <- Calls, Faults <- ChainFaults, MaxRestarts <- 0, restarts <- 0,
    first <- 0, sent <- {t[1] : t \in told},
    mined <- Len(ledger), pool <- DOMAIN pending, wire <- {w[1] : w \in wired}

-----------------------------------------------------------------------------
(* The composition implements both of its components.                      *)

\* A call's step in send(), and what the worker or its task then does, is one
\* of the server's steps.
LEMMA EndsIsServer ==
    ASSUME NEW c \in Calls, NEW sent, NEW ok, Ends(c, sent, ok)
    PROVE  S!Next
BY DEF Ends, S!Next, S!Work, S!Submit

\* The steps of the server between its transactions.
LEMMA WorkIsServer ==
    ASSUME Work \/ \E c \in Calls : Handle(c) \/ Upload(c)
    PROVE  S!Next
BY DEF Work, Handle, Upload, S!Next, S!Work, S!Submit

LEMMA ServerStep == [Next]_vars => [S!Next]_(S!vars)
<1> SUFFICES ASSUME [Next]_vars PROVE S!Next \/ UNCHANGED S!vars
  OBVIOUS
<1>1. ASSUME NEW c \in Calls, SendOk(c) \/ GiveBack(c) PROVE S!Next
  <2>1. CASE SendOk(c)
    BY <2>1, EndsIsServer DEF SendOk
  <2>2. CASE GiveBack(c)
    <3>1. Ends(c, <<nonce[c], Transaction(c)>> \in lost, FALSE)
      BY <2>2 DEF GiveBack
    <3> QED BY <3>1, EndsIsServer
  <2> QED BY <1>1, <2>1, <2>2
<1>2. CASE Register \/ Mine
  BY <1>2 DEF Register, Mine, server, S!vars
<1>3. ASSUME NEW c \in Calls, TakeNonce(c) \/ SendRefused(c) \/ SendTimeout(c)
      PROVE  UNCHANGED S!vars
  BY <1>3 DEF TakeNonce, SendRefused, SendTimeout, server, S!vars
<1>4. ASSUME NEW w \in wired, Arrive(w[1], w[2]) PROVE UNCHANGED S!vars
  BY <1>4 DEF Arrive, server, S!vars
<1>5. ASSUME NEW n \in DOMAIN pending, Evict(n) PROVE UNCHANGED S!vars
  BY <1>5 DEF Evict, server, S!vars
<1>6. CASE UNCHANGED vars
  BY <1>6 DEF vars, server, S!vars
<1> QED BY <1>1, <1>2, <1>3, <1>4, <1>5, <1>6, WorkIsServer DEF Next

\* The server's part of every behaviour is one of AizelServer's, on one network:
\* that a transaction takes a nonce and a send() lets it do nothing new.
THEOREM ImplementsServer == Spec => S!Spec
<1>1. Init => S!Init
  BY DEF Init
<1> QED BY <1>1, ServerStep, PTL DEF Spec, S!Spec

\* A step that leaves the manager, its callers and the account alone.
LEMMA ManagerStutter ==
    ASSUME UNCHANGED <<manager, account>>
    PROVE  UNCHANGED N!vars
BY DEF manager, account, N!vars, N!manager, N!callers, N!chain

LEMMA ManagerStep == [Next]_vars => [N!Next]_(N!vars)
<1> SUFFICES ASSUME [Next]_vars PROVE N!Next \/ UNCHANGED N!vars
  OBVIOUS
<1>1. CASE Register \/ Mine
  BY <1>1 DEF Register, Mine, N!Next
<1>2. CASE Work \/ UNCHANGED vars
  BY <1>2, ManagerStutter DEF Work, vars
<1>3. ASSUME NEW c \in Calls, Handle(c) \/ Upload(c) PROVE UNCHANGED N!vars
  BY <1>3, ManagerStutter DEF Handle, Upload
<1>4. ASSUME NEW c \in Calls,
             TakeNonce(c) \/ SendOk(c) \/ SendRefused(c) \/ SendTimeout(c) \/ GiveBack(c)
      PROVE  N!Next
  BY <1>4 DEF TakeNonce, SendOk, SendRefused, SendTimeout, GiveBack, N!Next
<1>5. ASSUME NEW w \in wired, Arrive(w[1], w[2]) PROVE N!Next
  BY <1>5 DEF Arrive, N!Next
<1>6. ASSUME NEW n \in DOMAIN pending, Evict(n) PROVE N!Next
  BY <1>6 DEF Evict, N!Next
<1> QED BY <1>1, <1>2, <1>3, <1>4, <1>5, <1>6 DEF Next

\* The nonces of every behaviour are those of a NonceManager that is not
\* restarted and whose callers are the calls.
THEOREM ImplementsManager == Spec => N!Spec
<1>1. Init => N!Init
  BY DEF Init
<1> QED BY <1>1, ManagerStep, PTL DEF Spec, N!Spec

-----------------------------------------------------------------------------
(* What is proved of the components, of the composition.                   *)

\* AizelServer and the module of its proofs have the same steps.
LEMMA SameServer == S!Spec => SP!Spec
<1> USE DEF S!May, SP!May, S!None, SP!None, S!Goto, SP!Goto, S!At, SP!At,
            S!Leave, SP!Leave, S!Range, SP!Range
<1>1. \A c \in Calls : S!Handle(c) => SP!Handle(c)
  BY Zenon DEF S!Handle, S!Receive, S!Enqueue, S!Reject,
               SP!Handle, SP!Receive, SP!Enqueue, SP!Reject
<1>2. \A c \in Calls : S!Submit(c) => SP!Submit(c)
  BY Zenon DEF S!Submit, S!UploadOutput, S!SubmitOutput,
               SP!Submit, SP!UploadOutput, SP!SubmitOutput
<1>3. \A c \in Calls : S!Panics(net, c) => SP!Panics(net, c)
  BY DEF S!Panics, SP!Panics
<1>4. S!Start(net) \/ S!Recv(net) \/ S!Die(net) => SP!Start(net) \/ SP!Recv(net) \/ SP!Die(net)
  BY Zenon, <1>3 DEF S!Start, SP!Start, S!Recv, SP!Recv, S!Die, SP!Die
<1>5. ASSUME NEW c \in Calls
      PROVE  S!QueryModel(net, c) \/ S!RunModel(net, c) \/ S!GetInput(net, c) \/ S!Infer(net, c)
             => SP!QueryModel(net, c) \/ SP!RunModel(net, c) \/ SP!GetInput(net, c)
                \/ SP!Infer(net, c)
  BY Zenon DEF S!QueryModel, S!RunModel, S!GetInput, S!Infer, S!AskModel, S!AskAgent,
               SP!QueryModel, SP!RunModel, SP!GetInput, SP!Infer, SP!AskModel, SP!AskAgent
<1>6. ASSUME NEW c \in Calls
      PROVE  S!Transfer(net, c) \/ S!Report(net, c) \/ S!HandleError(net, c)
                \/ S!UploadError(net, c) \/ S!SubmitError(net, c)
             => SP!Transfer(net, c) \/ SP!Report(net, c) \/ SP!HandleError(net, c)
                \/ SP!UploadError(net, c) \/ SP!SubmitError(net, c)
  BY Zenon DEF S!Transfer, S!Report, S!HandleError, S!UploadError, S!SubmitError,
               SP!Transfer, SP!Report, SP!HandleError, SP!UploadError, SP!SubmitError
<1>7. S!Next => SP!Next
  BY <1>1, <1>2, <1>4, <1>5, <1>6 DEF S!Next, SP!Next, S!Work, SP!Work
<1>8. S!Init => SP!Init
  BY Zenon DEF S!Init, SP!Init
<1>9. UNCHANGED S!vars => UNCHANGED SP!vars
  BY DEF S!vars, SP!vars
<1> QED BY <1>7, <1>8, <1>9, PTL DEF S!Spec, SP!Spec

\* NonceManager and the module of its proofs have the same steps.
LEMMA SameManager == N!Spec => NP!Spec
<1> USE DEF N!manager, NP!manager, N!callers, NP!callers, N!chain, NP!chain
<1>1. N!Next => NP!Next
  BY Zenon DEF N!Next, N!initialize_nonce, N!Crash, N!Flying, N!Mine, N!LateArrival,
               N!Evict, N!next, N!NextFresh, N!NextUnused, N!SendOk, N!SendRefused,
               N!SendTimeout, N!save_unused,
               NP!Next, NP!initialize_nonce, NP!Crash, NP!Flying, NP!Mine, NP!LateArrival,
               NP!Evict, NP!next, NP!NextFresh, NP!NextUnused, NP!SendOk, NP!SendRefused,
               NP!SendTimeout, NP!save_unused
<1>2. N!Init => NP!Init
  BY Zenon DEF N!Init, NP!Init
<1>3. UNCHANGED N!vars => UNCHANGED NP!vars
  BY DEF N!vars, NP!vars
<1> QED BY <1>1, <1>2, <1>3, PTL DEF N!Spec, NP!Spec

\* The assumptions of both modules hold of what is substituted for their constants.
LEMMA ServerAssumptions ==
    /\ SP!KindAssumption /\ SP!NetworkAssumption /\ SP!BadKeyAssumption
    /\ SP!CapacityAssumption /\ SP!TeeAssumption /\ SP!FaultAssumption
BY KindAssumption, CapacityAssumption, TeeAssumption, FaultsAssumption
DEF SP!KindAssumption, SP!NetworkAssumption, SP!BadKeyAssumption,
    SP!CapacityAssumption, SP!TeeAssumption, SP!FaultAssumption,
    S!FaultNames, SP!FaultNames

LEMMA ManagerAssumptions == NP!FaultsAssumption /\ NP!BoundsAssumption
BY FaultsAssumption, MaxNonceAssumption
DEF NP!FaultsAssumption, NP!AllFaults, N!AllFaults, NP!BoundsAssumption

\* The composition keeps the promises of both: what a call comes to is what
\* CallOutcome allows, and the nonces behave as a NoncePool, although the calls
\* send under nonces that others gave back and the account replaces transactions.
THEOREM KeepsPromises == Spec => SP!ImplementsOutcome /\ NP!ImplementsPool
<1>1. SP!Spec => SP!ImplementsOutcome
  BY ServerAssumptions, SP!ServerImplementsOutcome
<1>2. NP!Spec => NP!ImplementsPool
  BY ManagerAssumptions, NP!ManagerImplementsPool
<1> QED BY <1>1, <1>2, ImplementsServer, ImplementsManager, SameServer, SameManager, PTL

\* What is known of either component, and needed below.
ServerKnown == SP!TypeOK /\ SP!Placed /\ SP!Told
ManagerKnown == NP!Accounted /\ NP!Known

LEMMA AlwaysServerKnown == Spec => []ServerKnown
<1>1. SP!Spec => []SP!TypeOK /\ []SP!Placed /\ []SP!Told
  BY ServerAssumptions, SP!TypeCorrect, SP!AlwaysPlaced, SP!AlwaysTold
<1> QED BY <1>1, ImplementsServer, SameServer, PTL DEF ServerKnown

LEMMA AlwaysManagerKnown == Spec => []ManagerKnown
<1>1. NP!Spec => []NP!Accounted /\ []NP!Known
  BY ManagerAssumptions, NP!AlwaysAccounted, NP!AlwaysKnown
<1> QED BY <1>1, ImplementsManager, SameManager, PTL DEF ManagerKnown

-----------------------------------------------------------------------------
(* What Settlement needs of its components, in its own words.              *)

\* A sequence's range after Append.
LEMMA RangeOfAppend ==
    ASSUME NEW T, NEW s \in Seq(T), NEW n \in T
    PROVE  Range(Append(s, n)) = Range(s) \cup {n}
BY AppendProperties, LenProperties DEF Range

\* A call is in one place: its channel, the worker's hands or its task.
LEMMA OnePlace ==
    ASSUME ServerKnown, NEW c \in Calls
    PROVE  /\ job[net] = <<c>> => task[c] = "none" /\ end[c] = "open"
           /\ task[c] # "none" => end[c] = "open"
           /\ c \in Range(queue[net]) => job[net] # <<c>> /\ task[c] = "none"
BY DEF ServerKnown, SP!Placed, Range, SP!Range

\* What a call sends is one of three transactions of its own.
LEMMA TransactionType ==
    ASSUME NEW c \in Calls
    PROVE  /\ Transaction(c) \in S!Transactions
           /\ Transaction(c) \in {<<c, "transfer">>, <<c, "error">>, <<c, "output">>}
           /\ Transaction(c)[1] = c
BY DEF Transaction, S!Transactions

\* What a call is about to send was not sent before, nor was its verdict.
LEMMA Unsent ==
    ASSUME ServerKnown, NEW c \in Calls, Sends(c)
    PROVE  /\ Transaction(c) \notin Range(chain)
           /\ <<c, "output">> \notin Range(chain)
           /\ <<c, "error">> \notin Range(chain)
<1>1. end[c] = "open"
  BY OnePlace DEF Sends, S!At
<1>2. <<c, "output">> \notin Range(chain) /\ <<c, "error">> \notin Range(chain)
  BY <1>1 DEF ServerKnown, SP!Told, SP!Sent, Range, SP!Range
<1>3. ASSUME S!At(net, c, "transfer") PROVE <<c, "transfer">> \notin Range(chain)
  BY <1>3 DEF ServerKnown, SP!Told, SP!Sent, SP!Before, Range, SP!Range, S!At
<1> QED BY <1>2, <1>3 DEF Transaction

\* A nonce in a caller's hands was handed out by the manager, and no send() under
\* it returned Ok.
LEMMA NonceInHand ==
    ASSUME ManagerKnown, NEW c \in Calls, step[c] # "idle"
    PROVE  /\ up
           /\ nonce[c] \in 0 .. (nonces - 1)
           /\ \A t \in told : t[1] # nonce[c]
<1> USE DEF ManagerKnown, NP!Accounted
<1>1. up
  BY DEF NP!Down
<1>2. nonce[c] \in NP!Held
  BY DEF NP!Held
<1> QED BY <1>1, <1>2 DEF NP!Conserved, NP!Exclusive

\* So were those it knows as sent and those that wait in unused, and a transaction
\* on its way went astray.
LEMMA NoncesKnown ==
    ASSUME ManagerKnown, up
    PROVE  /\ \A t \in told : t[1] \in 0 .. (nonces - 1)
           /\ Range(unused) \subseteq 0 .. (nonces - 1)
           /\ \A w \in wired : w[1] \in astray
<1>1. 0 .. (nonces - 1) = NP!Held \cup NP!Returned \cup {t[1] : t \in told}
  BY DEF ManagerKnown, NP!Accounted, NP!Conserved
<1>2. NP!Returned = Range(unused)
  BY DEF NP!Returned, Range, NP!Range
<1>3. {w[1] : w \in wired} \subseteq astray
  BY DEF ManagerKnown, NP!Known
<1> QED BY <1>1, <1>2, <1>3

\* The types of what the nonce manager and the account hold.
LEMMA ManagerTypes ==
    ASSUME ManagerKnown
    PROVE  /\ up \in BOOLEAN
           /\ nonces \in Nat
           /\ unused \in Seq(Nat)
           /\ step \in [Calls -> {"idle", "sending", "failed"}]
           /\ nonce \in [Calls -> Nat]
           /\ Len(ledger) \in Nat
           /\ DOMAIN pending \subseteq Nat
BY DEF ManagerKnown, NP!Accounted, NP!TypeOK

\* The nonce that next takes from the queue waited there.
LEMMA UnusedHead ==
    ASSUME ManagerKnown, unused # << >>
    PROVE  Head(unused) \in Range(unused) /\ Range(Tail(unused)) \subseteq Range(unused)
<1>1. unused \in Seq(Nat) /\ NP!IsInjective(unused)
  BY DEF ManagerKnown, NP!Accounted, NP!TypeOK, NP!Exclusive
<1> QED BY <1>1, NP!RangeOfTail DEF Range, NP!Range

\* The types of what the server holds, for the one network.
LEMMA ServerTypes ==
    ASSUME ServerKnown
    PROVE  /\ worker \in [{net} -> {"start", "recv", "query", "run", "input", "infer",
                                    "transfer", "report", "handle_error", "upload",
                                    "submit", "dead"}]
           /\ job \in [{net} -> {<< >>} \cup {<<c>> : c \in Calls}]
           /\ job[net] = << >> <=> worker[net] \in {"start", "recv", "dead"}
           /\ task \in [Calls -> {"none", "upload", "submit"}]
           /\ queue[net] \in Seq(Calls)
           /\ chain \in Seq(S!Transactions)
BY DEF ServerKnown, SP!TypeOK, SP!None, SP!Transactions, S!Transactions

-----------------------------------------------------------------------------
(* What the steps do to the calls that are not in them.                    *)

\* The call is at its report, in the worker's hands.
Reports(c) == job[net] = <<c>> /\ worker[net] = "report"

\* The sending of one call ends: the others are where they were.
LEMMA EndsEffect ==
    ASSUME ServerKnown, NEW c \in Calls, NEW sent, NEW ok, Sends(c), Ends(c, sent, ok)
    PROVE  /\ chain' = IF sent THEN Append(chain, Transaction(c)) ELSE chain
           /\ \A d \in Calls : d # c =>
                (Sends(d) => Sends(d)') /\ Transaction(d)' = Transaction(d)
           /\ \A d \in Calls : Reports(d)' =>
                Reports(d) \/ (d = c /\ ok /\ Transaction(c) = <<c, "transfer">>)
           /\ \A d \in Calls : task'[d] # "none" => task[d] # "none"
<1> USE ServerTypes DEF S!At, S!Goto
<1>1. \A d \in Calls : d # c /\ job[net] = <<c>> => job[net] # <<d>>
  OBVIOUS
<1>2. \A d \in Calls : << >> # <<d>>
  OBVIOUS
<1>3. CASE S!Transfer(net, c)
  <2>1. /\ job[net] = <<c>> /\ worker[net] = "transfer" /\ job' = job /\ task' = task
        /\ worker'[net] \in {"report", "handle_error"}
        /\ worker'[net] = "report" => ok
    BY <1>3 DEF S!Transfer, Ends
  <2> QED BY <1>1, <2>1 DEF Ends, Sends, Transaction, Reports
<1>4. CASE S!SubmitError(net, c)
  <2>1. /\ job[net] = <<c>> /\ worker[net] = "submit" /\ task' = task
        /\ job'[net] = << >>
    BY <1>4 DEF S!SubmitError, S!Leave, S!None
  <2> QED BY <1>1, <1>2, <2>1 DEF Ends, Sends, Transaction, Reports
<1>5. CASE S!SubmitOutput(c)
  <2>1. /\ worker' = worker /\ job' = job
        /\ \A d \in Calls : d # c => task'[d] = task[d]
        /\ task'[c] = "none"
    BY <1>5 DEF S!SubmitOutput
  <2> QED BY <2>1 DEF Ends, Sends, Transaction, Reports
<1> QED BY <1>3, <1>4, <1>5 DEF Ends

\* Steps of the server that send nothing: a call within send() is where it was,
\* and a worker comes to a transfer's report only from the transfer.
LEMMA QuietEffect ==
    ASSUME ServerKnown, NEW d \in Calls,
           Work \/ \E c \in Calls : Handle(c) \/ Upload(c)
    PROVE  /\ chain' = chain
           /\ Sends(d) /\ step[d] # "idle" => Sends(d)' /\ Transaction(d)' = Transaction(d)
           /\ Kind[d] = "transfer" /\ Reports(d)' => Reports(d)
           /\ task'[d] # "none" => task[d] # "none" \/ Reports(d)
<1> USE ServerTypes DEF S!At, S!Goto, S!Leave, S!None, Sends, Transaction, Reports
<1>1. ASSUME NEW c \in Calls, Handle(c) \/ Upload(c)
      PROVE  /\ chain' = chain /\ worker' = worker /\ job' = job
             /\ task'[d] = task[d] \/ (task[d] = "upload" /\ task'[d] \in {"none", "submit"})
  BY <1>1 DEF Handle, Upload, S!Handle, S!Receive, S!Enqueue, S!Reject, S!UploadOutput
<1>2. ASSUME NEW c \in Calls, Handle(c) \/ Upload(c), Sends(d), step[d] # "idle"
      PROVE  Sends(d)'
  <2>1. job[net] = <<d>> => task[d] = "none"
    BY OnePlace
  <2> QED BY <1>1, <1>2, <2>1
<1>3. CASE S!Start(net) \/ S!Recv(net) \/ (Idle /\ S!Die(net))
  <2>1. /\ chain' = chain /\ task' = task
        /\ worker'[net] \in {"recv", "query", "dead"}
    BY <1>3 DEF S!Start, S!Recv, S!Die
  <2>2. Sends(d) /\ step[d] # "idle" => task[d] = "submit" /\ Transaction(d) = <<d, "output">>
    <3>1. CASE S!Start(net) \/ S!Recv(net)
      BY <3>1 DEF S!Start, S!Recv
    <3>2. CASE Idle
      BY <3>2 DEF Idle
    <3> QED BY <1>3, <3>1, <3>2
  <2> QED BY <2>1, <2>2
<1>4. ASSUME NEW c \in Calls,
             \/ S!QueryModel(net, c) \/ S!RunModel(net, c) \/ S!GetInput(net, c)
             \/ S!Infer(net, c) \/ S!Report(net, c)
             \/ S!HandleError(net, c) \/ S!UploadError(net, c)
      PROVE  /\ chain' = chain
             /\ Sends(d) => Sends(d)' /\ Transaction(d)' = Transaction(d)
             /\ Kind[d] = "transfer" => ~Reports(d)'
             /\ task'[d] # "none" => task[d] # "none" \/ Reports(d)
  <2>1. /\ chain' = chain
        /\ job[net] = <<c>> /\ worker[net] \notin {"transfer", "submit"}
        /\ job'[net] = <<c>> \/ (job'[net] = << >> /\ worker'[net] = "recv")
        /\ task' = task \/ (task' = [task EXCEPT ![c] = "upload"] /\ Reports(c))
    BY <1>4 DEF S!QueryModel, S!RunModel, S!GetInput, S!Infer, S!AskModel, S!AskAgent,
                S!Report, S!HandleError, S!UploadError
  <2>2. worker'[net] = "report" => Kind[c] # "transfer"
    BY <1>4 DEF S!QueryModel, S!RunModel, S!GetInput, S!Infer, S!AskModel, S!AskAgent,
                S!Report, S!HandleError, S!UploadError
  <2>3. task[c] = "none"
    BY <2>1, OnePlace
  <2>4. Sends(d) => task[d] = "submit" /\ d # c /\ Transaction(d) = <<d, "output">>
    BY <2>1, <2>3
  <2>5. job'[net] = <<d>> => d = c
    BY <2>1
  <2>6. d # c => task'[d] = task[d]
    BY <2>1
  <2> QED BY <2>1, <2>2, <2>4, <2>5, <2>6
<1> QED BY <1>1, <1>2, <1>3, <1>4 DEF Work

-----------------------------------------------------------------------------
(* The inductive invariant, part by part.                                  *)

\* The transactions that left, whether or not their send() returned Ok.
Left == told \cup lost

\* Before register nothing was sent, and the manager hands out no nonce beyond
\* the bound.
Fresh ==
    /\ nonces <= MaxNonce
    /\ ~up => /\ ledger = << >> /\ DOMAIN pending = {} /\ wired = {}
              /\ told = {} /\ lost = {} /\ recycled = {}

\* A call that holds a nonce is still where it sends: no panic, no other step of
\* its worker takes it away in between.
Flight == \A c \in Calls : step[c] # "idle" => Sends(c)

\* What the account holds under a nonce left the node under it, and what is
\* pending is not mined yet.
Traced ==
    /\ \A i \in DOMAIN ledger : <<i - 1, ledger[i]>> \in Left
    /\ \A n \in DOMAIN pending : n >= Len(ledger) /\ <<n, pending[n]>> \in Left
    /\ wired \subseteq lost

\* Every transaction that left is one that the server sent, or one whose failed
\* send() its call has yet to hear of; and it left once, under one nonce.
Once ==
    /\ \A x \in told : x[2] \in Range(chain)
    /\ \A x \in lost :
        \/ x[2] \in Range(chain)
        \/ \E c \in Calls : step[c] = "failed" /\ x = <<nonce[c], Transaction(c)>>
    /\ \A x, y \in Left : x[2] = y[2] => x = y

\* The node was told that the call's transfer is accepted.
Paid(c) == \E x \in told : x[2] = <<c, "transfer">>

\* Of a transfer, an output is submitted only once its transfer was accepted.
PaidFirst ==
    \A c \in Calls : Kind[c] = "transfer" =>
        /\ Reports(c) => Paid(c)
        /\ task[c] # "none" => Paid(c)
        /\ \A y \in Left : y[2] = <<c, "output">> => Paid(c)

\* What is sent after the transfer has a later nonce, or one that was given back.
InOrder ==
    \A x \in told : \A c \in Calls : x[2] = <<c, "transfer">> =>
        /\ step[c] # "idle" => nonce[c] \in recycled \/ nonce[c] > x[1]
        /\ \A y \in Left : y[2] = <<c, "output">> => y[1] \in recycled \/ y[1] > x[1]

\* The three together order an accepted transfer and its output in the account.
Backed == Range(unused) \subseteq recycled /\ PaidFirst /\ InOrder

Known == ServerKnown /\ ManagerKnown

Settled ==
    TypeOK /\ Fresh /\ Flight /\ Traced /\ Once /\ AcceptedKept /\ Backed

LEMMA SettledInit == Init => Settled
<1> SUFFICES ASSUME Init PROVE Settled
  OBVIOUS
<1>1. /\ ledger = << >> /\ pending = << >> /\ wired = {} /\ told = {} /\ lost = {}
      /\ recycled = {} /\ up = FALSE /\ nonces = 0 /\ unused = << >>
      /\ \A c \in Calls : step[c] = "idle" /\ task[c] = "none"
      /\ job[net] = << >>
  BY DEF Init, S!Init, N!Init, S!None
<1>2. DOMAIN << >> = {} /\ Range(<< >>) = {} /\ << >> \in Seq(S!Transactions)
  BY DEF Range
<1>3. TypeOK
  BY <1>1, <1>2 DEF TypeOK
<1>4. \A c \in Calls : << >> # <<c>>
  OBVIOUS
<1> QED
  BY <1>1, <1>2, <1>3, <1>4, MaxNonceAssumption
  DEF Settled, Fresh, Flight, Traced, Left, Once, AcceptedKept, Backed, PaidFirst, InOrder,
      Reports

-----------------------------------------------------------------------------
(* Typing: a nonce in hand is below the bound.                             *)

\* What a call in send() sends: a transaction under a nonce below the bound.
LEMMA LeavesTyped ==
    ASSUME Known, Fresh, NEW c \in Calls, step[c] # "idle"
    PROVE  /\ nonce[c] \in 0 .. (MaxNonce - 1)
           /\ <<nonce[c], Transaction(c)>> \in (0 .. (MaxNonce - 1)) \X S!Transactions
BY NonceInHand, TransactionType, ManagerTypes, MaxNonceAssumption DEF Known, Fresh

LEMMA TypeStep == Known /\ Settled /\ [Next]_vars => TypeOK'
<1> SUFFICES ASSUME Known, Settled, [Next]_vars PROVE TypeOK'
  OBVIOUS
<1> USE DEF TypeOK, Settled
<1>1. CASE Register \/ Work \/ UNCHANGED vars
  BY <1>1 DEF Register, Work, vars, account, manager
<1>2. ASSUME NEW c \in Calls,
             Handle(c) \/ Upload(c) \/ TakeNonce(c) \/ SendRefused(c)
      PROVE  TypeOK'
  BY <1>2 DEF Handle, Upload, TakeNonce, SendRefused, account, manager
<1>3. ASSUME NEW c \in Calls, SendOk(c) PROVE TypeOK'
  <2>1. <<nonce[c], Transaction(c)>> \in (0 .. (MaxNonce - 1)) \X S!Transactions
    BY <1>3, LeavesTyped DEF SendOk
  <2>2. /\ DOMAIN pending' = DOMAIN pending \cup {nonce[c]}
        /\ Range(pending') \subseteq Range(pending) \cup {Transaction(c)}
    BY <1>3 DEF SendOk, Carry, Range
  <2>3. /\ told' = told \cup {<<nonce[c], Transaction(c)>>}
        /\ UNCHANGED <<ledger, wired, lost, recycled>>
    BY <1>3 DEF SendOk
  <2> QED BY <2>1, <2>2, <2>3
<1>4. ASSUME NEW c \in Calls, SendTimeout(c) PROVE TypeOK'
  <2>1. <<nonce[c], Transaction(c)>> \in (0 .. (MaxNonce - 1)) \X S!Transactions
    BY <1>4, LeavesTyped DEF SendTimeout
  <2>2. /\ wired' = wired \cup {<<nonce[c], Transaction(c)>>}
        /\ lost' = lost \cup {<<nonce[c], Transaction(c)>>}
        /\ UNCHANGED <<ledger, pending, told, recycled>>
    BY <1>4 DEF SendTimeout
  <2> QED BY <2>1, <2>2
<1>5. ASSUME NEW c \in Calls, GiveBack(c) PROVE TypeOK'
  <2>1. nonce[c] \in 0 .. (MaxNonce - 1)
    BY <1>5, LeavesTyped DEF GiveBack
  <2> QED BY <1>5, <2>1 DEF GiveBack
<1>6. ASSUME NEW w \in wired, Arrive(w[1], w[2]) PROVE TypeOK'
  <2>1. w[1] \in 0 .. (MaxNonce - 1) /\ w[2] \in S!Transactions
    OBVIOUS
  <2>2. /\ DOMAIN pending' \subseteq DOMAIN pending \cup {w[1]}
        /\ Range(pending') \subseteq Range(pending) \cup {w[2]}
    BY <1>6 DEF Arrive, Carry, Range
  <2>3. wired' \subseteq wired /\ UNCHANGED <<ledger, told, lost, recycled>>
    BY <1>6 DEF Arrive, manager
  <2> QED BY <2>1, <2>2, <2>3
<1>7. CASE Mine
  <2>1. Len(ledger) \in DOMAIN pending /\ pending[Len(ledger)] \in S!Transactions
    BY <1>7 DEF Mine, Range
  <2>2. /\ DOMAIN pending' \subseteq DOMAIN pending
        /\ Range(pending') \subseteq Range(pending)
    BY <1>7 DEF Mine, Restrict, Range
  <2>3. ledger' = Append(ledger, pending[Len(ledger)])
        /\ UNCHANGED <<wired, told, lost, recycled>>
    BY <1>7 DEF Mine, manager
  <2> QED BY <2>1, <2>2, <2>3
<1>8. ASSUME NEW n \in DOMAIN pending, Evict(n) PROVE TypeOK'
  <2>1. /\ DOMAIN pending' \subseteq DOMAIN pending
        /\ Range(pending') \subseteq Range(pending)
    BY <1>8 DEF Evict, Restrict, Range
  <2> QED BY <1>8, <2>1 DEF Evict, manager
<1> QED BY <1>1, <1>2, <1>3, <1>4, <1>5, <1>6, <1>7, <1>8 DEF Next

-----------------------------------------------------------------------------
(* Before register, and within send().                                     *)

LEMMA FreshStep == Known /\ Settled /\ [Next]_vars => Fresh'
<1> SUFFICES ASSUME Known, Settled, [Next]_vars PROVE Fresh'
  OBVIOUS
<1> USE DEF Known, Settled, Fresh
<1>1. CASE Register
  <2>1. Len(ledger) = 0
    BY <1>1 DEF Register, N!initialize_nonce
  <2> QED BY <1>1, <2>1, MaxNonceAssumption DEF Register, N!initialize_nonce
<1>2. CASE Work \/ UNCHANGED vars
  BY <1>2 DEF Work, vars, account, manager
<1>3. ASSUME NEW c \in Calls, Handle(c) \/ Upload(c) PROVE Fresh'
  BY <1>3 DEF Handle, Upload, account, manager
<1>4. ASSUME NEW c \in Calls, TakeNonce(c) PROVE Fresh'
  BY <1>4, ManagerTypes, MaxNonceAssumption
  DEF TakeNonce, N!next, N!NextFresh, N!NextUnused
<1>5. ASSUME NEW c \in Calls, SendOk(c) \/ SendRefused(c) \/ SendTimeout(c) \/ GiveBack(c)
      PROVE  Fresh'
  <2>1. step[c] # "idle" /\ up' = up /\ nonces' = nonces
    BY <1>5 DEF SendOk, SendRefused, SendTimeout, GiveBack,
                N!SendOk, N!SendRefused, N!SendTimeout, N!save_unused, N!manager
  <2>2. up
    BY <2>1, NonceInHand
  <2> QED BY <2>1, <2>2
<1>6. ASSUME NEW w \in wired, Arrive(w[1], w[2]) PROVE Fresh'
  BY <1>6 DEF Arrive, manager
<1>7. CASE Mine
  BY <1>7 DEF Mine, manager
<1>8. ASSUME NEW n \in DOMAIN pending, Evict(n) PROVE Fresh'
  BY <1>8 DEF Evict, manager
<1> QED BY <1>1, <1>2, <1>3, <1>4, <1>5, <1>6, <1>7, <1>8 DEF Next

LEMMA FlightStep == Known /\ Settled /\ [Next]_vars => Flight'
<1> SUFFICES ASSUME Known, Settled, [Next]_vars, NEW d \in Calls, step'[d] # "idle"
             PROVE  Sends(d)'
  BY DEF Flight
<1> USE ManagerTypes DEF Known, Settled, Flight
<1>1. CASE Work \/ \E c \in Calls : Handle(c) \/ Upload(c)
  <2>1. step' = step
    BY <1>1 DEF Work, Handle, Upload, manager
  <2> QED BY <1>1, <2>1, QuietEffect
<1>2. ASSUME NEW c \in Calls, TakeNonce(c) \/ SendRefused(c) \/ SendTimeout(c)
      PROVE  Sends(d)'
  <2>1. /\ Sends(c) /\ UNCHANGED server
        /\ \A e \in Calls : e # c => step'[e] = step[e]
    BY <1>2 DEF TakeNonce, SendRefused, SendTimeout, N!next, N!SendRefused, N!SendTimeout
  <2>2. Sends(d)
    BY <2>1
  <2> QED BY <2>1, <2>2 DEF server, Sends, S!At
<1>3. ASSUME NEW c \in Calls, SendOk(c) \/ GiveBack(c) PROVE Sends(d)'
  <2>1. /\ step[c] # "idle" /\ step'[c] = "idle"
        /\ \A e \in Calls : e # c => step'[e] = step[e]
    BY <1>3 DEF SendOk, GiveBack, N!SendOk, N!save_unused
  <2>2. Sends(c) /\ Sends(d) /\ d # c
    BY <2>1
  <2>3. PICK sent, ok : Ends(c, sent, ok)
    BY <1>3 DEF SendOk, GiveBack
  <2> QED BY <2>2, <2>3, EndsEffect
<1>4. CASE Register \/ Mine \/ UNCHANGED vars
           \/ (\E w \in wired : Arrive(w[1], w[2])) \/ (\E n \in DOMAIN pending : Evict(n))
  <2>1. UNCHANGED server /\ step' = step
    BY <1>4 DEF Register, Mine, vars, Arrive, Evict, manager, N!initialize_nonce, N!callers
  <2> QED BY <2>1 DEF server, Sends, S!At
<1> QED BY <1>1, <1>2, <1>3, <1>4 DEF Next

-----------------------------------------------------------------------------
(* The account: where its transactions come from.                          *)

LEMMA TracedStep == Known /\ Settled /\ [Next]_vars => Traced'
<1> SUFFICES ASSUME Known, Settled, [Next]_vars PROVE Traced'
  OBVIOUS
<1> USE ManagerTypes DEF Known, Settled, Traced, Left
<1>1. CASE UNCHANGED <<ledger, pending, wired, told, lost>>
  BY <1>1
<1>2. ASSUME NEW c \in Calls, SendOk(c) PROVE Traced'
  <2>1. /\ nonce[c] >= Len(ledger)
        /\ pending' = Carry(nonce[c], Transaction(c))
        /\ told' = told \cup {<<nonce[c], Transaction(c)>>}
        /\ UNCHANGED <<ledger, wired, lost>>
    BY <1>2 DEF SendOk, N!SendOk
  <2> QED BY <2>1 DEF Carry
<1>3. ASSUME NEW c \in Calls, SendTimeout(c) PROVE Traced'
  BY <1>3 DEF SendTimeout
<1>4. ASSUME NEW w \in wired, Arrive(w[1], w[2]) PROVE Traced'
  <2>1. <<w[1], w[2]>> \in lost
    <3>1. w \in (0 .. (MaxNonce - 1)) \X S!Transactions
      BY DEF TypeOK
    <3>2. w = <<w[1], w[2]>>
      BY <3>1
    <3> QED BY <3>2
  <2>2. /\ \/ w[1] >= Len(ledger) /\ pending' = Carry(w[1], w[2])
           \/ pending' = pending
        /\ wired' \subseteq wired
        /\ UNCHANGED <<ledger, told, lost>>
    BY <1>4 DEF Arrive
  <2> QED BY <2>1, <2>2 DEF Carry
<1>5. CASE Mine
  <2>1. /\ Len(ledger) \in DOMAIN pending
        /\ ledger' = Append(ledger, pending[Len(ledger)])
        /\ DOMAIN pending' = DOMAIN pending \ {Len(ledger)}
        /\ \A n \in DOMAIN pending' : pending'[n] = pending[n]
        /\ UNCHANGED <<wired, told, lost>>
    BY <1>5 DEF Mine, Restrict
  <2>2. ledger \in Seq(S!Transactions) /\ pending[Len(ledger)] \in S!Transactions
    BY <2>1 DEF TypeOK, Range
  <2>3. /\ Len(ledger') = Len(ledger) + 1
        /\ DOMAIN ledger' = 1 .. (Len(ledger) + 1)
        /\ \A i \in 1 .. Len(ledger) : ledger'[i] = ledger[i]
        /\ ledger'[Len(ledger) + 1] = pending[Len(ledger)]
    BY <2>1, <2>2, AppendProperties
  <2>4. \A i \in DOMAIN ledger' : <<i - 1, ledger'[i]>> \in Left
    BY <2>1, <2>2, <2>3
  <2>5. ASSUME NEW n \in DOMAIN pending' PROVE n >= Len(ledger')
    <3>1. n \in Nat /\ n >= Len(ledger) /\ n # Len(ledger)
      BY <2>1
    <3> QED BY <2>3, <3>1
  <2> QED BY <2>1, <2>4, <2>5
<1>6. ASSUME NEW n \in DOMAIN pending, Evict(n) PROVE Traced'
  BY <1>6 DEF Evict, Restrict
<1>7. Register \/ Work \/ (\E c \in Calls : Handle(c) \/ Upload(c) \/ TakeNonce(c)
                                            \/ SendRefused(c) \/ GiveBack(c))
      \/ UNCHANGED vars
      => UNCHANGED <<ledger, pending, wired, told, lost>>
  BY DEF Register, Work, Handle, Upload, TakeNonce, SendRefused, GiveBack, vars, account
<1> QED BY <1>1, <1>2, <1>3, <1>4, <1>5, <1>6, <1>7 DEF Next

-----------------------------------------------------------------------------
(* Nothing leaves twice.                                                   *)

\* Of a call within send() neither this transaction nor a verdict has left.
LEMMA NothingLeft ==
    ASSUME Known, Settled, NEW c \in Calls, step[c] = "sending", NEW y \in Left
    PROVE  y[2] \notin {Transaction(c), <<c, "output">>, <<c, "error">>}
<1>1. Sends(c)
  BY DEF Settled, Flight
<1>2. CASE y[2] \in Range(chain)
  BY <1>1, <1>2, Unsent DEF Known
<1>3. CASE y[2] \notin Range(chain)
  <2>1. PICK e \in Calls : step[e] = "failed" /\ y = <<nonce[e], Transaction(e)>>
    BY <1>3 DEF Settled, Once, Left
  <2>2. y[2][1] = e /\ e # c
    BY <2>1, TransactionType
  <2> QED BY <2>2, TransactionType
<1> QED BY <1>2, <1>3

\* Steps without a send: calls whose failed send() left keep their transaction.
LEMMA OnceFrame ==
    ASSUME Known, Settled, UNCHANGED <<told, lost, chain>>,
           \A c \in Calls : step[c] = "failed" =>
             step'[c] = "failed" /\ nonce'[c] = nonce[c] /\ Transaction(c)' = Transaction(c)
    PROVE  Once'
<1>1. ASSUME NEW x \in lost, x[2] \notin Range(chain)
      PROVE  \E c \in Calls : step'[c] = "failed" /\ x = <<nonce'[c], Transaction(c)'>>
  BY <1>1 DEF Settled, Once
<1> QED BY <1>1 DEF Settled, Once, Left, Range

\* A send that the node is told of: the same transaction was not sent before.
LEMMA OnceSendOk ==
    ASSUME Known, Settled, NEW c \in Calls, SendOk(c)
    PROVE  Once'
<1> USE ManagerTypes DEF Known
<1>1. /\ step[c] = "sending" /\ Sends(c) /\ Ends(c, TRUE, TRUE)
      /\ told' = told \cup {<<nonce[c], Transaction(c)>>} /\ lost' = lost
      /\ \A d \in Calls : d # c => step'[d] = step[d] /\ nonce'[d] = nonce[d]
  BY DEF SendOk, N!SendOk, Settled, Flight
<1>2. chain' = Append(chain, Transaction(c))
  BY <1>1, EndsEffect
<1>3. Range(chain') = Range(chain) \cup {Transaction(c)}
  BY <1>2, ServerTypes, TransactionType, RangeOfAppend
<1>4. \A d \in Calls : d # c => Transaction(d)' = Transaction(d)
  BY <1>1, EndsEffect
<1>5. \A x \in lost : x[2] \in Range(chain')
        \/ \E d \in Calls : step'[d] = "failed" /\ x = <<nonce'[d], Transaction(d)'>>
  BY <1>1, <1>3, <1>4 DEF Settled, Once
<1>6. \A x, y \in Left' : x[2] = y[2] => x = y
  <2>1. Left' = Left \cup {<<nonce[c], Transaction(c)>>}
    BY <1>1 DEF Left
  <2>2. \A y \in Left : y[2] # Transaction(c)
    BY <1>1, NothingLeft
  <2> QED BY <2>1, <2>2 DEF Settled, Once
<1> QED BY <1>1, <1>3, <1>5, <1>6 DEF Settled, Once

\* A send whose reply is lost: its nonce is still in the call's hands.
LEMMA OnceSendTimeout ==
    ASSUME Known, Settled, NEW c \in Calls, SendTimeout(c)
    PROVE  Once'
<1> USE ManagerTypes DEF Known
<1>1. /\ step[c] = "sending" /\ step'[c] = "failed" /\ nonce' = nonce
      /\ lost' = lost \cup {<<nonce[c], Transaction(c)>>} /\ told' = told
      /\ \A d \in Calls : d # c => step'[d] = step[d]
      /\ UNCHANGED server
  BY DEF SendTimeout, N!SendTimeout
<1>2. chain' = chain /\ \A d \in Calls : Transaction(d)' = Transaction(d)
  BY <1>1 DEF server, Transaction, S!At
<1>3. \A x \in lost' : x[2] \in Range(chain')
        \/ \E d \in Calls : step'[d] = "failed" /\ x = <<nonce'[d], Transaction(d)'>>
  BY <1>1, <1>2 DEF Settled, Once
<1>4. \A x, y \in Left' : x[2] = y[2] => x = y
  <2>1. Left' = Left \cup {<<nonce[c], Transaction(c)>>}
    BY <1>1 DEF Left
  <2>2. \A y \in Left : y[2] # Transaction(c)
    BY <1>1, NothingLeft
  <2> QED BY <2>1, <2>2 DEF Settled, Once
<1> QED BY <1>1, <1>2, <1>3, <1>4 DEF Settled, Once

\* A nonce given back: the call is done with its transaction, sent or not.
LEMMA OnceGiveBack ==
    ASSUME Known, Settled, NEW c \in Calls, GiveBack(c)
    PROVE  Once'
<1> USE ManagerTypes DEF Known
<1> DEFINE x0 == <<nonce[c], Transaction(c)>>
<1>1. /\ Sends(c) /\ Ends(c, x0 \in lost, FALSE)
      /\ told' = told /\ lost' = lost
      /\ \A d \in Calls : d # c => step'[d] = step[d] /\ nonce'[d] = nonce[d]
  BY DEF GiveBack, N!save_unused, Settled, Flight
<1>2. /\ chain' = IF x0 \in lost THEN Append(chain, Transaction(c)) ELSE chain
      /\ \A d \in Calls : d # c => Transaction(d)' = Transaction(d)
  <2>1. CASE x0 \in lost
    <3>1. Ends(c, TRUE, FALSE)
      BY <1>1, <2>1 DEF Ends
    <3> QED BY <1>1, <2>1, <3>1, EndsEffect
  <2>2. CASE x0 \notin lost
    <3>1. Ends(c, FALSE, FALSE)
      BY <1>1, <2>2 DEF Ends
    <3> QED BY <1>1, <2>2, <3>1, EndsEffect
  <2> QED BY <2>1, <2>2
<1>3. Range(Append(chain, Transaction(c))) = Range(chain) \cup {Transaction(c)}
  BY ServerTypes, TransactionType, RangeOfAppend
<1>4. Range(chain) \subseteq Range(chain') /\ (x0 \in lost => Transaction(c) \in Range(chain'))
  BY <1>2, <1>3
<1>5. ASSUME NEW x \in lost, x[2] \notin Range(chain')
      PROVE  \E d \in Calls : step'[d] = "failed" /\ x = <<nonce'[d], Transaction(d)'>>
  <2>1. PICK d \in Calls : step[d] = "failed" /\ x = <<nonce[d], Transaction(d)>>
    BY <1>4, <1>5 DEF Settled, Once
  <2>2. d # c
    BY <1>4, <1>5, <2>1
  <2> QED BY <1>1, <1>2, <2>1, <2>2
<1> QED BY <1>1, <1>4, <1>5 DEF Settled, Once, Left

LEMMA OnceStep == Known /\ Settled /\ [Next]_vars => Once'
<1> SUFFICES ASSUME Known, Settled, [Next]_vars PROVE Once'
  OBVIOUS
<1> USE ManagerTypes DEF Known
<1>1. CASE Work \/ \E c \in Calls : Handle(c) \/ Upload(c)
  <2>1. UNCHANGED <<step, nonce, told, lost>>
    BY <1>1 DEF Work, Handle, Upload, manager, account
  <2>2. ASSUME NEW d \in Calls, step[d] = "failed" PROVE Transaction(d)' = Transaction(d)
    BY <1>1, <2>2, QuietEffect DEF Settled, Flight
  <2>3. chain' = chain
    BY <1>1 DEF Work, Handle, Upload, S!Handle, S!Receive, S!Enqueue, S!Reject, S!UploadOutput,
                S!Start, S!Recv, S!Die, S!QueryModel, S!RunModel, S!GetInput, S!Infer, S!Report,
                S!HandleError, S!UploadError
  <2> QED BY <2>1, <2>2, <2>3, OnceFrame
<1>2. ASSUME NEW c \in Calls, TakeNonce(c) \/ SendRefused(c) PROVE Once'
  <2>1. /\ UNCHANGED server /\ UNCHANGED <<told, lost>>
        /\ \A d \in Calls : step[d] = "failed" => step'[d] = "failed" /\ nonce'[d] = nonce[d]
    BY <1>2 DEF TakeNonce, SendRefused, account, N!next, N!NextFresh, N!NextUnused, N!SendRefused
  <2> QED BY <2>1, OnceFrame DEF server, Transaction, S!At
<1>3. CASE Register \/ Mine \/ UNCHANGED vars
           \/ (\E w \in wired : Arrive(w[1], w[2])) \/ (\E n \in DOMAIN pending : Evict(n))
  <2>1. UNCHANGED server /\ UNCHANGED <<told, lost, step, nonce>>
    BY <1>3 DEF Register, Mine, vars, Arrive, Evict, manager, account, N!initialize_nonce, N!callers
  <2> QED BY <2>1, OnceFrame DEF server, Transaction, S!At
<1> QED BY <1>1, <1>2, <1>3, OnceSendOk, OnceSendTimeout, OnceGiveBack DEF Next

-----------------------------------------------------------------------------
(* What the node was told is accepted.                                     *)

LEMMA AcceptedStep == Known /\ Settled /\ [Next]_vars => AcceptedKept'
<1> SUFFICES ASSUME Known, Settled, [Next]_vars PROVE AcceptedKept'
  OBVIOUS
<1> USE ManagerTypes DEF Known, Settled, AcceptedKept, Loose, Holds
<1>1. CASE UNCHANGED <<ledger, pending, told, dropped>> /\ astray \subseteq astray'
  BY <1>1
<1>2. ASSUME NEW c \in Calls, SendOk(c) PROVE AcceptedKept'
  <2>1. /\ pending' = Carry(nonce[c], Transaction(c))
        /\ told' = told \cup {<<nonce[c], Transaction(c)>>}
        /\ dropped' = dropped \ {nonce[c]} /\ astray' = astray /\ ledger' = ledger
    BY <1>2 DEF SendOk, N!SendOk
  <2>2. \A t \in told : t[1] # nonce[c]
    BY <1>2, NonceInHand DEF SendOk
  <2> QED BY <2>1, <2>2 DEF Carry
<1>3. ASSUME NEW w \in wired, Arrive(w[1], w[2]) PROVE AcceptedKept'
  <2>1. /\ pending' = Carry(w[1], w[2]) \/ pending' = pending
        /\ dropped' = dropped \ {w[1]} /\ UNCHANGED <<astray, ledger, told>>
    BY <1>3 DEF Arrive, N!LateArrival
  <2>2. up
    BY DEF Fresh
  <2>3. w[1] \in astray
    BY <2>2, NoncesKnown
  <2> QED BY <2>1, <2>3 DEF Carry
<1>4. CASE Mine
  <2>1. /\ Len(ledger) \in DOMAIN pending
        /\ ledger' = Append(ledger, pending[Len(ledger)])
        /\ DOMAIN pending' = DOMAIN pending \ {Len(ledger)}
        /\ \A n \in DOMAIN pending' : pending'[n] = pending[n]
        /\ UNCHANGED <<told, dropped, astray>>
    BY <1>4 DEF Mine, Restrict, N!Mine
  <2>2. ledger \in Seq(S!Transactions) /\ pending[Len(ledger)] \in S!Transactions
    BY <2>1 DEF TypeOK, Range
  <2>3. /\ Len(ledger') = Len(ledger) + 1
        /\ \A i \in 1 .. Len(ledger) : ledger'[i] = ledger[i]
        /\ ledger'[Len(ledger) + 1] = pending[Len(ledger)]
    BY <2>1, <2>2, AppendProperties
  <2>4. ASSUME NEW t \in told, t[1] < Len(ledger), ledger[t[1] + 1] = t[2]
        PROVE  t[1] < Len(ledger') /\ ledger'[t[1] + 1] = t[2]
    <3>1. t[1] \in Nat
      BY MaxNonceAssumption DEF TypeOK
    <3> QED BY <2>3, <2>4, <3>1
  <2>5. ASSUME NEW t \in told, t[1] \in DOMAIN pending, pending[t[1]] = t[2]
        PROVE  Holds(t[1], t[2])'
    <3>1. CASE t[1] = Len(ledger)
      BY <2>3, <2>5, <3>1
    <3>2. CASE t[1] # Len(ledger)
      BY <2>1, <2>5, <3>2
    <3> QED BY <3>1, <3>2
  <2> QED BY <2>1, <2>4, <2>5
<1>5. ASSUME NEW n \in DOMAIN pending, Evict(n) PROVE AcceptedKept'
  BY <1>5 DEF Evict, Restrict, N!Evict
<1>6. CASE Register
  BY <1>6 DEF Register, Fresh, N!initialize_nonce
<1>7. Work \/ (\E c \in Calls : Handle(c) \/ Upload(c) \/ TakeNonce(c) \/ SendRefused(c)
                                \/ SendTimeout(c) \/ GiveBack(c)) \/ UNCHANGED vars
      => UNCHANGED <<ledger, pending, told, dropped>> /\ astray \subseteq astray'
  BY DEF Work, Handle, Upload, TakeNonce, SendRefused, SendTimeout, GiveBack, vars, account,
         N!SendTimeout, N!save_unused, N!chain
<1> QED BY <1>1, <1>2, <1>3, <1>4, <1>5, <1>6, <1>7 DEF Next

-----------------------------------------------------------------------------
(* A transfer and its output.                                              *)

\* The nonces that wait in unused were given back.
LEMMA RecycledStep == Known /\ Settled /\ [Next]_vars => Range(unused') \subseteq recycled'
<1> SUFFICES ASSUME Known, Settled, [Next]_vars PROVE Range(unused') \subseteq recycled'
  OBVIOUS
<1> USE ManagerTypes DEF Known, Settled, Backed
<1>1. CASE UNCHANGED <<unused, recycled>>
  BY <1>1
<1>2. ASSUME NEW c \in Calls, TakeNonce(c) PROVE Range(unused') \subseteq recycled'
  <2>1. recycled' = recycled /\ (unused' = unused \/ (unused # << >> /\ unused' = Tail(unused)))
    BY <1>2 DEF TakeNonce, N!next, N!NextFresh, N!NextUnused
  <2> QED BY <2>1, UnusedHead
<1>3. ASSUME NEW c \in Calls, GiveBack(c) PROVE Range(unused') \subseteq recycled'
  <2>1. unused' = Append(unused, nonce[c]) /\ recycled' = recycled \cup {nonce[c]}
    BY <1>3 DEF GiveBack, N!save_unused
  <2>2. Range(unused') = Range(unused) \cup {nonce[c]}
    BY <2>1, RangeOfAppend
  <2> QED BY <2>1, <2>2
<1>4. Register \/ Work \/ Mine
      \/ (\E c \in Calls : Handle(c) \/ Upload(c) \/ SendOk(c) \/ SendRefused(c) \/ SendTimeout(c))
      \/ (\E w \in wired : Arrive(w[1], w[2])) \/ (\E n \in DOMAIN pending : Evict(n))
      \/ UNCHANGED vars
      => UNCHANGED <<unused, recycled>>
  BY DEF Register, Work, Mine, Handle, Upload, SendOk, SendRefused, SendTimeout, Arrive, Evict,
         vars, manager, N!initialize_nonce, N!SendOk, N!SendRefused, N!SendTimeout, N!manager
<1> QED BY <1>1, <1>2, <1>3, <1>4 DEF Next

\* A call about to submit an output is in its task.
LEMMA OutputTasked ==
    ASSUME NEW c \in Calls, Sends(c), Transaction(c) = <<c, "output">>
    PROVE  task[c] = "submit"
BY DEF Sends, Transaction

LEMMA PaidStep == Known /\ Settled /\ [Next]_vars => PaidFirst'
<1> SUFFICES ASSUME Known, Settled, [Next]_vars,
                    NEW d \in Calls, Kind[d] = "transfer"
             PROVE  /\ Reports(d)' => Paid(d)'
                    /\ task'[d] # "none" => Paid(d)'
                    /\ \A y \in Left' : y[2] = <<d, "output">> => Paid(d)'
  BY DEF PaidFirst
<1> USE DEF Known, Settled, Backed, PaidFirst
<1>1. told \subseteq told'
  BY DEF Next, Register, Work, Mine, Handle, Upload, TakeNonce, SendOk, SendRefused, SendTimeout,
         GiveBack, Arrive, Evict, vars, account
<1>2. Paid(d) => Paid(d)'
  BY <1>1 DEF Paid
<1>3. CASE Work \/ \E c \in Calls : Handle(c) \/ Upload(c)
  <2>1. Left' = Left
    BY <1>3 DEF Work, Handle, Upload, account, Left
  <2> QED BY <1>2, <1>3, <2>1, QuietEffect
<1>4. ASSUME NEW c \in Calls, SendOk(c)
      PROVE  /\ Reports(d)' => Paid(d)'
             /\ task'[d] # "none" => Paid(d)'
             /\ \A y \in Left' : y[2] = <<d, "output">> => Paid(d)'
  <2>1. /\ Sends(c) /\ Ends(c, TRUE, TRUE)
        /\ told' = told \cup {<<nonce[c], Transaction(c)>>}
        /\ Left' = Left \cup {<<nonce[c], Transaction(c)>>}
    BY <1>4 DEF SendOk, Flight, Left
  <2>2. Transaction(c) = <<c, "transfer">> => Paid(c)'
    <3>1. <<nonce[c], Transaction(c)>> \in told' /\ <<nonce[c], Transaction(c)>>[2] = Transaction(c)
      BY <2>1
    <3> QED BY <3>1 DEF Paid
  <2>3. Reports(d)' => Reports(d) \/ (d = c /\ Transaction(c) = <<c, "transfer">>)
    BY <2>1, EndsEffect
  <2>4. task'[d] # "none" => task[d] # "none"
    BY <2>1, EndsEffect
  <2>5. Transaction(c) = <<d, "output">> => d = c /\ task[d] # "none"
    BY <2>1, OutputTasked, TransactionType
  <2> QED BY <1>2, <2>1, <2>2, <2>3, <2>4, <2>5
<1>5. ASSUME NEW c \in Calls, SendTimeout(c)
      PROVE  /\ Reports(d)' => Paid(d)'
             /\ task'[d] # "none" => Paid(d)'
             /\ \A y \in Left' : y[2] = <<d, "output">> => Paid(d)'
  <2>1. /\ Sends(c) /\ UNCHANGED server
        /\ Left' = Left \cup {<<nonce[c], Transaction(c)>>}
    BY <1>5 DEF SendTimeout, Flight, Left
  <2>2. Transaction(c) = <<d, "output">> => d = c /\ task[d] # "none"
    BY <2>1, OutputTasked, TransactionType
  <2> QED BY <1>2, <2>1, <2>2 DEF server, Reports
<1>6. ASSUME NEW c \in Calls, GiveBack(c)
      PROVE  /\ Reports(d)' => Paid(d)'
             /\ task'[d] # "none" => Paid(d)'
             /\ \A y \in Left' : y[2] = <<d, "output">> => Paid(d)'
  <2>1. Sends(c) /\ Left' = Left /\ (Ends(c, TRUE, FALSE) \/ Ends(c, FALSE, FALSE))
    BY <1>6 DEF GiveBack, Ends, Flight, Left
  <2>2. (Reports(d)' => Reports(d)) /\ (task'[d] # "none" => task[d] # "none")
    BY <2>1, EndsEffect
  <2> QED BY <1>2, <2>1, <2>2
<1>7. CASE UNCHANGED server /\ Left' = Left
  BY <1>2, <1>7 DEF server, Reports
<1>8. Register \/ Mine \/ (\E c \in Calls : TakeNonce(c) \/ SendRefused(c))
      \/ (\E w \in wired : Arrive(w[1], w[2])) \/ (\E n \in DOMAIN pending : Evict(n))
      \/ UNCHANGED vars
      => UNCHANGED server /\ Left' = Left
  BY DEF Register, Mine, TakeNonce, SendRefused, Arrive, Evict, vars, account, Left
<1> QED BY <1>3, <1>4, <1>5, <1>6, <1>7, <1>8 DEF Next

LEMMA OrderStep == Known /\ Settled /\ [Next]_vars => InOrder'
<1> SUFFICES ASSUME Known, Settled, [Next]_vars,
                    NEW x \in told', NEW d \in Calls, x[2] = <<d, "transfer">>
             PROVE  /\ step'[d] # "idle" => nonce'[d] \in recycled' \/ nonce'[d] > x[1]
                    /\ \A y \in Left' : y[2] = <<d, "output">> =>
                         y[1] \in recycled' \/ y[1] > x[1]
  BY DEF InOrder
<1> USE ManagerTypes DEF Known, Settled, Backed, InOrder
<1>1. CASE UNCHANGED <<told, lost, step, nonce, recycled>>
  BY <1>1 DEF Left
<1>2. ASSUME NEW c \in Calls, TakeNonce(c)
      PROVE  /\ step'[d] # "idle" => nonce'[d] \in recycled' \/ nonce'[d] > x[1]
             /\ \A y \in Left' : y[2] = <<d, "output">> => y[1] \in recycled' \/ y[1] > x[1]
  <2>1. /\ UNCHANGED <<told, lost, recycled>> /\ up
        /\ \A e \in Calls : e # c => step'[e] = step[e] /\ nonce'[e] = nonce[e]
        /\ \/ nonce'[c] = nonces
           \/ unused # << >> /\ nonce'[c] = Head(unused)
    BY <1>2 DEF TakeNonce, account, N!next, N!NextFresh, N!NextUnused
  <2>2. x[1] \in 0 .. (nonces - 1)
    BY <2>1, NoncesKnown
  <2>3. unused # << >> => Head(unused) \in Range(unused)
    BY UnusedHead
  <2>4. nonce'[c] \in recycled \/ nonce'[c] > x[1]
    BY <2>1, <2>2, <2>3
  <2> QED BY <2>1, <2>4 DEF Left
<1>3. ASSUME NEW c \in Calls, SendOk(c)
      PROVE  /\ step'[d] # "idle" => nonce'[d] \in recycled' \/ nonce'[d] > x[1]
             /\ \A y \in Left' : y[2] = <<d, "output">> => y[1] \in recycled' \/ y[1] > x[1]
  <2>1. /\ step[c] = "sending" /\ step'[c] = "idle" /\ recycled' = recycled
        /\ told' = told \cup {<<nonce[c], Transaction(c)>>}
        /\ Left' = Left \cup {<<nonce[c], Transaction(c)>>}
        /\ \A e \in Calls : e # c => step'[e] = step[e] /\ nonce'[e] = nonce[e]
    BY <1>3 DEF SendOk, N!SendOk, Left
  <2>2. \A y \in Left : y[2] # <<c, "output">>
    BY <2>1, NothingLeft
  <2>3. CASE x \in told
    <3>1. Transaction(c) = <<d, "output">> => d = c
      BY TransactionType
    <3> QED BY <2>1, <2>3, <3>1
  <2>4. CASE x = <<nonce[c], Transaction(c)>>
    <3>1. d = c
      BY <2>4, TransactionType
    <3> QED BY <2>1, <2>2, <2>4, <3>1
  <2> QED BY <2>1, <2>3, <2>4
<1>4. ASSUME NEW c \in Calls, SendTimeout(c)
      PROVE  /\ step'[d] # "idle" => nonce'[d] \in recycled' \/ nonce'[d] > x[1]
             /\ \A y \in Left' : y[2] = <<d, "output">> => y[1] \in recycled' \/ y[1] > x[1]
  <2>1. /\ step[c] = "sending" /\ nonce' = nonce /\ told' = told /\ recycled' = recycled
        /\ Left' = Left \cup {<<nonce[c], Transaction(c)>>}
        /\ \A e \in Calls : step'[e] # "idle" => step[e] # "idle"
    BY <1>4 DEF SendTimeout, N!SendTimeout, Left
  <2>2. Transaction(c) = <<d, "output">> => d = c
    BY TransactionType
  <2> QED BY <2>1, <2>2
<1>5. ASSUME NEW c \in Calls, SendRefused(c) \/ GiveBack(c)
      PROVE  /\ step'[d] # "idle" => nonce'[d] \in recycled' \/ nonce'[d] > x[1]
             /\ \A y \in Left' : y[2] = <<d, "output">> => y[1] \in recycled' \/ y[1] > x[1]
  <2>1. /\ told' = told /\ Left' = Left /\ recycled \subseteq recycled'
        /\ \A e \in Calls : step'[e] # "idle" => step[e] # "idle" /\ nonce'[e] = nonce[e]
    BY <1>5 DEF SendRefused, GiveBack, N!SendRefused, N!save_unused, account, Left
  <2> QED BY <2>1
<1>6. Register \/ Work \/ Mine \/ (\E c \in Calls : Handle(c) \/ Upload(c))
      \/ (\E w \in wired : Arrive(w[1], w[2])) \/ (\E n \in DOMAIN pending : Evict(n))
      \/ UNCHANGED vars
      => UNCHANGED <<told, lost, step, nonce, recycled>>
  BY DEF Register, Work, Mine, Handle, Upload, Arrive, Evict, vars, manager, account,
         N!initialize_nonce, N!callers
<1> QED BY <1>1, <1>2, <1>3, <1>4, <1>5, <1>6 DEF Next

-----------------------------------------------------------------------------
(* The theorems.                                                           *)

LEMMA AlwaysSettled == Spec => [](Known /\ Settled)
<1>1. Known /\ Settled /\ [Next]_vars => Settled'
  BY TypeStep, FreshStep, FlightStep, TracedStep, OnceStep, AcceptedStep,
     RecycledStep, PaidStep, OrderStep DEF Settled, Backed
<1>2. Known <=> ServerKnown /\ ManagerKnown
  BY DEF Known
<1> QED BY <1>1, <1>2, SettledInit, AlwaysServerKnown, AlwaysManagerKnown, PTL DEF Spec

\* The account, what is on its way to it and the histories keep their types: no
\* transaction is ever sent under a nonce beyond the bound.
THEOREM TypeCorrect == Spec => []TypeOK
<1>1. Settled => TypeOK
  BY DEF Settled
<1> QED BY <1>1, AlwaysSettled, PTL

\* A transaction whose send() returned Ok keeps its nonce in the account: no nonce
\* that submit_inference or transfer gives back, and no retry under it, ever takes
\* its place, for any calls and any faults of the chain, unless the chain dropped
\* it or a failed send() left another under that nonce.
THEOREM AcceptedStays == Spec => []AcceptedKept
<1>1. Settled => AcceptedKept
  BY DEF Settled
<1> QED BY <1>1, AlwaysSettled, PTL

LEMMA MinedOnce == Known /\ Settled => SettledOnce
<1> SUFFICES ASSUME Known, Settled, NEW i \in DOMAIN ledger, NEW j \in DOMAIN ledger,
                    i # j, ledger[i][1] = ledger[j][1]
             PROVE  "transfer" \in {ledger[i][2], ledger[j][2]} /\ ledger[i] # ledger[j]
  BY DEF SettledOnce
<1> DEFINE x == <<i - 1, ledger[i]>>
           y == <<j - 1, ledger[j]>>
<1>1. /\ x \in Left /\ y \in Left /\ i \in Nat /\ j \in Nat
      /\ ledger[i] \in S!Transactions /\ ledger[j] \in S!Transactions
  BY DEF Settled, Traced, TypeOK
<1>2. ledger[i] # ledger[j]
  <2>1. x # y
    BY <1>1
  <2>2. x[2] = ledger[i] /\ y[2] = ledger[j]
    OBVIOUS
  <2> QED BY <1>1, <2>1, <2>2 DEF Settled, Once
<1>3. PICK c \in Calls, v \in {"transfer", "output", "error"},
           w \in {"transfer", "output", "error"} :
        ledger[i] = <<c, v>> /\ ledger[j] = <<c, w>>
  BY <1>1 DEF S!Transactions
<1>4. ASSUME v # "transfer", w # "transfer" PROVE FALSE
  <2>1. ASSUME NEW z \in Left, NEW u \in {"output", "error"}, z[2] = <<c, u>>
        PROVE  \/ <<c, u>> \in Range(chain)
               \/ step[c] = "failed" /\ <<c, u>> = Transaction(c)
    <3>1. CASE z[2] \notin Range(chain)
      <4>1. PICK e \in Calls : step[e] = "failed" /\ z = <<nonce[e], Transaction(e)>>
        BY <3>1 DEF Settled, Once, Left
      <4>2. z[2] = Transaction(e) /\ e = c
        BY <2>1, <4>1, TransactionType
      <4> QED BY <2>1, <4>1, <4>2
    <3> QED BY <2>1, <3>1
  <2>2. \/ <<c, v>> \in Range(chain)
        \/ step[c] = "failed" /\ <<c, v>> = Transaction(c)
    <3>1. x[2] = <<c, v>>
      BY <1>3
    <3> QED BY <1>1, <1>4, <2>1, <3>1
  <2>3. \/ <<c, w>> \in Range(chain)
        \/ step[c] = "failed" /\ <<c, w>> = Transaction(c)
    <3>1. y[2] = <<c, w>>
      BY <1>3
    <3> QED BY <1>1, <1>4, <2>1, <3>1
  <2>4. v # w
    BY <1>2, <1>3
  <2>5. CASE step[c] = "failed"
    <3>1. <<c, "output">> \notin Range(chain) /\ <<c, "error">> \notin Range(chain)
      BY <2>5, Unsent DEF Known, Settled, Flight
    <3> QED BY <1>4, <2>2, <2>3, <2>4, <3>1
  <2>6. CASE <<c, v>> \in Range(chain) /\ <<c, w>> \in Range(chain)
    <3>1. PICK p \in DOMAIN chain, q \in DOMAIN chain :
            chain[p] = <<c, v>> /\ chain[q] = <<c, w>>
      BY <2>6 DEF Range
    <3>2. p \in Nat /\ q \in Nat /\ p # q
      BY <2>4, <3>1, ServerTypes DEF Known
    <3>3. \A k, l \in DOMAIN chain :
            k < l /\ chain[k][1] = chain[l][1] => chain[k][2] = "transfer"
      BY DEF Known, ServerKnown, SP!Told, SP!Ordered
    <3> QED BY <1>4, <3>1, <3>2, <3>3
  <2> QED BY <2>2, <2>3, <2>5, <2>6
<1> QED BY <1>2, <1>3, <1>4

\* However often nonces are given back and sent again, and whatever arrives late,
\* the account mines no transfer twice and no two verdicts of one call.
THEOREM EachSettledOnce == Spec => []SettledOnce
BY MinedOnce, AlwaysSettled, PTL

LEMMA MinedBacked == Known /\ Settled => OutputBacked
<1> SUFFICES ASSUME Known, Settled PROVE OutputBacked
  OBVIOUS
<1> SUFFICES ASSUME NEW i \in DOMAIN ledger, NEW c \in Calls,
                    ledger[i] = <<c, "output">>, Kind[c] = "transfer",
                    (i - 1) \notin recycled,
                    ~ \E t \in told : t[2] = <<c, "transfer">> /\ t[1] \in Loose
             PROVE  \E j \in 1 .. (i - 1) : ledger[j] = <<c, "transfer">>
  <2>1. ASSUME NEW i \in DOMAIN ledger, ledger[i][2] = "output"
        PROVE  ledger[i][1] \in Calls /\ ledger[i] = <<ledger[i][1], "output">>
    <3>1. ledger[i] \in S!Transactions
      BY DEF Settled, TypeOK
    <3> QED BY <2>1, <3>1 DEF S!Transactions
  <2> QED BY <2>1 DEF OutputBacked
<1> DEFINE y == <<i - 1, <<c, "output">>>>
<1>1. y \in Left /\ i \in Nat /\ Len(ledger) \in Nat /\ i <= Len(ledger)
  BY DEF Settled, Traced, TypeOK
<1>2. PICK x \in told : x[2] = <<c, "transfer">>
  BY <1>1 DEF Settled, Backed, PaidFirst, Paid
<1>3. x[1] < i - 1
  BY <1>1, <1>2 DEF Settled, Backed, InOrder
<1>4. x[1] \in Nat
  BY MaxNonceAssumption DEF Settled, TypeOK
<1>5. Holds(x[1], <<c, "transfer">>)
  BY <1>2 DEF Settled, AcceptedKept
<1>6. x[1] \notin DOMAIN pending
  <2>1. ~(x[1] >= Len(ledger))
    BY <1>1, <1>3, <1>4
  <2> QED BY <2>1 DEF Settled, Traced
<1>7. ledger[x[1] + 1] = <<c, "transfer">>
  BY <1>5, <1>6 DEF Holds
<1> QED BY <1>1, <1>3, <1>4, <1>7

\* The output of a transfer is mined after the transfer it reports, unless a nonce
\* given back, a dropped transaction or a failed send() put the two out of order.
THEOREM OutputsBacked == Spec => []OutputBacked
BY MinedBacked, AlwaysSettled, PTL

-----------------------------------------------------------------------------
(* An error after a transfer: the two ways to it.                          *)

\* No send() fails after its transaction left, and no report fails.
Faithful ==
    "timeout" \notin ChainFaults /\ (~WithinTee \/ "attest" \notin ServerFaults)

\* Where a worker is when it handles an error.
Failing(c) == job[net] = <<c>> /\ worker[net] \in {"handle_error", "upload", "submit"}

\* The node was told that the call's error is accepted.
Faulted(c) == \E x \in told : x[2] = <<c, "error">>

\* A call whose transfer was accepted is never again on the way to an error.
Honest ==
    /\ lost = {}
    /\ \A c \in Calls : Paid(c) => ~Failing(c) /\ ~Faulted(c)

\* A call that comes to handle an error has sent no transfer: it fails before it,
\* or the transfer itself does.
LEMMA FailingUnpaid ==
    ASSUME Faithful, Known, Settled, NEW d \in Calls, ~Failing(d), Failing(d)',
           Work \/ \E c \in Calls : Handle(c) \/ Upload(c)
    PROVE  ~Paid(d)
<1> USE ServerTypes DEF Known, S!At, S!Goto, S!Leave, S!None, Failing
<1>1. ASSUME job[net] = <<d>>,
             worker[net] \in {"query", "run", "input", "infer", "transfer"}
      PROVE  ~Paid(d)
  <2>1. <<d, "transfer">> \notin Range(chain)
    BY <1>1 DEF ServerKnown, SP!Told, SP!Sent, SP!Before, Range, SP!Range
  <2> QED BY <2>1 DEF Paid, Settled, Once
<1>2. ASSUME NEW c \in Calls, Handle(c) \/ Upload(c) PROVE FALSE
  BY <1>2 DEF Handle, Upload, S!Handle, S!Receive, S!Enqueue, S!Reject, S!UploadOutput
<1>3. ~(S!Start(net) \/ S!Recv(net) \/ S!Die(net))
  BY DEF S!Start, S!Recv, S!Die
<1>4. ASSUME NEW c \in Calls,
             S!QueryModel(net, c) \/ S!RunModel(net, c) \/ S!GetInput(net, c) \/ S!Infer(net, c)
      PROVE  /\ job[net] = <<d>>
             /\ worker[net] \in {"query", "run", "input", "infer", "transfer"}
  BY <1>4 DEF S!QueryModel, S!RunModel, S!GetInput, S!Infer, S!AskModel, S!AskAgent
<1>5. ASSUME NEW c \in Calls, S!Report(net, c) PROVE FALSE
  <2>1. ~(WithinTee /\ S!May(net, "attest"))
    BY DEF Faithful, S!May
  <2> QED BY <1>5, <2>1 DEF S!Report
<1>6. ASSUME NEW c \in Calls, S!HandleError(net, c) \/ S!UploadError(net, c)
      PROVE  FALSE
  BY <1>6 DEF S!HandleError, S!UploadError
<1> QED BY <1>1, <1>2, <1>3, <1>4, <1>5, <1>6 DEF Work

\* Without those two faults no step makes an error of a transfer that left.
LEMMA HonestStep ==
    ASSUME Faithful, Known, Settled, Honest, [Next]_vars
    PROVE  Honest'
<1> USE ServerTypes DEF Known, Settled, Honest
<1>1. lost' = {}
  <2>1. \A c \in Calls : ~SendTimeout(c)
    BY DEF Faithful, SendTimeout, N!SendTimeout
  <2> QED
    BY <2>1
    DEF Next, Register, Work, Mine, Handle, Upload, TakeNonce, SendOk, SendRefused,
        GiveBack, Arrive, Evict, vars, account
<1>2. ASSUME Work \/ \E c \in Calls : Handle(c) \/ Upload(c)
      PROVE  Honest'
  <2>1. told' = told
    BY <1>2 DEF Work, Handle, Upload, account
  <2>2. ASSUME NEW d \in Calls, Paid(d) PROVE ~Failing(d)' /\ ~Faulted(d)
    BY <1>2, <2>2, FailingUnpaid
  <2> QED BY <1>1, <2>1, <2>2 DEF Paid, Faulted
<1>3. ASSUME NEW c \in Calls, SendOk(c) PROVE Honest'
  <2> DEFINE x0 == <<nonce[c], Transaction(c)>>
  <2>1. /\ step[c] = "sending" /\ Sends(c) /\ Ends(c, TRUE, TRUE)
        /\ told' = told \cup {x0} /\ x0[2] = Transaction(c)
    BY <1>3 DEF SendOk, Flight
  <2>2. \A d \in Calls : Failing(d)' => Failing(d)
    <3>1. CASE S!Transfer(net, c)
      BY <2>1, <3>1 DEF Ends, S!Transfer, S!At, S!Goto, Failing
    <3>2. CASE S!SubmitError(net, c)
      BY <3>2 DEF S!SubmitError, S!Leave, S!Goto, Failing
    <3>3. CASE S!SubmitOutput(c)
      BY <3>3 DEF S!SubmitOutput, Failing
    <3> QED BY <2>1, <3>1, <3>2, <3>3 DEF Ends
  <2>3. ASSUME NEW d \in Calls, d # c
        PROVE  (Paid(d)' => Paid(d)) /\ (Faulted(d)' => Faulted(d))
    <3>1. Transaction(c)[1] = c
      BY TransactionType
    <3> QED BY <2>1, <2>3, <3>1 DEF Paid, Faulted
  <2>4. ~Faulted(c)
    <3>1. told \subseteq Left
      BY DEF Left
    <3> QED BY <2>1, <3>1, NothingLeft DEF Faulted
  <2>5. CASE Transaction(c) = <<c, "transfer">>
    <3>1. S!At(net, c, "transfer")
      BY <2>1, <2>5 DEF Transaction
    <3>2. ~Failing(c) /\ ~Faulted(c)'
      BY <2>1, <2>4, <2>5, <3>1 DEF S!At, Failing, Faulted
    <3> QED BY <1>1, <2>2, <2>3, <3>2
  <2>6. CASE Transaction(c) = <<c, "error">>
    <3>1. S!At(net, c, "submit")
      BY <2>1, <2>6 DEF Transaction
    <3>2. ~Paid(c) /\ ~Paid(c)'
      BY <2>1, <2>6, <3>1 DEF S!At, Failing, Paid
    <3> QED BY <1>1, <2>2, <2>3, <3>2
  <2>7. CASE Transaction(c) = <<c, "output">>
    <3>1. (Paid(c)' => Paid(c)) /\ ~Faulted(c)'
      BY <2>1, <2>4, <2>7 DEF Paid, Faulted
    <3> QED BY <1>1, <2>2, <2>3, <3>1
  <2> QED BY <2>5, <2>6, <2>7, TransactionType
<1>4. ASSUME NEW c \in Calls, GiveBack(c) PROVE Honest'
  <2>1. Sends(c) /\ told' = told /\ (Ends(c, TRUE, FALSE) \/ Ends(c, FALSE, FALSE))
    BY <1>4 DEF GiveBack, Flight, Ends
  <2>2. ASSUME NEW d \in Calls, Failing(d)', ~Failing(d) PROVE ~Paid(d)
    <3>1. CASE S!Transfer(net, c)
      <4>1. d = c /\ job[net] = <<c>> /\ worker[net] = "transfer"
        BY <2>2, <3>1 DEF S!Transfer, S!At, S!Goto, Failing
      <4>2. Transaction(c) = <<c, "transfer">>
        BY <4>1 DEF Transaction, S!At
      <4>3. <<c, "transfer">> \notin Range(chain)
        BY <2>1, <4>2, Unsent
      <4> QED BY <4>1, <4>3 DEF Paid, Once
    <3>2. CASE S!SubmitError(net, c)
      BY <2>2, <3>2 DEF S!SubmitError, S!Leave, S!Goto, Failing
    <3>3. CASE S!SubmitOutput(c)
      BY <2>2, <3>3 DEF S!SubmitOutput, Failing
    <3> QED BY <2>1, <3>1, <3>2, <3>3 DEF Ends
  <2> QED BY <1>1, <2>1, <2>2 DEF Paid, Faulted
<1>5. CASE UNCHANGED server /\ told' = told
  BY <1>1, <1>5 DEF server, Failing, Paid, Faulted
<1>6. Register \/ Mine \/ (\E c \in Calls : TakeNonce(c) \/ SendRefused(c) \/ SendTimeout(c))
      \/ (\E w \in wired : Arrive(w[1], w[2])) \/ (\E n \in DOMAIN pending : Evict(n))
      \/ UNCHANGED vars
      => UNCHANGED server /\ told' = told
  BY DEF Register, Mine, TakeNonce, SendRefused, SendTimeout, Arrive, Evict, vars, account
<1> QED BY <1>2, <1>3, <1>4, <1>5, <1>6 DEF Next

LEMMA HonestErrors == Settled /\ Honest => ErrorMovedNothing
<1> SUFFICES ASSUME Settled, Honest, NEW c \in Calls, NEW i \in DOMAIN ledger,
                    NEW j \in DOMAIN ledger,
                    ledger[i] = <<c, "transfer">>, ledger[j] = <<c, "error">>
             PROVE  FALSE
  BY DEF ErrorMovedNothing, Mined, Range
<1>1. <<i - 1, <<c, "transfer">>>> \in told /\ <<j - 1, <<c, "error">>>> \in told
  BY DEF Settled, Traced, Left, Honest
<1>2. Paid(c) /\ Faulted(c)
  <2> DEFINE x == <<i - 1, <<c, "transfer">>>>
             y == <<j - 1, <<c, "error">>>>
  <2>1. x[2] = <<c, "transfer">> /\ y[2] = <<c, "error">>
    OBVIOUS
  <2> QED BY <1>1, <2>1 DEF Paid, Faulted
<1> QED BY <1>2 DEF Honest

\* "failed to transfer token" is true of every mined error as long as no reply to a
\* sent transaction is lost and no attestation report fails after the transfer:
\* of all the faults, those two are the only ones that can make the word untrue.
THEOREM ErrorsMoveNothing ==
    ASSUME "timeout" \notin ChainFaults, ~WithinTee \/ "attest" \notin ServerFaults
    PROVE  Spec => []ErrorMovedNothing
<1>1. Faithful
  BY DEF Faithful
<1>2. Init => Honest
  BY DEF Init, Honest, Paid
<1>3. Known /\ Settled /\ Honest /\ [Next]_vars => Honest'
  BY <1>1, HonestStep
<1> QED BY <1>2, <1>3, HonestErrors, AlwaysSettled, PTL DEF Spec
=============================================================================
