---------------------------- MODULE AizelServer ----------------------------
(***************************************************************************)
(* The life of an inference request inside a node (node/aizel_server.rs):  *)
(* the gRPC handler puts it into the bounded channel of its network, the   *)
(* network's worker task takes requests one at a time, runs the model and  *)
(* either spawns a task that uploads and submits the output, or submits    *)
(* the error itself.  Every await is a point where the others may step.    *)
(*                                                                         *)
(* The model servers, storage, gate server, attestation agent and chain    *)
(* are modelled by how their calls may end.  A panic (an unwrap in the     *)
(* code) ends the task it happens in: the worker's drops the receiver of   *)
(* its channel, and the requests in it, for good.                          *)
(***************************************************************************)
EXTENDS Naturals, Sequences, FiniteSets, Functions

CONSTANTS
    Networks,   \* AIZEL_CONFIG.networks
    Calls,      \* calls of llama_inference; two of them may repeat a request
    NetworkOf,  \* req.network of each call, perhaps not one of Networks
    Kind,       \* "chat", "transfer" (model TRANSFER_AGENT_ID) or "ml" (req_type)
    BadKey,     \* the calls whose user_pk is not a public key
    Capacity,   \* DEFAULT_CHANNEL_SIZE
    WithinTee,  \* AIZEL_CONFIG.within_tee
    Faults      \* which calls may fail, by network

FaultNames == {
    "query",      \* the contract does not answer for the model
    "run",        \* the model server cannot be switched to the model
    "storage",    \* the input cannot be read or decrypted
    "malformed",  \* an archive, the input or the model's reply breaks an unwrap
    "model",      \* the model server does not answer
    "attest",     \* no attestation report
    "gate_down",  \* the gate server cannot be reached
    "gate_reply", \* the gate server answers an upload with an error
    "refuse",     \* send() of a transaction fails, and it is not sent
    "lost",       \* send() of a transaction fails, but it is sent
    "hang"}       \* some call out of the node never ends: none has a timeout

ASSUME KindAssumption == Kind \in [Calls -> {"chat", "transfer", "ml"}]
ASSUME NetworkAssumption == DOMAIN NetworkOf = Calls
ASSUME BadKeyAssumption == BadKey \subseteq Calls
ASSUME CapacityAssumption == Capacity \in Nat \ {0}
ASSUME TeeAssumption == WithinTee \in BOOLEAN
ASSUME FaultAssumption == Faults \subseteq Networks \X FaultNames

VARIABLES
    rpc,     \* each call: "new", "sending" (awaits room), "acked" or "refused"
    queue,   \* each network's channel
    worker,  \* where each network's worker is
    job,     \* the call in each worker's hands: << >> or <<c>>
    task,    \* the submission task of each call: "none", "upload", "submit"
    gate,    \* the outputs and errors the gate server stores, <<call, what>>
    chain,   \* the transactions sent, <<call, what>>, in order
    end      \* history: how the node was done with each call

vars == <<rpc, queue, worker, job, task, gate, chain, end>>

None == << >>

May(n, fault) == <<n, fault>> \in Faults

Init ==
    /\ rpc = [c \in Calls |-> "new"]
    /\ queue = [n \in Networks |-> << >>]
    /\ worker = [n \in Networks |-> "start"]
    /\ job = [n \in Networks |-> None]
    /\ task = [c \in Calls |-> "none"]
    /\ gate = {}
    /\ chain = << >>
    /\ end = [c \in Calls |-> "open"]

-----------------------------------------------------------------------------
(* The gRPC handler: llama_inference. *)

Receive(c) ==
    /\ rpc[c] = "new"
    /\ rpc' = [rpc EXCEPT ![c] =
                 IF NetworkOf[c] \in Networks THEN "sending" ELSE "refused"]
    /\ UNCHANGED <<queue, worker, job, task, gate, chain, end>>

\* Mutant: an unbounded channel.
EnqueueUnbounded(c) ==
    /\ rpc[c] = "sending"
    /\ worker[NetworkOf[c]] # "dead"
    /\ queue' = [queue EXCEPT ![NetworkOf[c]] = Append(@, c)]
    /\ rpc' = [rpc EXCEPT ![c] = "acked"]
    /\ UNCHANGED <<worker, job, task, gate, chain, end>>

\* sender.send found room: the call is answered before any work is done.
Enqueue(c) ==
    /\ rpc[c] = "sending"
    /\ worker[NetworkOf[c]] # "dead"
    /\ Len(queue[NetworkOf[c]]) < Capacity
    /\ queue' = [queue EXCEPT ![NetworkOf[c]] = Append(@, c)]
    /\ rpc' = [rpc EXCEPT ![c] = "acked"]
    /\ UNCHANGED <<worker, job, task, gate, chain, end>>

\* Mutant: the receiver outlives the worker.
RejectNever(c) == FALSE /\ UNCHANGED vars

\* sender.send fails once the receiver is gone.
Reject(c) ==
    /\ rpc[c] = "sending"
    /\ worker[NetworkOf[c]] = "dead"
    /\ rpc' = [rpc EXCEPT ![c] = "refused"]
    /\ UNCHANGED <<queue, worker, job, task, gate, chain, end>>

-----------------------------------------------------------------------------
(* The worker of network n, between two awaits with call c in its hands.   *)

At(n, c, label) == worker[n] = label /\ job[n] = <<c>>

Goto(n, label) == worker' = [worker EXCEPT ![n] = label]

\* The loop goes on to the next request; c ended as stated.
Leave(n, c, how) ==
    /\ Goto(n, "recv")
    /\ job' = [job EXCEPT ![n] = None]
    /\ end' = [end EXCEPT ![c] = how]

\* AttestationAgent::new, once; if it fails, see Panics.
Start(n) ==
    /\ worker[n] = "start"
    /\ Goto(n, "recv")
    /\ UNCHANGED <<rpc, queue, job, task, gate, chain, end>>

\* Mutant: a request stays in the channel while it is worked on.
RecvPeek(n) ==
    /\ worker[n] = "recv"
    /\ queue[n] # << >>
    /\ job' = [job EXCEPT ![n] = <<Head(queue[n])>>]
    /\ Goto(n, "query")
    /\ UNCHANGED <<rpc, queue, task, gate, chain, end>>

\* rx.recv
Recv(n) ==
    /\ worker[n] = "recv"
    /\ queue[n] # << >>
    /\ job' = [job EXCEPT ![n] = <<Head(queue[n])>>]
    /\ queue' = [queue EXCEPT ![n] = Tail(@)]
    /\ Goto(n, "query")
    /\ UNCHANGED <<rpc, task, gate, chain, end>>

\* Contract::query_model
QueryModel(n, c) ==
    /\ At(n, c, "query")
    /\ \/ Goto(n, "run")
       \/ May(n, "query") /\ Goto(n, "handle_error")
    /\ UNCHANGED <<rpc, queue, job, task, gate, chain, end>>

\* ml_server.run or llama_cpp_server.run: on an error `continue`, with no word
\* to the user.
RunModel(n, c) ==
    /\ At(n, c, "run")
    /\ \/ Goto(n, "input") /\ UNCHANGED <<job, end>>
       \/ May(n, "run") /\ Leave(n, c, "dropped")
    /\ UNCHANGED <<rpc, queue, task, gate, chain>>

\* get_inputs and decrypt.
GetInput(n, c) ==
    /\ At(n, c, "input")
    /\ \/ Goto(n, "infer")
       \/ May(n, "storage") /\ Goto(n, "handle_error")
    /\ UNCHANGED <<rpc, queue, job, task, gate, chain, end>>

\* ChatClient::request or MlClient::request.
AskModel(n, c) ==
    /\ Kind[c] # "transfer"
    /\ \/ Goto(n, "report")
       \/ May(n, "model") /\ Goto(n, "handle_error")

\* Mutant: `continue` when the model makes no function call.
AskAgentDrops(n, c) ==
    /\ Kind[c] = "transfer"
    /\ c \notin BadKey
    /\ Goto(n, "transfer") \/ Goto(n, "recv")

\* Mutant: without a function call the agent's words are the output.
AskAgentAnswers(n, c) ==
    /\ Kind[c] = "transfer"
    /\ c \notin BadKey
    /\ Goto(n, "transfer") \/ Goto(n, "report")

\* TransferAgentClient::request, whose first step unwraps the user's key and
\* whose request is unwrapped: see Panics.  It is an error if the model makes no
\* function call, or for a token COIN_ADDRESS_MAPPING does not know.
AskAgent(n, c) ==
    /\ Kind[c] = "transfer"
    /\ c \notin BadKey
    /\ Goto(n, "transfer") \/ Goto(n, "handle_error")

Infer(n, c) ==
    /\ At(n, c, "infer")
    /\ AskModel(n, c) \/ AskAgent(n, c)
    /\ UNCHANGED <<rpc, queue, job, task, gate, chain, end>>

\* Mutant: a transfer whose reply is lost is sent again.
TransferRetries(n, c) ==
    /\ At(n, c, "transfer")
    /\ chain' = Append(chain, <<c, "transfer">>)
    /\ Goto(n, "report") \/ (May(n, "lost") /\ Len(chain) < 3 /\ UNCHANGED worker)
    /\ UNCHANGED <<rpc, queue, job, task, gate, end>>

\* Contract::transfer
Transfer(n, c) ==
    /\ At(n, c, "transfer")
    /\ \/ chain' = Append(chain, <<c, "transfer">>) /\ Goto(n, "report")
       \/ May(n, "refuse") /\ Goto(n, "handle_error") /\ UNCHANGED chain
       \/ /\ May(n, "lost")
          /\ chain' = Append(chain, <<c, "transfer">>)
          /\ Goto(n, "handle_error")
    /\ UNCHANGED <<rpc, queue, job, task, gate, end>>

\* encrypt and get_attestation_report; then the submission is spawned and the
\* worker is free.
Report(n, c) ==
    /\ At(n, c, "report")
    /\ c \notin BadKey
    /\ \/ /\ task' = [task EXCEPT ![c] = "upload"]
          /\ Goto(n, "recv")
          /\ job' = [job EXCEPT ![n] = None]
       \/ /\ WithinTee /\ May(n, "attest")
          /\ Goto(n, "handle_error")
          /\ UNCHANGED <<task, job>>
    /\ UNCHANGED <<rpc, queue, gate, chain, end>>

\* handle_error up to the upload: encrypt and get_attestation_report.
HandleError(n, c) ==
    /\ At(n, c, "handle_error")
    /\ c \notin BadKey
    /\ Goto(n, "upload")
    /\ UNCHANGED <<rpc, queue, job, task, gate, chain, end>>

\* let _ = submit_output: a gate server out of reach is ignored.
UploadError(n, c) ==
    /\ At(n, c, "upload")
    /\ \/ gate' = gate \cup {<<c, "error">>}
       \/ May(n, "gate_down") /\ UNCHANGED gate
    /\ Goto(n, "submit")
    /\ UNCHANGED <<rpc, queue, job, task, chain, end>>

\* let _ = submit_inference
SubmitError(n, c) ==
    /\ At(n, c, "submit")
    /\ \/ chain' = Append(chain, <<c, "error">>) /\ Leave(n, c, "verdict")
       \/ May(n, "refuse") /\ Leave(n, c, "unsent") /\ UNCHANGED chain
    /\ UNCHANGED <<rpc, queue, task, gate>>

\* Where an unwrap in the worker panics, or may.
Panics(n, c) ==
    LET step == worker[n] IN
    \/ step = "run" /\ (May(n, "query") \/ May(n, "malformed"))
    \/ step \in {"input", "transfer"} /\ May(n, "malformed")
    \/ step = "infer" /\ Kind[c] # "ml" /\ May(n, "malformed")
    \/ step = "infer" /\ Kind[c] = "transfer" /\ (May(n, "model") \/ c \in BadKey)
    \/ step \in {"report", "handle_error"} /\ c \in BadKey
    \/ step \in {"report", "handle_error"} /\ WithinTee /\ May(n, "attest")
    \/ step = "upload" /\ May(n, "gate_reply")

\* The worker panics: the call in its hands and those in the channel are lost.
Die(n) ==
    /\ \/ worker[n] = "start" /\ May(n, "attest")
       \/ \E c \in Calls : job[n] = <<c>> /\ Panics(n, c)
    /\ Goto(n, "dead")
    /\ job' = [job EXCEPT ![n] = None]
    /\ queue' = [queue EXCEPT ![n] = << >>]
    /\ end' = [c \in Calls |->
                 IF job[n] = <<c>> \/ c \in Range(queue[n]) THEN "lost" ELSE end[c]]
    /\ UNCHANGED <<rpc, task, gate, chain>>

Work(n) ==
    \/ Start(n) \/ Recv(n) \/ Die(n)
    \/ \E c \in Calls :
        \/ QueryModel(n, c) \/ RunModel(n, c) \/ GetInput(n, c)
        \/ Infer(n, c) \/ Transfer(n, c) \/ Report(n, c)
        \/ HandleError(n, c) \/ UploadError(n, c) \/ SubmitError(n, c)

-----------------------------------------------------------------------------
(* The task spawned for the output of call c. *)

\* Mutant: a failed upload is ignored, as in handle_error.
UploadOutputIgnores(c) ==
    /\ task[c] = "upload"
    /\ task' = [task EXCEPT ![c] = "submit"]
    /\ \/ gate' = gate \cup {<<c, "output">>}
       \/ May(NetworkOf[c], "gate_down") /\ UNCHANGED gate
    /\ UNCHANGED <<rpc, queue, worker, job, chain, end>>

\* submit_output(...).unwrap(): any failure of the gate server is a panic of
\* this task, and the output is never submitted.
UploadOutput(c) ==
    LET n == NetworkOf[c] IN
    /\ task[c] = "upload"
    /\ \/ /\ gate' = gate \cup {<<c, "output">>}
          /\ task' = [task EXCEPT ![c] = "submit"]
          /\ UNCHANGED end
       \/ /\ May(n, "gate_down") \/ May(n, "gate_reply")
          /\ task' = [task EXCEPT ![c] = "none"]
          /\ end' = [end EXCEPT ![c] = "unsent"]
          /\ UNCHANGED gate
    /\ UNCHANGED <<rpc, queue, worker, job, chain>>

\* let _ = submit_inference
SubmitOutput(c) ==
    LET n == NetworkOf[c] IN
    /\ task[c] = "submit"
    /\ task' = [task EXCEPT ![c] = "none"]
    /\ \/ /\ chain' = Append(chain, <<c, "output">>)
          /\ end' = [end EXCEPT ![c] = "verdict"]
       \/ /\ May(n, "refuse")
          /\ end' = [end EXCEPT ![c] = "unsent"]
          /\ UNCHANGED chain
    /\ UNCHANGED <<rpc, queue, worker, job, gate>>

Handle(c) == Receive(c) \/ Enqueue(c) \/ Reject(c)

Submit(c) == UploadOutput(c) \/ SubmitOutput(c)

Next ==
    \/ \E c \in Calls : Handle(c) \/ Submit(c)
    \/ \E n \in Networks : Work(n)

Spec == Init /\ [][Next]_vars

\* tokio runs every task that is ready and a waiting send is not starved (the
\* channel's semaphore is fair).  A task whose call out of the node never ends
\* stays where it is.
Fairness ==
    /\ \A c \in Calls : SF_vars(Enqueue(c)) /\ WF_vars(Reject(c))
    /\ \A n \in Networks : ~May(n, "hang") =>
        WF_vars(Work(n)) /\ \A c \in Calls : NetworkOf[c] = n => WF_vars(Submit(c))

FairSpec == Spec /\ Fairness

-----------------------------------------------------------------------------
(* Properties. *)

Transactions == Calls \X {"transfer", "output", "error"}

\* The type of every variable.
TypeOK ==
    /\ rpc \in [Calls -> {"new", "sending", "acked", "refused"}]
    /\ queue \in [Networks -> Seq(Calls)]
    /\ \A n \in Networks : Len(queue[n]) <= Capacity
    /\ worker \in [Networks -> {"start", "recv", "query", "run", "input", "infer",
                                "transfer", "report", "handle_error", "upload",
                                "submit", "dead"}]
    /\ job \in [Networks -> {None} \cup {<<c>> : c \in Calls}]
    /\ \A n \in Networks : job[n] = None <=> worker[n] \in {"start", "recv", "dead"}
    /\ task \in [Calls -> {"none", "upload", "submit"}]
    /\ gate \subseteq Calls \X {"output", "error"}
    /\ chain \in Seq(Transactions)
    /\ end \in [Calls -> {"open", "verdict", "unsent", "dropped", "lost"}]

\* The places a call is in: channels, workers' hands, its submission task.
Queued(c) == {at \in Networks \X (1 .. Capacity) :
                at[2] <= Len(queue[at[1]]) /\ queue[at[1]][at[2]] = c}
Worked(c) == {n \in Networks : job[n] = <<c>>}
Tasked(c) == {task[c]} \ {"none"}
Ended(c)  == {end[c]} \ {"open"}

\* A call the gate server was told is accepted is in exactly one place or over,
\* whatever panics: never handled twice, never forgotten without an end.  Any
\* other call is nowhere.
Accounted ==
    \A c \in Calls :
        Cardinality(Queued(c)) + Cardinality(Worked(c))
            + Cardinality(Tasked(c)) + Cardinality(Ended(c))
        = IF rpc[c] = "acked" THEN 1 ELSE 0

Sent(c, what) == <<c, what>> \in Range(chain)

\* For each call the chain sees at most one transfer and at most one verdict
\* (output or error), the verdict last, and a transfer's output never without
\* the transfer.
OneStory ==
    /\ IsInjective(chain)
    /\ \A i, j \in DOMAIN chain :
        i < j /\ chain[i][1] = chain[j][1] => chain[i][2] = "transfer"
    /\ \A c \in Calls :
        IF Kind[c] = "transfer" THEN Sent(c, "output") => Sent(c, "transfer")
                                ELSE ~Sent(c, "transfer")

\* An output whose hash is on the chain can be fetched from the gate server:
\* the spawned task submits nothing it could not upload.
OutputAvailable ==
    \A c \in Calls : Sent(c, "output") => <<c, "output">> \in gate

\* A network none of whose calls out can fail, nor its users' keys be none, answers
\* every call it accepted, also when the worker of another panics or waits for ever.
Healthy ==
    {n \in Networks : /\ \A f \in FaultNames : ~May(n, f)
                      /\ \A c \in BadKey : NetworkOf[c] # n}

HealthyAnswers ==
    \A c \in Calls :
        NetworkOf[c] \in Healthy
            => (rpc[c] = "acked" ~> Sent(c, "output") \/ Sent(c, "error"))

\* No call hangs that the services do not leave hanging: the gate server gets its
\* answer even when the channel is full or the worker dies while it waits, and an
\* accepted call comes to an end.
NoCallHangs ==
    \A c \in Calls :
        ~May(NetworkOf[c], "hang") =>
            /\ rpc[c] = "sending" ~> rpc[c] \in {"acked", "refused"}
            /\ rpc[c] = "acked" ~> end[c] # "open"

\* Whatever fails, the node keeps what CallOutcome promises of each call.
Outcome == INSTANCE CallOutcome WITH
    answer <- [c \in Calls |-> IF rpc[c] \in {"new", "sending"} THEN "none" ELSE rpc[c]],
    over <- {c \in Calls : end[c] # "open"}

ImplementsOutcome == Outcome!Spec
=============================================================================
