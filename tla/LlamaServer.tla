----------------------------- MODULE LlamaServer -----------------------------
(***************************************************************************)
(* One network's llama.cpp server (node/model_server.rs, LlamaServer): a   *)
(* child process of the node that serves one model at a time, and the file *)
(* of each model in models_dir, downloaded when it is first asked for.     *)
(*                                                                         *)
(* The worker calls run and, if it returns Ok, sends the request to the    *)
(* child's port (node/model_client.rs); both calls are made for one        *)
(* request after the other.  The child is another process: it may end at   *)
(* any time, or still be loading when the worker's fixed sleep is over.    *)
(***************************************************************************)
EXTENDS Naturals

CONSTANTS
    Models,       \* models registered on the network, each with a file of its own
    Default,      \* the data node's default model
    None,
    Faults,       \* what may go wrong
    MaxRestarts   \* bound: restarts of the node

\* "download": the download fails and leaves no file.
\* "partial":  it fails, or the node dies, with part of the file written.
\* "die":      the child ends by itself.
\* "query":    the chain does not say where the data node is.
\* "slow":     the child needs longer to load than the node sleeps.
AllFaults == {"download", "partial", "query", "die", "slow"}

ASSUME ModelAssumption == Default \in Models /\ None \notin Models
ASSUME FaultAssumption == Faults \subseteq AllFaults
ASSUME BoundAssumption == MaxRestarts \in Nat

VARIABLES
    step,      \* where the worker is
    want,      \* model_info.id of the request in hand
    current,   \* current_model
    child,     \* the model the live child was started with
    loaded,    \* the child listens on its port
    disk,      \* the file of each model: "absent", "partial" or "complete"
    answered,  \* history: the last answer, the model asked for and the one that gave it
    restarts

vars == <<step, want, current, child, loaded, disk, answered, restarts>>

Init ==
    /\ step = "off"
    /\ want = None
    /\ current = None
    /\ child = None
    /\ loaded = FALSE
    /\ disk = [m \in Models |-> "absent"]
    /\ answered = <<None, None>>
    /\ restarts = 0

\* LlamaServer::new at start-up, for the default model.
new ==
    /\ step = "off"
    /\ step' = "prepare"
    /\ want' = Default
    /\ UNCHANGED <<current, child, loaded, disk, answered, restarts>>

\* Mutant: a server that answers is kept, whatever its model.
KeepModelLoaded(m) ==
    /\ m = current \/ loaded
    /\ step' = "request"
    /\ UNCHANGED <<child, loaded>>

\* run, called with the model it has: Ok at once, whatever became of the child.
KeepModel(m) ==
    /\ m = current
    /\ step' = "request"
    /\ UNCHANGED <<child, loaded>>

\* Mutant: a child that is dead already cannot be killed, and the error is ignored.
KillChildFails(m) ==
    /\ m # current
    /\ child' = None
    /\ loaded' = FALSE
    /\ step' = IF child = None /\ current # None THEN "request" ELSE "prepare"

\* run, called with another model: kill and wait.
KillChild(m) ==
    /\ m # current
    /\ child' = None
    /\ loaded' = FALSE
    /\ step' = "prepare"

run(m) ==
    /\ step = "idle"
    /\ want' = m
    /\ KeepModel(m) \/ KillChild(m)
    /\ UNCHANGED <<current, disk, answered, restarts>>

\* run_llama_server failed: LlamaServer::run returns Err and the request is
\* dropped, with current_model as before.  LlamaServer::new is unwrapped: the
\* node does not start.
Abandon ==
    /\ step' = IF current = None THEN "off" ELSE "idle"
    /\ want' = None

\* prepare_model: a file at the model's path is taken as it is.
UseFile ==
    /\ disk[want] # "absent"
    /\ step' = "spawn"
    /\ UNCHANGED <<want, disk>>

Download ==
    /\ disk[want] = "absent"
    /\ disk' = [disk EXCEPT ![want] = "complete"]
    /\ step' = "spawn"
    /\ UNCHANGED want

\* get_data_client unwraps the answer: the worker ends in the middle of a switch.
NoDataNode ==
    /\ disk[want] = "absent"
    /\ "query" \in Faults
    /\ IF current = None THEN Abandon ELSE step' = "panicked" /\ UNCHANGED want
    /\ UNCHANGED disk

DownloadFails ==
    /\ disk[want] = "absent"
    /\ \/ "download" \in Faults /\ UNCHANGED disk
       \/ "partial" \in Faults /\ disk' = [disk EXCEPT ![want] = "partial"]
    /\ Abandon

prepare_model ==
    /\ step = "prepare"
    /\ UseFile \/ Download \/ NoDataNode \/ DownloadFails
    /\ UNCHANGED <<current, child, loaded, answered, restarts>>

\* command.spawn, then the sleep.
Spawn ==
    /\ step = "spawn"
    /\ child' = want
    /\ loaded' = FALSE
    /\ step' = "sleep"
    /\ UNCHANGED <<want, current, disk, answered, restarts>>

\* Mutant: current_model is not set.
WakeForgets ==
    /\ step = "sleep"
    /\ loaded \/ child = None \/ "slow" \in Faults
    /\ IF current = None THEN step' = "idle" /\ want' = None
                         ELSE step' = "request" /\ UNCHANGED want
    /\ UNCHANGED <<current, child, loaded, disk, answered, restarts>>

\* After 30 seconds the server is taken to be ready.  new then has no request
\* to send.
Wake ==
    /\ step = "sleep"
    /\ loaded \/ child = None \/ "slow" \in Faults
    /\ current' = want
    /\ IF current = None THEN step' = "idle" /\ want' = None
                         ELSE step' = "request" /\ UNCHANGED want
    /\ UNCHANGED <<child, loaded, disk, answered, restarts>>

\* The chat completion: it is answered by whatever listens on the port.
Answer ==
    /\ step = "request"
    /\ loaded
    /\ answered' = <<want, child>>
    /\ step' = "idle"
    /\ want' = None
    /\ UNCHANGED <<current, child, loaded, disk, restarts>>

\* Nothing listens: the request fails.
NoAnswer ==
    /\ step = "request"
    /\ ~loaded
    /\ step' = "idle"
    /\ want' = None
    /\ UNCHANGED <<current, child, loaded, disk, answered, restarts>>

-----------------------------------------------------------------------------
(* The child (external). *)

\* It can load only a complete file.
Load ==
    /\ child # None
    /\ ~loaded
    /\ disk[child] = "complete"
    /\ loaded' = TRUE
    /\ UNCHANGED <<step, want, current, child, disk, answered, restarts>>

Exit ==
    /\ child # None
    /\ "die" \in Faults \/ disk[child] = "partial"
    /\ child' = None
    /\ loaded' = FALSE
    /\ UNCHANGED <<step, want, current, disk, answered, restarts>>

\* The node dies and its container is started again: child processes are gone,
\* files stay.
Restart ==
    /\ step # "off"
    /\ restarts < MaxRestarts
    /\ restarts' = restarts + 1
    /\ step' = "off"
    /\ want' = None
    /\ current' = None
    /\ child' = None
    /\ loaded' = FALSE
    /\ disk' \in IF step = "prepare" /\ disk[want] = "absent" /\ "partial" \in Faults
                 THEN {disk, [disk EXCEPT ![want] = "partial"]}
                 ELSE {disk}
    /\ UNCHANGED answered

Next ==
    \/ new
    \/ \E m \in Models : run(m)
    \/ prepare_model \/ Spawn \/ Wake \/ Answer \/ NoAnswer
    \/ Load \/ Exit \/ Restart

Spec == Init /\ [][Next]_vars

\* The worker goes on, an operator starts the node, and a child loads or, from
\* part of a file, ends.  A download that is tried for ever, and an answer that may be had
\* for ever, come about once.
Fairness ==
    /\ WF_vars(new) /\ WF_vars(Spawn) /\ WF_vars(Wake)
    /\ WF_vars(prepare_model) /\ WF_vars(Answer \/ NoAnswer)
    /\ WF_vars(Load) /\ WF_vars(child # None /\ disk[child] = "partial" /\ Exit)
    /\ \A m \in Models :
        /\ SF_vars(want = m /\ prepare_model /\ Download)
        /\ SF_vars(want = m /\ Answer)

FairSpec == Spec /\ Fairness

-----------------------------------------------------------------------------
(* Properties. *)

\* The type of every variable.
TypeOK ==
    /\ step \in {"off", "idle", "prepare", "spawn", "sleep", "request", "panicked"}
    /\ want \in Models \cup {None}
    /\ current \in Models \cup {None}
    /\ child \in Models \cup {None}
    /\ loaded \in BOOLEAN
    /\ disk \in [Models -> {"absent", "partial", "complete"}]
    /\ answered \in (Models \cup {None}) \X (Models \cup {None})
    /\ restarts \in Nat

\* current_model tells the truth about a child that lives: between requests no
\* other model is behind the port, whatever switches failed.
ChildIsCurrent ==
    step \in {"idle", "request"} => child \in {None, current}

\* The server keeps the worker's contract: each answer is the work of the model
\* the request named.
Service == INSTANCE ModelService WITH
    serving <- child

ImplementsService == Service!Spec

\* A failed switch and a child that ended are repaired once another model is
\* asked for: if every model is asked for again and again, children stop dying
\* and are loaded when the sleep is over, each model answers again and again.
SwitchHeals ==
    (\A m \in Models : []<>(want = m)) /\ <>[][~Exit /\ (Wake => loaded)]_vars
        => \A m \in Models : []<>(answered[1] = m)
=============================================================================
