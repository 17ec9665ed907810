------------------------------ MODULE MlServer ------------------------------
(***************************************************************************)
(* One network's server of Aizel models (node/model_server.rs, MlServer).  *)
(* It serves the model described by one configuration file in the          *)
(* network's directory: each model's archive, once unpacked, overwrites    *)
(* that file, and a copy under the model's id is kept to switch back.      *)
(* The steps up to the spawn change files only, and the node may die       *)
(* between any two of them; a failed fs::copy or unpack is a panic.        *)
(***************************************************************************)
EXTENDS Naturals

CONSTANTS
    Models,       \* each with an archive of its own name that holds its configuration
    None,
    Torn,         \* a configuration file of which only part was written
    Faults,       \* what may go wrong
    MaxRestarts   \* bound: restarts of the node

\* "copy":     the source directory is not copied, or only in part.
\* "download": the download fails and leaves no file.
\* "partial":  it fails, or the node dies in a copy, with part of a file written.
\* "query":    the chain does not say where the data node is.
\* "corrupt":  the archive cannot be unpacked.
\* "die":      the child ends by itself.
\* "slow":     the child needs longer to load than the node sleeps.
AllFaults == {"copy", "download", "partial", "query", "corrupt", "die", "slow"}

ASSUME NoneAssumption == None \notin Models /\ Torn \notin Models \cup {None}
ASSUME FaultAssumption == Faults \subseteq AllFaults
ASSUME BoundAssumption == MaxRestarts \in Nat

VARIABLES
    step,      \* where the worker is; a panic ends it
    want,      \* model_info.id of the request in hand
    current,   \* current_model; None stands for the 0 of a server without model
    child,     \* the model the live child was started with
    loaded,    \* the child listens on its port
    dir,       \* ml_models_dir exists
    archive,   \* each model's archive: "absent", "partial" or "complete"
    config,    \* the model models.json describes, None at first
    saved,     \* for each model what models.json_<id> describes, None if absent
    answered,  \* history: the last answer, the model asked for and the one that gave it
    restarts

files == <<dir, archive, config, saved>>
vars  == <<step, want, current, child, loaded, files, answered, restarts>>

Init ==
    /\ step = "idle"
    /\ want = None
    /\ current = None
    /\ child = None
    /\ loaded = FALSE
    /\ dir = FALSE
    /\ archive = [m \in Models |-> "absent"]
    /\ config = None
    /\ saved = [m \in Models |-> None]
    /\ answered = <<None, None>>
    /\ restarts = 0

\* run with the model it has: Ok at once, whatever became of the child.
KeepModel(m) ==
    /\ m = current
    /\ step' = "request"
    /\ UNCHANGED <<child, loaded>>

\* Mutant: a child that is dead already cannot be killed, and the error is ignored.
KillChildFails(m) ==
    /\ m # current
    /\ child' = None
    /\ loaded' = FALSE
    /\ step' = IF child = None /\ current # None THEN "request" ELSE "copy_dir"

\* run with another model: kill and wait.
KillChild(m) ==
    /\ m # current
    /\ child' = None
    /\ loaded' = FALSE
    /\ step' = "copy_dir"

run(m) ==
    /\ step = "idle"
    /\ want' = m
    /\ KeepModel(m) \/ KillChild(m)
    /\ UNCHANGED <<current, files, answered, restarts>>

\* run_ml_server failed: run returns Err and the request is dropped.
Abandon == step' = "idle" /\ want' = None

\* prepare_model, the directory.
CopyDir ==
    /\ step = "copy_dir"
    /\ \/ dir' = TRUE /\ step' = "prepare" /\ UNCHANGED want
       \/ ~dir /\ "copy" \in Faults /\ dir' \in BOOLEAN /\ Abandon
    /\ UNCHANGED <<current, child, loaded, archive, config, saved, answered, restarts>>

\* Mutant: a missing copy is ignored.
RecoverIgnores ==
    /\ archive[want] # "absent"
    /\ config' = IF saved[want] # None THEN saved[want] ELSE config
    /\ step' = "spawn"
    /\ UNCHANGED <<want, archive>>

\* prepare_model, the archive is there: recover_model_config, which unwraps.
recover_model_config ==
    /\ archive[want] # "absent"
    /\ IF saved[want] # None
       THEN config' = saved[want] /\ step' = "spawn"
       ELSE step' = "panicked" /\ UNCHANGED config
    /\ UNCHANGED <<want, archive>>

Download ==
    /\ archive[want] = "absent"
    /\ archive' = [archive EXCEPT ![want] = "complete"]
    /\ step' = "unpack"
    /\ UNCHANGED <<want, config>>

\* get_data_client unwraps the answer of the chain.
NoDataNode ==
    /\ archive[want] = "absent"
    /\ "query" \in Faults
    /\ step' = "panicked"
    /\ UNCHANGED <<want, archive, config>>

DownloadFails ==
    /\ archive[want] = "absent"
    /\ \/ "download" \in Faults /\ UNCHANGED archive
       \/ "partial" \in Faults /\ archive' = [archive EXCEPT ![want] = "partial"]
    /\ Abandon
    /\ UNCHANGED config

prepare_model ==
    /\ step = "prepare"
    /\ recover_model_config \/ Download \/ NoDataNode \/ DownloadFails
    /\ UNCHANGED <<current, child, loaded, dir, saved, answered, restarts>>

\* Mutant: the archive is unpacked without overwriting what is there.
UnpackKeeps ==
    /\ step = "unpack"
    /\ config' = IF config = None THEN want ELSE config
    /\ step' = "save"
    /\ UNCHANGED <<want, current, child, loaded, dir, archive, saved, answered, restarts>>

\* archive.unpack(...).unwrap() overwrites models.json.
Unpack ==
    /\ step = "unpack"
    /\ \/ config' = want /\ step' = "save"
       \/ "corrupt" \in Faults /\ config' \in {config, want, Torn} /\ step' = "panicked"
    /\ UNCHANGED <<want, current, child, loaded, dir, archive, saved, answered, restarts>>

\* Mutant: a failed copy is ignored.
SaveIgnores ==
    /\ step = "save"
    /\ saved' \in {saved, [saved EXCEPT ![want] = config]}
    /\ step' = "spawn"
    /\ UNCHANGED <<want, current, child, loaded, dir, archive, config, answered, restarts>>

save_model_config ==
    /\ step = "save"
    /\ saved' = [saved EXCEPT ![want] = config]
    /\ step' = "spawn"
    /\ UNCHANGED <<want, current, child, loaded, dir, archive, config, answered, restarts>>

\* command.spawn: the child reads models.json, and ends if it cannot.  Then
\* the sleep.
Spawn ==
    /\ step = "spawn"
    /\ child' = IF config = Torn THEN None ELSE config
    /\ loaded' = FALSE
    /\ step' = "sleep"
    /\ UNCHANGED <<want, current, files, answered, restarts>>

\* After 5 seconds the server is taken to be ready.
Wake ==
    /\ step = "sleep"
    /\ loaded \/ child = None \/ "slow" \in Faults
    /\ current' = want
    /\ step' = "request"
    /\ UNCHANGED <<want, child, loaded, files, answered, restarts>>

\* MlClient::request posts to the port; the model is not named in the request.
Answer ==
    /\ step = "request"
    /\ loaded
    /\ answered' = <<want, child>>
    /\ step' = "idle"
    /\ want' = None
    /\ UNCHANGED <<current, child, loaded, files, restarts>>

NoAnswer ==
    /\ step = "request"
    /\ ~loaded
    /\ step' = "idle"
    /\ want' = None
    /\ UNCHANGED <<current, child, loaded, files, answered, restarts>>

-----------------------------------------------------------------------------
(* The child (external), and the container. *)

Load ==
    /\ child # None
    /\ ~loaded
    /\ loaded' = TRUE
    /\ UNCHANGED <<step, want, current, child, files, answered, restarts>>

Exit ==
    /\ child # None
    /\ "die" \in Faults
    /\ child' = None
    /\ loaded' = FALSE
    /\ UNCHANGED <<step, want, current, files, answered, restarts>>

\* The node dies while it downloads the archive, writes models.json from the
\* archive or the copy, or writes the copy.
Tear ==
    /\ "partial" \in Faults
    /\ \/ /\ step = "prepare" /\ archive[want] = "absent"
          /\ archive' = [archive EXCEPT ![want] = "partial"]
          /\ UNCHANGED <<config, saved>>
       \/ /\ step = "unpack" \/ (step = "prepare" /\ saved[want] # None)
          /\ config' = Torn
          /\ UNCHANGED <<archive, saved>>
       \/ /\ step = "save"
          /\ saved' = [saved EXCEPT ![want] = Torn]
          /\ UNCHANGED <<archive, config>>

\* The node dies, or is stopped after its worker panicked, and its container is
\* started again: MlServer::new(&None), no child processes, the files as they were.
Restart ==
    /\ restarts < MaxRestarts
    /\ restarts' = restarts + 1
    /\ step' = "idle"
    /\ want' = None
    /\ current' = None
    /\ child' = None
    /\ loaded' = FALSE
    /\ UNCHANGED <<archive, config, saved>> \/ Tear
    /\ UNCHANGED <<dir, answered>>

Next ==
    \/ \E m \in Models : run(m)
    \/ CopyDir \/ prepare_model \/ Unpack \/ save_model_config
    \/ Spawn \/ Wake \/ Answer \/ NoAnswer
    \/ Load \/ Exit \/ Restart

Spec == Init /\ [][Next]_vars

\* The worker goes on, a child loads, and a copy or a download that is tried
\* for ever, and an answer that may be had for ever, come about once.
Fairness ==
    /\ WF_vars(Unpack) /\ WF_vars(save_model_config)
    /\ WF_vars(Spawn) /\ WF_vars(Wake) /\ WF_vars(Load)
    /\ WF_vars(CopyDir) /\ WF_vars(prepare_model) /\ WF_vars(Answer \/ NoAnswer)
    /\ SF_vars(CopyDir /\ step' = "prepare")
    /\ \A m \in Models :
        /\ SF_vars(want = m /\ prepare_model /\ Download)
        /\ SF_vars(want = m /\ Answer)

FairSpec == Spec /\ Fairness

-----------------------------------------------------------------------------
(* Properties. *)

\* The type of every variable.
TypeOK ==
    /\ step \in {"idle", "copy_dir", "prepare", "unpack", "save", "spawn", "sleep",
                 "request", "panicked"}
    /\ want \in Models \cup {None}
    /\ current \in Models \cup {None}
    /\ child \in Models \cup {None}
    /\ loaded \in BOOLEAN
    /\ dir \in BOOLEAN
    /\ archive \in [Models -> {"absent", "partial", "complete"}]
    /\ config \in Models \cup {None, Torn}
    /\ saved \in [Models -> Models \cup {None, Torn}]
    /\ answered \in (Models \cup {None}) \X (Models \cup {None})
    /\ restarts \in Nat

\* The copy kept under a model's id describes no other model, wherever the node
\* died: models.json is shared, and a copy taken of it at the wrong moment would
\* make every later switch serve another model under this one's id.
SavedIsOwn == \A m \in Models : saved[m] \in {None, Torn, m}

\* A model that was fetched can be switched back to: while the node runs no
\* complete archive is without its copy between requests, whichever earlier
\* switch failed and where, so that recover_model_config does not panic.
Recoverable ==
    restarts = 0 /\ step \in {"idle", "request"}
        => \A m \in Models : archive[m] = "complete" => saved[m] # None

\* The server keeps the worker's contract: each answer is the work of the model
\* the request named, although the request to the port does not name it.
Service == INSTANCE ModelService WITH serving <- child

ImplementsService == Service!Spec

\* A failed switch and a child that ended are repaired once another model is
\* asked for: if every model is asked for again and again, children stop dying
\* and are loaded when the sleep is over, each model answers again and again.
SwitchHeals ==
    (\A m \in Models : []<>(want = m)) /\ <>[][~Exit /\ (Wake => loaded)]_vars
        => \A m \in Models : []<>(answered[1] = m)
=============================================================================
