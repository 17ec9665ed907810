# Verification of the Aizel inference node

TLA+ models of the inference node in this repository (Rust, `src/`), TLC runs
that check them on small instances, and TLAPS proofs of what matters most for
every size. `PROJECT.json` maps each definition to the lines it models and lists
the hazards that the properties are for. Source paths below are relative to the
repository.

## 1. The system

An *inference node* serves AI models to the users of several blockchain
networks. A *gate server* forwards a user's request to the node by gRPC. The
node looks the model up in a contract, has a *model server* (a child process)
load it, fetches and decrypts the user's input from object storage, asks the
model, encrypts the answer, obtains an attestation report of the hardware it
runs on, uploads answer and report to the gate server and submits their hashes
to the contract. A model called the *transfer agent* sends a token transfer to
the chain before it answers.

| component | source | state it keeps | operations | modelled |
|---|---|---|---|---|
| inference server | `src/node/aizel_server.rs` | a bounded channel and a worker task per network; a submission task per output | `llama_inference`, the worker's loop, `process_inference`, `handle_error`, `submit_output` | `AizelServer`, `CallOutcome`, `Settlement` |
| nonce manager | `src/chains/nonce_manager.rs` | per network: the next nonce (atomic), a queue of returned ones (mutex) | `next`, `save_unused`, `initialize_nonce` | `NonceManager`, `NoncePool` |
| contract client | `src/chains/contract.rs` | none of its own | `register`, `submit_inference`, `transfer` (take a nonce, send, give it back on an error), queries | `NonceManager`, `AizelServer`, `Settlement` |
| llama server | `src/node/model_server.rs` | the child, `current_model`, a file per model | `new`, `run` | `LlamaServer`, `ModelService` |
| ML server | `src/node/model_server.rs` | the child, `current_model`, archives, one shared `models.json` and its copies | `run` | `MlServer`, `ModelService` |
| model clients | `src/node/model_client.rs` | none | a request to the child's port; the transfer agent's function call | in the three servers |
| start-up | `src/node/node.rs`, `src/main.rs` | the node's key file | `open_or_create_secret`, `register`, `run_server` | `Node`, `NonceManager` |
| configuration | `src/node/config.rs` | static | `AIZEL_CONFIG` from the disk, `NETWORK_CONFIGS` from a server or a baked list | `Bootstrap` |
| secret retriever, container | `secret/main.go`, `script/bootstrap.sh` | `aizel_config.yml` | download it, then start the node | `Bootstrap` |
| object storage | `src/s3_minio/client.rs` | remote | `get_data_client`, `get_inputs`, `download_model` | how they end |
| attestation agent | `src/tee/*.rs`, `tdx/` | the provider found | `new`, `get_attestation_report` | `Node`, `GcpAttestation`, `TdxAttestation` |
| verifiers | `verifier/`, `src/bin/report_verifier.rs` | none | check of a report | `GcpAttestation`, `TdxAttestation` |
| cryptography | `src/crypto/*.rs` | the signature service's task | encrypt, sign, read and write the secret | the secret's file in `Node` |
| deployment, test client | `deploy/`, `src/client.rs` | none | I/O | no |

**How they interact.** `llama_inference` finds the network's sender, awaits room
in its channel and answers at once. The worker of the network owns both model
servers and handles one request at a time; each network has its own. A finished
output is handed to a task of its own (`tokio::spawn`), so that several
submissions and the worker's own transactions (transfers, errors) use the
nonce manager at the same time. Start-up creates the servers, stores the first
nonce of each network, registers the node and only then accepts calls. Whoever
fetches a report checks it with a verifier of the machine's provider, which asks
the provider for keys (GCP) or a cache for collateral (AliCloud).

**What is hard in it.**

- *Interleaving*: tasks that share one wallet's nonces; handlers, workers and
  submission tasks.
- *Partial failure*: transactions whose reply is lost, uploads that fail before or
  after another step succeeded, an `unwrap` that ends a worker with its channel, a script that goes on
  after a command failed.
- *Stale state*: `current_model` after a switch that failed, a file that an
  interrupted download left, a `models.json` that belongs to another model, a
  configuration of an earlier run.
- *A moving world*: keys, collateral, platforms and images change between the
  making of a report and the end of its check.
- *Crash and restart*: nonces are in memory only, pending transactions and files
  survive.
- *Liveness*: gaps in the nonces, a full channel, a worker that dies while a
  handler waits for it, a call out of the node that never ends.

**What makes each component correct.**

- *Nonce manager*: no nonce in two hands, none lost, no gap it cannot fill, a spent
  nonce not handed out again.
- *Inference server*: an accepted call is handled once and comes to an end; the
  chain sees at most one transfer and one verdict for it; no hash of an output
  nobody can fetch; one network's failures stay its own.
- *Server and nonces together*: what the chain accepted stays accepted and is
  mined, each transfer and verdict once, whatever nonces are given back.
- *Model servers*: an answer is the work of the model asked for, whatever switch
  failed before; failures heal.
- *Container*: a node runs with what was fetched for it, not with what an earlier
  run left.
- *Start-up*: one key for the life of the node, registered once per network.
- *Attestation and verifiers*: a call gets the report made for it; a report is
  accepted, or refused, for what was true while it was checked.

## 2. Modules

| module | models | run by |
|---|---|---|
| `NoncePool` | abstract: what a nonce manager promises | refined by `NonceManager` |
| `NonceManager` | `LocalNonceManager`, its callers, the account on the chain | `MCNonceManager` |
| `NonceManagerProofs` | theorems | TLAPS |
| `AizelServer` | handler, channels, workers, submission tasks | `MCAizelServer` |
| `AizelServerProofs` | theorems | TLAPS |
| `CallOutcome` | abstract: what the node promises about a call | refined by `AizelServer` |
| `Settlement` | `AizelServer` and `NonceManager` together, and the account they send to | `MCSettlement` |
| `SettlementProofs` | theorems, resting on `AizelServerProofs` and `NonceManagerProofs` | TLAPS |
| `ModelService` | abstract: what the worker relies on | refined by both model servers |
| `LlamaServer` | `LlamaServer` and `ChatClient::request`, the child, the model files | `MCLlamaServer` |
| `LlamaServerProofs` | theorems | TLAPS |
| `MlServer` | `MlServer` and `MlClient::request`, the child, archives and configurations | `MCMlServer` |
| `MlServerProofs` | theorems | TLAPS |
| `Node` | `main`, `Node::new`, `register`, `run_server`, the key file, the registries | `MCNode` |
| `NodeProofs` | theorems, of `Bootstrap` too | TLAPS |
| `Bootstrap` | `bootstrap.sh`, `retrieve-secret`, the two configurations | `MCBootstrap` |
| `GcpAttestation` | `internal_get_report` of `tee/gcp.rs`, `GcpVerifier::verify`, the attestation service | `MCGcpAttestation` |
| `GcpAttestationProofs` | theorems | TLAPS |
| `TdxAttestation` | `internal_get_report` of `tee/alicloud.rs`, the TDX wrapper, `AliCloudVerifier::verify`, platform and collateral | `MCTdxAttestation` |
| `TdxAttestationProofs` | theorems | TLAPS |

Definitions whose comment starts with "Mutant" are deliberately wrong forms of the
action after them. They are in no next-state relation; each is there to show
that a property would notice the mistake.

### NonceManager

`nonces`, `unused` are the fields of `LocalNonceManager`; `step`, `nonce` the
program counter and the local variable of each task that sends a transaction.
The three senders in `contract.rs` have the same shape, `get_nonce`, `send`,
`unuse_nonce` in the error arm, so a caller is one of them at every turn: `next`
(with its two branches, one under the queue's mutex), `SendOk`, `SendRefused`,
`SendTimeout`, `save_unused`. `fetch_add` does not need the mutex, but both
branches hold it, hence one atomic step. `initialize_nonce` is the loop body of
`Node::register`; it runs before the first caller because the server accepts
calls only after `register`. The chain is external: the account's transaction
count `mined`, its pending transactions `pool`, and what a failed `send` left on
the way, `wire`. A transaction is named by its nonce. Other users of the wallet are
out of scope.

`first`, `sent`, `dropped` and `astray` are history variables: no guard reads
them. `astray` is what the manager cannot know of: nonces whose `send` failed
although the transaction left, and those pending, or on their way, when the process
started. `Crash` forgets all but the chain; with fault `"sever"` transactions that were in
`send` are on their way although nobody waits for their reply.

### AizelServer

`queue` is the mpsc channel (`Capacity` is `DEFAULT_CHANNEL_SIZE`), `rpc` the
state of each gRPC call, `worker` the place of each network's loop, named after
the call it awaits, `job` the request in its hands, `task` the spawned submission,
`gate` what the gate server stores, `chain` the transactions sent, in order.
Each action is the code from one await to the next. A fault is a pair of a
network and the name of a call that may fail; a panic (`Panics`, `Die`; an attestation
report panics for the task wherever it is fetched) ends
the task it happens in, and a worker's takes the receiver and the queued
requests with it. `end` is a history variable that says how the node was done
with a call. No call out of the node has a timeout; fault `"hang"` is one that never
ends: its worker or task stays where it is.

Of the code's error paths: a failed switch drops the request without a word to
the user (`"dropped"`); `handle_error` unwraps the attestation report and
ignores a gate server out of reach, while the submission task unwraps the
upload; `submit_inference`'s result is ignored in both. `encrypt` cannot return
`Err` for a valid key; an invalid one panics (`BadKey`).

`CallOutcome` is what all this comes to: a call is answered, an accepted one may
pay once and conclude once, an output of a transfer only after it paid, or it is
forgotten. The refinement maps `rpc` to the answer and the calls with an `end` to
those that are over; a worker that dies forgets several at once.

### Settlement

In `AizelServer` a transaction is sent in one step, in `NonceManager` it is a nonce.
`Settlement` joins them for one network: its variables are those of both, its
instances `S` and `N` are the two modules, and each action is an action of the
one, of the other, or of both at once. The callers of the nonce manager are the
calls (a call is in the worker's hands or in its task, never in both), a call takes a nonce
when it comes to `transfer`, `submit_error` or `submit_output` (`Sends`), and goes on
only when `send` returned Ok (`SendOk`) or its nonce was given back (`GiveBack`).
`ledger`, `pending` and `wired` refine `mined`, `pool` and `wire`: they hold which
transaction each nonce carries. External is what becomes of two transactions under
one nonce: one that arrives late replaces the pending one or is discarded, and of
several still on their way at most one arrives. No restart: `AizelServer` has none,
and `nonce_faults` has them for the nonces.

### LlamaServer and MlServer

One worker calls `run` and then the client, so `step` is one program counter.
`current` is `current_model`, `child` the model of the live process, `loaded`
whether it listens. A switch kills the child, prepares the files, spawns,
sleeps a fixed time (`Wake`; with fault `"slow"` before the child has loaded)
and only then sets `current_model`. A second request for the current model
returns at once, whatever became of the child. `LlamaServer::new` runs the same steps
at start-up for the default model. `Child::kill` of a child that was waited for
returns `Ok` with the toolchain of the Dockerfile, so the error arm of `run` is not
reachable.

The ML server is a shell script that starts a server for whatever
`models.json` describes. `saved` are the copies `models.json_<id>`. Both
`fs::copy` calls and the unpacking `unwrap`: a failure ends the worker
(`"panicked"`), and so does `get_data_client` in both servers when the chain does not
name the data node (`NoDataNode`; in `LlamaServer::new` it ends the start). Faults `"partial"` and `"corrupt"` leave files cut off, also when
the node dies within a write (`Tear`).

Assumed: names and ids of models are distinct and no id is 0 (the code's value
for "no model"); each archive holds its own `models.json`; `start.sh`, which is
in a submodule, `exec`s the server, so that killing the shell ends it; a
restart is one of the container, which takes the child processes along
(`script/bootstrap.sh` runs the node once and then sleeps). What a failed
request to the transfer agent does to the worker (a panic) is in `AizelServer`.

### Node

`step` is the place of `main`, from the network configurations to the listening
socket; `key` is `self.secret`, `file` is `node_key.json`, `turn` the loop of
`register` over the served networks, `opened` its loop over `NONCE_MANAGERS`.
`nodeSecret` says which of the three cases of `AIZEL_CONFIG.node_secret` holds. Each
action is the code up to the next call that can fail or leave something behind.
Every `?` and `unwrap` on the way ends the process just as a crash does, and all
of it is in memory, so one action `Stop` stands for them at any step; the two
ends that depend on the state (a secret that cannot be decoded, a key file that
cannot be read) are in their own actions. `Restart` keeps the disk or, with
fault `"wipe"`, starts a new container without it.

`CreateSecret` leaves an empty file (`Torn`): between it and `WriteSecret` the
node can die. `Secret::write` does not flush its `BufWriter`; the text is written when
that is dropped and an error is ignored, hence fault `"disk"`: the write is lost,
nobody is told, and the history variable `unflushed` remembers it. A registry,
external, maps to the set `registered`, its pending transactions to `pool`;
whether it refuses the second registration of a key is the contract's affair. A
registration whose reply was lost takes the path of `RegisterSent`: to `register`
it makes no difference but a line of the log. The nonces it uses are in
`NonceManager`, where `next` waits for `initialize_nonce` (`up`); that the start-up
does so on every network, in each process anew, is `NoncesFirst`.

### Bootstrap

`script` is the command of `bootstrap.sh` that runs, then the place of `main`. The script
has no `set -e`: each command runs whatever became of the one before, and when the
node ends the container sleeps. `config` is `aizel_config.yml`, a version and whether
it is whole: `os.WriteFile` truncates it first (`OpenFile`), so a container stopped
before `WriteFile`, or a full disk, leaves it cut off. A cut-off one may still parse
(fault `"cut"`; that depends on where the cut is). `$ip` not found leaves `--ip` without
a value, which ends the node. `aizel` and `nets` are the two statics, the list of networks
from the configuration server or else version 0, the one baked into the image. A
network named but not listed ends the node (`AllListed`), and so does anything after, at
which `Node` looks more closely. The operator, external, publishes versions of both
(a network is listed before a configuration names it) and starts the
container again (`StartContainer`). What `Node` has too is called by another name
here (`BootNext`, `script`, ...), so that `NodeProofs` can extend both.

### GcpAttestation

`call` is the place of `internal_get_report`, `reply` what its connection
carries, `report` what it returned. Each call opens a connection of its own;
`connect`, `handshake` and `send_request` are one action, since nothing is kept
between them. The response's status is not looked at, so that an error in words
(`Text`) is returned as a report; `DecodeHeader` is what stops it. `check` is the
place of `verify`: header, service configuration, key sets, decision. The `kid` not
found, the failed `decode` and the two golden values are all `Err` in the code, here
`"refused"`; a request that failed is `"error"`. With
`skip_verify_image_digest` only the image's reference is compared. The audience is
a constant in two places, `NodeAudience` (`gcp.rs:16`) and `Audience`, which
the verifier's caller chooses; they have to agree, and the test that the repository's
README names for the check (`verifier/src/lib.rs:59`) sets another one than the
node's. `Claims` has no nonce: what is accepted is the image of some node, not the
answer of a call.

External are the launcher (`Answer`), the service's keys, which it renews and
withdraws, the clock and the deployment of an image. `offered`, `steady` (the keys
published at some time of a check, and throughout it) and `decided` are history.

### TdxAttestation

A quote is represented by the security version `svn` of its platform. An
edition in `tcb` says which versions are revoked and which are merely advised against;
`cached` is the one the verifier gets from its cache, `used` the one a check got,
`start` (history) the one cached when it began. `result` is what `tee_verify_quote`
says of the quote. `Results` is external: a revoked version is `REVOKED`, and one that is not
gets one of the six results the match lets pass (`Current`, `Outdated`). Of any quote
the library may also answer `UNSPECIFIED`, or a value that the match has no arm for but
`_`, such as another edition of the library may have for a platform that should merely
be updated or restarted: these are `Unnamed`, and the code refuses them all, whatever
they mean. So `RefusedForCause` says that a refused quote is of a revoked version, or
that its result is `Unnamed`; that only revoked versions are refused is not true of the
code. `INVALID_SIGNATURE` does not occur, since every quote here is the platform's. A missing buffer after a reported
success is a panic of the wrapper, which ends the call. Expired collateral is
only logged by the code, and the argument `skip_verify_image_digest` is not read:
neither appears.

## 3. Runs

| run | instance | shows |
|---|---|---|
| `nonce_faults` | 2 callers, all faults, 3 nonces, 1 crash | `Exclusive`, `Conserved`, `NoOrphanGap`, `OnlyAstrayReused`, refinement of `NoncePool`, and `AcceptedIsMined` under `FairSpec` |
| `nonce_restart` | one crash, no other fault: nothing on its way outlives it, what is pending does | violates `NextIsUnspent` |
| `server_faults` | 5 calls (two transfers, an ML and a chat request, one of them with a bad key, one for an unknown network), 2 networks, capacity 1, all faults | `Accounted`, `OneStory`, `OutputAvailable`, refinement of `CallOutcome` |
| `server_live` | 4 calls (a transfer on `n1`, one on `n3`) on 3 networks: all faults but `"hang"` on `n1`, `"hang"` on `n2`, none on `n3` | `HealthyAnswers`, `NoCallHangs` under `FairSpec` |
| `settlement` | 3 calls, one a transfer; capacity 1, 4 nonces, all faults of the chain | `AcceptedKept`, `SettledOnce`, `OutputBacked`, and `Settles` under `FairSpec` |
| `settlement_lost` | 2 calls, lost replies only | violates `ErrorMovedNothing` |
| `llama` | 3 models, all faults, 2 restarts | `ChildIsCurrent`, refinement of `ModelService`, `SwitchHeals` |
| `ml` | 3 models, all faults, 2 restarts | `SavedIsOwn`, `Recoverable`, refinement of `ModelService`, `SwitchHeals` |
| `node` | 3 networks, 2 of them served, 3 keys, all faults, 2 restarts | `OneKey`, `KeyKept`, `NotAgain`, `NoncesFirst`, `AllTried`, and `ComesUp` under `FairSpec` |
| `bootstrap` | 3 versions of each configuration, all faults, any number of restarts | `RunsCurrent`, and `NodeComesUp` under `BootFairSpec` |
| `gcp` | 2 calls and their checks, 2 keys, 3 images, all faults | `OwnNonce`, `AcceptedGenuine`, `RefusedForCause` |
| `tdx` | 2 calls and their checks, 2 security versions, 3 editions, all faults | `RevocationHonoured`, `RefusedForCause` |

Where `TypeOK` is not proved, or says more than types, a run checks it as well.

**Bounds.** Two callers are enough for two tasks to meet on one nonce, and three
nonces for a gap with a transaction pending above it and one below; `MaxNonce`
stands for the range of `u64`, `MaxRestarts` bounds crashes, so that state
before and after one meet. The proofs remove both. Five calls let a
queue be full while the worker and a submission task are busy and another
network works; capacity 1 makes "full" frequent. Three networks keep a failing, a hanging and a
healthy one apart. In `settlement` three calls are the transfer, one whose transaction
takes the nonce the transfer gave back, and one whose transaction waits above the gap;
four nonces let the transfer and the three verdicts each have one, and a
behaviour that needs a fifth stops. Three models are the current one, the
one wanted and one of an earlier switch. Two restarts let a node meet a key file, or a registration, that the
process before the last left; three keys are one for each disk it can have, and
the third network has a nonce manager but is not served. Of
three configurations one is on the disk, one is being fetched and one is published
meanwhile. Two calls are enough for a
report or key set to reach the wrong check; two keys for a token signed with one that is
no longer, or not yet, the newest; time counts in lives of a token, so that one
tick is its expiry; of the images one is expected, one differs by its digest, one
by its reference. Three editions allow one before a check, one during it and one that
the cache does not have. Deadlock is not checked where the system may stop:
nonces at the bound, a node that listens or cannot start or sleeps, all reports checked, all calls over, a panicked worker without a restart left.

**Fairness.** `NonceManager`: requests keep coming (`next`), a tokio task that can
run does, the chain mines a transaction it can mine, and `send` is not refused for
ever. Without continued demand `AcceptedIsMined` is false: a returned nonce is
used only by the next transaction. `AizelServer`: tokio runs ready tasks, the
channel's semaphore is fair (strong fairness of `Enqueue`), and every call out of
the node ends, except on networks with fault `"hang"`: these get no fairness at all. The
code sets no timeouts, so this is an assumption about the services, not something
the code enforces. `Settlement` takes both, with strong fairness of `SendOk` (sends are
not refused for ever); the antecedent of `Settles` supposes that no nonce given back waits
for ever, since only a later transaction can use it, and that the chain neither drops
a transaction nor loses a reply. Model servers: the worker goes on,
a child loads, a download or an answer that is tried for ever comes about once.
`SwitchHeals` supposes in its antecedent that every model keeps being asked
for, children stop dying and a child is loaded when its sleep is over. A partial
file is never repaired by the code, nor is a panicked worker: behaviours that keep
meeting one do not satisfy that antecedent.

`Node`: `main` goes on, and somebody starts it again when it ended;
`MaxRestarts` also bounds how often it may die, so `ComesUp` speaks of a node that in the
end is left to run. It excludes a wrong configured secret and, without one, a key
file that was cut off: that one stays so, and the node needs a new disk. `Bootstrap`: the commands end, well or not, and the operator starts a container that
sleeps, which the code does not do by itself; `NodeComesUp` has the antecedent
that faults cease.

**What the violated runs say.** The code returns a nonce to `unused` after any
error of `send`, also when the transaction was accepted and only the reply was lost, and after a
restart it starts from the count of the latest block, without pending
transactions. In both cases `next` hands out a nonce that is spent;
`OnlyAstrayReused` (checked and proved) says that these are the only two ways,
and `nonce_restart` shows the second: a transaction is sent and pending, the node
restarts, and `next` returns its nonce. (A transaction that was still on its way at the crash
is in no count, pending or latest; fault `"sever"` of `nonce_faults` has that, `nonce_restart` does not.) `settlement_lost` shows what the first comes to:
`transfer` reports "failed to transfer token" for a token that moved, another call's
transaction takes the nonce given back, and both the
transfer and the verdict `error` are mined. Worse, a wallet that sends one transaction
at a time meets the same spent nonce again and again, since `next` prefers
returned nonces and a refused one is returned: that is why `Settles` excludes it.

## 4. Proofs

Everything in this section is proved from the modules' own assumptions on their constants (types,
`None` is no model), for every set of callers or models, every fault and any
number of restarts, unless stated.

`NonceManagerProofs`. The inductive invariant `Accounted` joins `TypeOK`,
`Exclusive`, `Conserved`, `Down` (an unopened manager holds nothing) and `first
<= nonces`. `Exclusive` alone is not inductive: that a fresh nonce is in
nobody's hands follows from `Conserved`, which bounds the nonces in use by
`nonces`; that `initialize_nonce` starts clean follows from `Down`. It gives `NoncesExclusive` and
`NoncesConserved`. On top of it

- `Known` (what is pending or mined was sent or went astray) gives
  `OnlyAstrayNoncesReused`; with `Quiet` (nothing goes astray without a lost
  reply or a crash) it gives `NextUnspent`, under the assumptions `"timeout" \notin
  Faults` and `MaxRestarts = 0`; `nonce_restart` shows the second to be needed, and
  `settlement_lost` what happens without the first;
- `Kept` (what was sent is mined, pending or dropped by the chain) gives
  `GapsReachable`;
- `ManagerImplementsPool`: each action is one step of `NoncePool` or a stutter.

Lemmas about sequences (`RangeOfAppend`, `InjectiveAppend`, `RangeOfTail`, which
`AizelServerProofs` has for its channels too) and about `Held` carry the queue's part.

`AizelServerProofs`. `Accounted` counts, so it is not inductive: `Placed` says it as
exclusion (in a channel without repetition, in the hands of the call's own
network's worker, in its task, or over) and that every accepted call has a place;
`CallsAccounted` follows with two lemmas on cardinalities. On top of it `Told`
relates what is on the chain to where the call is: no transfer is sent before the call
passes `Contract::transfer` (`Before`), no verdict before the call ends, the
report of a transfer only after the transfer, and nothing is submitted before it
is uploaded. It gives `OneStoryTold` and `OutputsAvailable`. Every step either sends
nothing (`ToldQuiet`) or appends one transaction (`OrderedSend`).
`ServerImplementsOutcome` adds the refinement of `CallOutcome`, one lemma
per kind of step (`OutcomeHandle`, `OutcomeSubmit`, `OutcomeWork`, `OutcomeDie`): that a transfer
pays only once comes from `Before`, that a call concludes only once from `Placed`.

`NetworksApart` says that the networks of a node do not meet: seen from network `n`, every
behaviour of the node is one of `Alone(n)`, the same specification with `n` as the
only network and its calls and faults as the only ones. The sequence `chain` is the order in
which the node sends on all chains together; the auxiliary variable `onChain` (`Split`)
follows what of it is about the calls of each network, and puts no condition on the
node. A step of `n`'s worker, handlers or tasks is the same step of `Alone(n)`
(`AloneHandle`, `AloneSubmit`, `AloneTake`, `AloneWork`, `AloneSend`), any other a stutter
(`AloneOtherCall`, `AloneOtherWorker`). It rests on `Placed`, that a call is only in the channel
and the hands of its own network: a dying worker takes no other network's calls
with it. It is why `Settlement` may look at one network only.

`HealthySpared` is the safety half of `HealthyAnswers`, for the networks in `Healthy`: none of their
services fails and no call to them has a bad key (which ends the worker of its
network, and with it all later calls to that network). Their worker lives, no call is refused, dropped or
lost, and a call that is over left its output or its error for the chain; what is left
to TLC is that every call is over in the end.

`SettlementProofs`. First, the composition implements both components:
`ImplementsServer` and `ImplementsManager` map each joint step to one step of the
one and a step or a stutter of the other, action by action. `SP` and `NP` are the
two modules of proofs under the same substitutions as `S` and `N`, and
`SameServer`, `SameManager` say that the definitions agree; so every theorem of a
component is one of the composition. `KeepsPromises` draws the refinements of `CallOutcome` and
`NoncePool`, and the parts of the components' invariants that are needed below are
`ServerKnown` and `ManagerKnown`. On top of these the inductive invariant
`Settled` relates the account to the calls:

- `Flight`: a call in `send` stays where it is in the server's code until `send` is
  over, so the transaction it carries is a function of its place;
- `Traced`: what the account holds, or is on its way to it, left the node under that nonce;
- `Once`: a transaction that left did so under one nonce, and the server counts it
  as sent, or its call has just seen `send` fail. This is where the components meet: the
  server's `Told` has no second transaction of the kind, the manager's `Exclusive`
  no second holder of the nonce;
- `AcceptedKept` itself: that a later transaction under the nonce cannot replace an
  accepted one needs the manager's `Known`, that a nonce handed out again was spent
  only if it went astray;
- `Backed`: the submission of an output follows the acceptance of its transfer
  (`PaidFirst`), so its nonce is higher or one given back (`InOrder`), and
  `unused` holds only nonces given back.

`EachSettledOnce` follows from `Traced`, `Once` and the order in which the server
sends (`Ordered`, a part of `Told`);
`AcceptedStays` and `OutputsBacked` from the parts of those names.
`ErrorsMoveNothing` is the property that `settlement_lost` violates, proved under the
hypothesis that no reply of `send` is lost and no attestation report fails in a TEE. Both
are needed: a lost reply makes `transfer` fail after it paid, and a report that fails
sends a call that has paid to `handle_error`. `Honest`, its invariant, says that a call whose
transfer was accepted is never on the way to an error.

`LlamaServerProofs`, `MlServerProofs`. The invariant `Switching` says what the
child, `current` and the files are at each step of a switch: none runs from the
kill to the spawn, and the one spawned is the one wanted. For the ML server it
adds that `models.json` describes the model in hand from the moment it is
written until the child has read it. They give `ChildAlwaysCurrent`, `SavedAlwaysOwn` and
the refinements `LlamaImplementsService`, `MlImplementsService`. `Fetched`
gives `AlwaysRecoverable`. In `MlServer` types alone are not inductive, hence
`Typed`. A worker that panicked within a switch keeps a killed child and the old
`current`, which `Switching` allows.

`NodeProofs`. `KeyFile` relates the key in memory, the key file and the keys the
registries have seen: nothing has been registered while the file is absent or
being written, and unless a write was lost the file is the key. It gives `SingleKey` and
`KeysKept`. `Registration` adds what the loop of `register` has done: the networks
before `turn` are dealt with, and a registration about to be sent was unknown to the
registry when the process started; it gives `NeverAgain`, `EveryNetwork` and
`NoncesReady` (`NoncesFirst`: what a process sends goes to networks whose nonce managers it
has initialised, on which `NonceManager` relies).

`GcpAttestationProofs`. `AcceptedGenuine` and `RefusedForCause` are inductive only with
`Window`: while a check runs, the published keys are among those `offered` and
contain those `steady`, and the fetched ones lie between the two. `Own` extends `OwnNonce` to
the answers under way. They give `NoncesOwn`, `AcceptsGenuine` and
`RefusesForCause`.

`TdxAttestationProofs`. Editions only append, and `NeverUnrevoked` says that what
one revokes the later ones revoke. `Judged` says that a check goes by an edition no
older than the one cached when it began, and that its verdict is what that
edition says of the quote, or a refusal of an `Unnamed` result (`ResultsSayWhy`). `HonoursRevocations` carries a revocation forward from the start of the check to the
edition used, `RefusesForCause` from the edition used to the latest.

`NodeProofs` also has the two theorems about `Bootstrap`, which it extends too: the
two specifications share no variable. `BootTypeCorrect` is its `BootTypeOK`;
`BootCurrent` (`RunsCurrent`) rests on the invariant `Fetched`, which follows the
configuration from the download to the disk and from there to the node, and says that only
the process that asked the configuration server remembers an answer.

Only model-checked: all liveness (`AcceptedIsMined`, `HealthyAnswers`,
`NoCallHangs`, `Settles`, `SwitchHeals`, `ComesUp`, `NodeComesUp`), which the prover cannot treat.
Every safety property and every refinement of a passing run is proved.

## 5. Not modelled

- *Data*: the contents of messages, prompts, reports and hashes; encryption and
  signatures; the ABI encoding; amounts and the parsing of the transfer agent's
  function call (any outcome is possible); log files; a model with id 0, the code's
  value for none.
- *Code without a caller in the program*: `upload` of the storage client,
  `SignatureService` (a test only), `tdx_att_extend` and
  `tdx_att_get_supported_att_key_ids`, `MlServer::new(Some)`, the verifier's
  `get_current_tee_type`, the static of `nonce_manager.rs`.
- *By hand*: `client.rs`; `report_verifier.rs`, which prints the claims of a token
  for the audience `https://sts.googleapis.com`, that none of the node's reports is
  for; `deploy_gcp.sh`, `deploy_alicloud.sh`. They run once and keep no state.
- *Not in the repository*: the contracts, the gate server, `start.sh` of the model
  servers (a submodule), the C library of the quotes. They are external actions or
  assumptions.
- Orphaned children of a node that died alone in its container: nothing starts it
  again there.

## 6. Plan

1. **Composition** of `AizelServer` with the model servers: the worker's panic after
   a child that died, which is in `AizelServer` a fault at any time.
2. **What liveness rests on**, as invariants that can be proved, for the other
   properties as `HealthySpared` does for `HealthyAnswers`: a transaction that stays
   pending has below it a nonce that some call will use.
3. **A restart in `Settlement`**, once `AizelServer` has one.
