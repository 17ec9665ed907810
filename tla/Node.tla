-------------------------------- MODULE Node --------------------------------
(***************************************************************************)
(* Start-up of the node (main.rs, node/node.rs): the network               *)
(* configurations, the node's secret, its services, the first nonces, the  *)
(* registration on each served network, the listening socket.              *)
(*                                                                         *)
(* An error that is returned or unwrapped on the way ends the process, as  *)
(* a crash does: whatever is in memory is gone, the key file and the       *)
(* transactions are not.  Somebody starts it again, perhaps in a new       *)
(* container whose disk is empty.                                          *)
(***************************************************************************)
EXTENDS Naturals, Sequences, FiniteSets

CONSTANTS
    Networks,    \* NETWORK_CONFIGS: each has a nonce manager
    Served,      \* AIZEL_CONFIG.networks, in order
    Keys,        \* the keys Secret::new may draw
    ConfKey,     \* the key in AIZEL_CONFIG.node_secret, if there is a valid one
    Absent,      \* there is no key file
    Torn,        \* a key file that cannot be parsed
    MaxRestarts, \* bound on the number of restarts
    Faults       \* {"disk", "wipe", "evict"} or fewer

ASSUME NetworkAssumption == Networks # {}
ASSUME ServedAssumption == Served \in Seq(Networks)
ASSUME KeyAssumption ==
    Absent \notin Keys \cup {ConfKey, Torn} /\ Torn \notin Keys \cup {ConfKey}
ASSUME BoundAssumption == MaxRestarts \in Nat
ASSUME FaultAssumption == Faults \subseteq {"disk", "wipe", "evict"}

VARIABLES
    step,       \* where main is
    nodeSecret, \* AIZEL_CONFIG.node_secret: "none", "valid" or "invalid"
    file,       \* node_key.json: Absent, Torn or the key in it
    key,        \* self.secret, or Absent
    opened,     \* the networks whose nonce manager was initialised
    turn,       \* index in Served of the network to register on
    run,        \* the number of restarts
    drawn,      \* history: the keys Secret::new returned
    pool,       \* pending registrations <<network, key, run>>
    registered, \* the registry contracts: <<network, key>>
    sent,       \* history: every registration sent
    failed,     \* history: networks on which this process failed to register
    before,     \* history: registered, when this process started
    shown,      \* history: the keys sent for registration since the disk was new
    unflushed   \* history: a write of the key file was lost

vars == <<step, nodeSecret, file, key, opened, turn, run, drawn, pool, registered,
          sent, failed, before, shown, unflushed>>

chain == <<pool, registered>>
history == <<failed, before, shown, unflushed>>

Init ==
    /\ step = "configs"
    /\ nodeSecret \in {"none", "valid", "invalid"}
    /\ file = Absent
    /\ key = Absent
    /\ opened = {}
    /\ turn = 1
    /\ run = 0
    /\ drawn = {}
    /\ pool = {} /\ registered = {} /\ sent = {}
    /\ failed = {} /\ before = {} /\ shown = {}
    /\ unflushed = FALSE

Move(from, to) == step = from /\ step' = to

-----------------------------------------------------------------------------
(* Node::new *)

\* initialize_network_configs, from the server or else from a file.
Configure ==
    /\ Move("configs", "secret")
    /\ UNCHANGED <<nodeSecret, file, key, opened, turn, run, drawn, sent, chain, history>>

\* AIZEL_CONFIG.node_secret; one that cannot be decoded is an error or a panic.
UseNodeSecret ==
    /\ \/ nodeSecret = "valid" /\ Move("secret", "agent") /\ key' = ConfKey
       \/ nodeSecret = "invalid" /\ Move("secret", "stopped") /\ UNCHANGED key
    /\ UNCHANGED <<nodeSecret, file, opened, turn, run, drawn, sent, chain, history>>

\* Mutant: a key file that cannot be read is replaced.
ReadSecretRenews ==
    /\ nodeSecret = "none"
    /\ file # Absent
    /\ \/ file # Torn /\ Move("secret", "agent") /\ key' = file /\ UNCHANGED drawn
       \/ /\ file = Torn
          /\ Move("secret", "write")
          /\ \E k \in Keys \ drawn : key' = k /\ drawn' = drawn \cup {k}
    /\ UNCHANGED <<nodeSecret, file, opened, turn, run, sent, chain, history>>

\* open_or_create_secret, the file exists.
ReadSecret ==
    /\ nodeSecret = "none"
    /\ file # Absent
    /\ \/ file # Torn /\ Move("secret", "agent") /\ key' = file
       \/ file = Torn /\ Move("secret", "stopped") /\ UNCHANGED key
    /\ UNCHANGED <<nodeSecret, file, opened, turn, run, drawn, sent, chain, history>>

\* open_or_create_secret, it does not: Secret::new, then open creates an empty
\* file.
CreateSecret ==
    /\ nodeSecret = "none"
    /\ file = Absent
    /\ Move("secret", "write")
    /\ \E k \in Keys \ drawn : key' = k /\ drawn' = drawn \cup {k}
    /\ file' = Torn
    /\ UNCHANGED <<nodeSecret, opened, turn, run, sent, chain, history>>

\* Mutant: the secret is returned, and used, before it is written.
WriteSecretLater ==
    /\ Move("write", "agent")
    /\ UNCHANGED <<nodeSecret, file, key, opened, turn, run, drawn, sent, chain, history>>

\* Secret::write. The text fits in the BufWriter and reaches the file when that is
\* dropped, which ignores errors: write returns Ok all the same.
WriteSecret ==
    /\ Move("write", "agent")
    /\ \/ file' = key /\ UNCHANGED unflushed
       \/ "disk" \in Faults /\ unflushed' = TRUE /\ UNCHANGED file
    /\ UNCHANGED <<nodeSecret, key, opened, turn, run, drawn, sent, chain,
                   failed, before, shown>>

\* AttestationAgent::new
CreateAgent ==
    /\ Move("agent", "service")
    /\ UNCHANGED <<nodeSecret, file, key, opened, turn, run, drawn, sent, chain, history>>

-----------------------------------------------------------------------------
(* Node::run_server and Node::register *)

\* AizelInference::new: the channels, and a worker with its model servers for
\* each served network.
CreateService ==
    /\ Move("service", "nonces")
    /\ UNCHANGED <<nodeSecret, file, key, opened, turn, run, drawn, sent, chain, history>>

\* Mutant: the start-up goes on with the first manager that is ready.
InitializeFirst(n) ==
    /\ step = "nonces"
    /\ opened' = opened \cup {n}
    /\ step' = "report"
    /\ UNCHANGED <<nodeSecret, file, key, turn, run, drawn, sent, chain, history>>

\* One turn of the loop over NONCE_MANAGERS.
InitializeNonce(n) ==
    /\ step = "nonces"
    /\ n \notin opened
    /\ opened' = opened \cup {n}
    /\ step' = IF opened' = Networks THEN "report" ELSE step
    /\ UNCHANGED <<nodeSecret, file, key, turn, run, drawn, sent, chain, history>>

\* get_attestation_report, if within_tee.
Report ==
    /\ Move("report", "query")
    /\ UNCHANGED <<nodeSecret, file, key, opened, turn, run, drawn, sent, chain, history>>

\* Mutant: register() fails for a node that is registered.
QueryKnownFails ==
    /\ turn <= Len(Served)
    /\ <<Served[turn], key>> \in registered
    /\ Move("query", "stopped")
    /\ UNCHANGED <<nodeSecret, file, key, opened, turn, run, drawn, sent, chain, history>>

\* query_public_key_exist: the key is registered on this network.
QueryKnown ==
    /\ step = "query"
    /\ turn <= Len(Served)
    /\ <<Served[turn], key>> \in registered
    /\ turn' = turn + 1
    /\ UNCHANGED <<step, nodeSecret, file, key, opened, run, drawn, sent, chain, history>>

\* Mutant: the registry is not asked.
QueryNever ==
    /\ turn <= Len(Served)
    /\ Move("query", "send")
    /\ UNCHANGED <<nodeSecret, file, key, opened, turn, run, drawn, sent, chain, history>>

\* query_public_key_exist: it is not.
QueryUnknown ==
    /\ turn <= Len(Served)
    /\ <<Served[turn], key>> \notin registered
    /\ Move("query", "send")
    /\ UNCHANGED <<nodeSecret, file, key, opened, turn, run, drawn, sent, chain, history>>

\* Contract::register: the transaction is accepted, whether or not its reply
\* comes back.
RegisterSent ==
    LET tx == <<Served[turn], key, run>> IN
    /\ Move("send", "query")
    /\ pool' = pool \cup {tx}
    /\ sent' = sent \cup {tx}
    /\ shown' = shown \cup {key}
    /\ turn' = turn + 1
    /\ UNCHANGED <<nodeSecret, file, key, opened, run, drawn, registered,
                   failed, before, unflushed>>

\* Mutant: after a failure the other networks are not tried.
RegisterFailsAll ==
    /\ Move("send", "query")
    /\ failed' = failed \cup {Served[turn]}
    /\ turn' = Len(Served) + 1
    /\ UNCHANGED <<nodeSecret, file, key, opened, run, drawn, sent, chain,
                   before, shown, unflushed>>

\* Contract::register: it is refused, which is logged; the loop goes on.
RegisterFails ==
    /\ Move("send", "query")
    /\ failed' = failed \cup {Served[turn]}
    /\ turn' = turn + 1
    /\ UNCHANGED <<nodeSecret, file, key, opened, run, drawn, sent, chain,
                   before, shown, unflushed>>

\* Server::builder()...serve
Listen ==
    /\ turn > Len(Served)
    /\ Move("query", "listening")
    /\ UNCHANGED <<nodeSecret, file, key, opened, turn, run, drawn, sent, chain, history>>

-----------------------------------------------------------------------------
(* The process, and the chain. *)

\* An error, a panic of main or a crash, at any step.
Stop ==
    /\ step # "stopped"
    /\ run < MaxRestarts
    /\ step' = "stopped"
    /\ UNCHANGED <<nodeSecret, file, key, opened, turn, run, drawn, sent, chain, history>>

\* main, again.
Restart ==
    /\ Move("stopped", "configs")
    /\ run < MaxRestarts
    /\ run' = run + 1
    /\ key' = Absent
    /\ opened' = {}
    /\ turn' = 1
    /\ failed' = {}
    /\ before' = registered
    /\ \/ UNCHANGED <<file, shown, unflushed>>
       \/ "wipe" \in Faults /\ file' = Absent /\ shown' = {} /\ unflushed' = FALSE
    /\ UNCHANGED <<nodeSecret, drawn, pool, registered, sent>>

\* A second registration of a key is the contract's to refuse.
Mine(tx) ==
    /\ pool' = pool \ {tx}
    /\ registered' = registered \cup {<<tx[1], tx[2]>>}
    /\ UNCHANGED <<step, nodeSecret, file, key, opened, turn, run, drawn, sent, history>>

Evict(tx) ==
    /\ "evict" \in Faults
    /\ pool' = pool \ {tx}
    /\ UNCHANGED <<step, nodeSecret, file, key, opened, turn, run, drawn, registered,
                   sent, history>>

StartUp ==
    \/ Configure \/ UseNodeSecret \/ ReadSecret \/ CreateSecret \/ WriteSecret
    \/ CreateAgent \/ CreateService \/ Report
    \/ \E n \in Networks : InitializeNonce(n)
    \/ QueryKnown \/ QueryUnknown \/ RegisterSent \/ RegisterFails \/ Listen

Next ==
    \/ StartUp \/ Stop \/ Restart
    \/ \E tx \in pool : Mine(tx) \/ Evict(tx)

Spec == Init /\ [][Next]_vars

\* main goes on while it runs, and somebody starts it again when it ended.
FairSpec == Spec /\ WF_vars(StartUp) /\ WF_vars(Restart)

-----------------------------------------------------------------------------
(* Properties. *)

Seen == Keys \cup {ConfKey}
ServedNetworks == {Served[i] : i \in DOMAIN Served}

\* The type of every variable.
TypeOK ==
    /\ step \in {"configs", "secret", "write", "agent", "service", "nonces", "report",
                 "query", "send", "listening", "stopped"}
    /\ nodeSecret \in {"none", "valid", "invalid"}
    /\ file \in Keys \cup {Absent, Torn}
    /\ key \in Seen \cup {Absent}
    /\ opened \subseteq Networks
    /\ turn \in 1 .. (Len(Served) + 1)
    /\ run \in 0 .. MaxRestarts
    /\ drawn \subseteq Keys
    /\ pool \subseteq sent
    /\ sent \subseteq ServedNetworks \X Seen \X (0 .. run)
    /\ registered \subseteq ServedNetworks \X Seen
    /\ failed \subseteq ServedNetworks
    /\ before \subseteq registered
    /\ shown \subseteq Seen
    /\ unflushed \in BOOLEAN
    /\ step = "send" => turn <= Len(Served)

\* For the life of a disk the node registers a single key, also when it dies
\* while the key file is written, or the write is lost.
OneKey == Cardinality(shown) <= 1

\* A key known to the registries can be read back after a restart, unless the
\* write of its file was lost.
KeyKept ==
    nodeSecret = "none" /\ ~unflushed => \A k \in shown : file = k

\* No process registers a key that was registered when it started: only a
\* registration still pending at the restart is repeated.
NotAgain == \A tx \in sent : tx[3] = run => <<tx[1], tx[2]>> \notin before

\* No process takes a nonce of a network, for its registration there or for a call
\* that it listens for, before it has initialised that network's manager, whatever
\* an earlier process initialised or sent.
NoncesFirst ==
    /\ \A tx \in sent : tx[3] = run => tx[1] \in opened
    /\ step = "listening" => opened = Networks

\* A node that listens has tried every network it serves: its key is
\* registered there, or sent by this process, or this process was refused.
AllTried ==
    step = "listening" =>
        \A n \in ServedNetworks :
            \/ <<n, key>> \in registered
            \/ <<n, key, run>> \in sent
            \/ n \in failed

\* A node that is started again and again comes up, except with a secret in the
\* configuration that is wrong or a key file that cannot be read.
ComesUp ==
    []<>(step = "listening" \/ nodeSecret = "invalid" \/ (nodeSecret = "none" /\ file = Torn))
=============================================================================
