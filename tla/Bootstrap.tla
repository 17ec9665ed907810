------------------------------ MODULE Bootstrap ------------------------------
(***************************************************************************)
(* Where the node's two configurations come from.  The container runs      *)
(* script/bootstrap.sh: it asks for its address, retrieve-secret           *)
(* (secret/main.go) copies aizel_config.yml from the cloud to the disk,    *)
(* then the node starts; it reads that file, asks the configuration server *)
(* for the networks or else reads the list baked into the image, and goes  *)
(* on as in Node.  The script has no `set -e`: each command runs whatever  *)
(* became of the one before, and when the node ends it sleeps for ever.    *)
(* Meanwhile the operator publishes new configurations, and may start the  *)
(* container again, or a new one, at any moment.  Names that Node has too  *)
(* begin with Boot here, so that NodeProofs can extend both.                *)
(***************************************************************************)
EXTENDS Naturals

CONSTANTS
    Last,    \* bound: versions of aizel_config.yml are 0 .. Last
    LastList,\* bound: versions of the network list; 0 is the baked one
    Wanted,  \* the networks each version of aizel_config.yml names
    Listed,  \* the networks of each list
    NoFile,
    BootFaults \* what may fail, of BootFaultNames

BootFaultNames == {
    "ip",     \* no answer from ifconfig.me
    "cloud",  \* a request of retrieve-secret fails
    "disk",   \* aizel_config.yml cannot be written to its end
    "cut",    \* a file cut off within or before its last lines may still parse
    "server", \* the configuration server does not answer, or with no list
    "start",  \* what comes after in main fails, or the node dies later
    "kill",   \* the container is stopped at any moment
    "wipe"}   \* it is replaced by a new one

ASSUME VersionAssumption == Last \in Nat /\ LastList \in Nat
ASSUME NamesAssumption ==
    /\ DOMAIN Wanted = 0 .. Last
    /\ DOMAIN Listed = 0 .. LastList
    /\ Wanted[0] \subseteq Listed[0]
ASSUME BootFaultAssumption == BootFaults \subseteq BootFaultNames

Whole   == (0 .. Last) \X {"whole"}
Configs == (0 .. Last) \X {"whole", "cut"}

ASSUME FileAssumption == NoFile \notin Configs

VARIABLES
    published, \* the latest aizel_config.yml in the cloud
    list,      \* the latest list of the configuration server
    config,    \* ~/aizel/aizel_config.yml
    script,    \* where bootstrap.sh, and then the node, is
    ip,        \* whether $ip is an address
    got,       \* what retrieve-secret has downloaded
    aizel,     \* AIZEL_CONFIG
    nets,      \* NETWORK_CONFIGS
    since,     \* history: published and list, when the container started
    fetched,   \* history: retrieve-secret ended well in this container's run
    asked      \* history: the configuration server answered this process

cloud == <<published, list>>
bootVars == <<cloud, config, script, ip, got, aizel, nets, since, fetched, asked>>

BootInit ==
    /\ published = 0 /\ list = 0
    /\ config = NoFile
    /\ script = "ip"
    /\ ip = FALSE
    /\ got = 0
    /\ aizel = NoFile
    /\ nets = 0
    /\ since = <<0, 0>>
    /\ fetched = FALSE /\ asked = FALSE

Then(from, to) == script = from /\ script' = to

\* ip=$(curl ifconfig.me)
FindIp ==
    /\ Then("ip", "retrieve")
    /\ ip' \in {TRUE} \cup (IF "ip" \in BootFaults THEN {FALSE} ELSE {})
    /\ UNCHANGED <<cloud, config, got, aizel, nets, since, fetched, asked>>

-----------------------------------------------------------------------------
(* retrieve-secret *)

\* Mutant: a file that exists is not fetched again.
FetchOnce ==
    /\ IF config = NoFile THEN Then("retrieve", "write") /\ got' = published
                          ELSE Then("retrieve", "node") /\ UNCHANGED got
    /\ fetched' = (config # NoFile)
    /\ UNCHANGED <<cloud, config, ip, aizel, nets, since, asked>>

\* The latest version of the secret, or the object in the bucket, is downloaded.
Fetch ==
    /\ Then("retrieve", "write")
    /\ got' = published
    /\ UNCHANGED <<cloud, config, ip, aizel, nets, since, fetched, asked>>

\* log.Fatalf: no cloud, no credentials, no answer; the file is left alone.
FetchFails ==
    /\ "cloud" \in BootFaults
    /\ Then("retrieve", "node")
    /\ UNCHANGED <<cloud, config, ip, got, aizel, nets, since, fetched, asked>>

\* os.WriteFile truncates the file ...
OpenFile ==
    /\ Then("write", "close")
    /\ config' = <<got, "cut">>
    /\ UNCHANGED <<cloud, ip, got, aizel, nets, since, fetched, asked>>

\* ... and writes it; log.Fatalf if the disk is full.
WriteFile ==
    /\ Then("close", "node")
    /\ \/ config' = <<got, "whole">> /\ fetched' = TRUE
       \/ "disk" \in BootFaults /\ UNCHANGED <<config, fetched>>
    /\ UNCHANGED <<cloud, ip, got, aizel, nets, since, asked>>

-----------------------------------------------------------------------------
(* inference-node *)

\* Mutant: without a file the node goes on with a default configuration.
ReadConfigDefaults ==
    /\ ip
    /\ Then("node", "networks")
    /\ aizel' = config
    /\ UNCHANGED <<cloud, config, ip, got, nets, since, fetched, asked>>

\* AIZEL_CONFIG, at its first use: from_file.
ReadConfig ==
    /\ ip
    /\ \/ config \in Whole
       \/ config # NoFile /\ "cut" \in BootFaults
    /\ Then("node", "networks")
    /\ aizel' = config
    /\ UNCHANGED <<cloud, config, ip, got, nets, since, fetched, asked>>

\* The empty argument of --ip, or prepare_config().unwrap(), ends the node.
NoConfig ==
    /\ ~ip \/ config \notin Whole
    /\ Then("node", "sleep")
    /\ UNCHANGED <<cloud, config, ip, got, aizel, nets, since, fetched, asked>>

\* Mutant: the baked list first.
RequestFileFirst ==
    /\ Then("networks", "service")
    /\ nets' = 0
    /\ asked' = TRUE
    /\ UNCHANGED <<cloud, config, ip, got, aizel, since, fetched>>

\* initialize_network_configs_by_network
RequestNetworks ==
    /\ Then("networks", "service")
    /\ nets' = list
    /\ asked' = TRUE
    /\ UNCHANGED <<cloud, config, ip, got, aizel, since, fetched>>

\* initialize_network_configs_by_file
ReadNetworks ==
    /\ "server" \in BootFaults
    /\ Then("networks", "service")
    /\ nets' = 0
    /\ UNCHANGED <<cloud, config, ip, got, aizel, since, fetched, asked>>

\* Each network that AIZEL_CONFIG names is looked up in NETWORK_CONFIGS.
AllListed == Wanted[aizel[1]] \subseteq Listed[nets]

\* The rest of main, see Node.
Serve ==
    /\ Then("service", "up")
    /\ AllListed
    /\ UNCHANGED <<cloud, config, ip, got, aizel, nets, since, fetched, asked>>

\* One that is not listed, or out of reach, is unwrapped: it ends the node.
NodeEnds ==
    /\ \/ script = "service" /\ ~AllListed
       \/ script \in {"service", "up"} /\ "start" \in BootFaults
    /\ script' = "sleep"
    /\ UNCHANGED <<cloud, config, ip, got, aizel, nets, since, fetched, asked>>

-----------------------------------------------------------------------------
(* The operator (external). *)

\* The container is started, after `sleep infinity` or whenever it was stopped.
StartContainer ==
    /\ script = "sleep" \/ "kill" \in BootFaults
    /\ script' = "ip"
    /\ ip' = FALSE /\ got' = 0 /\ aizel' = NoFile /\ nets' = 0
    /\ since' = cloud
    /\ fetched' = FALSE /\ asked' = FALSE
    /\ config' \in {config} \cup (IF "wipe" \in BootFaults THEN {NoFile} ELSE {})
    /\ UNCHANGED cloud

\* A network is listed before a configuration names it.
Publish ==
    /\ published < Last
    /\ Wanted[published + 1] \subseteq Listed[list]
    /\ published' = published + 1
    /\ UNCHANGED <<list, config, script, ip, got, aizel, nets, since, fetched, asked>>

PublishList ==
    /\ list < LastList
    /\ list' = list + 1
    /\ UNCHANGED <<published, config, script, ip, got, aizel, nets, since, fetched, asked>>

BootNext ==
    \/ FindIp \/ Fetch \/ FetchFails \/ OpenFile \/ WriteFile
    \/ ReadConfig \/ NoConfig \/ RequestNetworks \/ ReadNetworks \/ Serve \/ NodeEnds
    \/ StartContainer \/ Publish \/ PublishList

BootSpec == BootInit /\ [][BootNext]_bootVars

\* A step that is a fault.
Trouble ==
    \/ FindIp /\ ~ip'
    \/ FetchFails
    \/ WriteFile /\ ~fetched'
    \/ ReadConfig /\ config \notin Whole
    \/ ReadNetworks
    \/ NodeEnds /\ AllListed
    \/ StartContainer /\ (script # "sleep" \/ config' # config)

Proceed ==
    \/ FindIp \/ Fetch \/ FetchFails \/ OpenFile \/ WriteFile
    \/ ReadConfig \/ NoConfig \/ RequestNetworks \/ ReadNetworks \/ Serve
    \/ NodeEnds /\ script = "service"

\* The commands end, well or not, and the operator starts a container that sleeps.
BootFairSpec ==
    BootSpec /\ WF_bootVars(Proceed) /\ WF_bootVars(script = "sleep" /\ StartContainer)

-----------------------------------------------------------------------------
(* Properties. *)

\* The type of every variable.
BootTypeOK ==
    /\ published \in 0 .. Last /\ list \in 0 .. LastList
    /\ config \in Configs \cup {NoFile}
    /\ script \in {"ip", "retrieve", "write", "close", "node", "networks", "service",
                 "up", "sleep"}
    /\ ip \in BOOLEAN /\ fetched \in BOOLEAN /\ asked \in BOOLEAN
    /\ got \in 0 .. Last
    /\ aizel \in Configs \cup {NoFile}
    /\ script \in {"networks", "service", "up"} => aizel # NoFile
    /\ nets \in 0 .. LastList
    /\ since \in (0 .. Last) \X (0 .. LastList)

\* A node runs with a whole configuration at least as new as its container's start,
\* and with such a list of networks, unless retrieve-secret failed in this run of
\* the container, or the configuration server did not answer this process: what an
\* earlier run left on the disk never wins over what was fetched.
RunsCurrent ==
    script = "up" =>
        /\ fetched => aizel[2] = "whole" /\ aizel[1] >= since[1]
        /\ asked => nets >= since[2]

\* Whatever file earlier runs left, cut off or out of date: once nothing fails any
\* more the node comes up, and stays.
NodeComesUp == <>[][~Trouble]_bootVars => <>[](script = "up")
=============================================================================
