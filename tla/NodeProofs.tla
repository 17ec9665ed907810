----------------------------- MODULE NodeProofs -----------------------------
(***************************************************************************)
(* Proofs about Node for every list of networks, every fault and any       *)
(* number of restarts, and about Bootstrap for every configuration.        *)
(***************************************************************************)
EXTENDS Node, Bootstrap, SequenceTheorems, FiniteSetTheorems, TLAPS

\* main has its key.
Keyed == {"agent", "service", "nonces", "report", "query", "send", "listening"}

\* How the key in memory, the key file and the keys the registries saw agree.
KeyFile ==
    /\ step \in Keyed => key \in Seen
    /\ step = "write" =>
        nodeSecret = "none" /\ key \in Keys /\ file = Torn /\ shown = {} /\ ~unflushed
    /\ nodeSecret = "valid" =>
        file = Absent /\ (\A k \in shown : k = ConfKey) /\ (step \in Keyed => key = ConfKey)
    /\ nodeSecret = "invalid" => step \notin Keyed /\ shown = {}
    /\ nodeSecret = "none" =>
        /\ file = Absent => shown = {}
        /\ unflushed => file = Torn
        /\ ~unflushed => \A k \in shown : k = file
        /\ step \in Keyed => unflushed \/ key = file
        /\ step \in Keyed => \A k \in shown : k = key
        /\ \A j, k \in shown : j = k

LEMMA Start == Init => TypeOK /\ KeyFile
<1>1. Len(Served) \in Nat
  BY ServedAssumption, LenProperties
<1>2. Init => KeyFile
  BY DEF Init, KeyFile, Keyed
<1>3. ASSUME Init PROVE TypeOK
  <2>1. 1 \in 1 .. (Len(Served) + 1) /\ 0 \in 0 .. MaxRestarts
    BY <1>1, BoundAssumption
  <2> QED BY <1>3, <2>1 DEF Init, TypeOK
<1> QED BY <1>2, <1>3

\* Steps of main that neither draw, read, write nor register a key.
LEMMA MainStep ==
    ASSUME TypeOK, KeyFile,
           \/ Configure \/ CreateAgent \/ CreateService \/ Report
           \/ \E n \in Networks : InitializeNonce(n)
           \/ QueryKnown \/ QueryUnknown \/ RegisterFails \/ Listen \/ Stop
    PROVE  TypeOK' /\ KeyFile'
<1>1. /\ nodeSecret' = nodeSecret /\ file' = file /\ key' = key /\ run' = run
      /\ drawn' = drawn /\ pool' = pool /\ registered' = registered /\ sent' = sent
      /\ before' = before /\ shown' = shown /\ unflushed' = unflushed
      /\ step' = "secret" \/ step' = "stopped" \/ (step \in Keyed /\ step' \in Keyed)
  BY DEF Configure, CreateAgent, CreateService, Report, InitializeNonce, QueryKnown,
         QueryUnknown, RegisterFails, Listen, Stop, Move, chain, history, Keyed, TypeOK
<1>2. KeyFile'
  BY <1>1 DEF KeyFile, Keyed
<1>3. Len(Served) \in Nat /\ \A i \in 1 .. Len(Served) : Served[i] \in ServedNetworks
  BY ServedAssumption, LenProperties DEF ServedNetworks
<1>4. /\ opened' \subseteq Networks
      /\ turn' \in 1 .. (Len(Served) + 1)
      /\ failed' \subseteq ServedNetworks
      /\ step' = "send" => turn' <= Len(Served)
  BY <1>3 DEF Configure, CreateAgent, CreateService, Report, InitializeNonce, QueryKnown,
         QueryUnknown, RegisterFails, Listen, Stop, Move, chain, history, TypeOK
<1> QED BY <1>1, <1>2, <1>4 DEF TypeOK, Keyed

\* The node's secret is taken from the configuration, read, drawn or written.
LEMMA SecretStep ==
    ASSUME TypeOK, KeyFile, UseNodeSecret \/ ReadSecret \/ CreateSecret \/ WriteSecret
    PROVE  TypeOK' /\ KeyFile'
<1>1. /\ nodeSecret' = nodeSecret /\ run' = run /\ opened' = opened /\ turn' = turn
      /\ pool' = pool /\ registered' = registered /\ sent' = sent
      /\ failed' = failed /\ before' = before /\ shown' = shown
  BY DEF UseNodeSecret, ReadSecret, CreateSecret, WriteSecret, chain, history
<1>2. CASE UseNodeSecret
  <2>1. /\ file' = file /\ drawn' = drawn /\ unflushed' = unflushed
        /\ \/ nodeSecret = "valid" /\ step' = "agent" /\ key' = ConfKey
           \/ nodeSecret = "invalid" /\ step' = "stopped" /\ key' = key
    BY <1>2 DEF UseNodeSecret, Move, history
  <2> QED BY <1>1, <2>1 DEF TypeOK, KeyFile, Keyed, Seen
<1>3. CASE ReadSecret
  <2>1. /\ file' = file /\ drawn' = drawn /\ unflushed' = unflushed
        /\ nodeSecret = "none" /\ file # Absent
        /\ \/ file # Torn /\ step' = "agent" /\ key' = file
           \/ file = Torn /\ step' = "stopped" /\ key' = key
    BY <1>3 DEF ReadSecret, Move, history
  <2> QED BY <1>1, <2>1 DEF TypeOK, KeyFile, Keyed, Seen
<1>4. CASE CreateSecret
  <2>1. /\ file' = Torn /\ drawn' \subseteq Keys /\ unflushed' = unflushed
        /\ nodeSecret = "none" /\ file = Absent /\ step' = "write" /\ key' \in Keys
    BY <1>4 DEF CreateSecret, Move, history, TypeOK
  <2>2. shown = {} /\ ~unflushed
    BY <2>1, KeyAssumption DEF KeyFile
  <2> QED BY <1>1, <2>1, <2>2 DEF TypeOK, KeyFile, Keyed, Seen
<1>5. CASE WriteSecret
  <2>1. /\ drawn' = drawn /\ key' = key /\ step = "write" /\ step' = "agent"
        /\ \/ file' = key /\ unflushed' = unflushed
           \/ unflushed' = TRUE /\ file' = file
    BY <1>5 DEF WriteSecret, Move
  <2>2. nodeSecret = "none" /\ key \in Keys /\ file = Torn /\ shown = {} /\ ~unflushed
    BY <2>1 DEF KeyFile
  <2>3. TypeOK'
    BY <1>1, <2>1, <2>2 DEF TypeOK, Seen
  <2>4. CASE unflushed'
    <3>1. file' = Torn
      BY <2>1, <2>2, <2>4
    <3> QED BY <1>1, <2>1, <2>2, <2>4, <3>1, KeyAssumption, <2>3 DEF KeyFile, Keyed, Seen
  <2>5. CASE ~unflushed'
    <3>1. file' = key
      BY <2>1, <2>5
    <3> QED BY <1>1, <2>1, <2>2, <2>5, <3>1, KeyAssumption, <2>3 DEF KeyFile, Keyed, Seen
  <2> QED BY <2>4, <2>5
<1> QED BY <1>2, <1>3, <1>4, <1>5

\* A registration is sent, the node is started again, a transaction is mined or
\* dropped.
LEMMA ChainStep ==
    ASSUME TypeOK, KeyFile,
           RegisterSent \/ Restart \/ \E tx \in pool : Mine(tx) \/ Evict(tx)
    PROVE  TypeOK' /\ KeyFile'
<1>1. CASE RegisterSent
  <2> DEFINE tx == <<Served[turn], key, run>>
  <2>1. /\ step = "send" /\ step' = "query" /\ turn' = turn + 1
        /\ pool' = pool \cup {tx} /\ sent' = sent \cup {tx} /\ shown' = shown \cup {key}
        /\ UNCHANGED <<nodeSecret, file, key, opened, run, drawn, registered,
                       failed, before, unflushed>>
    BY <1>1 DEF RegisterSent, Move
  <2>2. Len(Served) \in Nat /\ turn \in 1 .. Len(Served)
    BY <2>1, ServedAssumption, LenProperties DEF TypeOK
  <2>3. Served[turn] \in ServedNetworks /\ key \in Seen /\ run \in 0 .. run
    BY <2>1, <2>2, ServedAssumption, LenProperties, BoundAssumption
    DEF ServedNetworks, KeyFile, Keyed, TypeOK
  <2>4. tx \in ServedNetworks \X Seen \X (0 .. run)
    BY <2>3
  <2>5. TypeOK'
    BY <2>1, <2>2, <2>3, <2>4 DEF TypeOK
  <2>6. KeyFile'
    <3>1. nodeSecret \in {"none", "valid"} /\ key \in Seen
      BY <2>1, <2>3 DEF TypeOK, KeyFile, Keyed
    <3>2. CASE nodeSecret = "valid"
      BY <2>1, <3>1, <3>2 DEF KeyFile, Keyed
    <3>3. CASE nodeSecret = "none"
      <4>1. /\ file # Absent /\ (unflushed => file = Torn) /\ (unflushed \/ key = file)
            /\ \A k \in shown : k = key
        BY <2>1, <3>1, <3>3, KeyAssumption DEF KeyFile, Keyed, Seen
      <4>2. shown' \subseteq {key} /\ nodeSecret' = "none" /\ file' = file /\ key' = key
            /\ unflushed' = unflushed /\ step' = "query"
        BY <2>1, <3>3, <4>1
      <4> QED BY <3>1, <4>1, <4>2 DEF KeyFile, Keyed
    <3> QED BY <3>1, <3>2, <3>3
  <2> QED BY <2>5, <2>6
<1>2. CASE Restart
  <2>1. /\ step' = "configs" /\ run' = run + 1 /\ run < MaxRestarts /\ key' = Absent
        /\ opened' = {} /\ turn' = 1 /\ failed' = {} /\ before' = registered
        /\ nodeSecret' = nodeSecret /\ drawn' = drawn /\ pool' = pool
        /\ registered' = registered /\ sent' = sent
        /\ \/ file' = file /\ shown' = shown /\ unflushed' = unflushed
           \/ file' = Absent /\ shown' = {} /\ unflushed' = FALSE
    BY <1>2 DEF Restart, Move
  <2>2. Len(Served) \in Nat
    BY ServedAssumption, LenProperties
  <2>3. run' \in 0 .. MaxRestarts /\ 0 .. run \subseteq 0 .. run'
    BY <2>1, BoundAssumption DEF TypeOK
  <2>4. sent' \subseteq ServedNetworks \X Seen \X (0 .. run')
    <3>1. sent \subseteq ServedNetworks \X Seen \X (0 .. run)
      BY DEF TypeOK
    <3>2. \A t \in ServedNetworks \X Seen \X (0 .. run) :
            t \in ServedNetworks \X Seen \X (0 .. run')
      BY <2>3
    <3> QED BY <2>1, <3>1, <3>2
  <2>5. TypeOK'
    <3>1. turn' \in 1 .. (Len(Served) + 1)
      BY <2>1, <2>2
    <3>2. file' \in Keys \cup {Absent, Torn} /\ shown' \subseteq Seen /\ unflushed' \in BOOLEAN
      BY <2>1 DEF TypeOK
    <3>3. pool' \subseteq sent' /\ registered' \subseteq ServedNetworks \X Seen
          /\ before' \subseteq registered' /\ drawn' \subseteq Keys /\ failed' \subseteq ServedNetworks
      BY <2>1 DEF TypeOK
    <3>4. step' = "configs" /\ key' \in Seen \cup {Absent} /\ opened' \subseteq Networks
          /\ nodeSecret' \in {"none", "valid", "invalid"}
      BY <2>1 DEF TypeOK
    <3> QED BY <2>3, <2>4, <3>1, <3>2, <3>3, <3>4 DEF TypeOK
  <2>6. KeyFile'
    BY <2>1, KeyAssumption DEF KeyFile, Keyed, TypeOK
  <2> QED BY <2>5, <2>6
<1>3. ASSUME NEW tx \in pool, Mine(tx) \/ Evict(tx) PROVE TypeOK' /\ KeyFile'
  <2>1. /\ pool' = pool \ {tx} /\ registered' \in {registered, registered \cup {<<tx[1], tx[2]>>}}
        /\ UNCHANGED <<step, nodeSecret, file, key, opened, turn, run, drawn, sent,
                       failed, before, shown, unflushed>>
    BY <1>3 DEF Mine, Evict, history
  <2>2. tx[1] \in ServedNetworks /\ tx[2] \in Seen
    BY DEF TypeOK
  <2> QED BY <2>1, <2>2 DEF TypeOK, KeyFile
<1> QED BY <1>1, <1>2, <1>3

LEMMA AlwaysKeyFile == Spec => [](TypeOK /\ KeyFile)
<1>1. TypeOK /\ KeyFile /\ [Next]_vars => TypeOK' /\ KeyFile'
  <2>1. CASE UNCHANGED vars
    BY <2>1 DEF vars, TypeOK, KeyFile
  <2> QED BY <2>1, MainStep, SecretStep, ChainStep DEF Next, StartUp
<1> QED BY <1>1, Start, PTL DEF Spec

\* Every variable keeps its type: register() stays within the served networks
\* and registers nothing but a key.
THEOREM TypeCorrect == Spec => []TypeOK
BY AlwaysKeyFile, PTL

\* For the life of a disk the node registers a single key, also if it dies while
\* the key file is written or the write is lost: open_or_create_secret never
\* replaces a file.
THEOREM SingleKey == Spec => []OneKey
<1>1. TypeOK /\ KeyFile => OneKey
  <2> SUFFICES ASSUME TypeOK, KeyFile PROVE OneKey
    OBVIOUS
  <2>1. \A j, k \in shown : j = k
    BY DEF KeyFile, TypeOK
  <2>2. CASE shown = {}
    BY <2>2, FS_EmptySet DEF OneKey
  <2>3. CASE shown # {}
    <3>1. PICK k \in shown : TRUE
      BY <2>3
    <3>2. shown = {k}
      BY <2>1, <3>1
    <3> QED BY <3>2, FS_Singleton DEF OneKey
  <2> QED BY <2>2, <2>3
<1> QED BY <1>1, AlwaysKeyFile, PTL

\* A key the registries know can be read back, unless its write was lost:
\* open_or_create_secret writes before anything is registered.
THEOREM KeysKept == Spec => []KeyKept
<1>1. KeyFile => KeyKept
  BY DEF KeyFile, KeyKept
<1> QED BY <1>1, AlwaysKeyFile, PTL

-----------------------------------------------------------------------------
(* Registration: which networks register() has dealt with. *)

\* Steps before the loop over the served networks.
Early == {"configs", "secret", "write", "agent", "service", "nonces", "report"}

\* Network n, as AllTried has it.
Tried(n) == \/ <<n, key>> \in registered
            \/ <<n, key, run>> \in sent
            \/ n \in failed

\* The nonce managers are ready before the loop starts; a registration that is
\* about to be sent was not known to the registry when main asked, so not when it
\* started; the networks before turn are dealt with.
Registration ==
    /\ NotAgain
    /\ NoncesFirst
    /\ step \in {"report", "query", "send", "listening"} => opened = Networks
    /\ step = "send" => <<Served[turn], key>> \notin before
    /\ step \in Early => turn = 1
    /\ step # "stopped" => \A i \in 1 .. (turn - 1) : Tried(Served[i])
    /\ step = "listening" => turn > Len(Served)

\* Steps that send nothing and stay at the same network.
LEMMA RegistrationKept ==
    ASSUME TypeOK, Registration,
           \/ Configure \/ UseNodeSecret \/ ReadSecret \/ CreateSecret \/ WriteSecret
           \/ CreateAgent \/ CreateService \/ Report \/ QueryUnknown \/ Listen \/ Stop
           \/ \E n \in Networks : InitializeNonce(n)
    PROVE  Registration'
<1>1. /\ run' = run /\ sent' = sent /\ before' = before /\ turn' = turn
      /\ registered' = registered /\ failed' = failed
      /\ step \in {"secret"} \/ key' = key
  BY DEF Configure, UseNodeSecret, ReadSecret, CreateSecret, WriteSecret, CreateAgent,
         CreateService, Report, QueryUnknown, Listen, Stop, InitializeNonce, Move,
         chain, history
<1>2. NotAgain'
  BY <1>1 DEF Registration, NotAgain
<1>3. step' \in {"report", "query", "send", "listening"} => opened' = Networks
  BY DEF Configure, UseNodeSecret, ReadSecret, CreateSecret, WriteSecret, CreateAgent,
         CreateService, Report, QueryUnknown, Listen, Stop, InitializeNonce, Move,
         Registration
<1>4. /\ step' = "send" => step = "query" /\ key' = key /\ <<Served[turn], key>> \notin before
      /\ step' \in Early => step \in Early
      /\ step' # "stopped" => step # "stopped"
      /\ step' = "listening" => turn > Len(Served)
  BY DEF Configure, UseNodeSecret, ReadSecret, CreateSecret, WriteSecret, CreateAgent,
         CreateService, Report, QueryUnknown, Listen, Stop, InitializeNonce, Move, Early,
         history, TypeOK
<1>5. ASSUME step' # "stopped", NEW i \in 1 .. (turn' - 1) PROVE Tried(Served[i])'
  <2>1. CASE step = "secret"
    <3>1. turn = 1
      BY <2>1 DEF Registration, Early
    <3> QED BY <1>1, <1>5, <3>1
  <2>2. CASE step # "secret"
    <3>1. key' = key
      BY <1>1, <2>2
    <3> QED BY <1>1, <1>4, <1>5, <3>1 DEF Registration, Tried
  <2> QED BY <2>1, <2>2
<1>6. step' = "send" => <<Served[turn'], key'>> \notin before'
  BY <1>1, <1>4
<1>7. (step' \in Early => turn' = 1) /\ (step' = "listening" => turn' > Len(Served))
  BY <1>1, <1>4 DEF Registration
<1>8. NoncesFirst'
  <2>1. opened \subseteq opened' \/ step' = "configs"
    BY DEF Configure, UseNodeSecret, ReadSecret, CreateSecret, WriteSecret, CreateAgent,
           CreateService, Report, QueryUnknown, Listen, Stop, InitializeNonce
  <2>2. step' # "configs"
    BY DEF Configure, UseNodeSecret, ReadSecret, CreateSecret, WriteSecret, CreateAgent,
           CreateService, Report, QueryUnknown, Listen, Stop, InitializeNonce, Move
  <2> QED BY <1>1, <1>3, <2>1, <2>2 DEF Registration, NoncesFirst
<1> QED BY <1>2, <1>3, <1>5, <1>6, <1>7, <1>8 DEF Registration

\* register() goes on to the next network.
LEMMA RegistrationMoves ==
    ASSUME TypeOK, Registration, QueryKnown \/ RegisterSent \/ RegisterFails
    PROVE  Registration'
<1>1. /\ step \in {"query", "send"} /\ step' = "query" /\ turn' = turn + 1
      /\ key' = key /\ run' = run /\ before' = before /\ registered' = registered
      /\ opened' = opened /\ sent \subseteq sent' /\ failed \subseteq failed'
  BY DEF QueryKnown, RegisterSent, RegisterFails, Move, chain, history
<1>2. NotAgain'
  <2>1. \A tx \in sent' : tx \in sent \/ (step = "send" /\ tx = <<Served[turn], key, run>>)
    BY DEF QueryKnown, RegisterSent, RegisterFails, Move, chain, history
  <2>2. ASSUME NEW tx \in sent', tx[3] = run' PROVE <<tx[1], tx[2]>> \notin before'
    <3>1. CASE tx \in sent
      BY <1>1, <2>2, <3>1 DEF Registration, NotAgain
    <3>2. CASE step = "send" /\ tx = <<Served[turn], key, run>>
      BY <1>1, <3>2 DEF Registration
    <3> QED BY <2>1, <3>1, <3>2
  <2> QED BY <2>2 DEF NotAgain
<1>3. turn \in Nat
  BY ServedAssumption, LenProperties DEF TypeOK
<1>4. ASSUME NEW i \in 1 .. (turn' - 1) PROVE Tried(Served[i])'
  <2>1. CASE i = turn
    BY <1>1, <2>1 DEF QueryKnown, RegisterSent, RegisterFails, Tried
  <2>2. CASE i # turn
    <3>1. i \in 1 .. (turn - 1)
      BY <1>1, <1>3, <2>2
    <3>2. Tried(Served[i])
      BY <1>1, <3>1 DEF Registration
    <3> QED BY <1>1, <3>2 DEF Tried
  <2> QED BY <2>1, <2>2
<1>5. opened' = Networks
  BY <1>1 DEF Registration
<1>6. NoncesFirst'
  <2>1. \A tx \in sent' : tx \in sent \/ (step = "send" /\ tx = <<Served[turn], key, run>>)
    BY DEF QueryKnown, RegisterSent, RegisterFails, Move, chain, history
  <2>2. step = "send" => Served[turn] \in Networks
    BY ServedAssumption, LenProperties DEF TypeOK
  <2> QED BY <1>1, <1>5, <2>1, <2>2 DEF Registration, NoncesFirst
<1> QED BY <1>1, <1>2, <1>4, <1>5, <1>6 DEF Registration, Early

\* The process starts again; the chain mines a transaction or drops it.
LEMMA RegistrationRestarts ==
    ASSUME TypeOK, Registration, Restart \/ \E tx \in pool : Mine(tx) \/ Evict(tx)
    PROVE  Registration'
<1>1. CASE Restart
  <2>1. /\ step' = "configs" /\ turn' = 1 /\ run' = run + 1 /\ sent' = sent
    BY <1>1 DEF Restart, Move
  <2>2. \A tx \in sent : tx[3] \in 0 .. run
    BY DEF TypeOK
  <2>3. \A tx \in sent : tx[3] # run'
    BY <2>1, <2>2, BoundAssumption DEF TypeOK
  <2>4. NotAgain' /\ NoncesFirst'
    BY <2>1, <2>3 DEF NotAgain, NoncesFirst
  <2> QED BY <2>1, <2>4 DEF Registration, Early
<1>2. ASSUME NEW tx \in pool, Mine(tx) \/ Evict(tx) PROVE Registration'
  <2>1. /\ registered \subseteq registered'
        /\ step' = step /\ opened' = opened /\ turn' = turn /\ run' = run /\ key' = key
        /\ sent' = sent /\ before' = before /\ failed' = failed
    BY <1>2 DEF Mine, Evict, history
  <2>2. ASSUME step' # "stopped", NEW i \in 1 .. (turn' - 1) PROVE Tried(Served[i])'
    <3>1. Tried(Served[i])
      BY <2>1, <2>2 DEF Registration
    <3> QED BY <2>1, <3>1 DEF Tried
  <2> QED BY <2>1, <2>2 DEF Registration, NotAgain, NoncesFirst
<1> QED BY <1>1, <1>2

LEMMA AlwaysRegistration == Spec => [](TypeOK /\ Registration)
<1>1. Init => Registration
  BY DEF Init, Registration, NotAgain, NoncesFirst, Early
<1>2. TypeOK /\ Registration /\ [Next]_vars => Registration'
  <2>1. CASE UNCHANGED vars
    BY <2>1 DEF vars, Registration, NotAgain, NoncesFirst, Tried
  <2> QED BY <2>1, RegistrationKept, RegistrationMoves, RegistrationRestarts
          DEF Next, StartUp
<1> QED BY <1>1, <1>2, AlwaysKeyFile, PTL DEF Spec

\* register() repeats nothing but a registration that was pending when the
\* process started: it asks the registry first.
THEOREM NeverAgain == Spec => []NotAgain
<1>1. Registration => NotAgain
  BY DEF Registration
<1> QED BY <1>1, AlwaysRegistration, PTL

\* A process takes no nonce of a network whose manager it has not initialised: what
\* register() sends, in this process, goes to such networks alone, and calls are
\* served when all are.
THEOREM NoncesReady == Spec => []NoncesFirst
<1>1. Registration => NoncesFirst
  BY DEF Registration
<1> QED BY <1>1, AlwaysRegistration, PTL

\* A node that listens has dealt with every network it serves: a failure on one
\* does not keep register() from the others.
THEOREM EveryNetwork == Spec => []AllTried
<1>1. TypeOK /\ Registration => AllTried
  <2> SUFFICES ASSUME TypeOK, Registration, step = "listening", NEW n \in ServedNetworks
               PROVE  Tried(n)
    BY DEF AllTried, Tried
  <2>1. turn > Len(Served) /\ turn \in Nat /\ Len(Served) \in Nat
    BY ServedAssumption, LenProperties DEF Registration, TypeOK
  <2>2. PICK i \in 1 .. Len(Served) : n = Served[i]
    BY ServedAssumption, LenProperties DEF ServedNetworks
  <2>3. i \in 1 .. (turn - 1)
    BY <2>1, <2>2
  <2> QED BY <2>2, <2>3 DEF Registration
<1> QED BY <1>1, AlwaysRegistration, PTL

-----------------------------------------------------------------------------
(* What comes before: bootstrap.sh, retrieve-secret and the configurations *)
(* the node reads, for any number of versions and lists and any faults.    *)

\* What the steps of the script know.  A file that retrieve-secret wrote is whole, of
\* a version that was the latest when it was asked for, and what the node reads; only
\* the process that asked the configuration server remembers its answer.
Fetched ==
    /\ since[1] <= published /\ since[2] <= list
    /\ script \in {"write", "close"} => got >= since[1]
    /\ script = "close" => config = <<got, "cut">>
    /\ fetched => /\ script \notin {"ip", "retrieve", "write", "close"}
                  /\ config[2] = "whole" /\ config[1] >= since[1]
                  /\ script \in {"networks", "service", "up"} => aizel = config
    /\ asked => script \in {"service", "up", "sleep"} /\ nets >= since[2]

\* The script's commands up to the node's start.
LEMMA ScriptTyped ==
    ASSUME BootTypeOK,
           \/ FindIp \/ Fetch \/ FetchFails \/ OpenFile \/ WriteFile
    PROVE  BootTypeOK'
<1> USE VersionAssumption DEF BootTypeOK, Configs, cloud, Then
<1>1. CASE FindIp
  BY <1>1 DEF FindIp
<1>2. CASE Fetch \/ FetchFails
  BY <1>2 DEF Fetch, FetchFails
<1>3. CASE OpenFile \/ WriteFile
  <2>1. <<got, "cut">> \in Configs /\ <<got, "whole">> \in Configs
    OBVIOUS
  <2>2. config' \in Configs \cup {NoFile}
    BY <1>3, <2>1 DEF OpenFile, WriteFile
  <2> QED BY <1>3, <2>2 DEF OpenFile, WriteFile
<1> QED BY <1>1, <1>2, <1>3

\* The node: without a file it does not get past reading it.
LEMMA NodeTyped ==
    ASSUME BootTypeOK,
           \/ ReadConfig \/ NoConfig \/ RequestNetworks
           \/ ReadNetworks \/ Serve \/ NodeEnds
    PROVE  BootTypeOK'
<1> USE VersionAssumption DEF BootTypeOK, cloud, Then
<1>1. CASE ReadConfig
  <2>1. config # NoFile
    BY <1>1, FileAssumption DEF ReadConfig, Whole, Configs
  <2> QED BY <1>1, <2>1 DEF ReadConfig
<1>2. CASE NoConfig \/ Serve \/ NodeEnds
  BY <1>2 DEF NoConfig, Serve, NodeEnds
<1>3. CASE RequestNetworks \/ ReadNetworks
  <2>1. 0 \in 0 .. LastList /\ nets' \in {0, list}
    BY <1>3 DEF RequestNetworks, ReadNetworks
  <2>2. nets' \in 0 .. LastList /\ config' = config /\ aizel' = aizel /\ aizel # NoFile
    BY <1>3, <2>1 DEF RequestNetworks, ReadNetworks
  <2>3. UNCHANGED <<published, list, ip, got, since, fetched>> /\ asked' \in BOOLEAN
    BY <1>3 DEF RequestNetworks, ReadNetworks
  <2>4. script' = "service"
    BY <1>3 DEF RequestNetworks, ReadNetworks
  <2> QED BY <2>2, <2>3, <2>4
<1> QED BY <1>1, <1>2, <1>3

\* The operator.
LEMMA OperatorTyped ==
    ASSUME BootTypeOK,
           StartContainer \/ Publish \/ PublishList
    PROVE  BootTypeOK'
<1> USE VersionAssumption DEF BootTypeOK, cloud
<1>1. CASE StartContainer
  <2>1. 0 \in 0 .. Last /\ 0 \in 0 .. LastList
    OBVIOUS
  <2>2. since' \in (0 .. Last) \X (0 .. LastList) /\ config' \in {config, NoFile}
    BY <1>1 DEF StartContainer
  <2>3. /\ script' = "ip" /\ ip' = FALSE /\ got' = 0 /\ aizel' = NoFile /\ nets' = 0
        /\ fetched' = FALSE /\ asked' = FALSE /\ UNCHANGED <<published, list>>
    BY <1>1 DEF StartContainer
  <2> QED BY <2>1, <2>2, <2>3
<1>2. CASE Publish \/ PublishList
  BY <1>2 DEF Publish, PublishList
<1> QED BY <1>1, <1>2

\* Every variable of Bootstrap keeps its type, and the node is not past reading its
\* configuration unless it has one.
THEOREM BootTypeCorrect == BootSpec => []BootTypeOK
<1>1. BootInit => BootTypeOK
  <2>1. 0 \in 0 .. Last /\ 0 \in 0 .. LastList
    BY VersionAssumption
  <2>2. <<0, 0>> \in (0 .. Last) \X (0 .. LastList)
    BY <2>1
  <2> SUFFICES ASSUME BootInit PROVE BootTypeOK
    OBVIOUS
  <2>3. published = 0 /\ list = 0 /\ got = 0 /\ nets = 0 /\ since = <<0, 0>>
    BY DEF BootInit
  <2>4. /\ config = NoFile /\ aizel = NoFile /\ script = "ip"
        /\ ip = FALSE /\ fetched = FALSE /\ asked = FALSE
    BY DEF BootInit
  <2> QED BY <2>1, <2>2, <2>3, <2>4 DEF BootTypeOK
<1>2. BootTypeOK /\ [BootNext]_bootVars => BootTypeOK'
  <2>1. BootTypeOK /\ UNCHANGED bootVars => BootTypeOK'
    BY DEF BootTypeOK, bootVars, cloud
  <2> QED BY <2>1, ScriptTyped, NodeTyped, OperatorTyped DEF BootNext
<1> QED BY <1>1, <1>2, PTL DEF BootSpec

\* retrieve-secret: what it downloads is at least as new as the container's start.
LEMMA ScriptFetched ==
    ASSUME BootTypeOK, Fetched,
           \/ FindIp \/ Fetch \/ FetchFails \/ OpenFile \/ WriteFile
    PROVE  Fetched'
<1> USE VersionAssumption DEF BootTypeOK, cloud, Then, Fetched
<1>1. CASE FindIp
  BY <1>1 DEF FindIp
<1>2. CASE Fetch \/ FetchFails
  BY <1>2 DEF Fetch, FetchFails
<1>3. CASE OpenFile
  BY <1>3 DEF OpenFile
<1>4. CASE WriteFile
  <2>1. <<got, "whole">>[1] = got /\ <<got, "whole">>[2] = "whole"
    OBVIOUS
  <2> QED BY <1>4, <2>1 DEF WriteFile
<1> QED BY <1>1, <1>2, <1>3, <1>4

\* The node reads the file the script left, and asks for the networks after that.
LEMMA NodeFetched ==
    ASSUME BootTypeOK, Fetched,
           \/ ReadConfig \/ NoConfig \/ RequestNetworks
           \/ ReadNetworks \/ Serve \/ NodeEnds
    PROVE  Fetched'
<1> USE VersionAssumption DEF BootTypeOK, cloud, Then, Fetched
<1>1. CASE ReadConfig
  BY <1>1 DEF ReadConfig
<1>2. CASE NoConfig \/ Serve \/ NodeEnds
  BY <1>2 DEF NoConfig, Serve, NodeEnds
<1>3. CASE RequestNetworks \/ ReadNetworks
  BY <1>3 DEF RequestNetworks, ReadNetworks
<1> QED BY <1>1, <1>2, <1>3

\* The operator only publishes newer versions; a new start forgets the last run.
LEMMA OperatorFetched ==
    ASSUME BootTypeOK, Fetched,
           StartContainer \/ Publish \/ PublishList
    PROVE  Fetched'
<1> USE VersionAssumption DEF BootTypeOK, cloud, Fetched
<1>1. CASE StartContainer
  BY <1>1 DEF StartContainer
<1>2. CASE Publish \/ PublishList
  BY <1>2 DEF Publish, PublishList
<1> QED BY <1>1, <1>2

\* What an earlier run left on the disk never wins over what was fetched: a node that
\* is up after retrieve-secret ended well has a whole configuration, at least as new
\* as its container's start, and such a list if the configuration server answered.
THEOREM BootCurrent == BootSpec => []RunsCurrent
<1>1. BootInit => Fetched
  BY DEF BootInit, Fetched
<1>2. BootTypeOK /\ Fetched /\ [BootNext]_bootVars => Fetched'
  <2>1. Fetched /\ UNCHANGED bootVars => Fetched'
    BY DEF Fetched, bootVars, cloud
  <2> QED BY <2>1, ScriptFetched, NodeFetched, OperatorFetched DEF BootNext
<1>3. Fetched => RunsCurrent
  BY DEF Fetched, RunsCurrent
<1> QED BY <1>1, <1>2, <1>3, BootTypeCorrect, PTL DEF BootSpec
=============================================================================
