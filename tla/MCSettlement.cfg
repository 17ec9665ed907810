\* A transfer and two other requests, with every fault of the chain.
SPECIFICATION FairSpec
CONSTANTS
    net = net
    Calls = {1, 2, 3}
    Kind <- MCKind
    Capacity = 1
    WithinTee = TRUE
    ServerFaults = {"gate_reply"}
    ChainFaults = {"refuse", "timeout", "evict"}
    MaxNonce = 4
INVARIANTS
    AcceptedKept
    SettledOnce
    OutputBacked
PROPERTIES
    Settles
CHECK_DEADLOCK FALSE
