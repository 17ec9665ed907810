\* Two restarts, perhaps in a new container, lost writes and dropped transactions.
SPECIFICATION FairSpec
CONSTANTS
    n1 = n1
    n2 = n2
    n3 = n3
    Networks <- MCNetworks
    Served <- MCServed
    Keys = {k1, k2, k3}
    ConfKey = conf
    Absent = Absent
    Torn = Torn
    MaxRestarts = 2
    Faults = {"disk", "wipe", "evict"}
INVARIANTS
    OneKey
    KeyKept
    NotAgain
    NoncesFirst
    AllTried
PROPERTIES
    ComesUp
CHECK_DEADLOCK FALSE
