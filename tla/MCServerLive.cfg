\* Everything may fail on n1, a call of n2 may never end, and n3 is healthy.
SPECIFICATION FairSpec
CONSTANTS
    n1 = n1
    n2 = n2
    n3 = n3
    Networks = {n1, n2, n3}
    Calls = {1, 2, 4, 5}
    NetworkOf <- MCNetworkOf
    Kind <- LiveKind
    BadKey <- Call2
    Capacity = 1
    WithinTee = TRUE
    Faults <- FaultsApart
PROPERTIES
    HealthyAnswers
    NoCallHangs
CHECK_DEADLOCK FALSE
