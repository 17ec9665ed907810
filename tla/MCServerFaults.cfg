\* Everything may fail on both networks; n3 is not served.
SPECIFICATION Spec
CONSTANTS
    n1 = n1
    n2 = n2
    n3 = n3
    Networks = {n1, n2}
    Calls = {1, 2, 3, 4, 5}
    NetworkOf <- MCNetworkOf
    Kind <- MCKind
    BadKey <- Call2
    Capacity = 1
    WithinTee = TRUE
    Faults <- AllFaults
INVARIANTS
    TypeOK
    Accounted
    OneStory
    OutputAvailable
PROPERTIES
    ImplementsOutcome
CHECK_DEADLOCK FALSE
