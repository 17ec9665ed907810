\* Every fault at once, and a restart.
SPECIFICATION FairSpec
CONSTANTS
    c1 = c1
    c2 = c2
    Callers = {c1, c2}
    Faults <- AllFaults
    MaxNonce = 3
    MaxRestarts = 1
INVARIANTS
    Exclusive
    Conserved
    NoOrphanGap
    OnlyAstrayReused
PROPERTIES
    ImplementsPool
    AcceptedIsMined
CHECK_DEADLOCK FALSE
