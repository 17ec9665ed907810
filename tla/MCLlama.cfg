\* Three models, every fault and two restarts.
SPECIFICATION FairSpec
CONSTANTS
    m1 = m1
    m2 = m2
    m3 = m3
    None = None
    Models = {m1, m2, m3}
    Default = m1
    Faults <- AllFaults
    MaxRestarts = 2
INVARIANTS
    ChildIsCurrent
PROPERTIES
    ImplementsService
    SwitchHeals
CHECK_DEADLOCK FALSE
