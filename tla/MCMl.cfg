\* Three models, every fault and two restarts; a panic ends the worker.
SPECIFICATION FairSpec
CONSTANTS
    m1 = m1
    m2 = m2
    m3 = m3
    None = None
    Torn = Torn
    Models = {m1, m2, m3}
    Faults <- AllFaults
    MaxRestarts = 2
INVARIANTS
    SavedIsOwn
    Recoverable
PROPERTIES
    ImplementsService
    SwitchHeals
CHECK_DEADLOCK FALSE
