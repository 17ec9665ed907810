\* Every fault, two new configurations and two new lists.
SPECIFICATION BootFairSpec
CONSTANTS
    Last = 2
    LastList = 2
    Wanted <- MCWanted
    Listed <- MCListed
    NoFile = NoFile
    BootFaults <- BootFaultNames
INVARIANTS
    BootTypeOK
    RunsCurrent
PROPERTIES
    NodeComesUp
CHECK_DEADLOCK FALSE
