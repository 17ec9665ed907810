\* The reply to a transfer that was sent is lost.
SPECIFICATION Spec
CONSTANTS
    net = net
    Calls = {1, 2}
    Kind <- MCKind
    Capacity = 1
    WithinTee = TRUE
    ServerFaults = {}
    ChainFaults = {"timeout"}
    MaxNonce = 3
INVARIANTS
    ErrorMovedNothing
CHECK_DEADLOCK FALSE
