\* Two calls and their checks, two security versions, three editions of the
\* collateral, every fault.
SPECIFICATION Spec
CONSTANTS
    c1 = c1
    c2 = c2
    Calls = {c1, c2}
    MaxSvn = 2
    MaxTcb = 3
    Faults = {"device", "library"}
INVARIANTS
    TypeOK
    RevocationHonoured
    RefusedForCause
CHECK_DEADLOCK FALSE
