\* A restart while a transaction is pending; none is in send() when the process
\* dies, or it has not left.
SPECIFICATION Spec
CONSTANTS
    c1 = c1
    c2 = c2
    Callers = {c1, c2}
    Faults <- NoFaults
    MaxNonce = 2
    MaxRestarts = 1
INVARIANTS
    NextIsUnspent
CHECK_DEADLOCK FALSE
