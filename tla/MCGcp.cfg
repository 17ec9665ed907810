\* Two calls and their checks, two keys, every fault.
SPECIFICATION Spec
CONSTANTS
    c1 = c1
    c2 = c2
    Calls = {c1, c2}
    Images <- MCImages
    Golden <- Golden0
    NodeAudience = "aizel"
    Audience = "aizel"
    MaxKid = 2
    Life = 0
    Leeway = 0
    MaxTime = 1
    None = None
    Text = Text
    Faults = {"socket", "text", "network"}
INVARIANTS
    TypeOK
    OwnNonce
    AcceptedGenuine
    RefusedForCause
CHECK_DEADLOCK FALSE
