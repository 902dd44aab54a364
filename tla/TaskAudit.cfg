SPECIFICATION Spec
CONSTANTS
    MaxCalls = 2
    MaxStrictCalls = 2
    Paths = {p1, p2, box}
    Shared = box
    NoPath = NoPath
    MaxFaults = 0
INVARIANTS
    ExplainedIsAccepted
CHECK_DEADLOCK FALSE
