SPECIFICATION TraceSpec
CONSTANTS
    Absent = Absent
    MaxBytes = 17
    Reserve = 2
    MarkerSize = 1
    Sizes = {1, 3}
    MaxCalls = 3
    MaxDepth = 2
INVARIANTS
    TraceIsBounded
    SummaryIsFaithful
CHECK_DEADLOCK FALSE
