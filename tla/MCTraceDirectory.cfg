SPECIFICATION Spec
CONSTANTS
    p1 = p1
    p2 = p2
    None = None
    Procs <- MCProcs
    MaxNames = 3
    Found <- MCFound
SYMMETRY Symmetry
INVARIANTS
    TracesAreBounded
PROPERTIES
    RunningTracesStay
    StartFailsOnlyAfterOthers
CHECK_DEADLOCK FALSE
