SPECIFICATION Spec
CONSTANTS
    p1 = p1
    p2 = p2
    r1 = r1
    r2 = r2
    None = None
    Procs <- MCProcs
    Runs <- MCRuns
    MaxFiles = 3
SYMMETRY Symmetry
PROPERTIES
    LockedRunStays
