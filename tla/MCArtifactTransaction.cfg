SPECIFICATION Spec
CONSTANTS
    p1 = p1
    p2 = p2
    d1 = d1
    d2 = d2
    d3 = d3
    Original = Original
    Absent = Absent
    Procs <- MCProcs
    Dirs <- MCDirs
SYMMETRY Symmetry
INVARIANTS
    RecoveryIsPossible
    AckedIsDurable
PROPERTIES
    ReplacesAtomically
