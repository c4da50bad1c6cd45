SPECIFICATION Spec
CONSTANTS
    p1 = p1
    p2 = p2
    b1 = b1
    b2 = b2
    torn = torn
    None = None
    Procs <- MCProcs
    Bytes <- MCBytes
    Readable <- MCReadable
    MaxBackups = 3
SYMMETRY Symmetry
INVARIANTS
    TypeOK
    LockExcludes
    ReplacedBytesAreSaved
PROPERTIES
    NoLostUpdate
    WritesOnlyUnderLateStart
    RestoreUndoesLastReplacement
