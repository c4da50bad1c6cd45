SPECIFICATION Spec
CONSTANTS
    None = None
    Malformed = Malformed
    p1 = p1
    p2 = p2
    A = A
    B = B
    C = C
    Procs <- MCProcs
    Searches <- MCSearches
    Personas <- MCPersonas
    FirstDisk <- MCFirstDisk
    LaterDisk <- MCLaterDisk
    MaxStarts = 2
    MaxVersion = 2
    MaxEvents = 1
SYMMETRY Symmetry
INVARIANTS
    VerdictsAreHonest
    CatalogIsFound
PROPERTIES
    NothingStaleIsWritten
    OnlySelectedCache
CHECK_DEADLOCK FALSE
