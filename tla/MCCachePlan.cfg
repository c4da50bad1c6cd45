SPECIFICATION Spec
CONSTANTS
    h1 = h1
    h2 = h2
    c1 = c1
    c2 = c2
    retitled = retitled
    Heroes <- MCHeroes
    Paths <- MCPaths
    Contents <- MCContents
    Shown <- MCShown
    Times = {0, 1}
    LocalLimit = 4
    Documents <- MCDocuments
    Requests <- MCRequests
    MaxValues = 3
    MaxCopies = 1
    Clock = {1}
INVARIANTS
    TypeOK
    IdentitiesAreUnique
    InstallIsIdempotent
    InstalledIsCurrent
    CurrentIsInstalled
    CountsAddUp
PROPERTIES
    IdentitiesAreFresh
    OnlyManagedReplaced
