SPECIFICATION Spec
CONSTANTS
    MaxBytes = 270
    MaxCount = 13
    MaxDepth = 3
    Others <- MCOthers
    Names <- MCNames
    Builds <- MCBuilds
    Styles <- MCStyles
    Zeroes = {0, 3}
INVARIANTS
    ReadsWhatWasMeant
    WhatIsReadCanBeWritten
    DamagedFilesAreRefused
