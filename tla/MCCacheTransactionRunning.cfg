SPECIFICATION Spec
CONSTANTS
    p1 = p1
    p2 = p2
    b1 = b1
    b2 = b2
    torn = torn
    None = None
    Procs <- MCProcs
    Bytes <- MCReadable
    Readable <- MCReadable
    MaxBackups = 2
PROPERTIES
    NoWriteWhileDeadlockRuns
