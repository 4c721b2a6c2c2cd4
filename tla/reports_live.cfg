CONSTANTS
    p1 = p1
    p2 = p2
    r1 = r1
    r2 = r2
    Procs <- MCProcs
    Readers <- MCReaders
    Writers <- OneWriter
    Home <- Apart
    MaxWrites = 1
    MaxRestarts = 0
    Flaky = TRUE
SPECIFICATION Spec
PROPERTY CatchesUp
