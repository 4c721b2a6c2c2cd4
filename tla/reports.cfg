CONSTANTS
    p1 = p1
    p2 = p2
    r1 = r1
    r2 = r2
    Procs <- MCProcs
    Readers <- MCReaders
    Writers <- MCProcs
    Home <- Apart
    MaxWrites = 2
    MaxRestarts = 1
    Flaky = FALSE
SPECIFICATION SafeSpec
SYMMETRY Exchanged
INVARIANTS CacheTypeOK HitIsFresh
PROPERTY ReadIsFresh
