\* Two analyses at a time as in the pool of two, a crash between them.
CONSTANTS
    Analyses = {a1, a2}
    Backends = {b1, b2}
    NoBackend = NoBackend
    MaxCrashes = 1
SYMMETRY Symmetry
SPECIFICATION SharedSpec
INVARIANTS
    SharedTypeOK
    NoVerdictHasCause
    ShortCacheHasCause
    TracerEndsByStop
\* Analyses end.
CHECK_DEADLOCK FALSE
