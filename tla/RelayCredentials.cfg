SPECIFICATION Spec
CONSTANTS
    Client = {c1}
    Enroll = {e1, e2}
    Check = {k1, k2}
    NoEnroll = NoEnroll
    Target <- MCTarget
    CsvTargets <- MCCsvTargets
    KeyTTL = 2
    TokenTTL = 2
    MaxTime = 3
    MaxFailures = 2
    MaxRevocations = 1
SYMMETRY MCSymmetry
INVARIANTS ClientCovered LastEnrollWins RefusedWhenVoid
CHECK_DEADLOCK FALSE
