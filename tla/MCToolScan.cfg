CONSTANTS
    Kinds <- MCKinds
    Workers = {w1, w2}
    MaxParallel = 2
    MaxBytes = 5
    Sizes = {1, 3}
SPECIFICATION FairSpec
INVARIANTS
    EveryTargetReported
    ProbesBounded
    OkMeansPaid
    IncompleteMeansShort
PROPERTIES
    EntriesFinal
    ScanReturns
CHECK_DEADLOCK FALSE
