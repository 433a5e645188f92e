CONSTANTS
    Exact = 4096
    num_ranks = 3
    Inputs <- MCArrays
    MSAN_TIMEOUT_THRESHOLD = 1
    GraphRanks = 3
    MaxEvents0 = 3
    MaxEvents1 = 2
SPECIFICATION MCSpec
INVARIANTS
    DTypeOK
    PairsAreFifo
    NothingPairableLeft
    CountsAgree
    AnomaliesAreOutliers
    EqualSizesAreUsual
    ReplayCountIsRepeats
    OverlapsAreNeighbours
    SegmentsExact
    VerdictExact
    ClosureIsExact
    GraphIsTopology
    ReportedAreOnCycles
    SilentIffClean
PROPERTY ImplementsPairing
\* The analysis runs once, at the end of the program.
CHECK_DEADLOCK FALSE
