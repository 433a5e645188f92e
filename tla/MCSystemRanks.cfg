CONSTANTS
    Exact = 4096
    num_ranks = 4
    EventBytes = 424
    IntMax = 32767
    Group <- MCGroup
    MPI_COMM_WORLD = 1
    CommHandle <- MCHandles
    Programs <- RankPrograms
    MSAN_TIMEOUT_THRESHOLD = 1
    GraphRanks = 8
    NUM_SMALL = 20
    HUGE_COUNT = 100
    NUM_ITERATIONS = 2
SPECIFICATION Spec
INVARIANTS
    GatheredIsTheLogs
    BlocksTile
    SilentIffCleanRun
    SuiteVerdicts
\* The job ends, or its ranks wait for each other for ever.
CHECK_DEADLOCK FALSE
