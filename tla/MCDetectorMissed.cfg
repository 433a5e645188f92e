CONSTANTS
    Exact = 4096
    num_ranks = 3
    Inputs <- CollArrays
    MSAN_TIMEOUT_THRESHOLD = 1
    GraphRanks = 3
    MaxEvents0 = 1
    MaxEvents1 = 1
SPECIFICATION MCSpec
INVARIANT DisagreementIsReported
\* The analysis runs once, at the end of the program.
CHECK_DEADLOCK FALSE
