\* Three pushes, at most two threads, any of which may fail to initialize.
INIT Init
NEXT UseNext
CONSTANTS
    NoOne = NoOne
    Goals = {g1, g2, g3}
    Workers = {w1, w2, w3}
    FailingWorkers = {w1, w2, w3}
    MaxNumThreads = 2
    WordSize = 8
SYMMETRY SafetySymmetry
INVARIANTS
    TypeOK
    CountersExact
    ThreadLimit
    NoWrapAround
    FifoExactlyOnce
    NoLostWakeup
    HandledBeforeJoinReturns
CHECK_DEADLOCK FALSE
