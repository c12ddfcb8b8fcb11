\* Two pushes, at most one thread; the pool may be
\* destroyed at any time.
SPECIFICATION FairSpec
CONSTANTS
    NoOne = NoOne
    Goals = {g1, g2}
    Workers = {w1, w2}
    FailingWorkers = {}
    MaxNumThreads = 1
    WordSize = 8
INVARIANTS
    NothingRunsAfterDestruction
PROPERTIES
    GoalsTerminate
CHECK_DEADLOCK FALSE
