\* Two threads, two inserts, one removal.
SPECIFICATION Spec
CONSTANTS
    QueryVariables = {"X", "Y", "Z", "C"}
    MaxTime = 3
    Threads = {t1, t2}
    Properties <- SomeProperties
    Batches <- AllBatches
    Tells <- SomeTells
    Asks <- SomeAsks
    BatchSize = 0
    Queries <- SomeQueries
    Removals <- SomeRemovals
    MaxInserts = 2
    MaxRemovals = 1
INVARIANTS
    HierarchyIsIndexed
    TimesAreUnion
    LookupIsJoin
    AsksAreAnswered
CHECK_DEADLOCK FALSE
