\* Formulas with every connective, and conjunctions of dependent literals.
SPECIFICATION Spec
CONSTANTS
    Formulas <- AllFormulas
    Queries <- AllQueries
    Variables <- AllVariables
    Computable <- SomeComputable
INVARIANTS
    ReadsAsWritten
    PathsAreDNF
    EachEvaluatedOnceUnlessMerged
    EachStepIsBound
    EosAfterAllPaths
CHECK_DEADLOCK FALSE
