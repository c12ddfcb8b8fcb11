\* Up to two computable literals, each with one reasoner beside the database.
SPECIFICATION FairSpec
CONSTANTS
    Plans <- AllPlans
    NumReasoners = 1
    NumInputs <- AllInputs
    NumAnswers <- AllAnswers
INVARIANTS
    CompleteAtEos
    CombinesEach
PROPERTIES
    EosArrives
CHECK_DEADLOCK FALSE
