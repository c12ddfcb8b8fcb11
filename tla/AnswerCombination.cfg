\* Three channels, four answers.
SPECIFICATION Spec
CONSTANTS
    None = None
    Offers <- SomeOffers
    NumPushes = 4
    GroundTerms <- AllGround
INVARIANTS
    UnifierIsMostGeneral
    CombinesEachOnce
    KeepsDoubts
CHECK_DEADLOCK FALSE
