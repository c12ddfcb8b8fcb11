\* Three partial results, all solutions or one.
SPECIFICATION Spec
CONSTANTS
    NumInputs = 3
    NumAnswers = 1
    Feeder = feeder
    NoOne = NoOne
INVARIANTS
    CompleteUnlessOvertaken
    OneEosUnlessSimultaneous
PROPERTIES
    EosIsPushed
    FirstMessageArrives
CHECK_DEADLOCK FALSE
