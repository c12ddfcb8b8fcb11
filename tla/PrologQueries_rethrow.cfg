\* A goal with up to two solutions, which may raise an exception after them.
SPECIFICATION Spec
CONSTANTS
    MaxSolutions = 2
INVARIANTS
    FailureIsRethrown
CHECK_DEADLOCK FALSE
