\* All channels are connected before the first message.
SPECIFICATION UseSpec
CONSTANTS
    Channels = {c1, c2}
    Connected = {c1, c2}
    NumAnswers = 2
    Closer = closer
INVARIANTS
    CompleteAtEos
    NoDanglingIterator
PROPERTIES
    ImplementsContract
CHECK_DEADLOCK FALSE
