\* A channel is created late, producers may fail, and another thread may
\* close the stream.
SPECIFICATION Spec
CONSTANTS
    Channels = {c1, c2}
    Connected = {c1}
    NumAnswers = 1
    Closer = closer
PROPERTIES
    ClosePushesEosOrFails
    AutoCloses
CHECK_DEADLOCK FALSE
