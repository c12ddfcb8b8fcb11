\* Two subscribers, three answers.
SPECIFICATION Spec
CONSTANTS
    s1 = s1
    s2 = s2
    Subscribers <- TwoSubscribers
    NumAnswers = 3
    Producer = producer
    Connector = connector
INVARIANTS
    NoDuplicates
    InOrderUnlessRaced
CHECK_DEADLOCK FALSE
