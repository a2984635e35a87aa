CONSTANTS
    R1 = R1
    R2 = R2
    Requests <- TwoRequests
    StreamTries = 3
SPECIFICATION Spec
CHECK_DEADLOCK FALSE
INVARIANT AttemptsAreCounted
PROPERTIES
    WaitingIsBounded
    PromiseKept
