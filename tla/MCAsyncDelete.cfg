SPECIFICATION DeleteSpec
CONSTANTS
    c1 = c1
    c2 = c2
    Callers = {c1, c2}
    PollTimeout = 2
    Assignments <- Pairs
INVARIANT AsyncDeleteTypeOK
INVARIANT DeletesAreTrue
PROPERTY ValueDeleteUnblocksBundle
PROPERTY DeleteReturns
CHECK_DEADLOCK FALSE
