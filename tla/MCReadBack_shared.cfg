SPECIFICATION Spec
CONSTANTS
    c1 = c1
    c2 = c2
    Callers = {c1, c2}
    NoValue = NoValue
    PollTimeout = 1
    Endpoints <- SharedEndpoints
PROPERTY KeepsPromise
PROPERTY AwaitSpec
PROPERTY UpdateReturns
CHECK_DEADLOCK FALSE
