SPECIFICATION Spec
CONSTANTS
    w1 = w1
    w2 = w2
    p1 = p1
    p2 = p2
    p3 = p3
    None = None
    Workers = {w1, w2}
    Projects = {p1, p2, p3}
    PageSize = 1
    MaxUsages = 5
    Calls <- Colliding
    InitialUsages <- SomeUsages
INVARIANT TypeOK
INVARIANT AnswersAreTrue
INVARIANT AtMostOneUnreported
PROPERTY OthersUntouched
CHECK_DEADLOCK FALSE
