SPECIFICATION Spec
CONSTANTS
    w1 = w1
    w2 = w2
    p1 = p1
    p2 = p2
    p3 = p3
    None = None
    Workers = {w1, w2}
    Projects = {p1, p2, p3}
    PageSize = 1
    MaxUsages = 3
    Calls <- Detaching
    InitialUsages <- SomeUsages
INVARIANT DetachesEntirely
CHECK_DEADLOCK FALSE
