SPECIFICATION Spec
CONSTANTS
    w1 = w1
    w2 = w2
    h1 = h1
    h2 = h2
    mA = mA
    mB = mB
    x = x
    y = y
    AnyModule = AnyModule
    None = None
    Workers = {w1, w2}
    Holders = {h1, h2}
    Modules = {mA, mB}
    Idents = {x, y}
    PageSize = 1
    MaxCalls = 3
    MaxDetails = 2
    Scenarios <- Situations
SYMMETRY Interchangeable
INVARIANT TypeOK
INVARIANT FindIsTrue
INVARIANT WriteIsTrue
INVARIANT RedeliverySettles
CHECK_DEADLOCK FALSE
