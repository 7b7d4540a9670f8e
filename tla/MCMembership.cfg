SPECIFICATION Spec
CONSTANTS
    w1 = w1
    w2 = w2
    Workers = {w1, w2}
    Calls = {"add", "remove", "delete"}
    Servers <- SomeServers
SYMMETRY Interchangeable
INVARIANT TypeOK
INVARIANT AddIsTrue
INVARIANT RemoveIsTrue
INVARIANT ChainReachesServer
CHECK_DEADLOCK FALSE
