SPECIFICATION SafetySpec
CONSTANTS
    Second = 10
    Half = 128
    OwnClient = own
    Limited = limited
    Unbounded = unbounded
    GivenClients = {limited, unbounded}
    DefaultTimeout = 2
    Owner = owner
    Other = other
    MaxFaults = 1
    MaxOptions = 2
    Cases <- MCFewCases
    Values <- MCValues
    GivenTimeouts <- MCGivenTimeouts
INVARIANT NeverTooEarly
CHECK_DEADLOCK FALSE
