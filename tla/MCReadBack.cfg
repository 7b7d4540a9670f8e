SPECIFICATION SafetySpec
CONSTANTS
    c1 = c1
    c2 = c2
    Callers = {c1}
    NoValue = NoValue
    PollTimeout = 3
    Endpoints <- EveryEndpoint
INVARIANT ReadBackTypeOK
INVARIANT ExitIsJustified
INVARIANT FailedReadSurfaces
INVARIANT SettledLeavesNoDrift
PROPERTY ExactReadBackSettles
CHECK_DEADLOCK FALSE
