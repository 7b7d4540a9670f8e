SPECIFICATION Spec
CONSTANTS
    Second = 10
    Half = 128
    OwnClient = own
    Limited = limited
    Unbounded = unbounded
    GivenClients = {limited, unbounded}
    DefaultTimeout = 2
    Owner = owner
    Other = other
    MaxFaults = 2
    MaxOptions = 2
    Cases <- MCCases
    Values <- MCValues
    GivenTimeouts <- MCGivenTimeouts
INVARIANT ReconcilerTypeOK
INVARIANT OneEntity
INVARIANT TerminalIsEarned
INVARIANT DelayIsAsked
PROPERTY ForeignFieldsSurvive
PROPERTY Converges
CHECK_DEADLOCK FALSE
