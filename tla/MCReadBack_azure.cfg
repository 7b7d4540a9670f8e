SPECIFICATION SafetySpec
CONSTANTS
    c1 = c1
    c2 = c2
    Callers = {c1}
    NoValue = NoValue
    PollTimeout = 2
    Endpoints <- AzureOnly
PROPERTY AppliedWriteSettles
CHECK_DEADLOCK FALSE
