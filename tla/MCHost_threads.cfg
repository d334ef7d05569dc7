CONSTANTS
    a = a
    b = b
    c = c
    d = d
    Task = {a, b, c, d}
    None = None
    Builds <- MCBuilds
SPECIFICATION HostSpec
INVARIANTS HostTypeOK  OneExecutes
PROPERTY StopReturns
CHECK_DEADLOCK FALSE
