SPECIFICATION Spec
CONSTANTS
    Idle = idle
    a = a
    b = b
    c = c
    None = none
    Task = {idle, a, b, c}
    WaitList = {w}
    MaxPriorities = 3
    MaxDelay = 2
    TimeSlicing = TRUE
    Prio <- PeersOnly
    TickMod = 3
    MaxNesting = 0
    Calls = {"delay"}
INVARIANTS
    DelayBlocks
