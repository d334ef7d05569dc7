SPECIFICATION Spec
CONSTANTS
    Idle = idle
    a = a
    b = b
    c = c
    None = none
    Task = {idle, a, b}
    WaitList = {w}
    MaxPriorities = 3
    MaxDelay = 1
    TimeSlicing = FALSE
    Prio <- PeersAndHigh
    TickMod = 2
    MaxNesting = 0
    Calls <- EventCalls
INVARIANTS
    EventMeansOk
