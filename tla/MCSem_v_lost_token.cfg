SPECIFICATION SemSpec
CONSTANTS
    Idle = idle
    a = a
    b = b
    c = c
    None = none
    Task = {idle, a}
    WaitList = {w}
    MaxPriorities = 3
    MaxDelay = 1
    TimeSlicing = FALSE
    Prio <- PeersAndHigh
    TickMod = 2
    MaxNesting = 0
    Calls = {}
    MaxCount = 1
    InitCount = 0
    SemCalls = {"take", "give_from_isr"}
INVARIANTS
    BlocksOnlyIfUnavailable
