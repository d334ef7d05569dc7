SPECIFICATION TaskSpec
CONSTANTS
    Idle = idle
    a = a
    b = b
    c = c
    None = none
    Task = {idle, a, b}
    WaitList = {w}
    MaxPriorities = 3
    MaxDelay = 2
    TimeSlicing = FALSE
    Prio <- PeersAndHigh
    TickMod = 3
    MaxNesting = 1
    Calls = {"delay", "lock", "yield", "create"}
    TaskCalls = {"suspend", "resume", "delete", "set_priority"}
INVARIANTS
    LifeCycleLists
    SuspendedStays
    PriorityRespected
SYMMETRY Peers
VIEW WithoutClock
\* The specification stops at the first misuse of a list.
CHECK_DEADLOCK FALSE
