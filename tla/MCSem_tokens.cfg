SPECIFICATION SemSpec
CONSTANTS
    Idle = idle
    a = a
    b = b
    c = c
    None = none
    Task = {idle, a, b, c}
    WaitList = {w}
    MaxPriorities = 3
    MaxDelay = 1
    TimeSlicing = FALSE
    Prio <- PeersAndHigh
    TickMod = 2
    MaxNesting = 1
    Calls = {"delay", "lock"}
    MaxCount = 1
    InitCount = 0
    SemCalls = {"take", "give", "give_from_isr", "delete", "create"}
INVARIANTS
    SemTypeOK
    SemScheduling
PROPERTIES
    SemImplements
SYMMETRY Peers
