SPECIFICATION Spec
CONSTANTS
    Idle = idle
    a = a
    b = b
    c = c
    None = none
    Task = {idle, a, b, c}
    WaitList = {w}
    MaxPriorities = 3
    MaxDelay = 2
    TimeSlicing = TRUE
    Prio <- PeersAndHigh
    TickMod = 3
    MaxNesting = 1
    Calls <- AllCalls
INVARIANTS
    TypeOK
    NoFault
    ListsConsistent
    WaitersByPriority
    HighestPriorityRuns
    RunningIsCurrent
    DeadlineKept
    OkMeansEvent
PROPERTIES
    LockKeepsCpu
SYMMETRY Peers
