SPECIFICATION MutexSpec
CONSTANTS
    Idle = idle
    a = a
    b = b
    c = c
    None = none
    Task = {idle, a, b, c}
    WaitList = {w}
    MaxPriorities = 4
    MaxDelay = 2
    TimeSlicing = FALSE
    Prio <- Three
    TickMod = 3
    MaxNesting = 0
    Calls = {"delay"}
    MaxRecursion = 2
    Timeouts = {0, 1, 3}
    MutexCalls = {"lock", "unlock", "delete"}
INVARIANTS
    MutexTypeOK
    MutualExclusion
    OwnerBoosted
VIEW WithoutClock
\* The specification stops at the first misuse of a list.
CHECK_DEADLOCK FALSE
