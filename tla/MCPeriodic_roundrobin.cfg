SPECIFICATION PeriodicFairSpec
CONSTANTS
    Idle = idle
    None = none
    Task = {idle, a, b}
    WaitList = {w}
    MaxPriorities = 2
    MaxDelay = 2
    TimeSlicing = TRUE
    Prio <- PeersOnly
    TickMod = 4
    MaxNesting = 1
    Calls = {"yield", "delay", "lock"}
    Periodic = {a}
    Period = 2
    MaxLag = 3
INVARIANTS
    SchedInv
    NeverEarly
PROPERTIES
    PeersRun
    DelayEnds
    UntilReturns
