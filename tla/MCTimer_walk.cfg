SPECIFICATION TimerSpec
CONSTANTS
    x = x
    y = y
    z = z
    a = a
    NoTimer = none
    Timer = {x, y, z}
    Periodic = {z}
    MaxPeriod = 2
    TickMod = 3
    Caller = {a}
    CallbackKinds = {"end", "start"}
INVARIANTS
    TimerTypeOK
    TimerListed
    TimerDeadline
    WalkVisits
VIEW WithoutClock
SYMMETRY OneShots
\* The specification stops at the first misuse of a list.
CHECK_DEADLOCK FALSE
