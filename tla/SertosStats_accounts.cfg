CONSTANTS
    Task = {idle, a, b}
    Idle = idle
    None = None
    Callers = {a}
    CounterMod = 3
    MaxClock = 4
    MaxSwitches = 3
SPECIFICATION StatsSpec
INVARIANTS StatsTypeOK TimeConserved TimeAttributed SwitchesOnAccounts SharesInRange
CHECK_DEADLOCK FALSE
