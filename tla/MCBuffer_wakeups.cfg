SPECIFICATION BufferSpec
CONSTANTS
    Idle = idle
    a = a
    b = b
    c = c
    None = none
    Task = {idle, a, c}
    wait_send = ws
    wait_recv = wr
    WaitList = {ws, wr}
    MaxPriorities = 3
    MaxDelay = 1
    TimeSlicing = FALSE
    Prio <- PeersAndHigh
    TickMod = 2
    MaxNesting = 0
    Calls = {"yield"}
    Kinds = {"queue", "stream"}
    ItemSize = 3
    MaxItems = 2
    BufferSize = 2
    Datum = {x, y}
    StreamLengths = {2}
    Senders = {a, c}
    Receivers = {a, c}
    Writer = a
    Reader = c
    BufferCalls = {"send", "receive", "peek", "send_from_isr", "receive_from_isr", "reset", "set_trigger_level", "delete", "create"}
INVARIANTS
    BufferTypeOK
    BufferScheduling
    NoLostWakeup
PROPERTIES
    BufferImplements
SYMMETRY Bytes
VIEW WithoutAnswer
