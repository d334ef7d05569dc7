----------------------------- MODULE SertosTimer -----------------------------
(***************************************************************************)
(* Software timers.  Tasks create, start, stop and delete timers: a call   *)
(* tests the magic word with interrupts enabled and then enters its        *)
(* critical section, and acts there on a timer that may have been deleted  *)
(* in between (statically allocated: the storage is still there).          *)
(* sertos_timer_tick walks the list of active timers inside the critical   *)
(* section of the scheduler's tick and runs the callbacks of those that    *)
(* expire.  A callback may call the same services, while the walk holds    *)
(* pointers into the list.                                                 *)
(***************************************************************************)
EXTENDS Integers, Sequences, SequencesExt

CONSTANTS
    Timer,         \* the timers
    Periodic,      \* those created with is_periodic
    MaxPeriod,     \* the longest period, in ticks
    TickMod,       \* the tick counter wraps at this value
    NoTimer,       \* NULL
    Caller,        \* the tasks that call the services
    CallbackKinds  \* the kinds of callbacks: a subset of {"end", "start"}

\* The services that callbacks of each kind call, for any timer: all stop and
\* delete timers, some also start them.
CallbackCalls(kind) ==
    {"stop", "delete"} \cup (IF kind = "start" THEN {"start"} ELSE {})

ASSUME TimerAssumption ==
    /\ Periodic \subseteq Timer
    /\ NoTimer \notin Timer
    /\ MaxPeriod \in Nat \ {0}
    /\ TickMod \in Nat /\ TickMod > MaxPeriod
    /\ CallbackKinds \subseteq {"end", "start"}

VARIABLES
    callbacks,      \* the kind of callbacks the application has
    active_timers,  \* s_active_timers
    alive,          \* timer->magic = SERTOS_TIMER_MAGIC_WORD
    is_active,
    period_ticks,
    remaining_ticks,
    call,           \* the call a task is in: past its magic test
    stage,          \* "idle", or where the walk of the tick is
    curr, next,     \* its locals
    now,            \* the tick count
    due,            \* history: the tick at which an active timer must expire
    todo,           \* history: the timers this walk has still to count down
    raced,          \* history: deleted timers that a call past its test started
    severed,        \* history: a callback stopped or deleted the timer that the
                    \* walk has saved as its next one
    fault           \* a list or a deleted timer was misused

list_vars == <<active_timers, is_active, remaining_ticks>>
walk_vars == <<stage, curr, next, now>>
tvars == <<callbacks, list_vars, alive, period_ticks, call, walk_vars, due, todo, raced,
           severed, fault>>

NoCall == [op |-> "none", timer |-> NoTimer]

\* The services a task enters, and where sertos_timer_change_period is when it
\* has written the period.
EntryOp == {"start", "stop", "delete", "change"}
CallOp == EntryOp \cup {"reset"}

\* Every variable stays in its type: countdowns and periods never leave the
\* range that sertos_timer_create and sertos_timer_change_period accept.
TimerTypeOK ==
    /\ callbacks \in CallbackKinds
    /\ active_timers \in Seq(Timer)
    /\ alive \in [Timer -> BOOLEAN]
    /\ is_active \in [Timer -> BOOLEAN]
    /\ period_ticks \in [Timer -> 1 .. MaxPeriod]
    /\ remaining_ticks \in [Timer -> 0 .. MaxPeriod]
    /\ call \in [Caller -> {NoCall} \cup [op : CallOp, timer : Timer]]
    /\ stage \in {"idle", "visit", "callback"}
    /\ curr \in Timer \cup {NoTimer}
    /\ next \in Timer \cup {NoTimer}
    /\ now \in 0 .. TickMod - 1
    /\ due \in [Timer -> 0 .. TickMod - 1]
    /\ todo \subseteq Timer
    /\ raced \subseteq Timer
    /\ severed \in BOOLEAN
    /\ fault \in BOOLEAN

TimerInit ==
    /\ callbacks \in CallbackKinds
    /\ active_timers = <<>>
    /\ alive = [x \in Timer |-> FALSE]
    /\ is_active = [x \in Timer |-> FALSE]
    /\ period_ticks = [x \in Timer |-> 1]
    /\ remaining_ticks = [x \in Timer |-> 1]
    /\ call = [c \in Caller |-> NoCall]
    /\ stage = "idle" /\ curr = NoTimer /\ next = NoTimer
    /\ now = 0
    /\ due = [x \in Timer |-> 0]
    /\ todo = {}
    /\ raced = {}
    /\ severed = FALSE
    /\ fault = FALSE

-----------------------------------------------------------------------------
(* The services, from a task or from a callback.                           *)

\* A mutant: the tick under way is not counted.
start_late(x, n) ==
    /\ active_timers' = Append(RemoveFirst(active_timers, x), x)
    /\ remaining_ticks' = [remaining_ticks EXCEPT ![x] = n + 1]
    /\ is_active' = [is_active EXCEPT ![x] = TRUE]
    /\ due' = [due EXCEPT ![x] = (now + n) % TickMod]
    /\ todo' = todo \ {x}

\* The critical section of sertos_timer_start and sertos_timer_reset, for a
\* period of n: the timer goes to the tail.
start(x, n) ==
    /\ active_timers' = Append(RemoveFirst(active_timers, x), x)
    /\ remaining_ticks' = [remaining_ticks EXCEPT ![x] = n]
    /\ is_active' = [is_active EXCEPT ![x] = TRUE]
    /\ due' = [due EXCEPT ![x] = (now + n) % TickMod]
    /\ todo' = todo \ {x}

\* The critical section of sertos_timer_stop, and the part of that of
\* sertos_timer_delete it shares; nothing happens to a timer that is stopped.
stop(x) ==
    /\ active_timers' = RemoveFirst(active_timers, x)
    /\ is_active' = [is_active EXCEPT ![x] = FALSE]
    /\ todo' = todo \ {x}
    /\ UNCHANGED <<remaining_ticks, due>>

\* A mutant: a timer that is counting is left on the list.
delete_linked(x) ==
    /\ alive' = [alive EXCEPT ![x] = FALSE]
    /\ is_active' = [is_active EXCEPT ![x] = FALSE]
    /\ UNCHANGED <<active_timers, remaining_ticks, due, todo>>

delete(x) == stop(x) /\ alive' = [alive EXCEPT ![x] = FALSE]

-----------------------------------------------------------------------------
(* Tasks.  The tick handler is not running.                                *)

AtTask == stage = "idle" /\ ~fault

\* A mutant: a period of zero ticks is accepted.
CreateZero(x, n) ==
    /\ AtTask
    /\ ~alive[x]
    /\ alive' = [alive EXCEPT ![x] = TRUE]
    /\ period_ticks' = [period_ticks EXCEPT ![x] = n - 1]
    /\ remaining_ticks' = [remaining_ticks EXCEPT ![x] = n - 1]
    /\ is_active' = [is_active EXCEPT ![x] = FALSE]
    /\ UNCHANGED <<active_timers, call, walk_vars, due, todo, raced, severed, fault>>

\* sertos_timer_create_static.  It clears the links of the timer: one that is
\* still on the list, because a call started it after its deletion, breaks it.
Create(x, n) ==
    /\ AtTask
    /\ ~alive[x]
    /\ alive' = [alive EXCEPT ![x] = TRUE]
    /\ period_ticks' = [period_ticks EXCEPT ![x] = n]
    /\ remaining_ticks' = [remaining_ticks EXCEPT ![x] = n]
    /\ is_active' = [is_active EXCEPT ![x] = FALSE]
    /\ IF Contains(active_timers, x)
       THEN fault' = TRUE /\ UNCHANGED raced
       ELSE raced' = raced \ {x} /\ UNCHANGED fault
    /\ UNCHANGED <<active_timers, call, walk_vars, due, todo, severed>>

\* Task c calls a service of timer x, which finds the magic word.
Enter(c, x, op) ==
    /\ AtTask
    /\ call[c] = NoCall
    /\ alive[x]
    /\ call' = [call EXCEPT ![c] = [op |-> op, timer |-> x]]
    /\ UNCHANGED <<list_vars, alive, period_ticks, walk_vars, due, todo, raced, severed, fault>>

\* Task c comes to the critical section of its call, whatever became of the
\* timer since the test.
AtCall(c, x, op) ==
    /\ AtTask
    /\ call[c] = [op |-> op, timer |-> x]
    /\ call' = [call EXCEPT ![c] = NoCall]

StartTimer(c, x) ==
    /\ AtCall(c, x, "start")
    /\ start(x, period_ticks[x])
    /\ raced' = IF alive[x] THEN raced ELSE raced \cup {x}
    /\ UNCHANGED <<alive, period_ticks, walk_vars, severed, fault>>

StopTimer(c, x) ==
    /\ AtCall(c, x, "stop")
    /\ stop(x)
    /\ UNCHANGED <<alive, period_ticks, walk_vars, raced, severed, fault>>

DeleteTimer(c, x) ==
    /\ AtCall(c, x, "delete")
    /\ delete(x)
    /\ UNCHANGED <<period_ticks, walk_vars, raced, severed, fault>>

\* sertos_timer_change_period writes the period outside a critical section and
\* then calls sertos_timer_reset: a tick or another task may come in between.
ChangePeriod(c, x, n) ==
    /\ AtTask
    /\ call[c] = [op |-> "change", timer |-> x]
    /\ period_ticks' = [period_ticks EXCEPT ![x] = n]
    /\ call' = [call EXCEPT ![c].op = "reset"]
    /\ UNCHANGED <<list_vars, alive, walk_vars, due, todo, raced, severed, fault>>

\* That call tests the magic word once more.
ChangeRestart(c, x) ==
    /\ AtTask
    /\ call[c] = [op |-> "reset", timer |-> x]
    /\ call' = [call EXCEPT ![c] = IF alive[x] THEN [op |-> "start", timer |-> x] ELSE NoCall]
    /\ UNCHANGED <<list_vars, alive, period_ticks, walk_vars, due, todo, raced, severed, fault>>

-----------------------------------------------------------------------------
(* sertos_timer_tick.                                                      *)

\* A mutant: the root of the circular list is not recognised.
SuccessorCircular(x) ==
    LET i == SelectInSeq(active_timers, LAMBDA y : y = x)
    IN  IF i = 0 THEN NoTimer ELSE active_timers[(i % Len(active_timers)) + 1]

\* The successor of x, NoTimer at the end of the list or off it.
Successor(x) ==
    LET i == SelectInSeq(active_timers, LAMBDA y : y = x)
    IN  IF i \in 1 .. Len(active_timers) - 1 THEN active_timers[i + 1] ELSE NoTimer

\* The tick interrupt counts the tick and takes the head of the list.
TickBegin ==
    /\ stage = "idle" /\ ~fault
    /\ now' = (now + 1) % TickMod
    /\ IF active_timers = <<>>
       THEN UNCHANGED <<stage, curr, next, todo>>
       ELSE /\ stage' = "visit"
            /\ curr' = Head(active_timers)
            /\ todo' = ToSet(active_timers)
            /\ UNCHANGED next
    /\ UNCHANGED <<list_vars, alive, period_ticks, call, due, raced, severed, fault>>

\* Go on with the saved successor.
Advance(succ) ==
    /\ curr' = succ
    /\ next' = NoTimer
    /\ stage' = IF succ = NoTimer THEN "idle" ELSE "visit"

\* The countdown goes on: the walk reads the successor and goes there.
VisitCounts ==
    /\ stage = "visit" /\ ~fault
    /\ remaining_ticks[curr] > 1
    /\ remaining_ticks' = [remaining_ticks EXCEPT ![curr] = @ - 1]
    /\ todo' = todo \ {curr}
    /\ Advance(Successor(curr))
    /\ UNCHANGED <<active_timers, is_active, alive, period_ticks, call, now, due, raced,
                   severed, fault>>

\* The timer expires: a periodic one is reloaded, a one-shot leaves the list,
\* and its callback runs.
VisitExpires ==
    /\ stage = "visit" /\ ~fault
    /\ remaining_ticks[curr] <= 1
    /\ stage' = "callback"
    /\ next' = Successor(curr)
    /\ todo' = todo \ {curr}
    /\ IF curr \in Periodic
       THEN /\ remaining_ticks' = [remaining_ticks EXCEPT ![curr] = period_ticks[curr]]
            /\ due' = [due EXCEPT ![curr] = (now + period_ticks[curr]) % TickMod]
            /\ UNCHANGED <<active_timers, is_active, fault>>
       ELSE /\ remaining_ticks' = [remaining_ticks EXCEPT ![curr] = 0]
            /\ active_timers' = RemoveFirst(active_timers, curr)
            /\ is_active' = [is_active EXCEPT ![curr] = FALSE]
            /\ fault' = ~Contains(active_timers, curr)
            /\ UNCHANGED due
    /\ UNCHANGED <<alive, period_ticks, call, curr, now, raced, severed>>

\* The callback of curr calls a service for timer x, which finds the magic
\* word; no task comes in before its critical section.
InCallback(x, service) ==
    /\ stage = "callback" /\ ~fault
    /\ service \in CallbackCalls(callbacks)
    /\ alive[x]

CallbackStop(x) ==
    /\ InCallback(x, "stop")
    /\ stop(x)
    /\ severed' = (severed \/ x = next)
    /\ UNCHANGED <<alive, period_ticks, call, walk_vars, raced, fault>>

CallbackDelete(x) ==
    /\ InCallback(x, "delete")
    /\ delete(x)
    /\ severed' = (severed \/ x = next)
    /\ UNCHANGED <<period_ticks, call, walk_vars, raced, fault>>

\* start and reset, and change_period to n.
CallbackStart(x, n) ==
    /\ InCallback(x, "start")
    /\ period_ticks' = [period_ticks EXCEPT ![x] = n]
    /\ start(x, n)
    /\ UNCHANGED <<alive, call, walk_vars, raced, severed, fault>>

\* The callback returns and the walk goes on, to a timer that the callback
\* may have taken off the list; one it deleted must not be touched again.
CallbackReturn ==
    /\ stage = "callback" /\ ~fault
    /\ Advance(next)
    /\ fault' = (next # NoTimer /\ ~alive[next] /\ next \notin raced)
    /\ UNCHANGED <<list_vars, alive, period_ticks, call, now, due, todo, raced, severed>>

-----------------------------------------------------------------------------
TickStep == TickBegin \/ VisitCounts \/ VisitExpires \/ CallbackReturn

TimerNext ==
    /\ UNCHANGED callbacks
    /\ \/ TickStep
       \/ \E x \in Timer :
           \/ \E n \in 1 .. MaxPeriod : Create(x, n) \/ CallbackStart(x, n)
           \/ CallbackStop(x) \/ CallbackDelete(x)
           \/ \E c \in Caller :
               \/ \E op \in EntryOp : Enter(c, x, op)
               \/ StartTimer(c, x) \/ StopTimer(c, x) \/ DeleteTimer(c, x)
               \/ \E n \in 1 .. MaxPeriod : ChangePeriod(c, x, n)
               \/ ChangeRestart(c, x)

TimerSpec == TimerInit /\ [][TimerNext]_tvars

-----------------------------------------------------------------------------
(***************************************************************************)
(* Correctness.                                                            *)
(***************************************************************************)

\* The list holds the active timers, each once, and a timer on it exists,
\* unless a call that tested the magic word before its deletion started it
\* afterwards; and no list is misused unless that happened or a callback took
\* the walk's next timer off the list under it.
TimerListed ==
    /\ fault => severed \/ raced # {}
    /\ ~fault =>
        /\ IsInjective(active_timers)
        /\ \A x \in Timer : Contains(active_timers, x) <=> is_active[x]
        /\ \A x \in Timer : is_active[x] => alive[x] \/ x \in raced

\* A timer expires period ticks after it was started, reset or last expired:
\* every walk counts every active timer down once, and the tick count and the
\* countdown add up to the tick at which it is due.  A callback that starts a
\* timer, or ends the one the walk comes to next, can make the walk miss one
\* or count one twice.
TimerDeadline ==
    callbacks = "end" /\ ~severed /\ ~fault =>
        /\ stage = "idle" => todo = {}
        /\ \A x \in Timer :
            is_active[x] =>
                due[x] = (now + remaining_ticks[x] - (IF x \in todo THEN 1 ELSE 0)) % TickMod

\* The walk, with interrupts masked, visits active timers only, so that no
\* stopped timer expires, whatever callbacks do to the list, but for ending
\* the timer the walk comes to next; and as long as they start none, it visits
\* no timer twice, so that it comes to its end.
WalkVisits ==
    stage = "visit" /\ ~severed /\ ~fault =>
        is_active[curr] /\ (callbacks = "end" => curr \in todo)
=============================================================================
