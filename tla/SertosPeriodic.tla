--------------------------- MODULE SertosPeriodic ---------------------------
(***************************************************************************)
(* sertos_scheduler_delay_until: periodic tasks on the scheduler.  The     *)
(* call reads the tick counter and moves *last_wake_time on outside any    *)
(* critical section, and only then delays or yields: ticks, switches and   *)
(* the other tasks' calls fall in between.                                 *)
(***************************************************************************)
EXTENDS SertosScheduler

CONSTANTS Periodic,  \* the tasks that call delay_until
          Period,    \* their period, in ticks
          MaxLag     \* bound: how late a task may be when it calls

ASSUME PeriodicAssumption ==
    /\ Periodic \subseteq Task
    /\ Period \in 1 .. MaxDelay
    /\ MaxLag \in Period .. TickMod - 1
    /\ None \notin 0 .. Period

VARIABLES
    last_wake,   \* each periodic task's *last_wake_time
    until,       \* the ticks its delay_until will delay for, None outside one
    lag          \* history: how many ticks ago *last_wake_time was

periodic_vars == <<last_wake, until, lag>>
all_vars == <<vars, periodic_vars>>

PeriodicInit ==
    /\ Init
    /\ last_wake = [t \in Periodic |-> 0]
    /\ until = [t \in Periodic |-> None]
    /\ lag = [t \in Periodic |-> 0]

InUntil(t) == t \in Periodic /\ until[t] # None

\* A mutant: *last_wake_time is moved on before the time elapsed is taken.
elapsed_late(t) == (ticks - last_wake[t] - Period) % TickMod

\* The time since *last_wake_time, in SertosTick arithmetic.
elapsed(t) == (ticks - last_wake[t]) % TickMod

\* The call up to its comparison of elapsed and period.
UntilReads(t) ==
    /\ AtUser(t)
    /\ ~InUntil(t) /\ lag[t] < MaxLag
    /\ lock_nesting = 0
    /\ until' = [until EXCEPT ![t] = IF elapsed(t) < Period THEN Period - elapsed(t) ELSE 0]
    /\ last_wake' = [last_wake EXCEPT ![t] = (@ + Period) % TickMod]
    /\ lag' = [lag EXCEPT ![t] = @ - Period]
    /\ UNCHANGED vars

\* It goes on to sertos_scheduler_delay, or to sertos_scheduler_yield.
UntilDelays(t) ==
    /\ InUntil(t) /\ until[t] > 0
    /\ Delay(t, until[t])
    /\ until' = [until EXCEPT ![t] = None]
    /\ UNCHANGED <<last_wake, lag>>

UntilYields(t) ==
    /\ InUntil(t) /\ until[t] = 0
    /\ Yield(t)
    /\ until' = [until EXCEPT ![t] = None]
    /\ UNCHANGED <<last_wake, lag>>

\* Every other step; a tick makes each task's wake-up time one tick older.
\* MaxLag stands for any lag beyond it.
OtherStep ==
    /\ SystemStep \/ \E t \in Task : KernelStep(t) \/ (CallStep(t) /\ ~InUntil(t))
    /\ lag' = [t \in Periodic |-> IF ticks' # ticks /\ lag[t] < MaxLag THEN lag[t] + 1 ELSE lag[t]]
    /\ UNCHANGED <<last_wake, until>>

PeriodicNext ==
    \/ OtherStep
    \/ \E t \in Periodic : UntilReads(t) \/ UntilDelays(t) \/ UntilYields(t)

PeriodicSpec == PeriodicInit /\ [][PeriodicNext]_all_vars

\* The CPU goes on with a call it is in the middle of.
PeriodicFairSpec ==
    /\ PeriodicSpec
    /\ CpuFairness /\ UnlockFairness
    /\ SF_all_vars(\E t \in Periodic : UntilDelays(t) \/ UntilYields(t))

\* A periodic task is never released before its time: when it can run and is
\* not inside delay_until, *last_wake_time is not in the future, whatever
\* overran, wrapped or came between the reading of the ticks and the delay.
NeverEarly ==
    \A t \in Periodic : ~InUntil(t) /\ k.state[t] \in Runnable => lag[t] >= 0

\* A delay_until does not keep its caller: one that is in the middle of its
\* call delays, is woken by the tick and, among its peers, gets the CPU again.
UntilReturns ==
    \A t \in Periodic :
        InUntil(t) ~> ~is_running \/ (~InUntil(t) /\ current = t /\ k.state[t] \in Runnable)
=============================================================================
