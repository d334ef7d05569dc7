---------------------------- MODULE SertosStats ----------------------------
(***************************************************************************)
(* Run-time statistics: the scheduler's switches charge the time between   *)
(* two readings of a counter that wraps to the task switched out, and      *)
(* tasks reset and query the accounts while switches go on.  Which task is *)
(* switched to is left open: no account has a say in it.                   *)
(***************************************************************************)
EXTENDS Integers, FiniteSetsExt

CONSTANTS Task, Idle, None,
          Callers,     \* the tasks that use the statistics
          CounterMod,  \* 2^32: where the run-time counter wraps
          MaxClock,    \* bound: how long time runs
          MaxSwitches  \* bound: how many switches are counted

ASSUME StatsAssumption ==
    /\ Idle \in Task /\ None \notin Task /\ Callers \subseteq Task /\ IsFiniteSet(Task)
    /\ CounterMod \in Nat \ {0} /\ MaxClock \in Nat /\ MaxSwitches \in Nat

VARIABLES
    enabled,             \* s_stats_enabled
    total_switches,      \* s_total_switches
    registry,            \* the tasks of s_task_registry
    current,             \* sertos_current_tcb
    run_time_total, run_time_last_entry, switch_in_count,  \* of each task
    call,                \* the query or reset each task is in the middle of
    clock,               \* real time, which the counter shows modulo CounterMod
    since,               \* history: when the accounts were opened
    last,                \* history: up to when time has been charged
    truth,               \* history: how long each task has been current since then
    base,                \* history: what deleted tasks had on their accounts then
    excused,             \* history: a switch was not seen, or the counter lapped
    raced                \* history: the accounts changed in the middle of the last reset

accounts == <<run_time_total, run_time_last_entry, switch_in_count>>
history == <<since, truth, base>>
vars == <<enabled, total_switches, registry, current, accounts, call, clock, last,
          history, excused, raced>>

NoCall == [op |-> "none"]

SumOver(f, S) == MapThenSumSet(LAMBDA t : f[t], S)

\* The calls after a change of the accounts: no sample and no sum is up to date.
Unsettled == [t \in Task |-> IF call[t].op \in {"sampled", "summed"}
                             THEN [call[t] EXCEPT !.still = FALSE]
                             ELSE call[t]]

\* A mutant: the counter is as wide as the accounts.
runtime_counter_wide == clock

\* sertos_port_runtime_counter, of 32 bits.
runtime_counter == clock % CounterMod

\* After sertos_scheduler_init_with_config: only the idle task is registered.
StatsInit ==
    /\ enabled \in BOOLEAN
    /\ total_switches = 0
    /\ registry = {Idle}
    /\ current = None
    /\ run_time_total = [t \in Task |-> 0]
    /\ run_time_last_entry = [t \in Task |-> 0]
    /\ switch_in_count = [t \in Task |-> 0]
    /\ call = [t \in Task |-> NoCall]
    /\ clock = 0 /\ since = 0 /\ last = 0
    /\ truth = [t \in Task |-> 0]
    /\ base = [time |-> 0, switches |-> 0]
    /\ excused = ~enabled
    /\ raced = FALSE

\* Time passes for the current task.
Run ==
    /\ clock < MaxClock
    /\ current # None
    /\ clock' = clock + 1
    /\ truth' = [truth EXCEPT ![current] = @ + 1]
    /\ excused' = (excused \/ clock' - last >= CounterMod)
    /\ UNCHANGED <<enabled, total_switches, registry, current, accounts, call, last, since,
                   base, raced>>

----------------------------------------------------------------------------

\* The time since the last entry of task t, in uint32_t arithmetic.
delta(t) == (runtime_counter - run_time_last_entry[t]) % CounterMod

\* A switch to the task that is current already is not counted.
Switched(prev, next) == IF prev # next THEN 1 ELSE 0

\* A mutant: the time goes to the task switched in.
charged_next(prev, next) == IF prev = None THEN None ELSE next

\* Whose account the time goes to.
charged(prev, next) == prev

\* sertos_stats_on_switch, called by sertos_scheduler_perform_switch.
on_switch(prev, next) ==
    IF ~enabled
    THEN UNCHANGED <<accounts, total_switches, last>>
    ELSE /\ run_time_total' = [t \in Task |-> run_time_total[t] +
                                  IF t = charged(prev, next) THEN delta(prev) ELSE 0]
         /\ run_time_last_entry' = [run_time_last_entry EXCEPT ![next] = runtime_counter]
         /\ switch_in_count' = [switch_in_count EXCEPT ![next] = @ + Switched(prev, next)]
         /\ total_switches' = total_switches + Switched(prev, next)
         /\ last' = clock

\* sertos_scheduler_perform_switch; the first switch opens the accounts.
Switch(next) ==
    /\ next \in registry
    /\ total_switches < MaxSwitches /\ switch_in_count[next] < MaxSwitches
    /\ on_switch(current, next)
    /\ current' = next
    /\ since' = IF current = None THEN clock ELSE since
    /\ call' = Unsettled
    /\ UNCHANGED <<enabled, registry, clock, truth, base, excused, raced>>

----------------------------------------------------------------------------
(* The calls of the current task.                                          *)

Calling(t, op) == t = current /\ t \in registry /\ call[t].op = op

\* sertos_stats_set_enabled
SetEnabled(t, b) ==
    /\ Calling(t, "none")
    /\ b # enabled
    /\ enabled' = b
    /\ excused' = TRUE
    /\ UNCHANGED <<total_switches, registry, current, accounts, call, clock, last, history,
                   raced>>

\* sertos_stats_reset in its three parts: the counter is read, the accounts of
\* the registered tasks are set in a critical section, the switches zeroed.
ResetSamples(t) ==
    /\ Calling(t, "none")
    /\ call' = [call EXCEPT ![t] = [op |-> "sampled", now |-> runtime_counter, at |-> clock,
                                    still |-> TRUE]]
    /\ UNCHANGED <<enabled, total_switches, registry, current, accounts, clock, last, history,
                   excused, raced>>

\* A mutant: the time of the last entry is kept.
reset_entry_kept(t, now) == run_time_last_entry

reset_entry(t, now) == [u \in Task |-> IF u \in registry THEN now ELSE run_time_last_entry[u]]

ZeroRegistered(f) == [u \in Task |-> IF u \in registry THEN 0 ELSE f[u]]

ResetVisits(t) ==
    LET at == call[t].at
    IN  /\ Calling(t, "sampled")
        /\ run_time_total' = ZeroRegistered(run_time_total)
        /\ switch_in_count' = ZeroRegistered(switch_in_count)
        /\ run_time_last_entry' = reset_entry(t, call[t].now)
        /\ call' = [Unsettled EXCEPT ![t] = [op |-> "visited"]]
        /\ since' = at
        /\ last' = at
        /\ truth' = [ZeroRegistered(truth) EXCEPT ![t] = clock - at]
        /\ base' = [time |-> SumOver(run_time_total, Task \ registry),
                    switches |-> SumOver(switch_in_count, Task \ registry)]
        /\ excused' = (~enabled \/ clock - at >= CounterMod)
        /\ raced' = ~call[t].still
        /\ UNCHANGED <<enabled, total_switches, registry, current, clock>>

\* A mutant: the switches are not zeroed.
ResetClearsNothing(t) ==
    /\ Calling(t, "visited")
    /\ call' = [call EXCEPT ![t] = NoCall]
    /\ UNCHANGED <<enabled, total_switches, registry, current, accounts, clock, last, history,
                   excused, raced>>

ResetClears(t) ==
    /\ Calling(t, "visited")
    /\ total_switches' = 0
    /\ call' = [call EXCEPT ![t] = NoCall]
    /\ UNCHANGED <<enabled, registry, current, accounts, clock, last, history, excused, raced>>

\* A mutant: the idle task is left out of the sum.
sum_of_workers == SumOver(run_time_total, registry \ {Idle})

\* sum_visitor over the registry.
sum_of_tasks == SumOver(run_time_total, registry)

\* 100 %, in hundredths of a percent.
Whole == 10000

compute_percent_x100(part, total) == IF total = 0 THEN 0 ELSE (part * Whole) \div total

\* sertos_stats_get_system and sertos_stats_get_task sum in a critical section
\* and read the account the share is of afterwards; get_tasks does both in one.
GetSums(t) ==
    /\ Calling(t, "none")
    /\ enabled
    /\ call' = [call EXCEPT ![t] = [op |-> "summed", sum |-> sum_of_tasks, still |-> TRUE]]
    /\ UNCHANGED <<enabled, total_switches, registry, current, accounts, clock, last, history,
                   excused, raced>>

share(t, u) == compute_percent_x100(run_time_total[u], call[t].sum)

\* sertos_stats_get_cpu_load_x100
cpu_load(t) == Whole - share(t, Idle)

GetReads(t) ==
    /\ Calling(t, "summed")
    /\ call' = [call EXCEPT ![t] = NoCall]
    /\ UNCHANGED <<enabled, total_switches, registry, current, accounts, clock, last, history,
                   excused, raced>>

\* Task t creates task u, with empty accounts.  Bound: a control block is used
\* for one task only.
Create(t, u) ==
    /\ Calling(t, "none")
    /\ u \notin registry /\ call[u] = NoCall
    /\ registry' = registry \cup {u}
    /\ UNCHANGED <<enabled, total_switches, current, accounts, call, clock, last, history,
                   excused, raced>>

\* Task t deletes task u, or itself: it stays current until the next switch.
Delete(t, u) ==
    /\ Calling(t, "none")
    /\ u \in registry \ {Idle}
    /\ registry' = registry \ {u}
    /\ call' = [Unsettled EXCEPT ![u] = IF @.op = "visited" THEN @ ELSE [op |-> "deleted"]]
    /\ UNCHANGED <<enabled, total_switches, current, accounts, clock, last, history, excused,
                   raced>>

StatsNext ==
    \/ Run
    \/ \E t \in Task :
        \/ Switch(t)
        \/ \E u \in Task : Create(t, u) \/ Delete(t, u)
    \/ \E t \in Callers :
        \/ ResetSamples(t) \/ ResetVisits(t) \/ ResetClears(t)
        \/ GetSums(t) \/ GetReads(t)
        \/ \E b \in BOOLEAN : SetEnabled(t, b)

StatsSpec == StatsInit /\ [][StatsNext]_vars

----------------------------------------------------------------------------
(* Properties.                                                             *)

\* Every variable stays in its type; run times are unsigned.
StatsTypeOK ==
    /\ {enabled, excused, raced} \subseteq BOOLEAN
    /\ registry \subseteq Task /\ Idle \in registry
    /\ current \in Task \cup {None}
    /\ total_switches \in Nat /\ clock \in 0 .. MaxClock
    /\ run_time_total \in [Task -> Nat] /\ truth \in [Task -> Nat]
    /\ run_time_last_entry \in [Task -> 0 .. CounterMod - 1]
    /\ switch_in_count \in [Task -> 0 .. MaxSwitches]
    /\ \A t \in Task : call[t].op \in {"none", "sampled", "visited", "summed", "deleted"}

\* No time is lost and none charged twice, across wraps of the counter, tasks
\* that come and go and a reset that races with switches: what the accounts
\* show, and what is due to the current task, is the time since they were
\* opened.  It takes statistics that stay enabled and switches at least once
\* per lap of the counter.
TimeConserved ==
    current # None /\ enabled /\ ~excused
        => SumOver(run_time_total, Task) - base.time + delta(current) = clock - since

\* Time is charged to the task that was current, if no switch came into the
\* middle of the last sertos_stats_reset.
TimeAttributed ==
    current # None /\ enabled /\ ~excused /\ ~raced
        => \A t \in registry \ {current} : run_time_total[t] = truth[t]

\* The global count never has a switch that is on no task's account, except
\* inside a reset; a switch that races with the reset is only missing from it.
SwitchesOnAccounts ==
    (\A t \in Task : call[t].op # "visited")
        => total_switches <= SumOver(switch_in_count, Task) - base.switches

\* Shares and load stay within 0 .. 10000, and shares add up to no more, for a
\* query with no switch between its sum and its reading.
SharesInRange ==
    \A t \in Task : call[t].op = "summed" /\ call[t].still =>
        /\ SumOver([u \in Task |-> share(t, u)], registry) <= Whole
        /\ cpu_load(t) \in 0 .. Whole
=============================================================================
