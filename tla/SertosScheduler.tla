--------------------------- MODULE SertosScheduler ---------------------------
(***************************************************************************)
(* The SertOS scheduler on one CPU of the Cortex-M kind.                   *)
(*                                                                         *)
(* A step is what happens between two points where interrupts are enabled: *)
(* usually one critical section.  The application's calls are choices of   *)
(* the environment, made by the task that owns the CPU.  A requested       *)
(* context switch is the pending bit of the PendSV exception, which is     *)
(* taken before the task executes again but after any other interrupt, so  *)
(* the tick and peripheral interrupts fall between the critical section in *)
(* which a task blocks and the switch away from it.                        *)
(***************************************************************************)
EXTENDS SertosKernel

CONSTANTS
    TimeSlicing,    \* s_time_slicing_enabled
    Prio,           \* the priority each task is created with
    TickMod,        \* the tick counter wraps at this value (2^32 in the code)
    MaxNesting,     \* bound on the nesting of scheduler locks
    Calls           \* the calls the application makes: a subset of ApiCalls

\* "block_locked": the application also blocks while it holds the scheduler lock.
ApiCalls == {"create", "yield", "delay", "lock", "wait", "signal",
             "isr_signal", "stop", "block_locked"}

ASSUME SchedulerAssumption ==
    /\ TimeSlicing \in BOOLEAN
    /\ Prio \in [Task -> Priority]
    /\ Prio[Idle] = 0
    /\ TickMod \in Nat /\ TickMod > MaxDelay
    /\ MaxNesting \in Nat
    /\ Calls \subseteq ApiCalls

VARIABLES
    k,                    \* the lists and control blocks
    current,              \* sertos_current_tcb
    is_running,           \* s_is_running
    lock_nesting,         \* s_lock_nesting
    reschedule_pending,   \* s_reschedule_pending
    ticks,                \* s_system_ticks
    pendsv,               \* the PendSV exception is pending
    isr,                  \* where the tick handler is
    scan,                 \* the delayed tasks it has still to look at
    need_reschedule,      \* its local of that name
    pc,                   \* where each task is in the kernel
    timeout,              \* the argument of the task's wait, 0 outside one
    deadline,             \* history: the tick at which a countdown must end
    woken                 \* history: what ended the task's wait

tick_vars == <<isr, scan, need_reschedule, ticks>>
lock_vars == <<lock_nesting, reschedule_pending>>
wait_vars == <<timeout, deadline, woken>>
vars == <<k, current, is_running, lock_vars, pendsv, tick_vars, pc, wait_vars>>

\* Where a task is: in the application, before its call of switch_context or
\* of reschedule, or in wait_list_block before and after it gave up the CPU.
TaskPc == {"user", "switch", "reschedule", "wait_switch", "wait_return"}

\* Every variable stays in its type: the nesting of the scheduler lock never
\* goes below zero, and the tick counter wraps.
TypeOK ==
    /\ k \in Kernel
    /\ current \in Task \cup {None}
    /\ is_running \in BOOLEAN
    /\ lock_nesting \in 0 .. MaxNesting
    /\ reschedule_pending \in BOOLEAN
    /\ ticks \in 0 .. TickMod - 1
    /\ pendsv \in BOOLEAN
    /\ isr \in {"none", "scan", "switch"}
    /\ scan \in Seq(Task)
    /\ need_reschedule \in BOOLEAN
    /\ pc \in [Task -> TaskPc]
    /\ timeout \in [Task -> 0 .. Forever]
    /\ deadline \in [Task -> 0 .. TickMod - 1]
    /\ woken \in [Task -> {"no", "event", "timeout", "deleted"}]

\* sertos_scheduler_init.
Init ==
    /\ k = InitKernel
    /\ current = None
    /\ is_running = FALSE
    /\ lock_nesting = 0
    /\ reschedule_pending = FALSE
    /\ ticks = 0
    /\ pendsv = FALSE
    /\ isr = "none"
    /\ scan = <<>>
    /\ need_reschedule = FALSE
    /\ pc = [t \in Task |-> "user"]
    /\ timeout = [t \in Task |-> 0]
    /\ deadline = [t \in Task |-> 0]
    /\ woken = [t \in Task |-> "no"]

-----------------------------------------------------------------------------
(* Who executes.                                                           *)

\* Task t owns the CPU and no exception is active or pending.
Executing(t) ==
    /\ current = t
    /\ is_running
    /\ ~pendsv
    /\ isr = "none"
    /\ k.fault = {}

\* Task t is in the application, free to call the kernel.
AtUser(t) ==
    /\ t # Idle
    /\ Executing(t)
    /\ pc[t] = "user"

InUser(t, call) == call \in Calls /\ AtUser(t)

Goto(t, label) == pc' = [pc EXCEPT ![t] = label]

\* Interrupts are enabled and the tick handler is not in its critical section.
Interruptible == k.fault = {} /\ is_running /\ isr \in {"none", "switch"}

\* A task that blocks does so with the scheduler unlocked, unless the
\* application is of the kind that does not care.
MayBlock == lock_nesting = 0 \/ "block_locked" \in Calls

-----------------------------------------------------------------------------
(* Start, stop, task creation.                                             *)

\* main creates a task before the scheduler runs.
CreateFromMain(u) ==
    /\ ~is_running
    /\ k.state[u] = "ABSENT"
    /\ k' = create_static(k, u, Prio[u])
    /\ UNCHANGED <<current, is_running, lock_vars, pendsv, tick_vars, pc, wait_vars>>

\* A running task creates another one; reschedule follows.
Create(t, u) ==
    /\ InUser(t, "create")
    /\ k.state[u] = "ABSENT"
    /\ k' = create_static(k, u, Prio[u])
    /\ Goto(t, "reschedule")
    /\ UNCHANGED <<current, is_running, lock_vars, pendsv, tick_vars, wait_vars>>

\* sertos_scheduler_start: the first switch, with no task to switch from.  When
\* sertos_port_tick_init fails, s_is_running is reset and nothing has changed.
Start ==
    LET next == select_next_task(k)
    IN  /\ ~is_running
        /\ next # None
        /\ is_running' = TRUE
        /\ current' = next
        /\ k' = perform_switch(k, current, next)
        /\ UNCHANGED <<lock_vars, pendsv, tick_vars, pc, wait_vars>>

\* sertos_scheduler_stop: the port resets the CPU, and main initialises again.
Stop(t) ==
    /\ InUser(t, "stop")
    /\ k' = InitKernel
    /\ current' = None
    /\ is_running' = FALSE
    /\ lock_nesting' = 0
    /\ reschedule_pending' = FALSE
    /\ ticks' = 0
    /\ scan' = <<>>
    /\ need_reschedule' = FALSE
    /\ pc' = [u \in Task |-> "user"]
    /\ timeout' = [u \in Task |-> 0]
    /\ deadline' = [u \in Task |-> 0]
    /\ woken' = [u \in Task |-> "no"]
    /\ UNCHANGED <<pendsv, isr>>

-----------------------------------------------------------------------------
(* Context switches.                                                       *)

\* A mutant: the scheduler lock is not looked at.
switch_context_unlocked(kern) ==
    /\ UNCHANGED reschedule_pending
    /\ pendsv' = (pendsv \/ select_next_task(kern) \notin {None, current})

\* sertos_scheduler_switch_context, from a task or from an interrupt.
switch_context(kern) ==
    IF lock_nesting > 0
    THEN reschedule_pending' = TRUE /\ UNCHANGED pendsv
    ELSE /\ UNCHANGED reschedule_pending
         /\ pendsv' = (pendsv \/ select_next_task(kern) \notin {None, current})

\* The task's call of switch_context at the end of a service.
SwitchContext(t) ==
    /\ Executing(t)
    /\ pc[t] \in {"switch", "wait_switch"}
    /\ switch_context(k)
    /\ Goto(t, IF pc[t] = "switch" THEN "user" ELSE "wait_return")
    /\ UNCHANGED <<k, current, is_running, lock_nesting, tick_vars, wait_vars>>

\* A mutant: the caller is preempted by tasks of lower priority only.
RescheduleWrong(t) ==
    LET next == select_next_task(k)
    IN  /\ Executing(t)
        /\ pc[t] = "reschedule"
        /\ Goto(t, IF next # None /\ k.priority[next] < k.priority[current]
                   THEN "switch" ELSE "user")
        /\ UNCHANGED <<k, current, is_running, lock_vars, pendsv, tick_vars, wait_vars>>

\* sertos_scheduler_reschedule: only a strictly higher priority preempts.
Reschedule(t) ==
    LET next == select_next_task(k)
    IN  /\ Executing(t)
        /\ pc[t] = "reschedule"
        /\ Goto(t, IF next # None /\ k.priority[next] > k.priority[current]
                   THEN "switch" ELSE "user")
        /\ UNCHANGED <<k, current, is_running, lock_vars, pendsv, tick_vars, wait_vars>>

\* PendSV_Handler: perform_switch with interrupts masked.
PendSV ==
    LET next == select_next_task(k)
    IN  /\ pendsv
        /\ isr = "none"
        /\ k.fault = {}
        /\ pendsv' = FALSE
        /\ IF next # None
           THEN /\ current' = next
                /\ k' = perform_switch(k, current, next)
           ELSE UNCHANGED <<k, current>>
        /\ UNCHANGED <<is_running, lock_vars, tick_vars, pc, wait_vars>>

-----------------------------------------------------------------------------
(* Services of the running task.                                           *)

process_time_slicing ==
    IF TimeSlicing /\ current # None THEN rotate(k, current) ELSE k

\* sertos_scheduler_yield, and sertos_scheduler_delay of zero ticks.
Yield(t) ==
    /\ InUser(t, "yield")
    /\ k' = process_time_slicing
    /\ Goto(t, "switch")
    /\ UNCHANGED <<current, is_running, lock_vars, pendsv, tick_vars, wait_vars>>

\* sertos_scheduler_delay.
Delay(t, n) ==
    /\ InUser(t, "delay")
    /\ MayBlock
    /\ k' = block_on_delay(k, t, n)
    /\ deadline' = [deadline EXCEPT ![t] = (ticks + n) % TickMod]
    /\ Goto(t, "switch")
    /\ UNCHANGED <<current, is_running, lock_vars, pendsv, tick_vars, timeout, woken>>

Lock(t) ==
    /\ InUser(t, "lock")
    /\ lock_nesting < MaxNesting
    /\ lock_nesting' = lock_nesting + 1
    /\ UNCHANGED <<k, current, is_running, reschedule_pending, pendsv, tick_vars, pc, wait_vars>>

\* A mutant: a switch that became due while locked is forgotten.
UnlockForgets(t) ==
    /\ InUser(t, "lock")
    /\ lock_nesting > 0
    /\ lock_nesting' = lock_nesting - 1
    /\ reschedule_pending' = (reschedule_pending /\ lock_nesting > 1)
    /\ UNCHANGED <<k, current, is_running, pendsv, tick_vars, pc, wait_vars>>

\* A mutant: the nesting counter is not tested for zero.
UnlockUnderflows(t) ==
    /\ InUser(t, "lock")
    /\ lock_nesting' = lock_nesting - 1
    /\ UNCHANGED <<k, current, is_running, reschedule_pending, pendsv, tick_vars, pc, wait_vars>>

\* sertos_scheduler_unlock; without a lock it does nothing.
Unlock(t) ==
    /\ InUser(t, "lock")
    /\ lock_nesting > 0
    /\ lock_nesting' = lock_nesting - 1
    /\ IF lock_nesting = 1 /\ reschedule_pending
       THEN /\ reschedule_pending' = FALSE
            /\ Goto(t, "switch")
       ELSE UNCHANGED <<reschedule_pending, pc>>
    /\ UNCHANGED <<k, current, is_running, pendsv, tick_vars, wait_vars>>

-----------------------------------------------------------------------------
(* Waiting for an event.  Every synchronisation object blocks its callers  *)
(* with wait_list_block and wakes them with wait_list_unblock_highest.     *)

\* sertos_scheduler_wait_list_block up to its critical section's end.
WaitListBlock(t, w, n) ==
    /\ k' = block_on_wait_list(k, t, w, n)
    /\ timeout' = [timeout EXCEPT ![t] = n]
    /\ deadline' = [deadline EXCEPT ![t] = IF n = Forever THEN 0 ELSE (ticks + n) % TickMod]
    /\ woken' = [woken EXCEPT ![t] = "no"]
    /\ Goto(t, "wait_switch")

\* A mutant: the test of the countdown is inverted.
wait_list_status_inverted(t) ==
    IF timeout[t] # Forever /\ k.delay_ticks[t] > 0
    THEN "TIMEOUT" ELSE "OK"

\* The status wait_list_block returns: it tells a timeout by the countdown
\* and the wait list of the control block.
wait_list_status(t) ==
    IF timeout[t] # Forever /\ k.delay_ticks[t] = 0 /\ k.wait_list[t] = None
    THEN "TIMEOUT" ELSE "OK"

\* wait_list_block returns.
WaitReturn(t) ==
    /\ Executing(t)
    /\ pc[t] = "wait_return"
    /\ timeout' = [timeout EXCEPT ![t] = 0]
    /\ woken' = [woken EXCEPT ![t] = "no"]
    /\ Goto(t, "user")
    /\ UNCHANGED <<k, current, is_running, lock_vars, pendsv, tick_vars, deadline>>

\* History: the waiter u, if any, was woken by an event.
RecordEvent(u) ==
    IF u = None
    THEN UNCHANGED <<woken, deadline>>
    ELSE /\ woken' = [woken EXCEPT ![u] = "event"]
         /\ deadline' = [deadline EXCEPT ![u] = 0]

\* A task calls a service that waits for an event.
Wait(t, w, n) ==
    /\ InUser(t, "wait")
    /\ MayBlock
    /\ WaitListBlock(t, w, n)
    /\ UNCHANGED <<current, is_running, lock_vars, pendsv, tick_vars>>

\* A task calls a service that signals an event, to an object with waiters.
Signal(t, w) ==
    /\ InUser(t, "signal")
    /\ k.waiters[w] # <<>>
    /\ k' = unblock_highest(k, w)
    /\ RecordEvent(highest_waiter(k, w))
    /\ Goto(t, "reschedule")
    /\ UNCHANGED <<current, is_running, lock_vars, pendsv, tick_vars, timeout>>

(***************************************************************************)
(* An interrupt handler signals an event.  The _from_isr services return   *)
(* the flag higher_prio_woken and leave the switch to the handler, which   *)
(* calls switch_context when the flag is set.                              *)
(***************************************************************************)
IsrSignal(w) ==
    LET u == highest_waiter(k, w)
        r == unblock_highest(k, w)
    IN  /\ "isr_signal" \in Calls
        /\ Interruptible
        /\ u # None
        /\ k' = r
        /\ RecordEvent(u)
        /\ IF k.priority[u] > k.priority[current]
           THEN switch_context(r)
           ELSE UNCHANGED <<reschedule_pending, pendsv>>
        /\ UNCHANGED <<current, is_running, lock_nesting, tick_vars, pc, timeout>>

-----------------------------------------------------------------------------
(* The tick interrupt.  Its critical section spans TickEnter, one TickScan *)
(* per delayed task and TickSlice: no other action is enabled in between.  *)

\* A mutant: the walk of the delay list starts at its second node.
TickEnterSkipsHead ==
    /\ is_running
    /\ isr = "none"
    /\ k.fault = {}
    /\ ticks' = (ticks + 1) % TickMod
    /\ isr' = "scan"
    /\ scan' = SubSeq(k.delay, 2, Len(k.delay))
    /\ need_reschedule' = FALSE
    /\ UNCHANGED <<k, current, is_running, lock_vars, pendsv, pc, wait_vars>>

\* sertos_scheduler_tick counts the tick and starts process_delayed_tasks.
TickEnter ==
    /\ is_running
    /\ isr = "none"
    /\ k.fault = {}
    /\ ticks' = (ticks + 1) % TickMod
    /\ isr' = "scan"
    /\ scan' = k.delay
    /\ need_reschedule' = FALSE
    /\ UNCHANGED <<k, current, is_running, lock_vars, pendsv, pc, wait_vars>>

\* One round of process_delayed_tasks.
TickScan ==
    /\ isr = "scan"
    /\ scan # <<>>
    /\ k.fault = {}
    /\ LET t == Head(scan)
       IN  /\ k' = delayed_task_tick(k, t)
           /\ IF k.delay_ticks[t] > 1
              THEN UNCHANGED <<need_reschedule, woken, deadline>>
              ELSE /\ need_reschedule' = TRUE
                   /\ woken' = [woken EXCEPT ![t] = "timeout"]
                   /\ deadline' = [deadline EXCEPT ![t] = 0]
    /\ scan' = Tail(scan)
    /\ UNCHANGED <<current, is_running, lock_vars, pendsv, isr, ticks, pc, timeout>>

\* process_time_slicing; the critical section ends.
TickSlice ==
    /\ isr = "scan"
    /\ scan = <<>>
    /\ k.fault = {}
    /\ k' = process_time_slicing
    /\ isr' = "switch"
    /\ UNCHANGED <<current, is_running, lock_vars, pendsv, scan, need_reschedule, ticks, pc, wait_vars>>

\* The handler asks for a switch and returns.
TickSwitch ==
    /\ isr = "switch"
    /\ k.fault = {}
    /\ IF need_reschedule \/ TimeSlicing
       THEN switch_context(k)
       ELSE UNCHANGED <<reschedule_pending, pendsv>>
    /\ isr' = "none"
    /\ need_reschedule' = FALSE
    /\ UNCHANGED <<k, current, is_running, lock_nesting, scan, ticks, pc, wait_vars>>

-----------------------------------------------------------------------------
\* Steps of the hardware, of main and of the tick handler.
SystemStep ==
    \/ \E u \in Task : CreateFromMain(u)
    \/ Start
    \/ PendSV
    \/ TickEnter \/ TickScan \/ TickSlice \/ TickSwitch

\* The rest of a call whose critical section is over.
KernelStep(t) == SwitchContext(t) \/ Reschedule(t)

\* Calls of the scheduler and task services.
CallStep(t) ==
    \/ \E u \in Task : Create(t, u)
    \/ Yield(t)
    \/ \E n \in 1 .. MaxDelay : Delay(t, n)
    \/ Lock(t)
    \/ Unlock(t)

Next ==
    \/ SystemStep
    \/ \E w \in WaitList : IsrSignal(w)
    \/ \E t \in Task :
        \/ KernelStep(t)
        \/ CallStep(t)
        \/ Stop(t)
        \/ WaitReturn(t)
        \/ \E w \in WaitList : \/ Signal(t, w)
                               \/ \E n \in 1 .. Forever : Wait(t, w, n)

Spec == Init /\ [][Next]_vars

-----------------------------------------------------------------------------
(***************************************************************************)
(* Safety.                                                                 *)
(***************************************************************************)

\* No service ever misuses a kernel list: none inserts a node that is
\* already linked, none removes a node through a list it is not on.
NoFault == k.fault = {}

\* The lists, the bitmap and the control blocks agree after every critical
\* section: add_ready, remove_ready, the tick's expiry and the two ways out
\* of a wait all keep them in step.
ListsConsistent == k.fault = {} => KernelConsistent(k)

\* unblock_highest wakes a waiter of highest priority: insertion by priority
\* and the removals by timeout keep every wait list sorted.
WaitersByPriority == k.fault = {} => WaitersSorted(k)

\* The current task is in the application, no switch is on its way.
Quiescent ==
    /\ k.fault = {} /\ is_running /\ ~pendsv /\ isr = "none"
    /\ pc[current] \in {"user", "wait_return"}

\* Whenever application code executes, it is that of the task at the head of
\* the highest non-empty ready queue, or the scheduler is locked and remembers
\* that a switch is due.
HighestPriorityRuns ==
    Quiescent => \/ current = select_next_task(k)
                 \/ lock_nesting > 0 /\ reschedule_pending

\* Only the current task is RUNNING, and a task whose application code
\* executes is never blocked.
RunningIsCurrent ==
    /\ \A t \in Task : k.state[t] = "RUNNING" => t = current
    /\ Quiescent => k.state[current] \in Runnable

\* A delayed task wakes at the tick it asked for: system tick count and
\* remaining countdown add up to the deadline, through wrap-around, while the
\* handler walks the delay list and whatever else wakes in between.
DeadlineKept ==
    k.fault = {} => \A t \in Task :
        k.delay_ticks[t] > 0 =>
            deadline[t] = (ticks + k.delay_ticks[t]
                             - (IF Contains(scan, t) THEN 1 ELSE 0)) % TickMod

\* wait_list_block comes back only after an event or a timeout, and a task
\* that is told OK was woken by an event.
OkMeansEvent ==
    \A t \in Task :
        Executing(t) /\ pc[t] = "wait_return" =>
            /\ woken[t] # "no"
            /\ wait_list_status(t) = "OK" => woken[t] = "event"

\* The converse, which the header promises: "SERTOS_STATUS_OK if unblocked by
\* event, or SERTOS_STATUS_ERROR_TIMEOUT".
EventMeansOk ==
    \A t \in Task :
        Executing(t) /\ pc[t] = "wait_return" =>
            (woken[t] = "event" => wait_list_status(t) = "OK")

\* A delay blocks its caller: a task whose countdown has not ended is on no
\* ready queue.
DelayBlocks ==
    \A t \in Task :
        k.delay_ticks[t] > 0 => \A p \in Priority : ~Contains(k.ready[p], t)

\* While the scheduler is locked the CPU stays with the task that locked it,
\* whatever the tick and the interrupts make ready.
LockKeepsCpu == [][lock_nesting > 0 /\ is_running' => current' = current]_vars

(***************************************************************************)
(* The inductive invariant behind the safety properties, and what it asks  *)
(* of the application: no task blocks while the scheduler is locked, and   *)
(* with time slicing no three tasks share a priority.                      *)
(***************************************************************************)
Disciplined ==
    /\ "block_locked" \notin Calls
    /\ TimeSlicing => \A x, y, z \in Task :
                        Prio[x] = Prio[y] /\ Prio[y] = Prio[z] => x = y \/ y = z \/ x = z

\* Before sertos_scheduler_start there is no current task and nothing pends;
\* afterwards the current task is one that was created.
StartedInv ==
    IF is_running
    THEN current \in Task /\ k.state[current] # "ABSENT"
    ELSE /\ current = None /\ ~pendsv /\ isr = "none"
         /\ lock_nesting = 0 /\ ~reschedule_pending
         /\ \A t \in Task : pc[t] = "user"

\* With time slicing a task keeps the priority it was created with, which the
\* rotation of the ready queues rests on; the idle task is runnable.
TasksInv ==
    /\ TimeSlicing => \A t \in Task : k.state[t] # "ABSENT" => k.priority[t] = Prio[t]
    /\ \A t \in Task : k.state[t] = "RUNNING" => t = current
    /\ k.state[Idle] \in Runnable

\* The tick handler looks only at tasks that are still delayed.
ScanInv ==
    /\ isr # "scan" => scan = <<>>
    /\ IsInjective(scan)
    /\ \A t \in Task : Contains(scan, t) => Contains(k.delay, t)

\* A switch that is due has been asked for, or its asker is on its way.
SwitchInv ==
    is_running =>
        \/ current = select_next_task(k)
        \/ pendsv
        \/ pc[current] \in {"switch", "wait_switch"}
        \/ pc[current] = "reschedule" /\ k.priority[select_next_task(k)] > k.priority[current]
        \/ isr \in {"scan", "switch"} /\ need_reschedule
        \/ isr = "switch" /\ TimeSlicing
        \/ lock_nesting > 0 /\ reschedule_pending

\* A current task that is not runnable is about to lose the CPU.
BlockedInv ==
    /\ pendsv => lock_nesting = 0
    /\ is_running /\ k.state[current] \notin Runnable =>
        \/ pendsv
        \/ lock_nesting = 0 /\ pc[current] \in {"switch", "wait_switch"}

SchedInv ==
    /\ TypeOK
    /\ k.fault = {}
    /\ KernelConsistent(k)
    /\ StartedInv
    /\ TasksInv
    /\ ScanInv
    /\ SwitchInv
    /\ BlockedInv

(***************************************************************************)
(* Liveness.  SysTick is periodic, PendSV and its handlers run to          *)
(* completion, and the CPU executes the current task between interrupts:   *)
(* the kernel code of a task is interrupted again and again but not        *)
(* forever, hence strong fairness for it.                                  *)
(***************************************************************************)
CpuFairness ==
    /\ WF_vars(Start)
    /\ WF_vars(TickEnter) /\ WF_vars(TickScan)
    /\ WF_vars(TickSlice) /\ WF_vars(TickSwitch)
    /\ SF_vars(PendSV)
    /\ SF_vars(\E t \in Task : SwitchContext(t) \/ Reschedule(t) \/ WaitReturn(t))

\* The application unlocks the scheduler after it locked it.
UnlockFairness == SF_vars(\E t \in Task : Unlock(t))

FairSpec == Spec /\ CpuFairness /\ UnlockFairness

\* Every countdown ends: the delayed task becomes runnable.
DelayEnds ==
    \A t \in Task : k.delay_ticks[t] > 0 ~> k.state[t] \in Runnable \/ ~is_running

\* A ready task of the highest priority gets the CPU, however many others
\* of that priority there are.
PeersRun ==
    \A t \in Task :
        (\A u \in Task : Prio[u] <= Prio[t]) =>
            (k.state[t] = "READY" /\ is_running ~> current = t \/ ~is_running)
=============================================================================
