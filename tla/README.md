# SertOS: specifications, model checking and proofs

SertOS is a small preemptive real-time kernel in C (`src/`, `inc/`) with ports
for Cortex-M, RISC-V and the host (`port/`). This directory holds TLA+ modules
that model its kernel, TLC configurations that check them on small instances,
and TLAPS proofs that hold for every instance.

## Inventory

| part | state | operations | interaction |
|---|---|---|---|
| scheduler core (`sertos_scheduler.c`) | ready queues and bitmap, delay list, task registry, current task, lock nesting, pending switch, tick count | start, stop, switch, reschedule, yield, lock, unlock, delay, delay_until, tick, wait_list_block, wait_list_unblock_highest | called by every service; calls the port to pend a switch; called by PendSV and SysTick |
| tasks (`sertos_task.c`) | control blocks: state, priority, base priority, countdown, wait list | create, delete, suspend, resume, set_priority | edits the scheduler's lists |
| semaphores (`sertos_sem.c`) | token count, wait list | take, give, give_from_isr, delete | wait lists |
| mutexes (`sertos_mutex.c`) | owner, nesting, owner's original priority, wait list | lock, unlock, delete | wait lists; changes priorities of owners |
| queues (`sertos_queue.c`) | ring buffer, two wait lists | send, receive, peek, reset, delete, ISR variants | wait lists |
| stream buffers (`sertos_stream_buffer.c`) | ring buffer, trigger level, two wait lists | send, receive, set_trigger, reset, delete, ISR variants | wait lists |
| timers (`sertos_timer.c`) | list of active timers | start, stop, change_period, delete, tick | run inside the tick's critical section |
| statistics (`sertos_stats.c`) | counters per task | on_switch, reset, get | called by perform_switch |
| ports | exceptions, critical sections, stack frames | yield, critical sections, tick, first task, stop | call tick and perform_switch |
| linked list, bitmap, ring buffer, memory pool, atomics, crc | submodules outside the repository | | modelled from their use |

What is hard about it:

* **Interrupts between two critical sections.** A service blocks its caller in
  one critical section and asks for a switch in another; the switch itself is
  taken later still, in PendSV. Ticks and other interrupts fall in both gaps.
* **Two ways out of a wait.** A waiter with a timeout is on a wait list and on
  the delay list; the event and the tick each take it off both.
* **Intrusive lists.** One `state_node` and one `event_node` per task: a node
  inserted twice, or removed through the wrong list, corrupts the counts.
* **Deferred switches.** With the scheduler locked, a switch is remembered and
  performed by the unlock.
* **Countdowns** across the wrap of the tick counter, while the handler walks
  the list it removes tasks from.
* **Priority changes** (mutexes, `set_priority`) of tasks that are queued.
* **Test, then act.** Every service tests the magic word of its object with
  interrupts enabled and then enters its critical section; take, lock, send and
  receive look at the object in one critical section and block in another;
  suspend, resume and delete test the state of their target with interrupts
  enabled.
* **Callbacks inside a walk.** A timer's callback may edit the list that the
  tick handler is walking.
* **Wake-ups without a reservation.** A queue wakes one task per item, and the
  task looks for the item later: others may have been there.
* **Native threads.** On the host ports tasks are threads, and the tick is one
  more thread: both pass control on, with condition variables (POSIX) or with
  events and suspended threads (Windows); threads are cancelled while they hold
  locks. What they test before they take a lock, or find with none, may be out of
  date when they act on it.
* **Accounts read and reset in several steps**, while switches go on charging
  them, from a counter that wraps.

`PROJECT.json` lists each hazard at its line with the properties that catch it.

## Modules

| module | contents |
|---|---|
| `SertosKernel` | control blocks and lists as one record; every routine that edits them inside a critical section is an operator on that record |
| `SertosScheduler` | the scheduler as a state machine: current task, lock, tick handler, PendSV, and the application's calls |
| `Semaphore` | what a counting semaphore promises, without tasks or lists |
| `SertosSem` | semaphores on top of the scheduler, and their refinement of `Semaphore` |
| `SertosMutex` | recursive mutexes with priority inheritance on top of the scheduler |
| `SertosTask` | suspend, resume, delete and set_priority on top of the scheduler |
| `SertosTimer` | software timers and the walk of the tick handler |
| `SertosPeriodic` | delay_until, on top of the scheduler |
| `Fifo` | what queues and stream buffers promise, without tasks or lists |
| `SertosBuffer` | what queues and stream buffers share: sizes, blocking calls, wake-ups, deletion; their properties |
| `SertosQueue` | message queues |
| `SertosStreamBuffer` | stream buffers |
| `SertosBuffers` | the two together: one ring buffer that is a queue or a stream buffer, on top of the scheduler |
| `SertosHost` | the POSIX and Windows ports: threads, hand-over of control, start and stop |
| `SertosStats` | run-time statistics |
| `MCScheduler`, `MCPeriodic`, `MCSem`, `MCMutex`, `MCTask`, `MCTimer`, `MCBuffer`, `MCHost` | task sets, call sets and symmetries for TLC |
| `SertosDataProofs` | facts about sets, lists and wrapping counters that the proofs share |
| `SertosSafetyProofs` | the operators of `SertosKernel` preserve its type and the consistency of the lists; types and the inductive invariant of `SertosScheduler`, and what follows from it; what its steps do to the waits of tasks |
| `SertosTaskProofs` | what happens to tasks: wait lists, deadlines and the outcome of waits in `SertosScheduler`; `SertosPeriodic`; the life cycle, the suspensions and the priorities of `SertosTask` |
| `SertosSyncProofs` | `SertosSem`: types, scheduling, and the refinement of `Semaphore`; `SertosMutex`: types, mutual exclusion, priority inheritance |
| `SertosBufferProofs` | `SertosBuffers`: the refinement of `Fifo`, types, scheduling, no lost wake-up |
| `SertosTimerProofs` | `SertosTimer`: types, the walk of the tick handler, deadlines |
| `SertosStatsProofs` | `SertosStats`: types, conservation and attribution of time, shares, switches |
| `SertosHostProofs` | `SertosHost`: types, one thread at a time, no lost hand-over |

### SertosKernel

A list is a sequence of tasks, head first; the bitmap is the set of its bits.
The operators bear the names of the C functions. `block_on_delay`,
`block_on_wait_list` and `delayed_task_tick` are the critical sections of
`sertos_scheduler_delay` and `sertos_scheduler_wait_list_block` and the loop
body of `process_delayed_tasks`; `unblock_all` is the loop with which delete wakes
every waiter, its rounds a recursive function. A misuse of a list (inserting a linked node,
removing a node through another list) adds the task to `fault`; what the
library does from there is undefined, so the specifications stop.

### SertosScheduler

One step is what the CPU does between two points where interrupts are enabled,
usually one critical section. `current`, `is_running`, `lock_nesting`,
`reschedule_pending` and `ticks` are the variables of `sertos_scheduler.c`;
`pendsv` is the pending bit of the PendSV exception; `isr`, `scan` and
`need_reschedule` are the position and the locals of the tick handler; `pc`
says where each task is in the kernel, `timeout` keeps the argument of its
wait. `deadline` and `woken` are history variables: no action reads them.

* A task executes only when no exception is active or pending (`Executing`).
  PendSV has the lowest priority: other interrupts, the tick included, may run
  before it.
* `Create`, `Yield`, `Delay`, `Lock`, `Unlock`, `Wait`, `Signal`, `Stop` are the
  application's calls; `Calls` names those an instance makes. `Wait` and
  `Signal` stand for the services of the synchronisation objects, which all use
  `wait_list_block` and `wait_list_unblock_highest`. `SwitchContext`,
  `Reschedule` and `WaitReturn` are the rest of those calls, after the critical
  section.
* `IsrSignal` is an interrupt handler that calls a `_from_isr` service and, when
  told that a task of higher priority woke, `sertos_scheduler_switch_context`.
* The tick handler is four actions, `TickEnter`, `TickScan` (one per delayed
  task), `TickSlice`, `TickSwitch`. Nothing else is enabled inside its critical
  section; before `TickSwitch` other interrupts may come.
* `PendSV` is `PendSV_Handler`: `perform_switch` with interrupts masked.
* `switch_context` reads the lock, selects and pends in one step although its
  lock test is outside its critical section: only the running task changes the
  lock, and an extra PendSV only selects again.
* `Start` is one step: the port enables interrupts when it starts the first
  task, and main is taken to run with interrupts masked until then. When
  `sertos_port_tick_init` fails, start resets `s_is_running` and returns: nothing
  has changed, so the model has no step for it. `Stop` is
  the reset of the CPU on the Cortex-M ports, followed by a new
  initialisation.

Bounds: `MaxDelay` caps delays and timeouts (`Forever` is the next value, as
`SERTOS_WAIT_FOREVER` is the largest tick), `TickMod` is where the tick counter
wraps (2^32 in the code), `MaxNesting` caps nested scheduler locks.

The modules of the services extend `SertosScheduler` and add their calls to its
`SystemStep` (exceptions, creation), `KernelStep` (a task inside the kernel) and
`CallStep` (a call of the application). A task that is between two critical
sections of a service has its `pc` at `"user"`, so that it can be preempted as
any other, and a record of the call it is in.

### Semaphore, SertosSem

Every wait list is that of one semaphore. `EnterSem` is the test of the magic word,
with interrupts enabled; the critical section (`AtSem`) is a later step, and a task
that is past the test goes on with a semaphore that was deleted in between. The
storage is static: with dynamic storage that would be a use after free, which is
not modelled. `TakeToken` is a take that finds a token, `TakeFail` one that finds
none and may not wait; `TakeMiss`, `TakeBlock` and `TakeReturn` are the three parts
of one that waits. `GiveFail` is a give to a full semaphore. `give_token` is the critical section that `Give` and `GiveFromIsr`
share: the token goes to the first waiter, or to the count up to `MaxCount`.
`Delete` wakes all waiters; `SemCreate` initialises a deleted semaphore that no
call refers to. `Semaphore` knows tokens and clients that call a semaphore while it
exists, and then take or give a token, ask, are granted, expire or are cancelled;
the refinement mapping reads the phase of a client from its entry, its pending
take and how its wait ended.

### SertosMutex

`owner`, `lock_count`, `original` and `valid` (the magic word) are the fields of
the mutex. `LockFree` and `LockAgain` are the locks that return at once;
`LockMiss` boosts the owner, `LockBlock` blocks and `LockReturn` writes the owner
a second time when the wait was told OK. `UnlockOuter` restores the priority and
hands the mutex to the first waiter; `DeleteMutex` restores it and wakes all. `depth` and
`lapsed` are history variables: the locks each task was told it has, and the
tasks whose mutex was released or deleted between the test of their lock call
and its wait. Unlike in the other modules the test of the magic word and the
critical section after it are one step (`AtMutex`): a call that goes on with a
mutex deleted in between is left out. Mutexes are not created again,
`MutualExclusion` is about those that exist, and such a caller, too, boosts the
owner it would wait for. `MaxRecursion` bounds recursion. When a list is misused the model
stops, which is why the run `mutex_exclusion` does not check deadlock: a boosted
owner that unlocks is left in the queue of the boosted priority and its next
removal, from that of its own, is a misuse (see below).

### SertosTask

`Check` is the test of the state at the head of suspend, resume and delete, with
interrupts enabled; `Suspend`, `Resume` and `Delete` are their critical
sections, `CallYields` is the yield after those of the calling task.
`SetPriority` has no test. A call may be for any task that was created, the
caller included, in any state, and may be preempted between its test and its
critical section, which then acts on whatever the target has become.

`suspended` and `misdirected` are history variables. A call is misdirected when its
critical section meets the target in a state it does not do justice to
(`Handles`): suspend and delete leave a RUNNING task on its ready queue and a
BLOCKED one on the delay list; resume inserts the node of a task that is on one of
them; set_priority leaves a RUNNING task in the queue of its old priority.
`suspended` has the tasks that were READY when suspend came to them. The wait
lists stay empty in this module. When a list is misused the model stops, which is
why the run `task_calls` does not check deadlock.

### SertosTimer

The module stands alone: a walk of `sertos_timer_tick` is part of the critical
section of the tick, and all that matters of the scheduler is that no task runs
in it. `Enter` is a call of a service by a task, with the magic test; its critical
section (`StartTimer`, `StopTimer`, `DeleteTimer`) is a step of its own, with
`call[c]` in between, and ticks and other tasks may come first. `ChangePeriod` and
`ChangeRestart` are the two parts of change_period, which tests the magic word
again. A start that was preempted by a deletion puts the deleted timer on the
list: `raced`, a history variable, has those timers.

`TickBegin` counts the tick and takes the head of the list; `VisitCounts` and
`VisitExpires` are one turn of the loop, with the successor saved before the
callback; the callback then makes any of the calls in `CallbackCalls`, for any
timer, until `CallbackReturn`. `callbacks` is the kind of callbacks the
application has, fixed in the initial state: those of the kind `"end"` stop and
delete timers, those of the kind `"start"` also start them. `severed`, a history
variable, says that a callback stopped or deleted the timer the walk has saved as
its next one. A walk that goes on to a deleted timer or removes a timer that is
off the list, and a creation in the storage of one that is on it, set `fault` and
the model stops, which is why the run does not check deadlock. `due` and `todo`
are history variables: when a timer must expire, and which ones the walk has
still to count.

### SertosPeriodic

`UntilReads` is delay_until up to its comparison of `elapsed` and period: the
tick counter is read and `*last_wake_time` moved on outside any critical
section. `UntilDelays` and `UntilYields` are the rest, and steps of everybody
else fall in between. `lag`, a history variable, is how long ago
`*last_wake_time` was, without the wrap; `MaxLag` bounds it, below the wrap: a
task that is 2^32 ticks late is beyond what the code can tell.

### Fifo, SertosBuffer, SertosQueue, SertosStreamBuffer, SertosBuffers

The two wait lists of the scheduler are `wait_send` and `wait_recv` of one
object, a queue or a stream buffer according to `kind`. A ring buffer is the
sequence of what it holds: items for a queue, whose tests are in units of
`item_size`, bytes for a stream buffer. Its capacity follows from the arguments
of create through `next_power_of_two` and the slot that stays empty.

`Enter` is a call of a service, which finds the magic word with interrupts enabled;
the call is then `entry[t]` until its critical section (`Calling`), and may find
there that the buffer was deleted. A blocking call is `call[t]`, from the test that
failed to its end. `QueueSend`, `QueueReceive`, `QueuePeek`, `StreamSend`,
`StreamReceive` are calls that find what they need, at once or after a wait; those
with `Waits` find the buffer full or empty (for a stream: below the trigger level)
and leave their critical section; `Block` is `wait_list_block`, in the next one;
`QueueTimeout` and `StreamFails` return without effect. A stream buffer looks at its
magic word after a wait and a queue does not; the model keeps a deleted buffer's
storage, which is static, until the last call has left it. `EndCall` and
`NotifyFromIsr` wake the first waiter of the other side and reschedule. `answer` is
what the last call to end returned: what it sent, received or looked at.

`Fifo` is a bounded sequence and the requests of clients. A request begins while the
buffer exists; it is served in one step, which changes the contents by what was
asked for and answers with exactly that (`Serve`), or, if it could not be served at
once, may fail. Nothing but a request, an interrupt's send or receive, a reset and
a new creation changes the contents. `excused` is a history variable that names the
ways in which the code loses a wake-up (see below).

### SertosHost

One task is one thread, in `pc`: not yet started, executing, in
`sertos_port_yield`, parked in it, and so on. The kernel is reduced to what the
port sees: a critical section after which some task is current, then a yield.
`YieldTests` and `TickTests` are the test of `s_scheduler_running` with which
`sertos_port_yield` begins; what it does under its lock is `PosixYield` and
`WindowsYield` for a task's thread, `TickYield` for the tick thread. `IdleYields` is
the idle task, which calls it directly. On POSIX `signal` has the contexts whose
`signaled` is set, on Windows those whose auto-reset event is; `suspend` is the
Win32 suspend count. A parked Windows thread waits for the event of the context
that was running when it yielded (`waits`), which need not be its own.

A creation by a task is three steps: `HookScans` looks for a free context and
`HookClaims` sets `in_use`, with no lock, and `CreateAdds` is the critical section
in which the task joins the scheduler. `slot` is the context of each task; two
threads that are in the hook at once may take the same one, from where on the
model stops, since the two threads then wait on the same condition variable or
event and overwrite each other's handle. `overlapped`, a history variable, says
that two were in the hook at once. Tasks that do not exist yet are all alike, and
the model takes one of them (`Fresh`).

`Stop` clears `s_scheduler_running` and `StopSignals` signals the exit, two steps on
both ports. `orphan` has the locks that dead threads hold. A POSIX thread that is
cancelled while it is inside `sertos_port_yield` first comes to its wait or to its
end, so `DeleteOther` has no step for it there: deletion is possible before and
after. Once the exit is signalled the application makes no more calls, since
nothing of what they do has a part in what the port still does.

Which port, how many contexts and which tasks there are is fixed in the initial
state (`Builds`). The first tick, 1 ms after its thread is created, is taken to come
after the first task is dispatched. Once `sertos_scheduler_start` has returned the
model ends, as do states in which everybody waits for an orphaned lock: the run
does not check deadlock.

### SertosStats

`Switch` is `perform_switch` with `sertos_stats_on_switch`; `Run` lets time pass
for the current task. reset is three steps: it reads the counter, sets the
accounts in a critical section, and zeroes the number of switches. A query is
two: it sums in a critical section, and reads the account it is about.
`clock`, `since`, `last`, `truth`, `base`, `excused` and `raced` are history
variables. `CounterMod` is where the counter wraps, `MaxClock` and
`MaxSwitches` bound time and switches, which is why the run does not check
deadlock.

## Runs

| run | question | instance | result |
|---|---|---|---|
| `calls` | do lists, priorities, deadlines, wait status and lock hold up under every interleaving? | two peers, a task above them and idle, one wait list, time slicing, delays up to 2, tick wraps at 3, every call | holds |
| `roundrobin` | does every peer get the CPU, does every delay and delay_until end, is a periodic task never early, does the inductive invariant of the proofs hold? | two peers, one of them periodic, time slicing, delays, yields, locks, tick wraps at 4, with fairness | holds |
| `v_wait_status` | is a waiter told OK when an event woke it? | two tasks | violated |
| `v_slice_window` | does a delay block its caller? | three peers, time slicing | violated |
| `sem_tokens` | does a semaphore implement `Semaphore`, does scheduling stay right? | three tasks on two priorities, interrupts, one semaphore | holds |
| `sem_lost_token` | is nobody blocked while a token is there? | two tasks | violated |
| `mutex_exclusion` | does at most one task hold a mutex, is its owner never below a waiter? | three tasks on three priorities, one mutex, recursion 2, delays up to 2, waits of no tick, one tick, for ever | holds |
| `task_calls` | do lists, suspension and priorities hold up? | two peers and idle, calls of every kind for tasks in every state, preempted between test and critical section, delays up to 2, locks | holds |
| `timers` | is the list of timers right, does a timer expire on time, does the walk visit only active timers? | two one-shot timers and a periodic one, periods up to 2, tick wraps at 3, callbacks that stop and delete any timer, or also start any, one task that calls | holds |
| `buffers` | do queues and stream buffers implement `Fifo`, is no wake-up lost, does scheduling stay right? | two tasks on two priorities, interrupts, every call of the API, a queue of two items and a stream buffer of three bytes | holds |
| `host` | does the current task's thread get control, does one thread execute at a time, does stop make start return? | POSIX with three tasks and two or three contexts, Windows with three tasks and two contexts or four tasks and three contexts, with fairness | holds |
| `stats` | is time conserved and charged to the right task, do shares and switches add up? | three tasks, one of which resets and queries, a counter that wraps at 3, 4 units of time, 3 switches | holds |

The instances are large enough for the cases that matter: two peers and a third
task that preempts them give queues of two tasks, preemption of a preempted task
and wait lists with two priorities; delays of two ticks with a counter that
wraps at three give a wrap inside a countdown. A semaphore with one token at
most is empty or full; recursion of two distinguishes the inner from the outer
unlock of a mutex; three timers give a walk a predecessor and a successor. A
queue of two items is empty, half full or full, and items of three bytes leave a
rest in its ring buffer; a stream buffer of three bytes has trigger levels
below, at and above the two bytes a call moves. Three threads on a host are one
that executes, one that is parked and one that is preempted or not yet started;
a pool of two makes the third task one without a context; with three contexts a
fourth task lets two threads create one each at the same time. One task that calls
the timer services is enough for the gap between magic test and critical section,
since callbacks delete timers in it; the proofs have any number. A counter that wraps
at 3 laps within the 4 units of time. The runs of the services have time slicing
off, `calls` and `roundrobin` have it on. Peers, one-shot timers and bytes are
exchanged by symmetry in runs of safety properties. Mutexes need three
priorities: a caller that boosts the owner is above it, and only a task above
the caller preempts it between its test and its wait. The runs of mutexes and of
the task services have a view without the tick count and the deadlines, which no
step of their models reads; the view of the timers keeps a deadline as its
distance from the tick count, that of the buffers leaves out the last answer, which
no step reads either.
Deadlock is checked in every passing run but `mutex_exclusion`, `task_calls`,
`timers`, `host` and `stats`, where a misused list, the end of the program and the
bounds stop the model: elsewhere the tick keeps every state alive.

What the properties say:

* `NoFault`, `ListsConsistent`: no service misuses a list, and a task is on the
  ready queue of its priority iff runnable, on the delay list iff a countdown
  runs, on the wait list its control block names, the bitmap matches, and a
  blocked task has something that can wake it.
* `WaitersByPriority`: the head of a wait list is one of highest priority.
* `HighestPriorityRuns`: application code executes only for the head of the
  highest ready queue, unless the scheduler is locked and a switch is noted.
* `RunningIsCurrent`: RUNNING is the current task's state only, and a blocked
  task never executes application code.
* `DeadlineKept`: tick count plus countdown is the deadline, modulo the wrap.
* `OkMeansEvent`: `wait_list_block` returns after an event or a timeout only,
  and OK means an event.
* `LockKeepsCpu`: while the scheduler is locked, nobody else gets the CPU.
* `PeersRun`, `DelayEnds`: every ready peer gets the CPU and every delay ends.
* `NeverEarly`: a periodic task that is out of delay_until and can run is at or
  past its wake-up time, whatever overran, wrapped or came in the middle.
* `UntilReturns`: a caller in the middle of delay_until leaves it and has the CPU
  again after its delay.
* `SemImplements`: tokens are conserved: every one given is counted or granted
  to one waiter, every take that is granted consumed one, and what a deletion
  cancels or a timeout ends consumed none; and only calls that found the semaphore
  alive move one.
* `SemScheduling`: the wake-ups of gives and deletions keep
  `HighestPriorityRuns`, `NoFault` and `ListsConsistent`.
* `MutualExclusion`: no two tasks were granted a mutex and have not released it.
* `OwnerBoosted`: nobody waits for a mutex whose owner has a lower priority, but
  for waiters in `lapsed`.
* `LifeCycleLists`: until a call is misdirected, no list is misused, lists and
  control blocks agree and the registry holds the tasks that live.
* `SuspendedStays`: a task that was READY when suspend came to its critical section
  is on no ready queue until it is resumed, after misdirected calls too, until one
  of them misuses a list.
* `PriorityRespected`: until a call is misdirected, application code executes only
  for a task whose priority no ready task exceeds.
* `TimerListed`: the list holds the active timers, each once; those on it are alive
  or in `raced`, and no list is misused unless there is one of those or the walk was
  `severed`.
* `TimerDeadline`: with callbacks that start no timer and until a walk is severed,
  tick count and countdown add up to the tick at which the timer is due, and a walk
  leaves nobody out.
* `WalkVisits`: until a walk is severed it visits active timers only, and, with
  callbacks that start no timer, none twice, so that it comes to its end.
* `BufferImplements`: every call changes the contents once, by what its caller
  asked for, and returns what it moved, or fails and changes nothing; nothing else
  but a reset and a new creation changes them. So nothing is lost, duplicated,
  reordered or overwritten.
* `NoLostWakeup`: while a task waits to receive, everything there is to receive
  is spoken for by tasks that were woken and have yet to look; likewise for
  senders. It excepts buffers on which a wake-up was lost in a way named below.
* `BufferScheduling`: as `SemScheduling`.
* `HandOver`: when no yield is half done, the thread of the current task executes
  or has been told to.
* `OneExecutes`: only the thread of `s_running_ctx` executes, on POSIX until a tick
  first preempts a thread.
* `HostTypeOK`: besides the types, no two tasks have the same context unless two
  threads were in the hook of a creation at once.
* `StopReturns`: after a stop start returns, unless a thread died with a lock, two
  tasks share a context, or the thread that stops is cut off between its two writes
  (`Stranded`).
* `TimeConserved`: the accounts and what is due to the current task add up to the
  time since they were opened.
* `TimeAttributed`: each account shows the time its task was current, unless a
  switch came into the middle of the last reset.
* `SwitchesOnAccounts`: no switch is counted that is on no account.
* `SharesInRange`: shares add up to at most the whole, for queries that no switch
  interrupts.

### Where code and documentation disagree

Each of these is a run; `PROJECT.json` quotes the sentence it refutes.

* `v_wait_status`: a wait with a finite timeout that is ended by an event returns
  `SERTOS_STATUS_ERROR_TIMEOUT`, since the status is derived from fields that
  both ways out clear. A waiter that is handed a mutex is told TIMEOUT and owns
  it without knowing.
* `v_slice_window`: with time slicing and three tasks of one priority, a tick
  that falls between a delay's critical section and PendSV rotates the blocked
  task back into the ready queue.
* `sem_lost_token`: a give between the two critical sections of a take finds no
  waiter and the taker blocks with a token available. lock of a mutex has the
  same gap, and a delete in it leaves the taker on a deleted semaphore.

Other consequences of the same code, which a changed constant, or a property
without its condition, brings out:

* `block_locked` among the `Calls`: a wait with the scheduler locked returns OK
  at once (`OkMeansEvent` fails).
* `TimeSlicing` off in `roundrobin`: a task that yields again and again keeps the
  CPU, since yield rotates the queue with time slicing only (`PeersRun` fails).
* set_priority of the caller leaves it in its old queue (`PriorityRespected` without
  `~misdirected` fails), resume of the caller, or of a delayed task, inserts a linked
  node (`LifeCycleLists` without it fails). restore_owner_priority has the first of
  these gaps: the owner that unlocks is always RUNNING.
* suspend takes only a READY task off its queue: a task that suspends itself stays on
  the ready queue, and one that was delayed is made READY by the tick, although
  `inc/sertos_task.h:123` says that a suspended task is ineligible for scheduling
  until it is resumed (`SuspendedStays` for every task in the state SUSPENDED fails).
  The same happens when the target was READY at the test and is RUNNING or BLOCKED
  in the critical section.
* callbacks that stop or delete the timer the walk has saved as its next one: the
  walk visits it and lets it expire (`WalkVisits` without `severed` fails), or reads a
  deleted timer.
* `TimerDeadline` without its condition on the callbacks: a timer that a callback
  restarts behind the walk is counted by it and expires a tick early, one that it
  restarts in front of the walk, as the successor of its own timer, can be missed.
  Two one-shot timers with a period of one tick whose callbacks restart them make
  the walk endless, with interrupts masked.
* two mutexes: one that was locked by a boosted task restores the boosted
  priority, so that released last it makes the boost permanent.

Some properties have a condition, and the code is the reason:

* A call of a semaphore, queue, stream buffer or timer that was preempted after its
  magic test acts on an object that was deleted in between: it takes a token of it,
  waits on it for nobody, or puts a deleted timer on the list (`raced`), which
  `Semaphore` and `Fifo` allow to calls that began before the deletion.
* Queues and stream buffers lose a wake-up (`excused`) when the event falls between
  test and wait; when a waiter that an event woke is told TIMEOUT and leaves; when
  a peek uses up the wake-up of an item it leaves there; and when reset of a queue
  empties it without waking its senders. The retries of a call restart its timeout
  in full. The loops of the queue go on with a queue that was deleted while they
  waited. `next_power_of_two` does not end for sizes above half of the range of
  `size_t`.
* lock boosts the owner in one critical section and blocks in another. When the
  mutex is released in between, the caller waits for nobody, or for an owner that
  was never boosted for it (`OwnerBoosted` without `lapsed` fails), although
  `inc/sertos_mutex.h:69` says that the owner is boosted to the caller's priority
  until the lock is released.
* A tick between the two parts of delay_until makes the wake-up one tick late,
  never early.
* A POSIX tick that preempts a thread does not stop it: two threads execute
  (`OneExecutes` without `~preempted` fails).
* A POSIX thread that ends, or that another task deletes, takes a lock with it:
  pthread_cancel and pthread_join take effect inside the critical section of
  `sertos_task_delete`, and a cancelled pthread_cond_wait holds `s_yield_mutex`.
  If the tick thread has passed its test of `s_scheduler_running` when that happens,
  it blocks for ever and start never returns from pthread_join (`StopReturns`
  without `orphan` fails), although `inc/sertos_scheduler.h:52` says that it does.
  On Windows a thread that ends leaves the critical section locked as well; there
  the join gives up after 100 ms.
* A tick that found `s_scheduler_running` set may suspend the Windows thread that
  stops the scheduler after that thread cleared it and before it sets `s_exit_event`.
  Every later yield returns at once, nobody resumes the thread, and start waits for
  ever, also contrary to `inc/sertos_scheduler.h:52`; likewise when another thread
  deletes it there (`StopReturns` without `Stranded` fails).
* Two threads in `sertos_port_task_create_hook` at once, on Windows because the tick
  suspended one of them there, on POSIX because a preempted thread goes on, claim the
  same context for two tasks (`HostTypeOK` without `overlapped` fails).
* A Windows thread created after the start stays suspended, and a task that finds
  no free context has no thread: when either is current, nobody executes
  (`HandOver` excepts both).
* The statistics lose a lap of the counter when no switch comes for that long:
  4.3 s for the nanoseconds of the POSIX port. A switch inside a query makes a share
  exceed 10000 and the load wrap below 0. Enabled late, they charge from an entry
  that is out of date; `TimeConserved` holds from the next reset on.

## Fairness

SysTick is periodic and its handler runs to completion: weak fairness of the
tick's actions and of `Start`. PendSV is taken when no other exception is
active, and the CPU executes the current task between interrupts; both are
disabled again and again by ticks but not for ever, hence strong fairness of
`PendSV` and of the kernel code of tasks. `FairSpec` adds that a task unlocks
the scheduler it locked: an assumption on the application, without which the
properties are not to be expected. `PeriodicFairSpec` adds strong fairness of a
delay_until under way, for the same reason as that of the kernel code.
`HostSpec` is weak fairness of the steps of each native thread, which the
operating system schedules: of a task's thread inside the port, of the tick
thread and of main. What the application does is not assumed.

## Proofs

The theorems hold for every number of tasks, priorities, wait lists, timers and
contexts, every period and every width of the counters that the assumptions of
the modules allow. Each inductive invariant below was first checked by TLC on
the instance of the run it belongs to. Facts about lists, least elements and
counters that wrap are lemmas of `SertosDataProofs`, cited by the rest.

**Scheduler** (`SertosSafetyProofs`). `TypeCorrect` rests on `KernelAssumption`
and `SchedulerAssumption` alone. The other theorems assume `Disciplined`: no task
blocks while the scheduler is locked, and with time slicing at most two tasks
share a priority. Neither can be dropped: `v_slice_window` is a counterexample
for three peers, a wait with the scheduler locked one for the other.

The inductive invariant is `SchedInv`. `ListsConsistent` alone is not inductive:
that the tick handler only visits delayed tasks needs `ScanInv`; that rotation
never meets a blocked task needs that a blocked current task is about to lose
the CPU (`BlockedInv`) and that its peer is then alone in the queue.
`HighestPriorityRuns` needs `SwitchInv`: if the current task is not the one to
select, a switch is pending, or noted under the lock, or some code that will ask
for it is still to run. The proof has one lemma per action; the effect of each
kernel routine on the lists is a lemma of its own, all of which rest on two
operators, one that puts a task on its ready queue and one that takes it off to
block it. From `SchedInv` follow `NoMisuse`, `ListsCorrect`, `HighestRuns`,
`RunningCorrect` and `LockHolds`.

**Waiting** (`SertosTaskProofs`, also under `Disciplined`). `WaitInv` adds to
`SchedInv` that wait lists are sorted, that deadline, tick count and countdown
of a delayed task add up, with one tick less for those the tick handler has
still to look at, and what the history knows of a waiter: a blocked waiter has
not been woken, one with a countdown did not ask to wait forever. It gives
`WaitListsSorted`, `DeadlinesMet` and `OkIsAnEvent`. Sortedness needs that the
priority of a task on a list does not change, which holds in the scheduler by
itself; what set_priority and mutexes do to it is the subject of their own
invariants.

**Periodic tasks** (`SertosTaskProofs`). `NeverEarly` is about the
instant a task goes on, which no step of delay_until decides by itself:
`PeriodicInv` says of every instant that the lag and what is left of the wait
(`Remaining`: the delay still to be asked for, or the countdown) add up to at
least zero, and that the lag and the difference of the two tick values agree up
to a lap. It is kept because a scheduler step takes a tick off a countdown only
when it counts one (`RestStep`), and because `elapsed`, computed with the wrap,
is the lag when delay_until reads it (`ElapsedIsLag`). The steps of the other
tasks are those of the scheduler, so that `SchedInv` carries over.

**Task services** (the second half of `SertosTaskProofs`). `TaskSafe`,
`LifeCycleCorrect` and `PrioritiesRespected` assume `Careful`: `Disciplined`, and no
set_priority together with time slicing, which is what the proof needs, because
peers are counted by the priority tasks were created with. They are about
behaviours up to the first misdirected call: `TaskSpec => [](~misdirected => TaskInv)`.

`SchedInv` does not hold here. A task that is woken before it was switched away
from is current and READY, so that it may suspend or delete itself
and goes on executing although it is on no queue. `TaskInv` keeps the part
of `SchedInv` that survives (`SchedCore`) and replaces the rest: `PendingInv`
says that a task inside a call is where it can be preempted, and for which target
the call is; the state of the target may have changed since the test, and what the
critical section does is judged by the state it meets. `LeavingInv` says that a
current task that is not runnable has a switch coming, or will ask
for one; `DueInv` the same for a current task that a runnable one exceeds;
`LifeLists` that history and registry agree with the control blocks. Each
critical section of the services is reduced to leaving a queue (`Parted`),
joining one, or both (`Requeued`).

`SuspensionHolds` assumes `Disciplined` only and is about all behaviours, misdirected
calls included. There lists and control blocks no longer agree, and `TaskInv` is
lost; what is left, until a list is misused, is `SuspensionInv`: each `state_node` is
on one list at most (`Clean`), a suspended task is on none (`Parked`), the tick handler
visits delayed tasks (`ScanInv`), and a current task that suspended itself is about
to lose the CPU, or holds the lock and has asked for the switch (`LeavesInv`). The
last is needed because a suspended task that went on executing could delay itself
and would be on a list again. `Clean` is kept because every routine that puts a
node on a list first takes it off the one it is on, or misuses it.

**Semaphores** (`SertosSyncProofs`, also under `Disciplined`). `SemInv` adds to
`SchedInv` the types of the semaphores and `TakeInv`, which says where the task
of a call is: between the magic test and the critical section it can run and is in
no wait; before wait_list_block it can run and, when it has the CPU,
the scheduler is unlocked; inside, it is on the wait list of its own semaphore
exactly until a give, a timeout or a deletion wakes it. Without `TakeInv` the
refinement fails at a give: the task at the head of the list has to be one whose
take the abstract semaphore still counts as asked. What the scheduler's actions
do to waits is shown once, in `SertosSafetyProofs`, for every service (`SystemWaits`,
`CallWaits`: each leaves all waits alone or lets one expire); here they become
`SystemTakes` and `CallTakes`. There is one lemma per action of the semaphores,
which shows both that `SemInv` is kept and which abstract action or stutter the
step is. For deletion, `UnblockAllEffect` describes `unblock_all` after each prefix of
its rounds; the least round at which that description would fail takes the place
of induction. `SemaphoresImplement`, `SemTypesOK` and `SemSchedulingSafe` follow.
`BlocksOnlyIfUnavailable` is no part of it: `sem_lost_token` refutes it.

**Mutexes** (the rest of `SertosSyncProofs`). `MutexTypeCorrect` and
`MutexesExclude` ask of the application only that no task blocks with the
scheduler locked; the number of mutexes, of peers and time slicing are free. The
difficulty is that mutexes do misuse lists: restore_owner_priority changes the
priority of a RUNNING task without moving it, so that a task may be on the ready
queue of a priority it no longer has, and its next removal goes through another
list. `MutexInv` therefore has two parts. `HoldInv`, which `MutualExclusion`
follows from, ties the history of grants to owner and count and holds in every
state, that of the misuse included. `Tracked` holds until the misuse: the lists
are consistent for *some* placement of the runnable tasks on the ready queues
(`Linked`, in place of `ListsConsistent`), and `LockOf` ties each lock call to
the wait of its task. The second write of the owner, with interrupts enabled after the
wait, is harmless because a wait that is told OK had no timeout, such a wait
ends by hand-over or deletion only, and after a hand-over the owner is the
waiter already.

`OwnersBoosted` also assumes `OneMutex`. `InheritInv` adds that wait lists are
sorted, that owners exist, and `Claim`: a task that is pending, from its failed
test to the end of its wait, does not own the mutex, and unless it is in
`lapsed` the mutex has an owner of at least its priority. `OwnerBoosted` alone
is not inductive: it says nothing of a task that has boosted the owner and not
yet joined the list. `Claim` is kept because the only priorities that change are
the owner's, who is not pending: it goes up when a lock boosts it, and down when
it stops being the owner; then the new owner was the first waiter of a sorted
list, and all who are not on the list yet lapse. The scheduler's own steps are
`Steady`: they change no priority and let nobody join a list. With two mutexes
both facts fail. An owner may itself wait, its boost leaves the other list
unsorted and is not passed on to the owner of the other mutex; and
mutexes released in another order restore priorities recorded while boosted.

**Queues and stream buffers** (`SertosBufferProofs`). `BuffersImplement`, the
refinement of `Fifo`, needs the types of the buffer only (`BufferTypes`), not
`Disciplined`: each step begins a request, makes it wait, serves it with the answer
its caller gets, ends it without effect or leaves the abstract buffer alone,
whatever the scheduler does, because each operation tests and moves data in one
critical section, and a call that waited tests again. That create yields a capacity of at
least one item (`CapacityType`) rests on `next_power_of_two` returning no less
than its argument (`PowerLargeEnough`), shown for the recursive function through
the least start from which it holds.

`BufferTypesOK`, `BufferSchedulingSafe` and `NoWakeupLost` assume `Disciplined`.
`BufferInv` adds to `SchedInv` and the types, which keep entry and call apart,
`CallInv`: a call between test and wait belongs to a runnable task with the scheduler unlocked; inside the wait its
task is on the list of its own side until something wakes it; and the calls of a
stream buffer are those of its writer and its reader. `NoLostWakeup` is not
inductive with that: it says nothing of a task that has tested and not yet
joined the list. `WakeInv` adds that there is nothing to be had on the side such
a task is about to join, which its test showed and which every put or take that
changes it must excuse (`Overlooked`). Each operation then falls under one of
four lemmas per side: nothing is left to be had (`SpokenNothing`), nobody waits
(`SpokenNobody`), no more is to be had than before and whoever leaves takes his
share (`SpokenKept`), or one more is, and a waiter was woken for it
(`SpokenMore`). `StreamAlone` is where one writer and one reader matter: a stream
buffer wakes one task however many bytes there are, which would not do for two.

**Timers** (`SertosTimerProofs`). `TimerInv`: while a callback runs, the
successor the walk has saved is another timer and still on the list until a
callback takes that one off (`PointersInv`, `severed`); what is still
to be counted down is the rest of the list from the walk's pointer
(`TodoInv`), as long as callbacks start no timer either. The list itself (`ListInv`)
holds the active timers whatever tasks and callbacks do, until a list is misused,
which only a severed walk or a deleted timer that was started (`raced`) leads to.
`TimersListed` and the first part of `WalkSafe` hold for callbacks that start timers
too; `TimersOnTime` does not: such a callback can make the walk miss a timer. The
theorems are for any number of calling tasks.

**Statistics** (`SertosStatsProofs`). Sums over tasks are recursive. The lemmas
on sums unfold the recursion, show that it has a solution on every finite set,
and argue about a smallest set on which a fact would fail (`MinimalMember`),
which takes the place of induction. `StatsInv` relates sums and samples to the
time that passed: `ConserveInv` for the total, `AttributeInv` for each task,
`SwitchInv` for the switch counts, `SummedInv` for a query between its sum and
its reading. That a difference of counter readings is the time between them
whenever it is less than a lap (`CounterDifference`) makes it independent of the
width of the counter.

**Host ports** (`SertosHostProofs`). `HostInv` says which thread may be between
two steps of the port and who has told whom to run: `HookInv` and `DistinctInv` that
a task under creation is one thread's only, and that the context it has found stays
free until it is claimed unless another thread began the hook meanwhile; `CtxInv` that
every thread has a context; `SoloInv` that at most one
thread has been told to, `RunInv` and `CurrentInv` that it is the thread of the
current task unless a yield is half done (on Windows that of `s_running_ctx` or of the
tick: a thread suspended inside its yield may be deleted there), `SuspendInv` what the Windows port's
suspensions can add up to, `PosixInv` and `WindowsInv` what only one of the
ports does. `OneExecutes` and `HandOver` are not inductive without them: who
executes next depends on signals and suspensions that are still on their way.

Every invariant that a passing run checks is also the subject of a theorem. Only
model-checked: liveness (`PeersRun`, `DelayEnds`, `UntilReturns`, `StopReturns`)
and deadlock freedom, since fairness and ENABLED are out of the prover's reach;
and the theorems' assumptions are those named above, beyond which TLC checks the
instances of the runs only.

## Not modelled

The dynamic create of tasks, whose add_ready is outside a critical section, and
the release of dynamic storage, after which a call that had found the object alive
would use freed memory; the creation of a task in the storage of a
terminated one; the tick and idle hooks and the getters; stack frames and
register saving of the ports, and with them the Cortex-M ports other than the
M3 and the RISC-V port, which differ in nothing else: assembly that a state
model would only repeat. Creation of mutexes while tasks run is left out: it
writes an object nobody else knows of yet. A second start of the scheduler on a
host, delay_until with the scheduler locked, and failures of the operating
system's calls are left out.

## What is left

Theorems on more than one mutex would need another protocol than the code's, and
the life cycle past a misdirected call another treatment of RUNNING and BLOCKED
targets than the code's. A proof of `PrioritiesRespected` with time slicing would have to count peers by
their present priority.
