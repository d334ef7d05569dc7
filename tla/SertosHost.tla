----------------------------- MODULE SertosHost -----------------------------
(***************************************************************************)
(* The host ports: every task is a native thread, and the port hands the   *)
(* right to execute from thread to thread.  On POSIX a thread waits on a   *)
(* condition variable for its flag `signaled'; on Windows it waits for an  *)
(* auto-reset event, and the tick thread suspends the thread it preempts.  *)
(* The kernel is reduced to what the ports see of it: a critical section   *)
(* in which some task becomes the current one, then sertos_port_yield.     *)
(*                                                                         *)
(* A thread that dies while it holds a lock leaves the lock taken: the     *)
(* set `orphan' has those locks, and who needs one of them waits for ever. *)
(* sertos_port_yield tests s_scheduler_running before it takes its lock,   *)
(* and the hook of a creation looks for a free context and claims it with  *)
(* no lock at all: each is a step of its own.  Once two tasks share a      *)
(* context the specification stops.                                        *)
(* The first tick, 1 ms after its thread is created, is taken to come      *)
(* after sertos_port_start_first_task has dispatched the first task.       *)
(***************************************************************************)
EXTENDS Naturals

CONSTANTS Task,    \* the application's tasks and the idle task
          None,    \* a NULL pointer
          Builds   \* the programs checked: which port, the length of
                   \* s_task_contexts and the tasks there are

ASSUME HostAssumption ==
    /\ None \notin Task
    /\ \A b \in Builds : /\ b.system \in {"posix", "windows"}
                         /\ b.pool \in Nat \ {0}
                         /\ b.tasks \subseteq Task

VARIABLES
    system,      \* which port was built
    pool,        \* SERTOS_CONFIG_MAX_TASKS, the length of s_task_contexts
    tasks,       \* the tasks of the program
    slot,        \* the context descriptor of each task, 0 for none
    hook,        \* the task that a thread creates, and the descriptor it found
    current,     \* sertos_current_tcb
    running_ctx, \* s_running_ctx, named by its task
    running,     \* s_scheduler_running
    exit,        \* s_exit_signaled, or the state of s_exit_event
    pc,          \* where each task's thread is
    signal,      \* the contexts that are signaled, or whose event is set
    waits,       \* the context on whose event a parked thread waits
    by_tick,     \* the contexts that are is_suspended_by_tick
    suspend,     \* the Win32 suspend count of each thread
    tick,        \* where the tick thread is
    main,        \* where the thread that called sertos_scheduler_start is
    orphan,      \* the locks that threads hold for ever
    preempted,   \* history: a POSIX tick has preempted a thread
    late,        \* history: the tasks created after the start, on Windows
    overlapped   \* history: a thread began the hook while another was in it

config == <<system, pool, tasks>>
control == <<running, exit, main>>
events == <<signal, waits, by_tick, suspend>>
making == <<slot, hook, late, overlapped>>
vars == <<config, making, current, running_ctx, control, pc, events, tick, orphan, preempted>>

\* The tasks that have a context descriptor.
used == {t \in Task : slot[t] # 0}

\* Two tasks have the same one.
Shared == \E t, u \in used : t # u /\ slot[t] = slot[u]

NoHook == [task |-> None, index |-> 0]

HostInit ==
    /\ \E b \in Builds : system = b.system /\ pool = b.pool /\ tasks = b.tasks
    /\ slot = [t \in Task |-> 0] /\ hook = [t \in Task |-> NoHook]
    /\ signal = {} /\ by_tick = {} /\ orphan = {} /\ late = {}
    /\ current = None /\ running_ctx = None
    /\ running = FALSE /\ exit = FALSE /\ preempted = FALSE /\ overlapped = FALSE
    /\ pc = [t \in Task |-> "absent"]
    /\ waits = [t \in Task |-> t]
    /\ suspend = [t \in Task |-> 0]
    /\ tick = "off" /\ main = "init"

\* s_critical_mutex and s_yield_mutex are one CRITICAL_SECTION on Windows.
CriticalFree == "critical" \notin orphan
YieldFree == orphan \cap (IF system = "posix" THEN {"yield"} ELSE {"critical"}) = {}

Ctx(n) == IF n \in used THEN n ELSE None

Executing(t) ==
    /\ pc[t] \in {"user", "scanned", "claimed", "yield", "pass", "stopping", "ending"}
    /\ suspend[t] = 0

\* The tasks that can be the current one: those of the kernel's ready lists.
Created == {t \in Task : pc[t] \notin {"absent", "new", "gone", "cut"}}

InUser(t) == pc[t] = "user" /\ Executing(t)

----------------------------------------------------------------------------
(* Creating a task, starting.                                              *)

\* A mutant: in_use is not looked at.
FirstFreeAlways(i) == i = 1

\* The scan of s_task_contexts for one that is not in_use: i is its index, and
\* 0 is for none.
FirstFree(i) ==
    LET free == (1 .. pool) \ {slot[t] : t \in Task}
    IN  IF i = 0 THEN free = {} ELSE i \in free /\ \A j \in free : i <= j

\* A task that is not created yet.  They are all alike, so one is taken.
Fresh(u) ==
    LET absent == {v \in tasks : pc[v] = "absent"}
    IN  u \in absent /\ u = CHOOSE v \in absent : TRUE

\* Without a descriptor there is no thread.
Thread(i) == IF i = 0 THEN "none" ELSE "start"

\* On Windows a thread is created suspended.
AtCreation(i) == IF system = "windows" /\ i # 0 THEN 1 ELSE 0

\* The main thread creates tasks alone.
CreateBeforeStart(u, i) ==
    /\ main = "init"
    /\ Fresh(u)
    /\ FirstFree(i)
    /\ slot' = [slot EXCEPT ![u] = i]
    /\ suspend' = [suspend EXCEPT ![u] = AtCreation(i)]
    /\ pc' = [pc EXCEPT ![u] = Thread(i)]
    /\ UNCHANGED <<config, hook, late, overlapped, current, running_ctx, control, signal,
                   waits, by_tick, tick, orphan, preempted>>

\* Task t creates u: sertos_port_task_create_hook, with no lock, finds a
\* descriptor, and then claims it.
HookScans(t, u, i) ==
    /\ InUser(t)
    /\ Fresh(u)
    /\ FirstFree(i)
    /\ hook' = [hook EXCEPT ![t] = [task |-> u, index |-> i]]
    /\ pc' = [pc EXCEPT ![t] = "scanned", ![u] = "new"]
    /\ overlapped' = (overlapped \/ \E v \in Task : pc[v] = "scanned")
    /\ UNCHANGED <<config, slot, late, current, running_ctx, control, events, tick, orphan,
                   preempted>>

HookClaims(t) ==
    /\ pc[t] = "scanned" /\ Executing(t)
    /\ slot' = [slot EXCEPT ![hook[t].task] = hook[t].index]
    /\ pc' = [pc EXCEPT ![t] = "claimed"]
    /\ UNCHANGED <<config, hook, late, overlapped, current, running_ctx, control, events,
                   tick, orphan, preempted>>

\* The critical section of sertos_task_create_static adds the task u, and t
\* reschedules: it goes on, or u becomes current.
CreateAdds(t, u, n) ==
    /\ pc[t] = "claimed" /\ Executing(t)
    /\ CriticalFree
    /\ u = hook[t].task
    /\ hook' = [hook EXCEPT ![t] = NoHook]
    /\ suspend' = [suspend EXCEPT ![u] = AtCreation(slot[u])]
    /\ late' = IF system = "windows" THEN late \cup {u} ELSE late
    /\ n \in {current, u}
    /\ current' = n
    /\ pc' = [pc EXCEPT ![u] = Thread(slot[u]), ![t] = IF n = current THEN "user" ELSE "yield"]
    /\ UNCHANGED <<config, slot, overlapped, running_ctx, control, signal, waits, by_tick,
                   tick, orphan, preempted>>

\* sertos_scheduler_start: perform_switch, then sertos_port_start_first_task up
\* to its wait for the exit signal.
StartFirstTask(n) ==
    /\ main = "init"
    /\ n \in Created
    /\ current' = n
    /\ running_ctx' = Ctx(n)
    /\ signal' = {n} \cap used
    /\ running' = TRUE
    /\ tick' = "sleep"
    /\ main' = "wait"
    /\ suspend' = [t \in Task |-> 0]
    /\ UNCHANGED <<config, making, exit, pc, waits, by_tick, orphan, preempted>>

----------------------------------------------------------------------------
(* The task threads.                                                       *)

\* sertos_scheduler_switch_context up to its exit from the critical section.
SwitchContext(t, n) ==
    /\ InUser(t)
    /\ CriticalFree
    /\ n \in Created \ {current}
    /\ current' = n
    /\ pc' = [pc EXCEPT ![t] = "yield"]
    /\ UNCHANGED <<config, making, running_ctx, control, events, tick, orphan, preempted>>

\* The idle task, whichever it is, calls sertos_port_yield itself.
IdleYields(t) ==
    /\ InUser(t)
    /\ pc' = [pc EXCEPT ![t] = "yield"]
    /\ UNCHANGED <<config, making, current, running_ctx, control, events, tick, orphan,
                   preempted>>

\* sertos_port_yield called by task t's thread: it returns at once when the
\* scheduler has stopped, and otherwise comes to the lock.
YieldTests(t) ==
    /\ pc[t] = "yield" /\ Executing(t)
    /\ pc' = [pc EXCEPT ![t] = IF running THEN "pass" ELSE "user"]
    /\ UNCHANGED <<config, making, current, running_ctx, control, events, tick, orphan,
                   preempted>>

\* A mutant: the thread that yields keeps its own flag.
PosixPassKeeps(t) == (signal \cup {Ctx(current)}) \ {None}

\* The flags when thread t passes control to the current task's thread.
PosixPass(t) == (signal \cup {Ctx(current)}) \ {None, t}

\* The two ways a Windows thread is made to run: one that the tick thread
\* suspended is resumed, any other has its event set.
Resumes(n) == n \in by_tick
Activated(n) == IF n = None \/ Resumes(n) THEN signal ELSE signal \cup {n}
StillByTick(n) == by_tick \ {n}
Activate(n) == [t \in Task |-> IF t = n /\ Resumes(n) /\ suspend[t] > 0 THEN suspend[t] - 1
                                                                    ELSE suspend[t]]

\* Under the lock.  There may be nobody else to run.
PosixYield(t) ==
    /\ system = "posix"
    /\ pc[t] = "pass"
    /\ YieldFree
    /\ IF Ctx(current) = t
       THEN pc' = [pc EXCEPT ![t] = "user"] /\ UNCHANGED <<running_ctx, signal>>
       ELSE /\ running_ctx' = Ctx(current)
            /\ signal' = PosixPass(t)
            /\ pc' = [pc EXCEPT ![t] = "park"]
    /\ UNCHANGED <<config, making, current, control, waits, by_tick, suspend, tick, orphan,
                   preempted>>

WindowsYield(t) ==
    /\ system = "windows"
    /\ pc[t] = "pass" /\ Executing(t)
    /\ YieldFree
    /\ IF Ctx(current) = running_ctx
       THEN /\ pc' = [pc EXCEPT ![t] = "user"]
            /\ UNCHANGED <<running_ctx, events>>
       ELSE /\ running_ctx' = Ctx(current)
            /\ signal' = Activated(Ctx(current))
            /\ by_tick' = StillByTick(Ctx(current))
            /\ suspend' = Activate(Ctx(current))
            /\ waits' = IF running_ctx = None THEN waits
                                              ELSE [waits EXCEPT ![t] = running_ctx]
            /\ pc' = [pc EXCEPT ![t] = IF running_ctx = None THEN "user" ELSE "park"]
    /\ UNCHANGED <<config, making, current, control, tick, orphan, preempted>>

\* A wait ends: that of a yield, or the first one, in port_task_wrapper.  An
\* event is reset by the wait it ends; `signaled' stays.
Wake(t) ==
    /\ pc[t] \in {"start", "park"}
    /\ suspend[t] = 0
    /\ \/ waits[t] \in signal
       \/ system = "posix" /\ pc[t] = "park" /\ ~running
    /\ system = "posix" => YieldFree
    /\ signal' = IF system = "posix" THEN signal ELSE signal \ {waits[t]}
    /\ pc' = [pc EXCEPT ![t] = IF pc[t] = "start" /\ ~running THEN "ending" ELSE "user"]
    /\ UNCHANGED <<config, making, current, running_ctx, control, waits, by_tick, suspend, tick, orphan, preempted>>

\* The task function returns; port_task_wrapper then deletes the task, and the
\* thread is gone inside the critical section of sertos_task_delete: on POSIX
\* pthread_join is where its own pthread_cancel takes effect.
EntryReturns(t) ==
    /\ InUser(t)
    /\ pc' = [pc EXCEPT ![t] = "ending"]
    /\ UNCHANGED <<config, making, current, running_ctx, control, events, tick, orphan, preempted>>

DeleteSelf(t) ==
    /\ pc[t] = "ending" /\ Executing(t)
    /\ CriticalFree
    /\ pc' = [pc EXCEPT ![t] = "gone"]
    /\ orphan' = orphan \cup {"critical"}
    /\ UNCHANGED <<config, making, current, running_ctx, control, events, tick, preempted>>

\* On POSIX thread u has a cancellation point only where it waits.
Cancels(u) == pc[u] \in {"start", "park"} /\ u \notin signal

\* sertos_task_delete of another task's thread; n is the current task after
\* it.  Windows ends the thread wherever it is.  On POSIX a cancelled
\* pthread_cond_wait takes s_yield_mutex again and leaves it locked, and a
\* thread that does not wait is joined for ever; one inside sertos_port_yield
\* first comes to its wait or to its end.
DeleteOther(t, u, n) ==
    /\ InUser(t)
    /\ CriticalFree
    /\ u \in Created \ {t}
    /\ n \in IF u = current THEN Created \ {u} ELSE {current}
    /\ \/ /\ system = "windows" \/ u \notin used \/ Cancels(u)
          /\ slot' = [slot EXCEPT ![u] = 0]
          /\ current' = n
          /\ pc' = [pc EXCEPT ![u] = IF pc[u] = "stopping" THEN "cut" ELSE "gone",
                              ![t] = IF n = current THEN "user" ELSE "yield"]
          /\ orphan' = IF system = "posix" /\ u \in used THEN orphan \cup {"yield"} ELSE orphan
       \/ /\ system = "posix" /\ u \in used /\ ~Cancels(u) /\ pc[u] \notin {"yield", "pass"}
          /\ pc' = [pc EXCEPT ![t] = "stuck"]
          /\ orphan' = orphan \cup {"critical"}
          /\ UNCHANGED <<slot, current>>
    /\ UNCHANGED <<config, hook, late, overlapped, running_ctx, control, events, tick,
                   preempted>>

----------------------------------------------------------------------------
(* The tick thread.                                                        *)

\* A mutant: the tick thread does not look at s_scheduler_running.
TickLoopsForEver == tick = "sleep" /\ tick' = "enter"

\* port_tick_thread_func after its sleep: another tick, or the end.
TickLoop == tick = "sleep" /\ tick' = IF running THEN "enter" ELSE "ended"

TickWakes ==
    /\ TickLoop
    /\ UNCHANGED <<config, making, current, running_ctx, control, pc, events, orphan, preempted>>

\* sertos_scheduler_tick: n is the current task after its switch_context.
Tick(n) ==
    /\ tick = "enter"
    /\ CriticalFree
    /\ n \in Created \cup {current}
    /\ current' = n
    /\ tick' = IF n = current THEN "sleep" ELSE "yield"
    /\ UNCHANGED <<config, making, running_ctx, control, pc, events, orphan, preempted>>

\* A mutant: a thread that the tick suspended is only sent its event.
WindowsTickPassNoResume(n) ==
    /\ signal' = signal \cup {n}
    /\ by_tick' = (by_tick \ {n}) \cup ({running_ctx} \ {None})
    /\ suspend' = [t \in Task |-> suspend[t] + IF t = running_ctx THEN 1 ELSE 0]

\* The Windows tick thread suspends the thread it preempts.
WindowsTickPass(n) ==
    /\ signal' = Activated(n)
    /\ by_tick' = (by_tick \ {n}) \cup ({running_ctx} \ {None})
    /\ suspend' = [t \in Task |-> Activate(n)[t] + IF t = running_ctx THEN 1 ELSE 0]

\* sertos_port_yield called by the tick thread: the test, and then the lock.
TickTests ==
    /\ tick = "yield"
    /\ tick' = IF running THEN "pass" ELSE "sleep"
    /\ UNCHANGED <<config, making, current, running_ctx, control, pc, events, orphan,
                   preempted>>

\* The POSIX one only moves the flags: the preempted thread goes on until its
\* next yield.
TickYield ==
    LET next == Ctx(current)
    IN  /\ tick = "pass"
        /\ YieldFree
        /\ tick' = "sleep"
        /\ IF next \notin {None, running_ctx}
           THEN /\ running_ctx' = next
                /\ \/ /\ system = "posix"
                      /\ signal' = (signal \ {running_ctx}) \cup {next}
                      /\ UNCHANGED <<by_tick, suspend>>
                   \/ system = "windows" /\ WindowsTickPass(next)
                /\ preempted' = (preempted \/ system = "posix")
           ELSE UNCHANGED <<running_ctx, signal, by_tick, suspend, preempted>>
        /\ UNCHANGED <<config, making, current, control, pc, waits, orphan>>

----------------------------------------------------------------------------
(* Stopping.                                                               *)

\* sertos_port_stop_scheduler: first the flag, then the signals.  The POSIX one
\* also wakes every thread.
Stop(t) ==
    /\ InUser(t)
    /\ main # "init"
    /\ running' = FALSE
    /\ pc' = [pc EXCEPT ![t] = "stopping"]
    /\ UNCHANGED <<config, making, current, running_ctx, exit, events, tick, main, orphan,
                   preempted>>

StopSignals(t) ==
    /\ pc[t] = "stopping" /\ Executing(t)
    /\ system = "posix" => YieldFree
    /\ signal' = IF system = "posix" THEN signal \cup used ELSE signal
    /\ exit' = TRUE
    /\ pc' = [pc EXCEPT ![t] = "user"]
    /\ UNCHANGED <<config, making, current, running_ctx, running, waits, by_tick, suspend,
                   tick, main, orphan, preempted>>

\* sertos_port_start_first_task after its wait: it joins the tick thread, and
\* on Windows gives up after 100 ms.
MainReturns ==
    /\ main = "wait"
    /\ exit
    /\ running' = FALSE
    /\ main' = "join"
    /\ UNCHANGED <<config, making, current, running_ctx, exit, pc, events, tick, orphan, preempted>>

MainJoins ==
    /\ main = "join"
    /\ tick = "ended" \/ system = "windows"
    /\ main' = "done"
    /\ UNCHANGED <<config, making, current, running_ctx, running, exit, pc, events, tick, orphan, preempted>>

----------------------------------------------------------------------------

\* What a thread does on its own, without the application's choice.
PortStep(t) ==
    \/ YieldTests(t) \/ PosixYield(t) \/ WindowsYield(t) \/ Wake(t)
    \/ HookClaims(t) \/ DeleteSelf(t) \/ StopSignals(t)

\* What the application's code calls; once the exit is signalled nothing of it
\* has a part in what the port still does.
AppStep(t) ==
    /\ ~exit
    /\ \/ EntryReturns(t) \/ Stop(t) \/ IdleYields(t)
       \/ \E n \in Task : SwitchContext(t, n)
       \/ \E u \in Task : \E i \in 0 .. pool : HookScans(t, u, i)
       \/ \E u, n \in Task : CreateAdds(t, u, n) \/ DeleteOther(t, u, n)

TickStep == TickWakes \/ TickTests \/ TickYield \/ \E n \in Task : Tick(n)

Going == main # "done" /\ ~Shared

HostNext ==
    /\ Going
    /\ \/ \E t \in Task : PortStep(t) \/ AppStep(t) \/ StartFirstTask(t)
       \/ \E t \in Task : \E i \in 0 .. pool : CreateBeforeStart(t, i)
       \/ TickStep \/ MainReturns \/ MainJoins

\* A native thread that can go on does so.
HostSpec ==
    /\ HostInit /\ [][HostNext]_vars
    /\ \A t \in Task : WF_vars(Going /\ PortStep(t))
    /\ WF_vars(Going /\ TickStep)
    /\ WF_vars(Going /\ MainReturns) /\ WF_vars(Going /\ MainJoins)
----------------------------------------------------------------------------
(* Properties.                                                             *)

\* Every variable stays in its type: no index is beyond s_task_contexts, and no
\* thread is suspended more than twice; and no two tasks have the same context
\* unless a thread began sertos_port_task_create_hook while another was in it.
HostTypeOK ==
    /\ \E b \in Builds : system = b.system /\ pool = b.pool /\ tasks = b.tasks
    /\ slot \in [Task -> 0 .. pool]
    /\ hook \in [Task -> [task : Task \cup {None}, index : 0 .. pool]]
    /\ Shared => overlapped
    /\ {current, running_ctx} \subseteq Task \cup {None}
    /\ {running, exit, preempted, overlapped} \subseteq BOOLEAN
    /\ pc \in [Task -> {"absent", "new", "none", "start", "user", "scanned", "claimed",
                        "yield", "pass", "park", "stopping", "ending", "gone", "cut", "stuck"}]
    /\ signal \subseteq Task /\ by_tick \subseteq Task
    /\ waits \in [Task -> Task]
    /\ suspend \in [Task -> 0 .. 2]
    /\ tick \in {"off", "sleep", "enter", "yield", "pass", "ended"}
    /\ main \in {"init", "wait", "join", "done"}
    /\ orphan \subseteq {"critical", "yield"} /\ late \subseteq Task

\* The hand-over of control loses nobody: once no yield is half done, the
\* thread of the current task executes or has been told to, however yields of
\* tasks and of the tick thread interleave.  It excludes a task that got no
\* context, a Windows thread created after the start, and a dead thread's lock.
HandOver ==
    /\ running /\ orphan = {}
    /\ tick \notin {"yield", "pass"} /\ (\A t \in Task : pc[t] \notin {"yield", "pass"})
    => \/ current \notin used \/ current \in late
       \/ Executing(current)
       \/ suspend[current] = 0 /\ waits[current] \in signal

\* Tasks are simulated one at a time: only the thread of s_running_ctx
\* executes.  On POSIX this is so until a tick first preempts a thread.
OneExecutes ==
    running /\ ~preempted => \A t \in Task : Executing(t) => t = running_ctx

\* The thread that stops the scheduler was suspended by a tick that had found
\* s_scheduler_running set, or was deleted, before it signalled the exit, and
\* no yield is under way that could resume it.
Stranded ==
    \/ \E t \in Task : pc[t] = "cut"
    \/ /\ \E t \in Task : pc[t] = "stopping" /\ suspend[t] > 0
       /\ tick # "pass" /\ \A t \in Task : pc[t] = "pass" => ~Executing(t)

\* sertos_scheduler_stop ends the scheduler: sertos_scheduler_start returns,
\* unless a thread died, or is joined for ever, with a lock that this needs, or
\* the thread that stops is stranded between clearing s_scheduler_running and
\* its signal.
StopReturns == main = "wait" /\ ~running ~> main = "done" \/ orphan # {} \/ Stranded \/ Shared
=============================================================================
