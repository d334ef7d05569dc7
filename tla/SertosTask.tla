------------------------------ MODULE SertosTask ------------------------------
(***************************************************************************)
(* The life cycle of tasks: suspend, resume, delete and set_priority, on   *)
(* top of the scheduler.                                                   *)
(*                                                                         *)
(* suspend, resume and delete test the state of their target with          *)
(* interrupts enabled and act on it in a critical section, whatever its    *)
(* state is by then; a task between the two has its pc at "user" and a     *)
(* pending call, and may be preempted.  suspend and delete of the calling  *)
(* task go on with a yield.                                                *)
(*                                                                         *)
(* The critical sections do justice to some states of the target only: a   *)
(* RUNNING task stays on its ready queue, a BLOCKED one on the delay list. *)
(* A call that meets another state is misdirected.  The wait lists stay    *)
(* empty here: the application delays, locks and manages tasks.            *)
(***************************************************************************)
EXTENDS SertosScheduler

CONSTANTS TaskCalls   \* the calls the application makes: a subset of TaskApi

TaskApi == {"suspend", "resume", "delete", "set_priority"}

ASSUME TaskAssumption == TaskCalls \subseteq TaskApi

VARIABLES
    pending,       \* the call a task is in
    suspended,     \* history: the tasks suspended while they were READY, and
                   \* neither resumed nor deleted since
    misdirected    \* history: a call met its target in a state it does not handle

life_vars == <<pending, suspended, misdirected>>
task_vars == <<vars, life_vars>>

NoCall == [call |-> "none", target |-> None]

TaskInit ==
    /\ Init
    /\ pending = [t \in Task |-> NoCall]
    /\ suspended = {}
    /\ misdirected = FALSE

-----------------------------------------------------------------------------
(* s_task_transitions.                                                     *)

Transitions ==
    { <<"READY", "RUNNING">>, <<"RUNNING", "READY">>, <<"RUNNING", "BLOCKED">>,
      <<"BLOCKED", "READY">>, <<"SUSPENDED", "READY">> }
    \cup ({"READY", "RUNNING", "BLOCKED"} \X {"SUSPENDED"})
    \cup ({"READY", "RUNNING", "BLOCKED", "SUSPENDED"} \X {"TERMINATED"})

is_valid_transition(from, to) == <<from, to>> \in Transitions

\* The state each call asks for.
Wanted(call) ==
    CASE call = "suspend" -> "SUSPENDED"
      [] call = "resume" -> "READY"
      [] call = "delete" -> "TERMINATED"

\* The states of its target that each call does justice to.
Handles(call) ==
    CASE call = "suspend" -> {"READY", "SUSPENDED"}
      [] call = "resume" -> {"SUSPENDED"}
      [] call = "delete" -> {"READY", "SUSPENDED"}
      [] call = "set_priority" -> TaskState \ {"RUNNING"}

Aims(u, call) == misdirected' = (misdirected \/ k.state[u] \notin Handles(call))

\* The application of task t calls a service for task u, which was created.
AtTask(t, u, call) ==
    /\ call \in TaskCalls
    /\ AtUser(t)
    /\ pending[t] = NoCall
    /\ u # Idle
    /\ k.state[u] # "ABSENT"

\* The test at the head of suspend, resume and delete.
Check(t, u, call) ==
    /\ AtTask(t, u, call)
    /\ is_valid_transition(k.state[u], Wanted(call))
    /\ pending' = [pending EXCEPT ![t] = [call |-> call, target |-> u]]
    /\ UNCHANGED <<vars, suspended, misdirected>>

\* Task t enters the critical section of its pending call.
Commits(t, call) ==
    /\ Executing(t)
    /\ pc[t] = "user"
    /\ pending[t].call = call

\* A task that is READY leaves its queue; any other one is left where it is.
unqueue(u) == IF k.state[u] = "READY" THEN remove_ready(k, u) ELSE k

\* suspend and delete of the caller yield; other calls return.
YieldIfCurrent(t, u) ==
    pending' = [pending EXCEPT ![t] =
                    IF u = current THEN [call |-> "yield", target |-> None] ELSE NoCall]

\* A mutant: the target stays on its ready queue.
SuspendQueued(t) ==
    LET u == pending[t].target
    IN  /\ Commits(t, "suspend")
        /\ Aims(u, "suspend")
        /\ k' = [k EXCEPT !.state[u] = "SUSPENDED"]
        /\ suspended' = IF k.state[u] = "READY" THEN suspended \cup {u} ELSE suspended
        /\ YieldIfCurrent(t, u)
        /\ UNCHANGED <<current, is_running, lock_vars, pendsv, tick_vars, pc, wait_vars>>

\* sertos_task_suspend, its critical section.
Suspend(t) ==
    LET u == pending[t].target
    IN  /\ Commits(t, "suspend")
        /\ Aims(u, "suspend")
        /\ k' = [unqueue(u) EXCEPT !.state[u] = "SUSPENDED"]
        /\ suspended' = IF k.state[u] = "READY" THEN suspended \cup {u} ELSE suspended
        /\ YieldIfCurrent(t, u)
        /\ UNCHANGED <<current, is_running, lock_vars, pendsv, tick_vars, pc, wait_vars>>

\* A mutant: the caller is not preempted by the task it resumes.
ResumeNoPreempt(t) ==
    LET u == pending[t].target
    IN  /\ Commits(t, "resume")
        /\ Aims(u, "resume")
        /\ k' = add_ready(k, u)
        /\ suspended' = suspended \ {u}
        /\ pending' = [pending EXCEPT ![t] = NoCall]
        /\ UNCHANGED <<current, is_running, lock_vars, pendsv, tick_vars, pc, wait_vars>>

\* sertos_task_resume, its critical section; reschedule follows.
Resume(t) ==
    LET u == pending[t].target
    IN  /\ Commits(t, "resume")
        /\ Aims(u, "resume")
        /\ k' = add_ready(k, u)
        /\ suspended' = suspended \ {u}
        /\ pending' = [pending EXCEPT ![t] = NoCall]
        /\ Goto(t, "reschedule")
        /\ UNCHANGED <<current, is_running, lock_vars, pendsv, tick_vars, wait_vars>>

\* A mutant: the terminated task stays in the registry.
DeleteRegistered(t) ==
    LET u == pending[t].target
    IN  /\ Commits(t, "delete")
        /\ Aims(u, "delete")
        /\ k' = [unqueue(u) EXCEPT !.state[u] = "TERMINATED"]
        /\ suspended' = suspended \ {u}
        /\ YieldIfCurrent(t, u)
        /\ UNCHANGED <<current, is_running, lock_vars, pendsv, tick_vars, pc, wait_vars>>

\* sertos_task_delete of a task with static storage, its critical section.
Delete(t) ==
    LET u == pending[t].target
    IN  /\ Commits(t, "delete")
        /\ Aims(u, "delete")
        /\ k' = [unqueue(u) EXCEPT !.state[u] = "TERMINATED",
                                   !.registry = @ \ {u}]
        /\ suspended' = suspended \ {u}
        /\ YieldIfCurrent(t, u)
        /\ UNCHANGED <<current, is_running, lock_vars, pendsv, tick_vars, pc, wait_vars>>

\* The yield at the end of suspend and delete of the caller.
CallYields(t) ==
    /\ Commits(t, "yield")
    /\ k' = process_time_slicing
    /\ pending' = [pending EXCEPT ![t] = NoCall]
    /\ Goto(t, "switch")
    /\ UNCHANGED <<current, is_running, lock_vars, pendsv, tick_vars, wait_vars,
                   suspended, misdirected>>

\* The critical section of set_priority: a READY task changes queues.
set_priority(kern, u, p) ==
    LET changed(r) == [r EXCEPT !.priority[u] = p, !.base_priority[u] = p]
    IN  IF kern.state[u] = "READY"
        THEN add_ready(changed(remove_ready(kern, u)), u)
        ELSE changed(kern)

\* sertos_task_set_priority: no state is tested; reschedule follows.
SetPriority(t, u, p) ==
    /\ AtTask(t, u, "set_priority")
    /\ Aims(u, "set_priority")
    /\ k' = set_priority(k, u, p)
    /\ Goto(t, "reschedule")
    /\ UNCHANGED <<current, is_running, lock_vars, pendsv, tick_vars, wait_vars,
                   pending, suspended>>

-----------------------------------------------------------------------------
TaskNext ==
    \/ SystemStep /\ UNCHANGED life_vars
    \/ \E t \in Task :
        \/ KernelStep(t) /\ UNCHANGED life_vars
        \/ pending[t] = NoCall /\ CallStep(t) /\ UNCHANGED life_vars
        \/ Suspend(t) \/ Resume(t) \/ Delete(t) \/ CallYields(t)
        \/ \E u \in Task :
            \/ \E call \in {"suspend", "resume", "delete"} : Check(t, u, call)
            \/ \E p \in Priority : SetPriority(t, u, p)

TaskSpec == TaskInit /\ [][TaskNext]_task_vars

-----------------------------------------------------------------------------
(***************************************************************************)
(* Safety.                                                                 *)
(***************************************************************************)

\* As long as no call is misdirected, through preemption between the tests of
\* calls and their critical sections: no call misuses a list or leaves the
\* lists, the bitmap and the control blocks at odds, and the registry holds the
\* tasks that live.
LifeCycleLists ==
    ~misdirected =>
        /\ k.fault = {}
        /\ KernelConsistent(k)
        /\ k.registry = {t \in Task : k.state[t] \notin {"ABSENT", "TERMINATED"}}

\* "Ineligible for scheduling until explicitly resumed via
\* sertos_task_resume()", for a task that was READY when suspend came to its
\* critical section: it is on no ready queue, whatever ticks and other calls
\* do, misdirected ones included, until the first one misuses a list.  (A task
\* that was RUNNING is left on its ready queue and one that was BLOCKED on the
\* delay list: for them the header's sentence fails.)
SuspendedStays ==
    k.fault = {} => \A t \in suspended, p \in Priority : ~Contains(k.ready[p], t)

\* As long as no call is misdirected, application code executes only for a task
\* whose priority no ready task exceeds, through every change of priorities,
\* unless the scheduler is locked.
PriorityRespected ==
    ~misdirected /\ Quiescent /\ lock_nesting = 0 =>
        \A t \in Task : k.state[t] = "READY" => k.priority[t] <= k.priority[current]
=============================================================================
