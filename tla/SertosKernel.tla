---------------------------- MODULE SertosKernel ----------------------------
(***************************************************************************)
(* The data every SertOS service edits inside a critical section: the      *)
(* control blocks of the tasks, one FIFO ready queue per priority with its *)
(* bitmap, the delay list and the wait lists of the synchronisation        *)
(* objects.  The whole of it is one record, and every kernel routine that  *)
(* edits it is an operator from such a record to the next one, so that a   *)
(* service is the composition of the routines it calls.                    *)
(*                                                                         *)
(* Lists are sequences of tasks, head first.  A task has one state_node    *)
(* (ready queues and delay list) and one event_node (wait lists), so the   *)
(* intrusive list library is misused when a linked node is inserted again  *)
(* or a node is removed through a list it is not on: the counters of the   *)
(* lists are then wrong and what follows is undefined.  Such a step adds   *)
(* the task to fault, and the specifications take no step after it.        *)
(***************************************************************************)
EXTENDS Integers, Sequences, FiniteSets, SequencesExt

CONSTANTS
    Task,           \* every task control block, the idle task's included
    Idle,           \* s_idle_tcb
    WaitList,       \* the wait lists of the synchronisation objects
    MaxPriorities,  \* SERTOS_CONFIG_MAX_PRIORITIES
    MaxDelay,       \* the longest finite delay or timeout, in ticks
    None            \* NULL

Priority == 0 .. MaxPriorities - 1

\* SERTOS_WAIT_FOREVER is the largest value of the tick type.
Forever == MaxDelay + 1

ASSUME KernelAssumption ==
    /\ Idle \in Task
    /\ IsFiniteSet(Task)
    /\ None \notin Task
    /\ None \notin WaitList
    /\ MaxPriorities \in Nat \ {0}
    /\ MaxDelay \in Nat \ {0}

\* SertosTaskState; a control block that was never initialised is ABSENT.
TaskState == {"ABSENT", "READY", "RUNNING", "BLOCKED", "SUSPENDED", "TERMINATED"}

\* The states of a task whose state_node is on a ready queue.
Runnable == {"READY", "RUNNING"}

Kernel ==
    [ state         : [Task -> TaskState],
      priority      : [Task -> Priority],
      base_priority : [Task -> Priority],
      delay_ticks   : [Task -> 0 .. MaxDelay],
      wait_list     : [Task -> WaitList \cup {None}],
      registry      : SUBSET Task,
      ready         : [Priority -> Seq(Task)],
      bitmap        : SUBSET Priority,
      delay         : Seq(Task),
      waiters       : [WaitList -> Seq(Task)],
      fault         : SUBSET Task ]

\* Is the state_node of t on a list of the scheduler?
StateLinked(k, t) ==
    \/ \E p \in Priority : Contains(k.ready[p], t)
    \/ Contains(k.delay, t)

\* Is the event_node of t on a wait list?
EventLinked(k, t) == \E w \in WaitList : Contains(k.waiters[w], t)

(***************************************************************************)
(* linked_list_remove_direct on a state_node: it unlinks the node from its *)
(* neighbours, whichever list they are on.                                 *)
(***************************************************************************)
Unlinked(k, t) ==
    [k EXCEPT !.ready = [p \in Priority |-> RemoveFirst(k.ready[p], t)],
              !.delay = RemoveFirst(k.delay, t)]

-----------------------------------------------------------------------------
(* Ready queues.                                                           *)

(* A mutant: the bit of the priority is not set.                           *)
add_ready_no_bit(k, t) ==
    [k EXCEPT !.ready[k.priority[t]] = Append(@, t),
              !.state[t] = "READY",
              !.fault = IF StateLinked(k, t) THEN @ \cup {t} ELSE @]

add_ready(k, t) ==
    [k EXCEPT !.ready[k.priority[t]] = Append(@, t),
              !.bitmap = @ \cup {k.priority[t]},
              !.state[t] = "READY",
              !.fault = IF StateLinked(k, t) THEN @ \cup {t} ELSE @]

(* A mutant: the bit is left set when the queue empties.                   *)
remove_ready_keep_bit(k, t) ==
    IF Contains(k.ready[k.priority[t]], t)
    THEN [k EXCEPT !.ready[k.priority[t]] = RemoveFirst(@, t)]
    ELSE [Unlinked(k, t) EXCEPT !.fault = IF StateLinked(k, t) THEN @ \cup {t} ELSE @]

(***************************************************************************)
(* A node with NULL links is left alone; a node on another list than the   *)
(* ready queue of its task's priority is a misuse.                         *)
(***************************************************************************)
remove_ready(k, t) ==
    LET p == k.priority[t]
        q == RemoveFirst(k.ready[p], t)
    IN  IF Contains(k.ready[p], t)
        THEN [k EXCEPT !.ready[p] = q,
                       !.bitmap = IF q = <<>> THEN @ \ {p} ELSE @]
        ELSE [Unlinked(k, t) EXCEPT !.fault = IF StateLinked(k, t) THEN @ \cup {t} ELSE @]

\* A mutant: bitmap_find_first_set instead of bitmap_find_last_set.
select_lowest(k) ==
    IF k.bitmap = {} \/ k.ready[Min(k.bitmap)] = <<>>
    THEN None
    ELSE Head(k.ready[Min(k.bitmap)])

\* The head of the ready queue of the highest bit set.
select_next_task(k) ==
    IF k.bitmap = {} \/ k.ready[Max(k.bitmap)] = <<>>
    THEN None
    ELSE Head(k.ready[Max(k.bitmap)])

(* A mutant: a queue of two tasks is not rotated.                          *)
rotate_three(k, cur) ==
    LET p == k.priority[cur]
    IN  IF Len(k.ready[p]) > 2
        THEN [Unlinked(k, cur) EXCEPT !.ready[p] = Append(@, cur)]
        ELSE k

(***************************************************************************)
(* The round-robin rotation: the node of the current task goes to the tail *)
(* of the queue of its priority when that queue holds several tasks,       *)
(* whether or not the current task is on it.                               *)
(***************************************************************************)
rotate(k, cur) ==
    LET p == k.priority[cur]
    IN  IF Len(k.ready[p]) > 1
        THEN [Unlinked(k, cur) EXCEPT
                !.ready[p] = Append(@, cur),
                !.fault = IF Contains(k.ready[p], cur) THEN @ ELSE @ \cup {cur}]
        ELSE k

-----------------------------------------------------------------------------
(* Task creation: init_tcb_and_stack, then add_ready and register_task in  *)
(* one critical section.                                                   *)

create_static(k, t, p) ==
    [add_ready([k EXCEPT !.priority[t] = p,
                         !.base_priority[t] = p,
                         !.delay_ticks[t] = 0,
                         !.wait_list[t] = None], t)
        EXCEPT !.registry = @ \cup {t}]

-----------------------------------------------------------------------------
(* Blocking and waking.                                                    *)

\* A mutant: the tick under way is counted as the first one.
block_on_delay_early(k, t, n) ==
    LET r == remove_ready(k, t)
    IN  [r EXCEPT !.state[t] = "BLOCKED",
                  !.delay_ticks[t] = IF n > 1 THEN n - 1 ELSE n,
                  !.delay = Append(@, t)]

\* sertos_scheduler_delay, its critical section.
block_on_delay(k, t, n) ==
    LET r == remove_ready(k, t)
    IN  [r EXCEPT !.state[t] = "BLOCKED",
                  !.delay_ticks[t] = n,
                  !.delay = Append(@, t)]

\* A mutant: the comparison of the priorities is the wrong way round.
insert_wait_list_reversed(k, w, t) ==
    LET q == k.waiters[w]
        i == SelectInSeq(q, LAMBDA u : k.priority[t] < k.priority[u])
    IN  [k EXCEPT !.waiters[w] = IF i = 0 THEN Append(q, t) ELSE InsertAt(q, i, t),
                  !.fault = IF EventLinked(k, t) THEN @ \cup {t} ELSE @]

\* The waiter goes before the first waiter of strictly lower priority.
insert_wait_list_priority(k, w, t) ==
    LET q == k.waiters[w]
        i == SelectInSeq(q, LAMBDA u : k.priority[t] > k.priority[u])
    IN  [k EXCEPT !.waiters[w] = IF i = 0 THEN Append(q, t) ELSE InsertAt(q, i, t),
                  !.fault = IF EventLinked(k, t) THEN @ \cup {t} ELSE @]

(* sertos_scheduler_wait_list_block, its critical section.                 *)
block_on_wait_list(k, t, w, n) ==
    LET r == insert_wait_list_priority(
                 [remove_ready(k, t) EXCEPT !.state[t] = "BLOCKED",
                                            !.wait_list[t] = w], w, t)
    IN  IF n # Forever
        THEN [r EXCEPT !.delay_ticks[t] = n, !.delay = Append(@, t)]
        ELSE [r EXCEPT !.delay_ticks[t] = 0]

\* A task is on the wait list its wait_list names, or its event_node is NULL.
wait_list_remove(k, w, t) ==
    [k EXCEPT !.waiters[w] = RemoveFirst(@, t)]

\* A mutant: the timeout of the waiter is left armed.
unblock_keep_timeout(k, w) ==
    IF k.waiters[w] = <<>>
    THEN k
    ELSE LET t == Head(k.waiters[w])
         IN  add_ready([wait_list_remove(k, w, t) EXCEPT !.wait_list[t] = None], t)

(* The head of the wait list is taken off it, off the delay list if it     *)
(* waits with a timeout, and made ready.                                   *)
unblock_highest(k, w) ==
    IF k.waiters[w] = <<>>
    THEN k
    ELSE LET t == Head(k.waiters[w])
             r == [wait_list_remove(k, w, t) EXCEPT !.wait_list[t] = None]
         IN  IF k.delay_ticks[t] > 0
             THEN add_ready([Unlinked(r, t) EXCEPT
                                !.delay_ticks[t] = 0,
                                !.fault = IF Contains(k.delay, t) THEN @ ELSE @ \cup {t}], t)
             ELSE add_ready(r, t)

\* The loop of the delete and reset services: every waiter is woken, in the
\* order of the list.
unblock_all(k, w) ==
    LET n == Len(k.waiters[w])
        woke[i \in 0 .. n] == IF i = 0 THEN k ELSE unblock_highest(woke[i - 1], w)
    IN  woke[n]

\* The task unblock_highest returns.
highest_waiter(k, w) ==
    IF k.waiters[w] = <<>> THEN None ELSE Head(k.waiters[w])

(* The body of the loop of process_delayed_tasks.                          *)
delayed_task_tick(k, t) ==
    IF k.delay_ticks[t] > 1
    THEN [k EXCEPT !.delay_ticks[t] = @ - 1]
    ELSE LET w == k.wait_list[t]
             r == [k EXCEPT !.delay_ticks[t] = 0, !.delay = RemoveFirst(@, t)]
         IN  IF w = None
             THEN add_ready(r, t)
             ELSE add_ready([wait_list_remove(r, w, t) EXCEPT !.wait_list[t] = None], t)

-----------------------------------------------------------------------------
(* A mutant: the task that loses the CPU is left RUNNING.                  *)
perform_switch_keep_prev(k, prev, next) == [k EXCEPT !.state[next] = "RUNNING"]

(***************************************************************************)
(* perform_switch: the head of the highest ready queue becomes RUNNING, a  *)
(* task that was still RUNNING goes back to READY.  It stays queued.       *)
(***************************************************************************)
perform_switch(k, prev, next) ==
    [k EXCEPT !.state =
        [t \in Task |->
            IF t = next THEN "RUNNING"
            ELSE IF t = prev /\ k.state[t] = "RUNNING" THEN "READY"
            ELSE k.state[t]]]

\* The kernel as sertos_scheduler_init leaves it: the idle task only.
InitKernel ==
    create_static(
        [ state         |-> [t \in Task |-> "ABSENT"],
          priority      |-> [t \in Task |-> 0],
          base_priority |-> [t \in Task |-> 0],
          delay_ticks   |-> [t \in Task |-> 0],
          wait_list     |-> [t \in Task |-> None],
          registry      |-> {},
          ready         |-> [p \in Priority |-> <<>>],
          bitmap        |-> {},
          delay         |-> <<>>,
          waiters       |-> [w \in WaitList |-> <<>>],
          fault         |-> {} ], Idle, 0)

-----------------------------------------------------------------------------
(***************************************************************************)
(* What the record satisfies when no list was misused.                     *)
(***************************************************************************)

\* No list holds a task twice.
ListsInjective(k) ==
    /\ \A p \in Priority : IsInjective(k.ready[p])
    /\ IsInjective(k.delay)
    /\ \A w \in WaitList : IsInjective(k.waiters[w])

\* A task is on a ready queue iff it is runnable, and on that of its priority.
ReadyQueuesConsistent(k) ==
    \A t \in Task, p \in Priority :
        Contains(k.ready[p], t) <=> (p = k.priority[t] /\ k.state[t] \in Runnable)

\* The bitmap holds the priorities whose queue is not empty.
BitmapConsistent(k) ==
    \A p \in Priority : p \in k.bitmap <=> k.ready[p] # <<>>

\* A task is on the delay list iff a countdown runs for it.
DelayListConsistent(k) ==
    \A t \in Task : /\ Contains(k.delay, t) <=> k.delay_ticks[t] > 0
                    /\ k.delay_ticks[t] > 0 => k.state[t] = "BLOCKED"

\* A task is on the wait list its control block names and on no other.
WaitListsConsistent(k) ==
    \A t \in Task :
        /\ \A w \in WaitList : Contains(k.waiters[w], t) <=> k.wait_list[t] = w
        /\ k.wait_list[t] # None => k.state[t] = "BLOCKED"

\* A blocked task has something that can wake it.
BlockedCanWake(k) ==
    \A t \in Task :
        k.state[t] = "BLOCKED" => k.delay_ticks[t] > 0 \/ k.wait_list[t] # None

KernelConsistent(k) ==
    /\ ListsInjective(k)
    /\ ReadyQueuesConsistent(k)
    /\ BitmapConsistent(k)
    /\ DelayListConsistent(k)
    /\ WaitListsConsistent(k)
    /\ BlockedCanWake(k)

\* The head of a wait list is one of its waiters of highest priority.
WaitersSorted(k) ==
    \A w \in WaitList :
        IsSorted(k.waiters[w], LAMBDA a, b : k.priority[a] >= k.priority[b])
=============================================================================
