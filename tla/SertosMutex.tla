----------------------------- MODULE SertosMutex -----------------------------
(***************************************************************************)
(* Recursive mutexes with priority inheritance on top of the scheduler.    *)
(* Every wait list of the scheduler is that of one mutex.                  *)
(*                                                                         *)
(* sertos_mutex_lock boosts the owner in one critical section, blocks in   *)
(* another and, when its wait returned OK, writes the owner once more with *)
(* interrupts enabled.  unlock already made the first waiter the owner.    *)
(***************************************************************************)
EXTENDS SertosScheduler

CONSTANTS
    MaxRecursion,   \* bound on recursive locking
    Timeouts,       \* the timeouts of the application's locks
    MutexCalls      \* the calls the application makes: a subset of MutexApi

MutexApi == {"lock", "unlock", "delete"}

ASSUME MutexAssumption ==
    /\ MaxRecursion \in Nat \ {0}
    /\ Timeouts \subseteq 0 .. Forever
    /\ MutexCalls \subseteq MutexApi

VARIABLES
    owner,          \* handle->owner
    lock_count,     \* handle->lock_count
    original,       \* handle->original_owner_priority
    valid,          \* handle->magic = SERTOS_MUTEX_MAGIC_WORD
    locking,        \* the blocking lock a task is in, from its call to its return
    depth,          \* history: locks a task was granted and has not released
    lapsed          \* history: tasks whose mutex was released or deleted between
                    \* the test of their lock call and its wait

handle_vars == <<owner, lock_count, original, valid>>
mutex_vars == <<handle_vars, locking, depth, lapsed>>

NoLock == [mutex |-> None, timeout |-> 0]

\* Every variable stays in its type: a lock count never leaves 0 .. MaxRecursion.
MutexTypeOK ==
    /\ TypeOK
    /\ owner \in [WaitList -> Task \cup {None}]
    /\ lock_count \in [WaitList -> 0 .. MaxRecursion]
    /\ original \in [WaitList -> Priority]
    /\ valid \in [WaitList -> BOOLEAN]
    /\ locking \in [Task -> {NoLock} \cup [mutex : WaitList, timeout : 1 .. Forever]]
    /\ depth \in [WaitList -> [Task -> 0 .. MaxRecursion]]
    /\ lapsed \subseteq Task

\* main creates the mutexes before it starts the scheduler.
MutexInit ==
    /\ Init
    /\ owner = [w \in WaitList |-> None]
    /\ lock_count = [w \in WaitList |-> 0]
    /\ original = [w \in WaitList |-> 0]
    /\ valid = [w \in WaitList |-> TRUE]
    /\ locking = [t \in Task |-> NoLock]
    /\ depth = [w \in WaitList |-> [t \in Task |-> 0]]
    /\ lapsed = {}

\* Task t is in the application and calls a service of mutex w.  The test of
\* the magic word, with interrupts enabled, and the critical section after it
\* are one step here: a call that goes on with a mutex deleted in between is
\* left out.  Mutexes are not created again, MutualExclusion is about those that
\* exist, and such a caller, too, boosts the owner it would wait for.
AtMutex(t, w, call) ==
    /\ call \in MutexCalls
    /\ AtUser(t)
    /\ locking[t] = NoLock
    /\ valid[w]

\* The active priority of u becomes p; only a READY task changes queues.
change_priority(kern, u, p) ==
    IF kern.priority[u] = p
    THEN kern
    ELSE IF kern.state[u] = "READY"
    THEN add_ready([remove_ready(kern, u) EXCEPT !.priority[u] = p], u)
    ELSE [kern EXCEPT !.priority[u] = p]

\* A mutant: an owner that is blocked is not boosted.
inherit_if_ready(kern, w, t) ==
    IF kern.state[owner[w]] = "READY"
    THEN change_priority(kern, owner[w], Max({kern.priority[t], kern.priority[owner[w]]}))
    ELSE kern

apply_priority_inheritance(kern, w, t) ==
    change_priority(kern, owner[w], Max({kern.priority[t], kern.priority[owner[w]]}))

restore_owner_priority(kern, w) == change_priority(kern, owner[w], original[w])

\* The history: task t was granted mutex w.
Granted(t, w) == depth' = [depth EXCEPT ![w][t] = @ + 1]

\* The history: task t released mutex w, which it may own without being told.
Released(t, w) == depth' = [depth EXCEPT ![w][t] = Max({0, @ - 1})]

\* The history: what the tasks about to wait for mutex w have seen is out of date.
Outdated(w) ==
    lapsed' = lapsed \cup {u \in Task : locking[u].mutex = w /\ pc[u] = "user"}

-----------------------------------------------------------------------------
(* sertos_mutex_lock.                                                      *)

\* A mutant: the owner is not looked at.
LockFreeBlind(t, w) ==
    /\ AtMutex(t, w, "lock")
    /\ owner[w] # t
    /\ owner' = [owner EXCEPT ![w] = t]
    /\ lock_count' = [lock_count EXCEPT ![w] = 1]
    /\ original' = [original EXCEPT ![w] = k.priority[t]]
    /\ Granted(t, w)
    /\ UNCHANGED <<vars, valid, locking, lapsed>>

LockFree(t, w) ==
    /\ AtMutex(t, w, "lock")
    /\ owner[w] = None
    /\ owner' = [owner EXCEPT ![w] = t]
    /\ lock_count' = [lock_count EXCEPT ![w] = 1]
    /\ original' = [original EXCEPT ![w] = k.priority[t]]
    /\ Granted(t, w)
    /\ UNCHANGED <<vars, valid, locking, lapsed>>

LockAgain(t, w) ==
    /\ AtMutex(t, w, "lock")
    /\ owner[w] = t
    /\ lock_count[w] < MaxRecursion
    /\ lock_count' = [lock_count EXCEPT ![w] = @ + 1]
    /\ Granted(t, w)
    /\ UNCHANGED <<vars, owner, original, valid, locking, lapsed>>

\* Another task owns the mutex.  With SERTOS_NO_WAIT the call returns, and
\* the owner stays boosted.
LockMiss(t, w, n) ==
    /\ AtMutex(t, w, "lock")
    /\ MayBlock
    /\ owner[w] \notin {None, t}
    /\ k' = apply_priority_inheritance(k, w, t)
    /\ locking' = [locking EXCEPT ![t] = IF n = 0 THEN NoLock ELSE [mutex |-> w, timeout |-> n]]
    /\ lapsed' = lapsed \ {t}
    /\ UNCHANGED <<current, is_running, lock_vars, pendsv, tick_vars, pc, wait_vars,
                   handle_vars, depth>>

LockBlock(t) ==
    /\ Executing(t)
    /\ pc[t] = "user"
    /\ locking[t] # NoLock
    /\ WaitListBlock(t, locking[t].mutex, locking[t].timeout)
    /\ UNCHANGED <<current, is_running, lock_vars, pendsv, tick_vars, mutex_vars>>

\* The wait is over; a task that is told OK writes itself as the owner.
LockReturn(t) ==
    LET w == locking[t].mutex
    IN  /\ WaitReturn(t)
        /\ locking' = [locking EXCEPT ![t] = NoLock]
        /\ IF wait_list_status(t) = "OK"
           THEN /\ owner' = [owner EXCEPT ![w] = t]
                /\ lock_count' = [lock_count EXCEPT ![w] = 1]
                /\ original' = [original EXCEPT ![w] = k.base_priority[t]]
                /\ Granted(t, w)
           ELSE UNCHANGED <<owner, lock_count, original, depth>>
        /\ UNCHANGED <<valid, lapsed>>

-----------------------------------------------------------------------------
(* sertos_mutex_unlock, sertos_mutex_delete.                               *)

\* A mutant: the count is not looked at.
UnlockInnerUnguarded(t, w) ==
    /\ AtMutex(t, w, "unlock")
    /\ owner[w] = t
    /\ lock_count' = [lock_count EXCEPT ![w] = @ - 1]
    /\ Released(t, w)
    /\ UNCHANGED <<vars, owner, original, valid, locking, lapsed>>

\* The owner releases one of several locks.
UnlockInner(t, w) ==
    /\ AtMutex(t, w, "unlock")
    /\ owner[w] = t
    /\ lock_count[w] > 1
    /\ lock_count' = [lock_count EXCEPT ![w] = @ - 1]
    /\ Released(t, w)
    /\ UNCHANGED <<vars, owner, original, valid, locking, lapsed>>

\* The owner releases its last lock: its priority is restored and the first
\* waiter, if there is one, becomes the owner.
UnlockOuter(t, w) ==
    LET r == restore_owner_priority(k, w)
        u == highest_waiter(r, w)
    IN  /\ AtMutex(t, w, "unlock")
        /\ owner[w] = t
        /\ lock_count[w] = 1
        /\ k' = unblock_highest(r, w)
        /\ RecordEvent(u)
        /\ owner' = [owner EXCEPT ![w] = u]
        /\ lock_count' = [lock_count EXCEPT ![w] = IF u = None THEN 0 ELSE 1]
        /\ original' = [original EXCEPT ![w] = IF u = None THEN @ ELSE k.base_priority[u]]
        /\ Released(t, w)
        /\ Outdated(w)
        /\ Goto(t, "reschedule")
        /\ UNCHANGED <<current, is_running, lock_vars, pendsv, tick_vars, timeout, valid, locking>>

\* The owner's priority is restored and every waiter is woken.
DeleteMutex(t, w) ==
    LET r == IF owner[w] = None THEN k ELSE restore_owner_priority(k, w)
        woke == ToSet(r.waiters[w])
    IN  /\ AtMutex(t, w, "delete")
        /\ valid' = [valid EXCEPT ![w] = FALSE]
        /\ k' = unblock_all(r, w)
        /\ woken' = [u \in Task |-> IF u \in woke THEN "deleted" ELSE woken[u]]
        /\ deadline' = [u \in Task |-> IF u \in woke THEN 0 ELSE deadline[u]]
        /\ Outdated(w)
        /\ Goto(t, "reschedule")
        /\ UNCHANGED <<current, is_running, lock_vars, pendsv, tick_vars, timeout,
                       owner, lock_count, original, locking, depth>>

-----------------------------------------------------------------------------
MutexNext ==
    \/ SystemStep /\ UNCHANGED mutex_vars
    \/ \E t \in Task :
        \/ KernelStep(t) /\ UNCHANGED mutex_vars
        \/ locking[t] = NoLock /\ CallStep(t) /\ UNCHANGED mutex_vars
        \/ LockBlock(t)
        \/ LockReturn(t)
        \/ \E w \in WaitList :
            \/ LockFree(t, w)
            \/ LockAgain(t, w)
            \/ \E n \in Timeouts : LockMiss(t, w, n)
            \/ UnlockInner(t, w)
            \/ UnlockOuter(t, w)
            \/ DeleteMutex(t, w)

MutexSpec == MutexInit /\ [][MutexNext]_<<vars, mutex_vars>>

-----------------------------------------------------------------------------
(***************************************************************************)
(* Safety.                                                                 *)
(***************************************************************************)

\* No two tasks hold a mutex that exists: through hand-over at unlock,
\* recursive locks, timeouts, and preemption at every point of a lock call.
MutualExclusion ==
    \A w \in WaitList, t, u \in Task :
        valid[w] /\ depth[w][t] > 0 /\ depth[w][u] > 0 => t = u

\* "that owner's active priority is boosted to the caller's priority until the
\* lock is released": nobody waits for a mutex whose owner has a lower priority,
\* through hand-over, recursion and the timeouts of other waiters.  The lock is
\* free for others between the test of a lock call and its wait, and whoever
\* takes it there is not boosted for the caller.
OwnerBoosted ==
    k.fault = {} =>
        \A w \in WaitList, t \in Task \ lapsed :
            Contains(k.waiters[w], t) /\ owner[w] # None
                => k.priority[owner[w]] >= k.priority[t]
=============================================================================
