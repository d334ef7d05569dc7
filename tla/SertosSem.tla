------------------------------ MODULE SertosSem ------------------------------
(***************************************************************************)
(* Counting and binary semaphores on top of the scheduler.  Every wait     *)
(* list of the scheduler is that of one semaphore.                         *)
(*                                                                         *)
(* A service tests the magic word first, with interrupts enabled, and then *)
(* enters its critical section: the two are steps of their own, and a task *)
(* that is past the test goes on with a semaphore that was deleted in      *)
(* between (statically allocated: the storage is still there).             *)
(*                                                                         *)
(* sertos_sem_take looks at the count in one critical section and blocks   *)
(* in another, that of wait_list_block.  Between the two the task has its  *)
(* pc at "user" and a pending take, and anything may happen.               *)
(***************************************************************************)
EXTENDS SertosScheduler

CONSTANTS
    MaxCount,     \* max_count of every semaphore
    InitCount,    \* initial_count
    SemCalls      \* the calls the application makes: a subset of SemApi

SemApi == {"take", "give", "give_from_isr", "delete", "create"}

ASSUME SemAssumption ==
    /\ MaxCount \in Nat \ {0}
    /\ InitCount \in 0 .. MaxCount
    /\ SemCalls \subseteq SemApi

VARIABLES
    count,        \* handle->count
    alive,        \* handle->magic = SERTOS_SEM_MAGIC_WORD
    entry,        \* the call a task has made: past the magic test, before
                  \* the critical section
    take          \* the blocking take a task is in, from its critical
                  \* section to its return

sem_vars == <<count, alive, entry, take>>
all_vars == <<vars, sem_vars>>

NoEntry == [op |-> "none", sem |-> None]
NoTake == [sem |-> None, timeout |-> 0]

\* The services that task code enters through the magic test.
EntryOp == {"take", "give", "delete"}

\* Every variable stays in its type: no semaphore has more than max_count tokens.
SemTypeOK ==
    /\ TypeOK
    /\ count \in [WaitList -> 0 .. MaxCount]
    /\ alive \in [WaitList -> BOOLEAN]
    /\ entry \in [Task -> {NoEntry} \cup [op : EntryOp, sem : WaitList]]
    /\ take \in [Task -> {NoTake} \cup [sem : WaitList, timeout : 1 .. Forever]]

\* main creates the semaphores before it starts the scheduler.
SemInit ==
    /\ Init
    /\ count = [w \in WaitList |-> InitCount]
    /\ alive = [w \in WaitList |-> TRUE]
    /\ entry = [t \in Task |-> NoEntry]
    /\ take = [t \in Task |-> NoTake]

\* Task t is in no call of a semaphore.
Free(t) == entry[t] = NoEntry /\ take[t] = NoTake

\* Task t is in the application and calls a service of semaphore w, which
\* finds the magic word.
EnterSem(t, w, op) ==
    /\ op \in SemCalls
    /\ AtUser(t)
    /\ Free(t)
    /\ alive[w]
    /\ entry' = [entry EXCEPT ![t] = [op |-> op, sem |-> w]]
    /\ UNCHANGED <<vars, count, alive, take>>

\* Task t comes to the critical section of its call, whatever became of
\* semaphore w since the test; the call is over after it, or waits.
AtSem(t, w, op) ==
    /\ Executing(t)
    /\ pc[t] = "user"
    /\ entry[t] = [op |-> op, sem |-> w]
    /\ entry' = [entry EXCEPT ![t] = NoEntry]

-----------------------------------------------------------------------------
(* sertos_sem_take.                                                        *)

\* A token is there.
TakeToken(t, w) ==
    /\ AtSem(t, w, "take")
    /\ count[w] > 0
    /\ count' = [count EXCEPT ![w] = @ - 1]
    /\ UNCHANGED <<vars, alive, take>>

\* There is none, and with SERTOS_NO_WAIT the call returns.
TakeFail(t, w) ==
    /\ AtSem(t, w, "take")
    /\ count[w] = 0
    /\ UNCHANGED <<vars, count, alive, take>>

\* There is none, and the caller is ready to wait.
TakeMiss(t, w, n) ==
    /\ AtSem(t, w, "take")
    /\ MayBlock
    /\ count[w] = 0
    /\ take' = [take EXCEPT ![t] = [sem |-> w, timeout |-> n]]
    /\ UNCHANGED <<vars, count, alive>>

\* The caller blocks, whatever happened to the semaphore in between.
TakeBlock(t) ==
    /\ Executing(t)
    /\ pc[t] = "user"
    /\ take[t] # NoTake
    /\ WaitListBlock(t, take[t].sem, take[t].timeout)
    /\ UNCHANGED <<current, is_running, lock_vars, pendsv, tick_vars, sem_vars>>

\* The take returns the status of wait_list_block.
TakeReturn(t) ==
    /\ WaitReturn(t)
    /\ take' = [take EXCEPT ![t] = NoTake]
    /\ UNCHANGED <<count, alive, entry>>

-----------------------------------------------------------------------------
(* sertos_sem_give, sertos_sem_give_from_isr.                              *)

\* A mutant: the token of a waiter is counted too.
give_token_twice(w) ==
    /\ k' = unblock_highest(k, w)
    /\ RecordEvent(highest_waiter(k, w))
    /\ count[w] < MaxCount
    /\ count' = [count EXCEPT ![w] = @ + 1]
    /\ UNCHANGED <<alive, take>>

\* A mutant: max_count is not looked at.
give_token_unbounded(w) ==
    /\ k' = unblock_highest(k, w)
    /\ RecordEvent(highest_waiter(k, w))
    /\ count' = [count EXCEPT ![w] = IF k.waiters[w] = <<>> THEN @ + 1 ELSE @]
    /\ UNCHANGED <<alive, take>>

\* The critical section of both: the token goes to the first waiter, or to
\* the count, which is below max_count.
give_token(w) ==
    /\ k' = unblock_highest(k, w)
    /\ RecordEvent(highest_waiter(k, w))
    /\ IF k.waiters[w] # <<>>
       THEN UNCHANGED count
       ELSE count[w] < MaxCount /\ count' = [count EXCEPT ![w] = @ + 1]
    /\ UNCHANGED <<alive, take>>

\* A mutant: the task that was woken does not preempt its waker.
GiveNoPreempt(t, w) ==
    /\ AtSem(t, w, "give")
    /\ give_token(w)
    /\ UNCHANGED <<current, is_running, lock_vars, pendsv, tick_vars, timeout, pc>>

Give(t, w) ==
    /\ AtSem(t, w, "give")
    /\ give_token(w)
    /\ IF k.waiters[w] # <<>> THEN Goto(t, "reschedule") ELSE UNCHANGED pc
    /\ UNCHANGED <<current, is_running, lock_vars, pendsv, tick_vars, timeout>>

\* Nobody waits and the semaphore is full: the call fails.
GiveFail(t, w) ==
    /\ AtSem(t, w, "give")
    /\ k.waiters[w] = <<>>
    /\ count[w] = MaxCount
    /\ UNCHANGED <<vars, count, alive, take>>

\* A handler is not interrupted by tasks: test and critical section are one
\* step.  It switches when it is told that a task of higher priority woke.
GiveFromIsr(w) ==
    LET u == highest_waiter(k, w)
    IN  /\ "give_from_isr" \in SemCalls
        /\ Interruptible
        /\ alive[w]
        /\ give_token(w)
        /\ IF u # None /\ k.priority[u] > k.priority[current]
           THEN switch_context(unblock_highest(k, w))
           ELSE UNCHANGED <<reschedule_pending, pendsv>>
        /\ UNCHANGED <<current, is_running, lock_nesting, tick_vars, pc, timeout, entry>>

-----------------------------------------------------------------------------
(* sertos_sem_delete, sertos_sem_create_counting_static.                   *)

\* Every waiter is woken, the highest first.
Delete(t, w) ==
    LET woke == ToSet(k.waiters[w])
    IN  /\ AtSem(t, w, "delete")
        /\ alive' = [alive EXCEPT ![w] = FALSE]
        /\ k' = unblock_all(k, w)
        /\ woken' = [u \in Task |-> IF u \in woke THEN "deleted" ELSE woken[u]]
        /\ deadline' = [u \in Task |-> IF u \in woke THEN 0 ELSE deadline[u]]
        /\ Goto(t, "reschedule")
        /\ UNCHANGED <<current, is_running, lock_vars, pendsv, tick_vars, timeout, count, take>>

\* The application initialises a deleted semaphore that nobody uses.
SemCreate(t, w) ==
    /\ "create" \in SemCalls
    /\ AtUser(t)
    /\ Free(t)
    /\ ~alive[w]
    /\ \A u \in Task : entry[u].sem # w /\ take[u].sem # w
    /\ count' = [count EXCEPT ![w] = InitCount]
    /\ alive' = [alive EXCEPT ![w] = TRUE]
    /\ UNCHANGED <<vars, entry, take>>

-----------------------------------------------------------------------------
SemNext ==
    \/ SystemStep /\ UNCHANGED sem_vars
    \/ \E w \in WaitList : GiveFromIsr(w)
    \/ \E t \in Task :
        \/ KernelStep(t) /\ UNCHANGED sem_vars
        \/ Free(t) /\ CallStep(t) /\ UNCHANGED sem_vars
        \/ TakeBlock(t)
        \/ TakeReturn(t)
        \/ \E w \in WaitList :
            \/ \E op \in EntryOp : EnterSem(t, w, op)
            \/ TakeToken(t, w)
            \/ TakeFail(t, w)
            \/ \E n \in 1 .. Forever : TakeMiss(t, w, n)
            \/ Give(t, w)
            \/ GiveFail(t, w)
            \/ Delete(t, w)
            \/ SemCreate(t, w)

SemSpec == SemInit /\ [][SemNext]_all_vars

-----------------------------------------------------------------------------
(***************************************************************************)
(* Safety.                                                                 *)
(***************************************************************************)

\* Where the call of task t is.
TakePhase(t) ==
    IF entry[t] # NoEntry THEN entry[t].op
    ELSE IF take[t] = NoTake THEN "out"
    ELSE IF pc[t] = "user" THEN "asked"
    ELSE CASE woken[t] = "no" -> "asked"
           [] woken[t] = "event" -> "granted"
           [] woken[t] = "timeout" -> "expired"
           [] woken[t] = "deleted" -> "cancelled"

\* The semaphore it is for.
TakeTarget(t) == IF entry[t] # NoEntry THEN entry[t].sem ELSE take[t].sem

Abstract ==
    INSTANCE Semaphore WITH Client <- Task, Sem <- WaitList, NoSem <- None,
                            avail <- count,
                            target <- [t \in Task |-> TakeTarget(t)],
                            phase <- [t \in Task |-> TakePhase(t)]

\* A semaphore is one: no token is granted twice, none appears or vanishes,
\* and only calls that found the semaphore alive move one, through preemption
\* between the magic test, the critical section and the wait of a call,
\* timeouts that race gives, gives from interrupts, deletion and re-creation.
SemImplements == Abstract!SSpec

\* After the wake-ups of gives and deletions, too, the head of the highest
\* ready queue executes and the lists agree.
SemScheduling == HighestPriorityRuns /\ NoFault /\ ListsConsistent

\* "Acquires (decrements) a semaphore token, blocking if unavailable": no task
\* is blocked on a semaphore that has a token.
BlocksOnlyIfUnavailable ==
    \A w \in WaitList : k.waiters[w] # <<>> => count[w] = 0
=============================================================================
