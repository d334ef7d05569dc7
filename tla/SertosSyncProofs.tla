-------------------------- MODULE SertosSyncProofs --------------------------
(***************************************************************************)
(* The semaphores of SertosSem and the mutexes of SertosMutex, for every   *)
(* number of tasks, objects, tokens, priorities and ticks.                 *)
(*                                                                         *)
(* Semaphores, in a disciplined application: their types, the scheduling   *)
(* behind them, and that they implement Semaphore.  The invariant is       *)
(* SchedInv together with what ties a pending take to the wait list, the   *)
(* program counter and the history of its task.                            *)
(*                                                                         *)
(* Mutexes: their types, mutual exclusion and, for one mutex, priority     *)
(* inheritance.  They change the priorities of their owners, so SchedInv   *)
(* does not hold there; what is left of it is in the second half of this   *)
(* module.                                                                 *)
(***************************************************************************)
EXTENDS SertosSem, SertosMutex, SertosSafetyProofs

-----------------------------------------------------------------------------
(* Semaphores.                                                             *)

SemTypes ==
    /\ count \in [WaitList -> 0 .. MaxCount]
    /\ alive \in [WaitList -> BOOLEAN]
    /\ entry \in [Task -> {NoEntry} \cup [op : EntryOp, sem : WaitList]]
    /\ take \in [Task -> {NoTake} \cup [sem : WaitList, timeout : 1 .. Forever]]

\* Where the task of a call is: before the critical section it is runnable
\* and in no take; before wait_list_block it is runnable and, when it has the
\* CPU, the scheduler is unlocked; inside, it is on the wait list of its
\* semaphore until something wakes it.
TakeOf(t) ==
    /\ entry[t] # NoEntry => /\ t # Idle /\ take[t] = NoTake
                             /\ pc[t] = "user" /\ k.state[t] \in Runnable
    /\ take[t] = NoTake => ~InWait(t)
    /\ take[t] # NoTake => t # Idle /\ (pc[t] = "user" \/ InWait(t))
    /\ take[t] # NoTake /\ pc[t] = "user" =>
           k.state[t] \in Runnable /\ (t = current => lock_nesting = 0)
    /\ k.wait_list[t] # None => /\ take[t].sem = k.wait_list[t]
                                /\ InWait(t) /\ woken[t] = "no"
    /\ InWait(t) /\ (woken[t] = "no" \/ k.state[t] = "BLOCKED") => k.wait_list[t] # None

TakeInv == \A t \in Task : TakeOf(t)

SemInv == SchedInv /\ SemTypes /\ TakeInv

-----------------------------------------------------------------------------
(* What a step does to the calls.                                          *)

\* The step leaves the call of t where it is.
SameCall(t) == TakePhase(t)' = TakePhase(t) /\ TakeTarget(t)' = TakeTarget(t)

\* The step leaves the call of t as it is.
Quiet(t) ==
    /\ take'[t] = take[t]
    /\ entry'[t] = entry[t]
    /\ Undisturbed(t) \/ (Outside(t) /\ Free(t))

LEMMA QuietTake ==
  ASSUME SemInv, NEW t \in Task, Quiet(t)
  PROVE  TakeOf(t)' /\ SameCall(t)
<1>1. TakeOf(t) /\ take'[t] = take[t] /\ entry'[t] = entry[t]
  BY DEF SemInv, TakeInv, Quiet
<1>2. TakeTarget(t)' = TakeTarget(t)
  BY <1>1 DEF TakeTarget
<1>3. CASE Undisturbed(t)
  <2>1. TakeOf(t)'
    BY <1>1, <1>3 DEF TakeOf, Undisturbed, SameBlock
  <2>2. woken[t] \in {"no", "event", "timeout", "deleted"}
    BY DEF SemInv, SchedInv, TypeOK
  <2>3. TakePhase(t)' = TakePhase(t)
    BY <1>1, <1>3, <2>2 DEF TakePhase, Undisturbed
  <2>4. QED  BY <1>2, <2>1, <2>3 DEF SameCall
<1>4. CASE Outside(t) /\ Free(t)
  <2>1. TakeOf(t)'
    BY <1>1, <1>4 DEF TakeOf, Outside, Free
  <2>2. TakePhase(t)' = TakePhase(t)
    BY <1>1, <1>4 DEF TakePhase, Free
  <2>3. QED  BY <1>2, <2>1, <2>2 DEF SameCall
<1>5. QED  BY <1>3, <1>4 DEF Quiet

\* A step that leaves every call alone is a stutter of the semaphores.
LEMMA QuietStep ==
  ASSUME SemInv, SchedInv', UNCHANGED sem_vars, \A t \in Task : Quiet(t)
  PROVE  SemInv' /\ UNCHANGED Abstract!svars
<1>1. TakeInv' /\ \A t \in Task : SameCall(t)
  BY QuietTake DEF TakeInv
<1>2. SemTypes'
  BY DEF SemInv, SemTypes, sem_vars
<1>3. UNCHANGED <<count, alive>>
  BY DEF sem_vars
<1>4. /\ [t \in Task |-> TakePhase(t)]' = [t \in Task |-> TakePhase(t)]
      /\ [t \in Task |-> TakeTarget(t)]' = [t \in Task |-> TakeTarget(t)]
  BY <1>1 DEF SameCall
<1>5. QED  BY <1>1, <1>2, <1>3, <1>4 DEF SemInv, Abstract!svars

\* A blocked task waits for the semaphore of its take, or has none.
LEMMA BlockedTake ==
  ASSUME SemInv, NEW t \in Task, k.state[t] = "BLOCKED"
  PROVE  /\ entry[t] = NoEntry
         /\ k.wait_list[t] = None => take[t] = NoTake /\ ~InWait(t)
         /\ k.wait_list[t] # None => /\ take[t] # NoTake /\ take[t].sem = k.wait_list[t]
                                     /\ InWait(t) /\ pc[t] # "user" /\ woken[t] = "no"
                                     /\ TakePhase(t) = "asked"
                                     /\ TakeTarget(t) = k.wait_list[t]
<1>1. TakeOf(t) /\ entry[t] = NoEntry
  BY DEF SemInv, TakeInv, TakeOf, Runnable
<1>2. ASSUME k.wait_list[t] = None PROVE take[t] = NoTake /\ ~InWait(t)
  BY <1>1, <1>2 DEF TakeOf, Runnable
<1>3. ASSUME k.wait_list[t] # None
      PROVE  /\ take[t] # NoTake /\ take[t].sem = k.wait_list[t]
             /\ InWait(t) /\ pc[t] # "user" /\ woken[t] = "no"
             /\ TakePhase(t) = "asked" /\ TakeTarget(t) = k.wait_list[t]
  <2>1. take[t].sem = k.wait_list[t] /\ InWait(t) /\ woken[t] = "no"
    BY <1>1, <1>3 DEF TakeOf
  <2>2. take[t] # NoTake /\ pc[t] # "user"
    BY <1>3, <2>1 DEF NoTake, InWait
  <2>3. TakePhase(t) = "asked" /\ TakeTarget(t) = k.wait_list[t]
    BY <1>1, <2>1, <2>2 DEF TakePhase, TakeTarget
  <2>4. QED  BY <2>1, <2>2, <2>3
<1>4. QED  BY <1>1, <1>2, <1>3

\* A waiter is woken.
LEMMA WakeTake ==
  ASSUME SemInv, NEW u \in Task, k.state[u] = "BLOCKED", k.wait_list[u] # None,
         k'.state[u] = "READY", k'.wait_list[u] = None, pc'[u] = pc[u],
         NEW why \in {"event", "timeout"}, woken'[u] = why,
         take'[u] = take[u], entry'[u] = entry[u]
  PROVE  /\ TakeOf(u)'
         /\ TakePhase(u)' = IF why = "event" THEN "granted" ELSE "expired"
         /\ TakeTarget(u)' = TakeTarget(u)
<1>1. take[u] # NoTake /\ InWait(u) /\ pc[u] # "user" /\ TakeOf(u) /\ entry[u] = NoEntry
  BY BlockedTake DEF SemInv, TakeInv
<1>2. TakeOf(u)'
  BY <1>1 DEF TakeOf, InWait
<1>3. TakePhase(u)' = IF why = "event" THEN "granted" ELSE "expired"
  BY <1>1 DEF TakePhase
<1>4. QED  BY <1>2, <1>3 DEF TakeTarget

-----------------------------------------------------------------------------
(* The steps of the scheduler.                                             *)

\* What a step must be on the semaphores' abstract state.
AbstractStep == Abstract!SNext \/ UNCHANGED Abstract!svars

\* A take that is at its timeout expires.
LEMMA ExpireTake ==
  ASSUME SemInv, SchedInv', UNCHANGED sem_vars, NEW t \in Task, Expires(t),
         \A u \in Task \ {t} : Undisturbed(u)
  PROVE  SemInv' /\ AbstractStep
<1>1. UNCHANGED <<entry, take, count, alive>> /\ TakePhase(t) = "asked"
  BY BlockedTake DEF sem_vars, Expires
<1>2. TakeOf(t)' /\ TakePhase(t)' = "expired" /\ TakeTarget(t)' = TakeTarget(t)
  BY <1>1, WakeTake DEF Expires
<1>3. \A u \in Task \ {t} : TakeOf(u)' /\ SameCall(u)
  BY <1>1, QuietTake DEF Quiet
<1>4. SemInv'
  BY <1>1, <1>2, <1>3 DEF SemInv, SemTypes, TakeInv
<1>5. Abstract!Expire(t)
  <2>1. [u \in Task |-> TakePhase(u)]' = [[u \in Task |-> TakePhase(u)] EXCEPT ![t] = "expired"]
    BY <1>2, <1>3 DEF SameCall
  <2>2. [u \in Task |-> TakeTarget(u)]' = [u \in Task |-> TakeTarget(u)]
    BY <1>2, <1>3 DEF SameCall
  <2>3. QED  BY <1>1, <2>1, <2>2 DEF Abstract!Expire
<1>6. QED  BY <1>4, <1>5 DEF AbstractStep, Abstract!SNext

\* The hardware, main and the tick handler, and the rest of a service.
LEMMA SystemTakes ==
  ASSUME Disciplined, SemInv, SystemStep \/ \E t \in Task : KernelStep(t), UNCHANGED sem_vars
  PROVE  SemInv' /\ AbstractStep
<1>1. /\ SchedInv'
      /\ \/ WaitsKept
         \/ \E t \in Task : Expires(t) /\ \A u \in Task \ {t} : Undisturbed(u)
  BY SystemWaits DEF SemInv
<1>2. CASE WaitsKept
  <2>1. ASSUME NEW t \in Task PROVE Quiet(t)
    <3>1. TakeOf(t) /\ take'[t] = take[t] /\ entry'[t] = entry[t]
      BY DEF SemInv, TakeInv, sem_vars
    <3>2. pc[t] # "user" /\ ~InWait(t) => Free(t)
      BY <3>1 DEF TakeOf, Free
    <3>3. k.state[t] = "BLOCKED" /\ k.wait_list[t] = None => Free(t)
      BY BlockedTake DEF Free
    <3>4. QED  BY <1>2, <3>1, <3>2, <3>3 DEF WaitsKept, Quiet
  <2>2. QED  BY <1>1, <2>1, QuietStep DEF AbstractStep
<1>3. CASE \E t \in Task : Expires(t) /\ \A u \in Task \ {t} : Undisturbed(u)
  BY <1>1, <1>3, ExpireTake
<1>4. QED  BY <1>1, <1>2, <1>3

\* The calls of a task that is in no call of a semaphore.
LEMMA CallTakes ==
  ASSUME Disciplined, SemInv, NEW t \in Task, UNCHANGED sem_vars, Free(t), CallStep(t)
  PROVE  SemInv' /\ AbstractStep
<1>1. SchedInv' /\ Outside(t) /\ \A u \in Task \ {t} : Undisturbed(u)
  BY CallWaits DEF SemInv
<1>2. \A u \in Task : Quiet(u)
  BY <1>1 DEF Quiet, sem_vars
<1>3. QED  BY <1>1, <1>2, QuietStep DEF AbstractStep

-----------------------------------------------------------------------------
(* The semaphore services.                                                 *)

\* A step that leaves the scheduler as it is.
LEMMA SameSched ==
  ASSUME Disciplined, SemInv, UNCHANGED vars
  PROVE  /\ SchedInv'
         /\ \A t \in Task : take'[t] = take[t] /\ entry'[t] = entry[t] =>
                TakeOf(t)' /\ SameCall(t)
<1>1. SchedInv' /\ \A t \in Task : Undisturbed(t)
  BY IdleWaits DEF SemInv
<1>2. QED  BY <1>1, QuietTake DEF Quiet

\* A task calls a service and finds the magic word.
LEMMA EnterTakes ==
  ASSUME Disciplined, SemInv, NEW t \in Task, NEW w \in WaitList, NEW op \in EntryOp,
         EnterSem(t, w, op)
  PROVE  SemInv' /\ AbstractStep
<1>1. /\ Executing(t) /\ pc[t] = "user" /\ t # Idle /\ Free(t) /\ alive[w]
      /\ entry' = [entry EXCEPT ![t] = [op |-> op, sem |-> w]]
      /\ UNCHANGED <<vars, count, alive, take>>
  BY DEF EnterSem, AtUser
<1>2. entry \in [Task -> {NoEntry} \cup [op : EntryOp, sem : WaitList]]
  BY DEF SemInv, SemTypes
<1>3. /\ entry'[t].op = op /\ entry'[t].sem = w /\ entry'[t] # NoEntry
      /\ \A u \in Task \ {t} : entry'[u] = entry[u]
  BY <1>1, <1>2 DEF NoEntry, EntryOp
<1>4. SchedInv' /\ \A u \in Task \ {t} : TakeOf(u)' /\ SameCall(u)
  BY <1>1, <1>3, SameSched
<1>5. k.state[t] \in Runnable /\ TakeOf(t)
  BY <1>1, ExecutingFacts DEF SemInv, TakeInv
<1>6. TakeOf(t)'
  BY <1>1, <1>3, <1>5 DEF TakeOf, Free, InWait, vars, lock_vars, wait_vars
<1>7. /\ TakePhase(t) = "out" /\ TakePhase(t)' = op
      /\ TakeTarget(t)' = w
  BY <1>1, <1>3 DEF TakePhase, TakeTarget, Free
<1>8. SemTypes'
  BY <1>1, <1>2 DEF SemInv, SemTypes
<1>9. SemInv'
  BY <1>4, <1>6, <1>8 DEF SemInv, TakeInv
<1>10. Abstract!Call(t, w, op)
  <2>1. [u \in Task |-> TakePhase(u)]' = [[u \in Task |-> TakePhase(u)] EXCEPT ![t] = op]
    BY <1>4, <1>7 DEF SameCall
  <2>2. [u \in Task |-> TakeTarget(u)]' = [[u \in Task |-> TakeTarget(u)] EXCEPT ![t] = w]
    BY <1>4, <1>7 DEF SameCall
  <2>3. QED  BY <1>1, <1>7, <2>1, <2>2 DEF Abstract!Call
<1>11. QED  BY <1>9, <1>10 DEF AbstractStep, Abstract!SNext, EntryOp

\* A task in the critical section of its call.
LEMMA AtSemFacts ==
  ASSUME SemInv, NEW t \in Task, NEW w \in WaitList, NEW op \in EntryOp, AtSem(t, w, op)
  PROVE  /\ Executing(t) /\ pc[t] = "user" /\ t # Idle /\ take[t] = NoTake
         /\ k.state[t] \in Runnable /\ ~InWait(t) /\ k.wait_list[t] = None
         /\ TakePhase(t) = op /\ TakeTarget(t) = w
         /\ entry'[t] = NoEntry /\ \A u \in Task \ {t} : entry'[u] = entry[u]
         /\ entry' \in [Task -> {NoEntry} \cup [op : EntryOp, sem : WaitList]]
<1>1. /\ Executing(t) /\ pc[t] = "user" /\ entry[t] = [op |-> op, sem |-> w]
      /\ entry' = [entry EXCEPT ![t] = NoEntry]
      /\ entry \in [Task -> {NoEntry} \cup [op : EntryOp, sem : WaitList]]
  BY DEF AtSem, SemInv, SemTypes
<1>2. entry[t] # NoEntry /\ entry[t].op = op /\ entry[t].sem = w /\ TakeOf(t)
  BY <1>1 DEF NoEntry, EntryOp, SemInv, TakeInv
<1>3. /\ t # Idle /\ take[t] = NoTake /\ k.state[t] \in Runnable /\ ~InWait(t)
      /\ k.wait_list[t] = None
  BY <1>2 DEF TakeOf
<1>4. TakePhase(t) = op /\ TakeTarget(t) = w
  BY <1>2 DEF TakePhase, TakeTarget
<1>5. QED  BY <1>1, <1>3, <1>4

\* The call of t ends, in no wait.
LEMMA EndedTake ==
  ASSUME NEW t \in Task, entry'[t] = NoEntry, take'[t] = NoTake, ~InWait(t)',
         k'.wait_list[t] = None
  PROVE  TakeOf(t)' /\ TakePhase(t)' = "out" /\ TakeTarget(t)' = None
<1>1. NoTake.sem = None
  BY DEF NoTake
<1>2. QED  BY <1>1 DEF TakeOf, TakePhase, TakeTarget

\* A call that ends with the scheduler as it was.
LEMMA EndStep ==
  ASSUME Disciplined, SemInv, NEW t \in Task, NEW w \in WaitList, NEW op \in EntryOp,
         AtSem(t, w, op), UNCHANGED <<vars, alive, take>>,
         count' \in [WaitList -> 0 .. MaxCount]
  PROVE  /\ SemInv' /\ TakePhase(t) = op /\ TakeTarget(t) = w
         /\ [u \in Task |-> TakePhase(u)]' = [[u \in Task |-> TakePhase(u)] EXCEPT ![t] = "out"]
         /\ [u \in Task |-> TakeTarget(u)]' = [[u \in Task |-> TakeTarget(u)] EXCEPT ![t] = None]
<1>1. /\ take[t] = NoTake /\ ~InWait(t) /\ k.wait_list[t] = None
      /\ TakePhase(t) = op /\ TakeTarget(t) = w
      /\ entry'[t] = NoEntry /\ \A u \in Task \ {t} : entry'[u] = entry[u]
      /\ entry' \in [Task -> {NoEntry} \cup [op : EntryOp, sem : WaitList]]
  BY AtSemFacts
<1>2. SchedInv' /\ \A u \in Task \ {t} : TakeOf(u)' /\ SameCall(u)
  BY <1>1, SameSched
<1>3. ~InWait(t)' /\ k'.wait_list[t] = None
  BY <1>1 DEF InWait, vars
<1>4. TakeOf(t)' /\ TakePhase(t)' = "out" /\ TakeTarget(t)' = None
  BY <1>1, <1>3, EndedTake
<1>5. SemTypes'
  BY <1>1 DEF SemInv, SemTypes
<1>6. SemInv'
  BY <1>2, <1>4, <1>5 DEF SemInv, TakeInv
<1>7. QED  BY <1>1, <1>2, <1>4, <1>6 DEF SameCall

LEMMA TakeTokenTakes ==
  ASSUME Disciplined, SemInv, NEW t \in Task, NEW w \in WaitList, TakeToken(t, w)
  PROVE  SemInv' /\ AbstractStep
<1>1. /\ AtSem(t, w, "take") /\ count[w] > 0 /\ count' = [count EXCEPT ![w] = count[w] - 1]
      /\ UNCHANGED <<vars, alive, take>>
  BY DEF TakeToken
<1>2. count' \in [WaitList -> 0 .. MaxCount]
  BY <1>1, SemAssumption DEF SemInv, SemTypes
<1>3. /\ SemInv' /\ TakePhase(t) = "take" /\ TakeTarget(t) = w
      /\ [u \in Task |-> TakePhase(u)]' = [[u \in Task |-> TakePhase(u)] EXCEPT ![t] = "out"]
      /\ [u \in Task |-> TakeTarget(u)]' = [[u \in Task |-> TakeTarget(u)] EXCEPT ![t] = None]
  BY <1>1, <1>2, EndStep DEF EntryOp
<1>4. Abstract!TakeNow(t, w)
  BY <1>1, <1>3 DEF Abstract!TakeNow, Abstract!Done
<1>5. QED  BY <1>3, <1>4 DEF AbstractStep, Abstract!SNext

\* A call that is refused.
LEMMA RefuseTakes ==
  ASSUME Disciplined, SemInv, NEW t \in Task, NEW w \in WaitList,
         TakeFail(t, w) \/ GiveFail(t, w)
  PROVE  SemInv' /\ AbstractStep
<1>1. UNCHANGED <<vars, count, alive, take>> /\ count' \in [WaitList -> 0 .. MaxCount]
  BY DEF TakeFail, GiveFail, SemInv, SemTypes
<1>2. PICK op \in EntryOp : /\ AtSem(t, w, op)
                            /\ \/ op = "take" /\ count[w] = 0
                               \/ op = "give" /\ count[w] = MaxCount
  BY DEF TakeFail, GiveFail, EntryOp
<1>3. /\ SemInv' /\ TakePhase(t) = op /\ TakeTarget(t) = w
      /\ [u \in Task |-> TakePhase(u)]' = [[u \in Task |-> TakePhase(u)] EXCEPT ![t] = "out"]
      /\ [u \in Task |-> TakeTarget(u)]' = [[u \in Task |-> TakeTarget(u)] EXCEPT ![t] = None]
  BY <1>1, <1>2, EndStep
<1>4. Abstract!Refuse(t, w)
  BY <1>1, <1>2, <1>3 DEF Abstract!Refuse, Abstract!Done
<1>5. QED  BY <1>3, <1>4 DEF AbstractStep, Abstract!SNext

LEMMA TakeMissTakes ==
  ASSUME Disciplined, SemInv, NEW t \in Task, NEW w \in WaitList, NEW n \in 1 .. Forever,
         TakeMiss(t, w, n)
  PROVE  SemInv' /\ AbstractStep
<1>1. /\ AtSem(t, w, "take") /\ count[w] = 0 /\ MayBlock
      /\ take' = [take EXCEPT ![t] = [sem |-> w, timeout |-> n]]
      /\ UNCHANGED <<vars, count, alive>>
  BY DEF TakeMiss
<1>2. /\ Executing(t) /\ pc[t] = "user" /\ t # Idle /\ take[t] = NoTake
      /\ k.state[t] \in Runnable /\ ~InWait(t) /\ k.wait_list[t] = None
      /\ TakePhase(t) = "take" /\ TakeTarget(t) = w
      /\ entry'[t] = NoEntry /\ \A u \in Task \ {t} : entry'[u] = entry[u]
      /\ entry' \in [Task -> {NoEntry} \cup [op : EntryOp, sem : WaitList]]
  BY <1>1, AtSemFacts DEF EntryOp
<1>3. take \in [Task -> {NoTake} \cup [sem : WaitList, timeout : 1 .. Forever]]
  BY DEF SemInv, SemTypes
<1>4. /\ take'[t] = [sem |-> w, timeout |-> n] /\ take'[t].sem = w /\ take'[t] # NoTake
      /\ \A u \in Task \ {t} : take'[u] = take[u]
  BY <1>1, <1>3, KernelAssumption DEF NoTake
<1>5. SchedInv' /\ \A u \in Task \ {t} : TakeOf(u)' /\ SameCall(u)
  BY <1>1, <1>2, <1>4, SameSched
<1>6. lock_nesting = 0
  BY <1>1, <1>2 DEF MayBlock, Disciplined
<1>7. TakeOf(t)'
  BY <1>1, <1>2, <1>4, <1>6 DEF TakeOf, InWait, vars, lock_vars, wait_vars
<1>8. TakePhase(t)' = "asked" /\ TakeTarget(t)' = w
  BY <1>1, <1>2, <1>4 DEF TakePhase, TakeTarget, vars
<1>9. SemTypes'
  BY <1>1, <1>2, <1>3 DEF SemInv, SemTypes
<1>10. SemInv'
  BY <1>5, <1>7, <1>9 DEF SemInv, TakeInv
<1>11. Abstract!Ask(t, w)
  <2>1. [u \in Task |-> TakePhase(u)]' = [[u \in Task |-> TakePhase(u)] EXCEPT ![t] = "asked"]
    BY <1>5, <1>8 DEF SameCall
  <2>2. [u \in Task |-> TakeTarget(u)]' = [u \in Task |-> TakeTarget(u)]
    BY <1>2, <1>5, <1>8 DEF SameCall
  <2>3. QED  BY <1>1, <1>2, <2>1, <2>2 DEF Abstract!Ask
<1>12. QED  BY <1>10, <1>11 DEF AbstractStep, Abstract!SNext

\* The second half of a take that has to wait: on the semaphore as such,
\* nothing happens.
LEMMA TakeBlockTakes ==
  ASSUME Disciplined, SemInv, NEW t \in Task, TakeBlock(t)
  PROVE  SemInv' /\ AbstractStep
<1> DEFINE w == take[t].sem
           n == take[t].timeout
<1>1. /\ Executing(t) /\ pc[t] = "user" /\ take[t] # NoTake /\ WaitListBlock(t, w, n)
      /\ UNCHANGED <<current, is_running, lock_vars, pendsv, tick_vars, entry, take, count, alive>>
  BY DEF TakeBlock, sem_vars
<1>2. w \in WaitList /\ n \in 1 .. Forever /\ TakeOf(t)
  BY <1>1 DEF SemInv, SemTypes, TakeInv
<1>3. t # Idle /\ MayBlock /\ entry[t] = NoEntry
  BY <1>1, <1>2 DEF TakeOf, MayBlock, Executing
<1>4. /\ SchedInv' /\ k'.wait_list[t] = w /\ w # None
      /\ pc'[t] = "wait_switch" /\ woken'[t] = "no"
      /\ \A u \in Task \ {t} : Undisturbed(u)
  <2> HIDE DEF w, n
  <2>1. QED  BY <1>1, <1>2, <1>3, BlockWaits DEF SemInv
<1>5. TakeOf(t)'
  BY <1>1, <1>3, <1>4 DEF TakeOf, InWait
<1>6. SameCall(t)
  BY <1>1, <1>3, <1>4 DEF SameCall, TakePhase, TakeTarget
<1> HIDE DEF w, n
<1>7. \A u \in Task \ {t} : TakeOf(u)' /\ SameCall(u)
  BY <1>1, <1>4, QuietTake DEF Quiet
<1>8. SemInv'
  BY <1>1, <1>4, <1>5, <1>7 DEF SemInv, SemTypes, TakeInv
<1>9. UNCHANGED Abstract!svars
  <2>1. /\ [u \in Task |-> TakePhase(u)]' = [u \in Task |-> TakePhase(u)]
        /\ [u \in Task |-> TakeTarget(u)]' = [u \in Task |-> TakeTarget(u)]
    BY <1>6, <1>7 DEF SameCall
  <2>2. QED  BY <1>1, <2>1 DEF Abstract!svars
<1>10. QED  BY <1>8, <1>9 DEF AbstractStep

\* The take is over: a token was handed to it, its time was up, or its
\* semaphore is gone.
LEMMA TakeReturnTakes ==
  ASSUME Disciplined, SemInv, NEW t \in Task, TakeReturn(t)
  PROVE  SemInv' /\ AbstractStep
<1>1. /\ Executing(t) /\ pc[t] = "wait_return" /\ pc' = [pc EXCEPT ![t] = "user"]
      /\ woken' = [woken EXCEPT ![t] = "no"] /\ take' = [take EXCEPT ![t] = NoTake]
      /\ UNCHANGED <<k, current, lock_nesting, count, alive, entry>>
  BY DEF TakeReturn, WaitReturn, Goto, lock_vars
<1>2. SchedInv'
  BY NextSafe DEF SemInv, Next, TakeReturn
<1>3. /\ pc \in [Task -> TaskPc] /\ TakeOf(t) /\ k \in Kernel /\ KernelConsistent(k)
      /\ woken \in [Task -> {"no", "event", "timeout", "deleted"}]
      /\ take \in [Task -> {NoTake} \cup [sem : WaitList, timeout : 1 .. Forever]]
  BY DEF SemInv, SemTypes, SchedInv, TypeOK, TakeInv
<1>4. k.state[t] \in Runnable /\ entry[t] = NoEntry
  BY <1>1, <1>3, ExecutingFacts DEF SemInv, TakeOf
<1>5. k.wait_list[t] = None
  BY <1>3, <1>4 DEF KernelConsistent, WaitListsConsistent, Runnable
<1>6. take[t] # NoTake /\ woken[t] # "no"
  BY <1>1, <1>3, <1>5 DEF TakeOf, InWait
<1>7. TakePhase(t) \in {"granted", "expired", "cancelled"}
  <2>1. woken[t] \in {"event", "timeout", "deleted"}
    BY <1>3, <1>6
  <2>2. QED  BY <1>1, <1>4, <1>6, <2>1 DEF TakePhase
<1>8. take'[t] = NoTake /\ pc'[t] = "user" /\ entry'[t] = NoEntry
  BY <1>1, <1>3, <1>4
<1>9. TakeOf(t)' /\ TakePhase(t)' = "out" /\ TakeTarget(t)' = None
  <2>1. ~InWait(t)' /\ k'.wait_list[t] = None
    BY <1>1, <1>5, <1>8 DEF InWait
  <2>2. QED  BY <1>8, <2>1, EndedTake
<1>10. \A u \in Task \ {t} : Quiet(u)
  BY <1>1, <1>3 DEF Quiet, Undisturbed, SameBlock, InWait
<1>11. SemTypes'
  BY <1>1, <1>3 DEF SemInv, SemTypes
<1>12. SemInv' /\ \A u \in Task \ {t} : SameCall(u)
  BY <1>2, <1>9, <1>10, <1>11, QuietTake DEF SemInv, TakeInv
<1>13. Abstract!Return(t)
  <2>1. /\ [u \in Task |-> TakePhase(u)]' = [[u \in Task |-> TakePhase(u)] EXCEPT ![t] = "out"]
        /\ [u \in Task |-> TakeTarget(u)]' = [[u \in Task |-> TakeTarget(u)] EXCEPT ![t] = None]
    BY <1>9, <1>12 DEF SameCall
  <2>2. QED  BY <1>1, <1>7, <2>1 DEF Abstract!Return, Abstract!Done
<1>14. QED  BY <1>12, <1>13 DEF AbstractStep, Abstract!SNext

\* A token is given to the first waiter.
LEMMA GiveWaiter ==
  ASSUME SemInv, NEW w \in WaitList, k.waiters[w] # <<>>,
         k' = unblock_highest(k, w), RecordEvent(highest_waiter(k, w)),
         NEW u \in Task, u = highest_waiter(k, w), pc'[u] = pc[u],
         entry'[u] = entry[u], UNCHANGED take
  PROVE  /\ TakePhase(u) = "asked" /\ TakeTarget(u) = w
         /\ TakeOf(u)' /\ TakePhase(u)' = "granted" /\ TakeTarget(u)' = w
         /\ k.state[u] = "BLOCKED"
         /\ \A x \in Task \ {u} : /\ k'.state[x] = k.state[x] /\ k'.wait_list[x] = k.wait_list[x]
                                  /\ woken'[x] = woken[x]
<1>1. /\ k.state[u] = "BLOCKED" /\ k.wait_list[u] = w /\ w # None
      /\ k'.state[u] = "READY" /\ k'.wait_list[u] = None
      /\ \A x \in Task \ {u} : k'.state[x] = k.state[x] /\ k'.wait_list[x] = k.wait_list[x]
  BY WakeWaits DEF SemInv
<1>2. woken' = [woken EXCEPT ![u] = "event"]
  BY KernelAssumption DEF RecordEvent
<1>3. \A x \in Task : woken'[x] = IF x = u THEN "event" ELSE woken[x]
  BY <1>2 DEF SemInv, SchedInv, TypeOK
<1>4. TakePhase(u) = "asked" /\ TakeTarget(u) = w
  BY <1>1, BlockedTake
<1>5. TakeOf(u)' /\ TakePhase(u)' = "granted" /\ TakeTarget(u)' = TakeTarget(u)
  BY <1>1, <1>3, WakeTake
<1>6. QED  BY <1>1, <1>3, <1>4, <1>5

LEMMA GiveTakes ==
  ASSUME Disciplined, SemInv, NEW t \in Task, NEW w \in WaitList, Give(t, w)
  PROVE  SemInv' /\ AbstractStep
<1>1. /\ AtSem(t, w, "give")
      /\ k' = unblock_highest(k, w) /\ RecordEvent(highest_waiter(k, w))
      /\ UNCHANGED <<current, is_running, lock_vars, pendsv, tick_vars, timeout, alive, take>>
  BY DEF Give, give_token
<1>2. CASE k.waiters[w] = <<>>
  <2>1. /\ count[w] < MaxCount /\ count' = [count EXCEPT ![w] = @ + 1] /\ UNCHANGED pc
    BY <1>2 DEF Give, give_token
  <2>2. UNCHANGED <<k, woken, deadline>>
    BY <1>1, <1>2 DEF unblock_highest, highest_waiter, RecordEvent
  <2>3. UNCHANGED vars
    BY <1>1, <2>1, <2>2 DEF vars, wait_vars
  <2>4. count' \in [WaitList -> 0 .. MaxCount]
    BY <2>1, SemAssumption DEF SemInv, SemTypes
  <2>5. /\ SemInv' /\ TakePhase(t) = "give" /\ TakeTarget(t) = w
        /\ [u \in Task |-> TakePhase(u)]' = [[u \in Task |-> TakePhase(u)] EXCEPT ![t] = "out"]
        /\ [u \in Task |-> TakeTarget(u)]' = [[u \in Task |-> TakeTarget(u)] EXCEPT ![t] = None]
    BY <1>1, <2>3, <2>4, EndStep DEF EntryOp
  <2>6. Abstract!GiveNow(t, w)
    BY <1>1, <2>1, <2>5 DEF Abstract!GiveNow, Abstract!Done
  <2>7. QED  BY <2>5, <2>6 DEF AbstractStep, Abstract!SNext
<1>3. CASE k.waiters[w] # <<>>
  <2>1. pc' = [pc EXCEPT ![t] = "reschedule"] /\ UNCHANGED count
    BY <1>3 DEF Give, give_token, Goto
  <2>2. pc \in [Task -> TaskPc] /\ TypeOK
    BY DEF SemInv, SchedInv, TypeOK
  <2>3. TypeOK'
    <3>1. /\ k' \in Kernel
          /\ woken' \in [Task -> {"no", "event", "timeout", "deleted"}]
          /\ deadline' \in [Task -> 0 .. TickMod - 1]
      BY <1>1, <2>2, WakeType
    <3>2. QED  BY <1>1, <2>1, <2>2, <3>1 DEF TypeOK, TaskPc, lock_vars, tick_vars
  <2>4. /\ Executing(t) /\ pc[t] = "user" /\ take[t] = NoTake
        /\ k.state[t] \in Runnable /\ ~InWait(t) /\ k.wait_list[t] = None
        /\ TakePhase(t) = "give" /\ TakeTarget(t) = w
        /\ entry'[t] = NoEntry /\ \A u \in Task \ {t} : entry'[u] = entry[u]
        /\ entry' \in [Task -> {NoEntry} \cup [op : EntryOp, sem : WaitList]]
    BY <1>1, AtSemFacts DEF EntryOp
  <2>5. SchedInv'
    <3>1. PICK u \in Task, p \in Priority : /\ k.state[u] \notin Runnable
                                            /\ MadeReady(k, k', u, p)
                                            /\ TimeSlicing => p = Prio[u]
      BY <1>1, <1>3, SignalEffect DEF SemInv
    <3>2. QED  BY <1>1, <2>1, <2>3, <2>4, <3>1, ReadyThenReschedule DEF SemInv
  <2>6. PICK u \in Task : u = highest_waiter(k, w)
    BY <1>1, <1>3, WakeWaits DEF SemInv
  <2>7. u # t
    BY <1>1, <1>3, <2>4, <2>6, WakeWaits DEF SemInv, Runnable
  <2>8. /\ TakePhase(u) = "asked" /\ TakeTarget(u) = w
        /\ TakeOf(u)' /\ TakePhase(u)' = "granted" /\ TakeTarget(u)' = w
        /\ \A x \in Task \ {u} : /\ k'.state[x] = k.state[x] /\ k'.wait_list[x] = k.wait_list[x]
                                 /\ woken'[x] = woken[x]
    BY <1>1, <1>3, <2>1, <2>2, <2>4, <2>6, <2>7, GiveWaiter
  <2>9. ASSUME NEW x \in Task \ {u, t} PROVE TakeOf(x)' /\ SameCall(x)
    <3>1. pc'[x] = pc[x]
      BY <2>1, <2>2
    <3>2. Quiet(x)
      BY <1>1, <2>4, <2>8, <3>1 DEF Quiet, Undisturbed, SameBlock, InWait, lock_vars
    <3>3. QED  BY <3>2, QuietTake
  <2>10. TakeOf(t)' /\ TakePhase(t)' = "out" /\ TakeTarget(t)' = None
    <3>1. ~InWait(t)' /\ k'.wait_list[t] = None
      BY <2>1, <2>2, <2>4, <2>7, <2>8 DEF InWait
    <3>2. QED  BY <1>1, <2>4, <3>1, EndedTake
  <2>11. SemInv'
    <3>1. TakeInv'
      BY <2>8, <2>9, <2>10 DEF TakeInv
    <3>2. SemTypes'
      BY <1>1, <2>1, <2>4 DEF SemInv, SemTypes
    <3>3. QED  BY <2>5, <3>1, <3>2 DEF SemInv
  <2>12. Abstract!Hand(t, u, w)
    <3>1. [x \in Task |-> TakePhase(x)]'
            = [[x \in Task |-> TakePhase(x)] EXCEPT ![u] = "granted", ![t] = "out"]
      BY <2>7, <2>8, <2>9, <2>10 DEF SameCall
    <3>2. [x \in Task |-> TakeTarget(x)]' = [[x \in Task |-> TakeTarget(x)] EXCEPT ![t] = None]
      BY <2>7, <2>8, <2>9, <2>10 DEF SameCall
    <3>3. QED  BY <1>1, <2>1, <2>4, <2>8, <3>1, <3>2 DEF Abstract!Hand
  <2>13. QED  BY <2>11, <2>12 DEF AbstractStep, Abstract!SNext
<1>4. QED  BY <1>2, <1>3

LEMMA GiveFromIsrTakes ==
  ASSUME Disciplined, SemInv, NEW w \in WaitList, GiveFromIsr(w)
  PROVE  SemInv' /\ AbstractStep
<1>1. /\ is_running /\ isr \in {"none", "switch"} /\ alive[w]
      /\ k' = unblock_highest(k, w) /\ RecordEvent(highest_waiter(k, w))
      /\ UNCHANGED <<current, is_running, lock_nesting, tick_vars, pc, timeout, alive, take, entry>>
  BY DEF GiveFromIsr, Interruptible, give_token
<1>2. CASE k.waiters[w] = <<>>
  <2>1. highest_waiter(k, w) = None
    BY <1>2 DEF highest_waiter
  <2>2. /\ count[w] < MaxCount /\ count' = [count EXCEPT ![w] = @ + 1]
        /\ UNCHANGED <<reschedule_pending, pendsv>>
    BY <1>2, <2>1 DEF GiveFromIsr, give_token
  <2>3. UNCHANGED <<k, woken, deadline>>
    BY <1>1, <1>2, <2>1 DEF unblock_highest, RecordEvent
  <2>4. UNCHANGED vars
    BY <1>1, <2>2, <2>3 DEF vars, wait_vars, lock_vars
  <2>5. count' \in [WaitList -> 0 .. MaxCount]
    BY <2>2, SemAssumption DEF SemInv, SemTypes
  <2>6. SchedInv' /\ \A t \in Task : TakeOf(t)' /\ SameCall(t)
    BY <1>1, <2>4, SameSched
  <2>7. SemInv'
    BY <1>1, <2>5, <2>6 DEF SemInv, SemTypes, TakeInv
  <2>8. Abstract!IsrGiveNow(w)
    <3>1. /\ [u \in Task |-> TakePhase(u)]' = [u \in Task |-> TakePhase(u)]
          /\ [u \in Task |-> TakeTarget(u)]' = [u \in Task |-> TakeTarget(u)]
      BY <2>6 DEF SameCall
    <3>2. QED  BY <1>1, <2>2, <3>1 DEF Abstract!IsrGiveNow
  <2>9. QED  BY <2>7, <2>8 DEF AbstractStep, Abstract!SNext
<1>3. CASE k.waiters[w] # <<>>
  <2>1. PICK u \in Task : u = highest_waiter(k, w)
    BY <1>1, <1>3, WakeWaits DEF SemInv
  <2>2. /\ UNCHANGED count
        /\ IF k.priority[highest_waiter(k, w)] > k.priority[current]
           THEN switch_context(unblock_highest(k, w))
           ELSE UNCHANGED <<reschedule_pending, pendsv>>
    BY <1>3, <2>1, KernelAssumption DEF GiveFromIsr, give_token
  <2>3. TypeOK'
    <3>1. TypeOK
      BY DEF SemInv, SchedInv
    <3>2. /\ k' \in Kernel
          /\ woken' \in [Task -> {"no", "event", "timeout", "deleted"}]
          /\ deadline' \in [Task -> 0 .. TickMod - 1]
      BY <1>1, <3>1, WakeType
    <3>3. reschedule_pending' \in BOOLEAN /\ pendsv' \in BOOLEAN
      BY <2>2, <3>1 DEF TypeOK, switch_context
    <3>4. QED  BY <1>1, <3>1, <3>2, <3>3 DEF TypeOK, tick_vars
  <2>4. SchedInv'
    BY <1>1, <1>3, <2>2, <2>3, IsrWakeSafe DEF SemInv
  <2>5. /\ TakePhase(u) = "asked" /\ TakeTarget(u) = w
        /\ TakeOf(u)' /\ TakePhase(u)' = "granted" /\ TakeTarget(u)' = w
        /\ \A x \in Task \ {u} : /\ k'.state[x] = k.state[x] /\ k'.wait_list[x] = k.wait_list[x]
                                 /\ woken'[x] = woken[x]
    BY <1>1, <1>3, <2>1, GiveWaiter
  <2>6. \A x \in Task \ {u} : TakeOf(x)' /\ SameCall(x)
    <3>1. \A x \in Task \ {u} : Quiet(x)
      BY <1>1, <2>5 DEF Quiet, Undisturbed, SameBlock, InWait
    <3>2. QED  BY <3>1, QuietTake
  <2>7. SemInv'
    BY <1>1, <2>2, <2>4, <2>5, <2>6 DEF SemInv, SemTypes, TakeInv
  <2>8. Abstract!IsrHand(u, w)
    <3>1. [x \in Task |-> TakePhase(x)]' = [[x \in Task |-> TakePhase(x)] EXCEPT ![u] = "granted"]
      BY <2>5, <2>6 DEF SameCall
    <3>2. [x \in Task |-> TakeTarget(x)]' = [x \in Task |-> TakeTarget(x)]
      BY <2>5, <2>6 DEF SameCall
    <3>3. QED  BY <1>1, <2>2, <2>5, <3>1, <3>2 DEF Abstract!IsrHand
  <2>9. QED  BY <2>7, <2>8 DEF AbstractStep, Abstract!SNext
<1>4. QED  BY <1>2, <1>3

\* The semaphore is deleted: every task that waits for it is told so.  A take
\* between its two halves is not: it blocks on the deleted semaphore.
LEMMA DeleteTakes ==
  ASSUME Disciplined, SemInv, NEW t \in Task, NEW w \in WaitList, Delete(t, w)
  PROVE  SemInv' /\ AbstractStep
<1> DEFINE C == {u \in Task : Contains(k.waiters[w], u)}
<1>1. /\ AtSem(t, w, "delete")
      /\ alive' = [alive EXCEPT ![w] = FALSE] /\ k' = unblock_all(k, w)
      /\ pc' = [pc EXCEPT ![t] = "reschedule"]
      /\ UNCHANGED <<current, is_running, lock_vars, pendsv, tick_vars, timeout, count, take>>
  BY DEF Delete, Goto
<1>0. /\ Executing(t) /\ pc[t] = "user" /\ take[t] = NoTake
      /\ k.state[t] \in Runnable /\ ~InWait(t) /\ k.wait_list[t] = None
      /\ TakePhase(t) = "delete" /\ TakeTarget(t) = w
      /\ entry'[t] = NoEntry /\ \A u \in Task \ {t} : entry'[u] = entry[u]
      /\ entry' \in [Task -> {NoEntry} \cup [op : EntryOp, sem : WaitList]]
  BY <1>1, AtSemFacts DEF EntryOp
<1>2. /\ k \in Kernel /\ KernelConsistent(k) /\ pc \in [Task -> TaskPc] /\ TypeOK
      /\ woken \in [Task -> {"no", "event", "timeout", "deleted"}]
      /\ deadline \in [Task -> 0 .. TickMod - 1]
      /\ Idle \in Task /\ k.state[Idle] \in Runnable
  BY KernelAssumption DEF SemInv, SchedInv, TypeOK, TasksInv
<1>3. /\ k' \in Kernel /\ KernelConsistent(k') /\ k'.fault = k.fault /\ k'.priority = k.priority
      /\ \A u \in C : k.state[u] = "BLOCKED" /\ k.wait_list[u] = w /\ w # None
      /\ \A u \in Task : /\ k'.state[u] = IF u \in C THEN "READY" ELSE k.state[u]
                         /\ k'.wait_list[u] = IF u \in C THEN None ELSE k.wait_list[u]
      /\ \/ select_next_task(k') = select_next_task(k)
         \/ k.priority[select_next_task(k')] > k.priority[select_next_task(k)]
  <2> HIDE DEF C
  <2>1. C = {u \in Task : Contains(k.waiters[w], u)}
    BY DEF C
  <2>2. QED  BY <1>1, <2>1, WakeAllWaits DEF SemInv
<1>4. \A u \in Task : u \in ToSet(k.waiters[w]) <=> u \in C
  <2>1. k.waiters[w] \in Seq(Task)
    BY <1>2, FieldTypes
  <2>2. QED  BY <2>1 DEF ToSet, Contains
<1>5. /\ woken' = [u \in Task |-> IF u \in C THEN "deleted" ELSE woken[u]]
      /\ deadline' = [u \in Task |-> IF u \in C THEN 0 ELSE deadline[u]]
  BY <1>4 DEF Delete
<1>6. C \in SUBSET Task
  OBVIOUS
<1> HIDE DEF C
<1>7. SchedInv'
  <2>1. TypeOK'
    <3>1. /\ woken' \in [Task -> {"no", "event", "timeout", "deleted"}]
          /\ deadline' \in [Task -> 0 .. TickMod - 1]
      BY <1>2, <1>5, ConstantTypes
    <3>2. QED  BY <1>1, <1>2, <1>3, <3>1 DEF TypeOK, TaskPc, lock_vars, tick_vars
  <2>2. QED  BY <1>0, <1>1, <1>3, <1>6, <2>1, WokenThenReschedule DEF SemInv
<1>8. \A u \in Task \ {t} : pc'[u] = pc[u]
  BY <1>1, <1>2
<1>9. pc'[t] = "reschedule" /\ t \notin C
  BY <1>0, <1>1, <1>2, <1>3 DEF Runnable
<1>10. ASSUME NEW u \in Task, u \notin C, u # t PROVE TakeOf(u)' /\ SameCall(u)
  <2>1. TakeOf(u)
    BY DEF SemInv, TakeInv
  <2>2. woken'[u] = woken[u] /\ k'.state[u] = k.state[u] /\ k'.wait_list[u] = k.wait_list[u]
    BY <1>3, <1>5, <1>10
  <2>3. Quiet(u)
    BY <1>0, <1>1, <1>8, <1>10, <2>1, <2>2 DEF Quiet, Undisturbed, SameBlock, InWait, lock_vars
  <2>4. QED  BY <2>3, QuietTake
<1>11. ASSUME NEW u \in Task, u \in C
       PROVE  /\ TakeOf(u)' /\ TakePhase(u)' = "cancelled"
              /\ TakePhase(u) = "asked" /\ TakeTarget(u) = w /\ TakeTarget(u)' = w
  <2>1. /\ take[u] # NoTake /\ InWait(u) /\ pc[u] # "user" /\ entry[u] = NoEntry
        /\ TakePhase(u) = "asked" /\ TakeTarget(u) = w /\ TakeOf(u)
    BY <1>3, <1>11, BlockedTake DEF SemInv, TakeInv
  <2>2. /\ woken'[u] = "deleted" /\ k'.state[u] = "READY" /\ k'.wait_list[u] = None
        /\ pc'[u] = pc[u] /\ take'[u] = take[u] /\ entry'[u] = entry[u]
    BY <1>0, <1>1, <1>3, <1>5, <1>8, <1>9, <1>11
  <2>3. TakeOf(u)'
    BY <2>1, <2>2 DEF TakeOf, InWait
  <2>4. TakePhase(u)' = "cancelled" /\ TakeTarget(u)' = TakeTarget(u)
    BY <2>1, <2>2 DEF TakePhase, TakeTarget
  <2>5. QED  BY <2>1, <2>3, <2>4
<1>12. TakeOf(t)' /\ TakePhase(t)' = "out" /\ TakeTarget(t)' = None
  <2>1. ~InWait(t)' /\ k'.wait_list[t] = None
    BY <1>0, <1>3, <1>9 DEF InWait
  <2>2. QED  BY <1>0, <1>1, <2>1, EndedTake
<1>13. SemInv'
  <2>1. SemTypes'
    BY <1>0, <1>1 DEF SemInv, SemTypes
  <2>2. TakeInv'
    BY <1>10, <1>11, <1>12 DEF TakeInv
  <2>3. QED  BY <1>7, <2>1, <2>2 DEF SemInv
<1>14. Abstract!Cancel(t, w)
  <2> DEFINE target == [u \in Task |-> TakeTarget(u)]
             phase == [u \in Task |-> TakePhase(u)]
  <2>1. C \in SUBSET {u \in Task : target[u] = w /\ phase[u] = "asked"}
    BY <1>6, <1>11
  <2>2. phase' = [u \in Task |-> IF u \in C THEN "cancelled"
                                 ELSE IF u = t THEN "out" ELSE phase[u]]
    BY <1>9, <1>10, <1>11, <1>12 DEF SameCall
  <2>3. target' = [target EXCEPT ![t] = None]
    BY <1>9, <1>10, <1>11, <1>12 DEF SameCall
  <2>4. QED  BY <1>0, <1>1, <2>1, <2>2, <2>3 DEF Abstract!Cancel
<1>15. QED  BY <1>13, <1>14 DEF AbstractStep, Abstract!SNext

LEMMA SemCreateTakes ==
  ASSUME Disciplined, SemInv, NEW t \in Task, NEW w \in WaitList, SemCreate(t, w)
  PROVE  SemInv' /\ AbstractStep
<1>1. /\ ~alive[w] /\ \A u \in Task : entry[u].sem # w /\ take[u].sem # w
      /\ count' = [count EXCEPT ![w] = InitCount] /\ alive' = [alive EXCEPT ![w] = TRUE]
      /\ UNCHANGED <<vars, entry, take>>
  BY DEF SemCreate
<1>2. SchedInv' /\ TakeInv' /\ \A u \in Task : SameCall(u)
  BY <1>1, SameSched DEF TakeInv
<1>3. SemTypes'
  BY <1>1, SemAssumption DEF SemInv, SemTypes
<1>4. Abstract!Renew(w)
  <2>1. /\ [u \in Task |-> TakePhase(u)]' = [u \in Task |-> TakePhase(u)]
        /\ [u \in Task |-> TakeTarget(u)]' = [u \in Task |-> TakeTarget(u)]
    BY <1>2 DEF SameCall
  <2>2. \A u \in Task : TakeTarget(u) # w
    BY <1>1 DEF TakeTarget
  <2>3. QED  BY <1>1, <2>1, <2>2 DEF Abstract!Renew
<1>5. QED  BY <1>2, <1>3, <1>4 DEF SemInv, AbstractStep, Abstract!SNext

-----------------------------------------------------------------------------
LEMMA SemInitHolds == SemInit => SemInv /\ Abstract!SInit
<1> SUFFICES ASSUME SemInit PROVE SemInv /\ Abstract!SInit
  OBVIOUS
<1>1. SchedInv
  BY InitSafe DEF SemInit
<1>2. /\ count = [w \in WaitList |-> InitCount] /\ alive = [w \in WaitList |-> TRUE]
      /\ take = [t \in Task |-> NoTake] /\ entry = [t \in Task |-> NoEntry]
      /\ pc = [t \in Task |-> "user"] /\ k = InitKernel
  BY DEF SemInit, Init
<1>3. SemTypes
  BY <1>2, SemAssumption DEF SemTypes
<1>4. \A t \in Task : k.wait_list[t] = None
  <2>1. KernelConsistent(k) /\ \A t \in Task : k.state[t] # "BLOCKED"
    BY <1>2, InitKernelEffect
  <2>2. QED  BY <2>1 DEF KernelConsistent, WaitListsConsistent
<1>5. TakeInv
  BY <1>2, <1>4 DEF TakeInv, TakeOf, InWait
<1>6. Abstract!SInit
  <2>1. \A t \in Task : TakePhase(t) = "out" /\ TakeTarget(t) = None
    BY <1>2 DEF TakePhase, TakeTarget, NoTake
  <2>2. /\ [t \in Task |-> TakePhase(t)] = [t \in Task |-> "out"]
        /\ [t \in Task |-> TakeTarget(t)] = [t \in Task |-> None]
    BY <2>1
  <2>3. QED  BY <1>2, <2>2 DEF Abstract!SInit
<1>7. QED  BY <1>1, <1>3, <1>5, <1>6 DEF SemInv

\* Every step keeps the invariant and is a step of the abstract semaphores, or
\* leaves them alone.
LEMMA SemNextHolds ==
  ASSUME Disciplined, SemInv, [SemNext]_all_vars
  PROVE  SemInv' /\ AbstractStep
<1>1. CASE UNCHANGED all_vars
  <2>1. UNCHANGED <<vars, count, alive, entry, take>>
    BY <1>1 DEF all_vars, sem_vars
  <2>2. SchedInv' /\ TakeInv' /\ \A t \in Task : SameCall(t)
    BY <2>1, SameSched DEF TakeInv
  <2>3. SemInv'
    BY <2>1, <2>2 DEF SemInv, SemTypes
  <2>4. UNCHANGED Abstract!svars
    <3>1. /\ [t \in Task |-> TakePhase(t)]' = [t \in Task |-> TakePhase(t)]
          /\ [t \in Task |-> TakeTarget(t)]' = [t \in Task |-> TakeTarget(t)]
      BY <2>2 DEF SameCall
    <3>2. QED  BY <2>1, <3>1 DEF Abstract!svars
  <2>5. QED  BY <2>3, <2>4 DEF AbstractStep
<1>2. CASE SemNext
  BY <1>2, SystemTakes, CallTakes, GiveFromIsrTakes, TakeBlockTakes, TakeReturnTakes,
     EnterTakes, TakeTokenTakes, RefuseTakes, TakeMissTakes, GiveTakes, DeleteTakes,
     SemCreateTakes
  DEF SemNext
<1>3. QED  BY <1>1, <1>2

\* The invariant holds in every reachable state.
THEOREM SemaphoresSafe ==
  ASSUME Disciplined
  PROVE  SemSpec => []SemInv
<1>1. SemInv /\ [SemNext]_all_vars => SemInv'
  BY SemNextHolds
<1>2. QED  BY <1>1, SemInitHolds, PTL DEF SemSpec

\* No semaphore ever has more than max_count tokens, and the scheduler below
\* keeps its types.
THEOREM SemTypesOK ==
  ASSUME Disciplined
  PROVE  SemSpec => []SemTypeOK
<1>1. SemInv => SemTypeOK
  BY DEF SemInv, SchedInv, SemTypes, SemTypeOK
<1>2. QED  BY <1>1, SemaphoresSafe, PTL

\* Gives, timeouts and deletions leave the lists consistent and the head of the
\* highest ready queue in control of the CPU.
THEOREM SemSchedulingSafe ==
  ASSUME Disciplined
  PROVE  SemSpec => []SemScheduling
<1>1. SemInv => SemScheduling
  <2> SUFFICES ASSUME SemInv PROVE SemScheduling
    OBVIOUS
  <2>1. NoFault /\ ListsConsistent
    BY DEF SemInv, SchedInv, NoFault, ListsConsistent
  <2>2. ASSUME Quiescent
        PROVE  current = select_next_task(k) \/ (lock_nesting > 0 /\ reschedule_pending)
    <3>1. is_running /\ ~pendsv /\ isr = "none" /\ pc[current] \in {"user", "wait_return"}
      BY <2>2 DEF Quiescent
    <3>2. QED  BY <3>1 DEF SemInv, SchedInv, SwitchInv
  <2>3. QED  BY <2>1, <2>2 DEF SemScheduling, HighestPriorityRuns
<1>2. QED  BY <1>1, SemaphoresSafe, PTL

\* The semaphores of the kernel, with the scheduler, its lists, the tick and the
\* interrupts below them, implement the abstract ones: every token is taken
\* once, none appears or vanishes, and a waiting take is granted, expires or
\* is cancelled, exactly once.
THEOREM SemaphoresImplement ==
  ASSUME Disciplined
  PROVE  SemSpec => SemImplements
<1>1. SemInv /\ [SemNext]_all_vars => [Abstract!SNext]_(Abstract!svars)
  BY SemNextHolds DEF AbstractStep
<1>2. SemInit => Abstract!SInit
  BY SemInitHolds
<1>3. QED  BY <1>1, <1>2, SemaphoresSafe, PTL DEF SemSpec, SemImplements, Abstract!SSpec

-----------------------------------------------------------------------------
(* What the routines do to a kernel whose lists are in order but for tasks *)
(* that were RUNNING when their priority changed.                          *)

\* r is K with tasks moved between the ready queues, or with a list misused.
OnlyMoved(K, r) ==
    /\ r \in Kernel
    /\ r.state = K.state /\ r.base_priority = K.base_priority
    /\ r.delay_ticks = K.delay_ticks /\ r.wait_list = K.wait_list
    /\ r.waiters = K.waiters
    /\ K.fault \subseteq r.fault

\* A misuse is never forgotten.
LEMMA FaultsKept ==
  ASSUME NEW K \in Kernel, NEW t \in Task, NEW w \in WaitList
  PROVE  /\ K.fault \subseteq add_ready(K, t).fault
         /\ K.fault \subseteq remove_ready(K, t).fault
         /\ K.fault \subseteq unblock_highest(K, w).fault
<1>1. \A x \in Kernel, u \in Task : x.fault \subseteq add_ready(x, u).fault
  BY DEF add_ready, Kernel
<1>2. K.fault \subseteq remove_ready(K, t).fault
  BY DEF remove_ready, Unlinked, Kernel
<1>3. K.fault \subseteq unblock_highest(K, w).fault
  <2>1. CASE K.waiters[w] = <<>>
    BY <2>1 DEF unblock_highest
  <2>2. CASE K.waiters[w] # <<>>
    <3> DEFINE u == Head(K.waiters[w])
               r == [wait_list_remove(K, w, u) EXCEPT !.wait_list[u] = None]
               F == IF Contains(K.delay, u) THEN r.fault ELSE r.fault \cup {u}
               s == [Unlinked(r, u) EXCEPT !.delay_ticks[u] = 0, !.fault = F]
    <3>1. u \in Task
      BY <2>2, FieldTypes, HeadElement
    <3>2. r \in Kernel
      BY <3>1, OffWaitListType
    <3>3. r.fault = K.fault
      BY DEF wait_list_remove, Kernel
    <3>4. Unlinked(r, u).fault = r.fault
      <4> HIDE DEF r
      <4> QED  BY <3>2 DEF Unlinked, Kernel
    <3>5. unblock_highest(K, w) = IF K.delay_ticks[u] > 0 THEN add_ready(s, u) ELSE add_ready(r, u)
      BY <2>2, <3>4 DEF unblock_highest
    <3> HIDE DEF r, u, F
    <3>6. Unlinked(r, u) \in Kernel
      BY <3>1, <3>2, UnlinkedType
    <3>7. F \in SUBSET Task /\ K.fault \subseteq F /\ 0 \in 0 .. MaxDelay
      BY <3>1, <3>2, <3>3, FieldTypes, KernelAssumption DEF F
    <3>8. s \in Kernel /\ s.fault = F
      BY <3>1, <3>6, <3>7 DEF Kernel
    <3> HIDE DEF s
    <3>9. QED  BY <1>1, <3>1, <3>2, <3>3, <3>5, <3>7, <3>8
  <2>3. QED  BY <2>1, <2>2
<1>4. QED  BY <1>1, <1>2, <1>3

\* change_priority moves at most one task.
LEMMA ChangePriorityFields ==
  ASSUME NEW K \in Kernel, NEW u \in Task, NEW p \in Priority
  PROVE  OnlyMoved(K, change_priority(K, u, p))
<1> DEFINE o == remove_ready(K, u)
           d == [o EXCEPT !.priority[u] = p]
           r == change_priority(K, u, p)
<1>1. CASE K.priority[u] = p
  BY <1>1 DEF change_priority, OnlyMoved
<1>2. CASE K.priority[u] # p /\ K.state[u] = "READY"
  <2>1. o \in Kernel /\ K.fault \subseteq o.fault
    <3>1. o \in Kernel
      BY RemoveReadyType
    <3>2. K.fault \subseteq o.fault
      BY DEF remove_ready, Unlinked, Kernel
    <3>3. QED  BY <3>1, <3>2
  <2>2. /\ o.state = K.state /\ o.base_priority = K.base_priority
        /\ o.delay_ticks = K.delay_ticks /\ o.wait_list = K.wait_list
        /\ o.waiters = K.waiters
    BY DEF remove_ready, Unlinked, Kernel
  <2>3. r = add_ready(d, u)
    BY <1>2 DEF change_priority
  <2> HIDE DEF o, r
  <2>4. /\ d \in Kernel /\ d.state = o.state /\ d.base_priority = o.base_priority
        /\ d.delay_ticks = o.delay_ticks /\ d.wait_list = o.wait_list
        /\ d.waiters = o.waiters /\ d.fault = o.fault
    BY <2>1 DEF Kernel
  <2> HIDE DEF d
  <2>5. /\ r.state = [d.state EXCEPT ![u] = "READY"] /\ r.base_priority = d.base_priority
        /\ r.delay_ticks = d.delay_ticks /\ r.wait_list = d.wait_list
        /\ r.waiters = d.waiters /\ d.fault \subseteq r.fault
    BY <2>3, <2>4 DEF add_ready, Kernel
  <2>6. r \in Kernel
    BY <2>3, <2>4, AddReadyType
  <2>7. r.state = K.state
    <3>1. K.state \in [Task -> TaskState]
      BY FieldTypes
    <3>2. r.state = [K.state EXCEPT ![u] = "READY"]
      BY <2>2, <2>4, <2>5
    <3>3. QED  BY <1>2, <3>1, <3>2
  <2>8. OnlyMoved(K, r)
    BY <2>1, <2>2, <2>4, <2>5, <2>6, <2>7 DEF OnlyMoved
  <2>9. QED  BY <2>8 DEF r
<1>3. CASE K.priority[u] # p /\ K.state[u] # "READY"
  BY <1>3 DEF change_priority, OnlyMoved, Kernel
<1>4. QED  BY <1>1, <1>2, <1>3

\* The lists stay in order, or a list was misused: the task was ready on the
\* queue of another priority than its own.
LEMMA ChangePriorityLinked ==
  ASSUME NEW K \in Kernel, NEW u \in Task, NEW p \in Priority, Linked(K),
         change_priority(K, u, p).fault = {}
  PROVE  Linked(change_priority(K, u, p))
<1> DEFINE o == remove_ready(K, u)
           d == [o EXCEPT !.priority[u] = p]
           r == change_priority(K, u, p)
<1>1. PICK at \in [Task -> Priority] : KernelConsistent(Placed(K, at))
  BY DEF Linked
<1> DEFINE a == Placed(K, at)
<1>2. /\ a \in Kernel /\ a.priority = at /\ a.state = K.state
      /\ a.delay_ticks = K.delay_ticks /\ a.wait_list = K.wait_list /\ a.ready = K.ready
      /\ a.bitmap = K.bitmap /\ a.delay = K.delay /\ a.waiters = K.waiters /\ a.fault = K.fault
  BY PlacedFields
<1>3. KernelConsistent(a)
  BY <1>1
<1> HIDE DEF a
<1>4. CASE K.priority[u] = p
  BY <1>4 DEF change_priority
<1>5. CASE K.priority[u] # p /\ K.state[u] # "READY"
  <2>1. r = [K EXCEPT !.priority[u] = p]
    BY <1>5 DEF change_priority
  <2> HIDE DEF r
  <2>2. /\ r \in Kernel /\ r.state = K.state
        /\ r.delay_ticks = K.delay_ticks /\ r.wait_list = K.wait_list /\ r.ready = K.ready
        /\ r.bitmap = K.bitmap /\ r.delay = K.delay /\ r.waiters = K.waiters
    BY <2>1 DEF Kernel
  <2> DEFINE z == Placed(r, at)
  <2>3. /\ z.priority = at /\ z.state = r.state
        /\ z.delay_ticks = r.delay_ticks /\ z.wait_list = r.wait_list /\ z.ready = r.ready
        /\ z.bitmap = r.bitmap /\ z.delay = r.delay /\ z.waiters = r.waiters
    BY <2>2, PlacedFields
  <2> HIDE DEF z
  <2>4. KernelConsistent(z)
    BY <1>2, <1>3, <2>2, <2>3, ConsistentSame
  <2>5. QED  BY <2>4 DEF Linked, z, r
<1>6. CASE K.priority[u] # p /\ K.state[u] = "READY"
  <2>1. o \in Kernel
    BY RemoveReadyType
  <2>2. r = add_ready(d, u)
    BY <1>6 DEF change_priority
  <2>3. d \in Kernel /\ d.fault = o.fault
    <3> HIDE DEF o
    <3> QED  BY <2>1 DEF Kernel
  <2>4. o.fault = {}
    <3>1. d.fault \subseteq r.fault
      <4> HIDE DEF d
      <4> QED  BY <2>2, <2>3 DEF add_ready, Kernel
    <3>2. QED  BY <2>3, <3>1
  <2>5. Contains(K.ready[K.priority[u]], u)
    <3>1. StateLinked(K, u)
      BY <1>6, LinkedFacts DEF StateLinked, Runnable
    <3>2. ~Contains(K.ready[K.priority[u]], u) => u \in o.fault
      BY <3>1 DEF remove_ready, Unlinked, Kernel
    <3>3. QED  BY <2>4, <3>2
  <2>6. at[u] = K.priority[u]
    BY <1>2, <1>3, <2>5, FieldTypes DEF KernelConsistent, ReadyQueuesConsistent
  <2> DEFINE e == remove_ready(a, u)
             to == [at EXCEPT ![u] = p]
             b == Placed(d, to)
             v == K.priority[u]
             q == RemoveFirst(K.ready[v], u)
             B == IF q = <<>> THEN K.bitmap \ {v} ELSE K.bitmap
  <2>7. o = [K EXCEPT !.ready[v] = q, !.bitmap = B]
    BY <2>5, RemoveQueuedFields
  <2>8. e = [a EXCEPT !.ready[v] = q, !.bitmap = B]
    <3>1. a.priority[u] = v /\ a.ready[v] = K.ready[v] /\ a.bitmap = K.bitmap
      BY <1>2, <2>6
    <3>2. Contains(a.ready[a.priority[u]], u)
      BY <2>5, <3>1
    <3>3. e = [a EXCEPT !.ready[a.priority[u]] = RemoveFirst(a.ready[a.priority[u]], u),
                        !.bitmap = IF RemoveFirst(a.ready[a.priority[u]], u) = <<>>
                                   THEN a.bitmap \ {a.priority[u]} ELSE a.bitmap]
      BY <1>2, <3>2, RemoveQueuedFields
    <3>4. QED  BY <3>1, <3>3, Zenon
  <2>9. to \in [Task -> Priority] /\ to[u] = p
    OBVIOUS
  <2> HIDE DEF q, B, o, e, to
  <2>10. /\ o.state = K.state /\ o.delay_ticks = K.delay_ticks
         /\ o.wait_list = K.wait_list /\ o.ready = [K.ready EXCEPT ![v] = q] /\ o.bitmap = B
         /\ o.delay = K.delay /\ o.waiters = K.waiters /\ o.fault = K.fault
    BY <2>7 DEF Kernel
  <2>11. /\ e.state = a.state /\ e.priority = at /\ e.delay_ticks = a.delay_ticks
         /\ e.wait_list = a.wait_list /\ e.ready = [a.ready EXCEPT ![v] = q] /\ e.bitmap = B
         /\ e.delay = a.delay /\ e.waiters = a.waiters /\ e.fault = a.fault
    BY <1>2, <2>8 DEF Kernel
  <2>12. /\ d.state = o.state /\ d.delay_ticks = o.delay_ticks /\ d.wait_list = o.wait_list
         /\ d.ready = o.ready /\ d.bitmap = o.bitmap /\ d.delay = o.delay
         /\ d.waiters = o.waiters /\ d.priority[u] = p
    BY <2>1 DEF Kernel
  <2> HIDE DEF d
  <2>13. /\ b \in Kernel /\ b.priority = to /\ b.state = d.state
         /\ b.delay_ticks = d.delay_ticks /\ b.wait_list = d.wait_list /\ b.ready = d.ready
         /\ b.bitmap = d.bitmap /\ b.delay = d.delay /\ b.waiters = d.waiters /\ b.fault = d.fault
    BY <2>3, <2>9, PlacedFields
  <2> HIDE DEF b
  <2>14. /\ b.state = e.state /\ b.priority = [e.priority EXCEPT ![u] = p]
         /\ b.delay_ticks = e.delay_ticks /\ b.wait_list = e.wait_list /\ b.ready = e.ready
         /\ b.bitmap = e.bitmap /\ b.delay = e.delay /\ b.waiters = e.waiters
         /\ b.fault = e.fault
    BY <1>2, <2>3, <2>10, <2>11, <2>12, <2>13 DEF to
  <2>15. a.state[u] = "READY" /\ e = remove_ready(a, u)
    BY <1>2, <1>6 DEF e
  <2>16. KernelConsistent(add_ready(b, u))
    BY <1>2, <1>3, <2>13, <2>14, <2>15, RequeueEffect
  <2> DEFINE y == add_ready(b, u)
             z == Placed(r, to)
  <2>17. r \in Kernel
    BY <2>2, <2>3, AddReadyType
  <2>18. /\ z.priority = to /\ z.state = r.state
         /\ z.delay_ticks = r.delay_ticks /\ z.wait_list = r.wait_list /\ z.ready = r.ready
         /\ z.bitmap = r.bitmap /\ z.delay = r.delay /\ z.waiters = r.waiters
    BY <2>9, <2>17, PlacedFields
  <2>19. /\ r.state = [d.state EXCEPT ![u] = "READY"]
         /\ r.delay_ticks = d.delay_ticks /\ r.wait_list = d.wait_list
         /\ r.ready = [d.ready EXCEPT ![p] = Append(@, u)]
         /\ r.bitmap = d.bitmap \cup {p} /\ r.delay = d.delay /\ r.waiters = d.waiters
    <3> HIDE DEF r
    <3>1. /\ r.state = [d.state EXCEPT ![u] = "READY"]
          /\ r.delay_ticks = d.delay_ticks /\ r.wait_list = d.wait_list
          /\ r.ready = [d.ready EXCEPT ![d.priority[u]] = Append(@, u)]
          /\ r.bitmap = d.bitmap \cup {d.priority[u]}
          /\ r.delay = d.delay /\ r.waiters = d.waiters
      BY <2>2, <2>3, AddReadyFields
    <3>2. QED  BY <2>12, <3>1, Zenon
  <2>20. /\ y.state = [b.state EXCEPT ![u] = "READY"] /\ y.priority = b.priority
         /\ y.delay_ticks = b.delay_ticks /\ y.wait_list = b.wait_list
         /\ y.ready = [b.ready EXCEPT ![p] = Append(@, u)]
         /\ y.bitmap = b.bitmap \cup {p} /\ y.delay = b.delay /\ y.waiters = b.waiters
    BY <2>9, <2>13, AddReadyFields
  <2>21. KernelConsistent(y)
    BY <2>16
  <2> HIDE DEF y, z, r
  <2>22. KernelConsistent(z)
    BY <2>13, <2>18, <2>19, <2>20, <2>21, ConsistentSame
  <2>23. QED  BY <2>9, <2>22 DEF Linked, z, r
<1>7. QED  BY <1>4, <1>5, <1>6

\* The rotation of the ready queues.
LEMMA RotateLinked ==
  ASSUME NEW K \in Kernel, NEW t \in Task, Linked(K)
  PROVE  /\ OnlyMoved(K, rotate(K, t))
         /\ rotate(K, t).fault = {} => Linked(rotate(K, t))
<1> DEFINE r == rotate(K, t)
<1>1. OnlyMoved(K, r)
  <2>1. r \in Kernel
    BY RotateType
  <2> DEFINE p == K.priority[t]
             U == Unlinked(K, t)
             F == IF Contains(K.ready[p], t) THEN U.fault ELSE U.fault \cup {t}
  <2>2. /\ U \in Kernel /\ U.state = K.state /\ U.base_priority = K.base_priority
        /\ U.delay_ticks = K.delay_ticks /\ U.wait_list = K.wait_list
        /\ U.waiters = K.waiters /\ U.fault = K.fault
    <3>1. U \in Kernel
      BY UnlinkedType
    <3>2. QED  BY <3>1 DEF Unlinked, Kernel
  <2>3. r = K \/ r = [U EXCEPT !.ready[p] = Append(@, t), !.fault = F]
    BY DEF rotate
  <2>4. K.fault \subseteq F
    BY <2>2
  <2> HIDE DEF r, U, F
  <2>5. CASE r = [U EXCEPT !.ready[p] = Append(@, t), !.fault = F]
    BY <2>1, <2>2, <2>4, <2>5 DEF OnlyMoved, Kernel
  <2>6. QED  BY <2>1, <2>3, <2>5 DEF OnlyMoved
<1>2. ASSUME r.fault = {} PROVE Linked(r)
  <2>1. CASE ~(Len(K.ready[K.priority[t]]) > 1)
    BY <2>1 DEF rotate
  <2>2. CASE Len(K.ready[K.priority[t]]) > 1
    <3>1. Contains(K.ready[K.priority[t]], t)
      <4>1. ~Contains(K.ready[K.priority[t]], t) => t \in r.fault
        BY <2>2 DEF rotate, Unlinked, Kernel
      <4>2. QED  BY <1>2, <4>1
    <3>2. PICK at \in [Task -> Priority] : KernelConsistent(Placed(K, at))
      BY DEF Linked
    <3> DEFINE a == Placed(K, at)
               c == rotate(a, t)
               z == Placed(r, at)
    <3>3. /\ a \in Kernel /\ a.priority = at /\ a.state = K.state
          /\ a.delay_ticks = K.delay_ticks /\ a.wait_list = K.wait_list /\ a.ready = K.ready
          /\ a.bitmap = K.bitmap /\ a.delay = K.delay /\ a.waiters = K.waiters
          /\ a.fault = K.fault
      BY PlacedFields
    <3>4. KernelConsistent(a)
      BY <3>2
    <3> HIDE DEF a
    <3>5. at[t] = K.priority[t] /\ a.state[t] \in Runnable
      BY <3>1, <3>3, <3>4, FieldTypes DEF KernelConsistent, ReadyQueuesConsistent
    <3>6. KernelConsistent(c)
      BY <3>3, <3>4, <3>5, RotateEffect
    <3> DEFINE p == K.priority[t]
               U == Unlinked(K, t)
               V == Unlinked(a, t)
    <3>7. /\ U \in Kernel /\ V \in Kernel
      BY <3>3, UnlinkedType
    <3>8. /\ U.ready = [v \in Priority |-> RemoveFirst(K.ready[v], t)]
          /\ U.state = K.state /\ U.delay_ticks = K.delay_ticks
          /\ U.wait_list = K.wait_list /\ U.bitmap = K.bitmap
          /\ U.delay = RemoveFirst(K.delay, t) /\ U.waiters = K.waiters
      BY DEF Unlinked, Kernel
    <3>9. /\ V.ready = [v \in Priority |-> RemoveFirst(a.ready[v], t)]
          /\ V.state = a.state /\ V.delay_ticks = a.delay_ticks /\ V.priority = a.priority
          /\ V.wait_list = a.wait_list /\ V.bitmap = a.bitmap
          /\ V.delay = RemoveFirst(a.delay, t) /\ V.waiters = a.waiters
      BY <3>3 DEF Unlinked, Kernel
    <3>10. r = [U EXCEPT !.ready[p] = Append(@, t), !.fault = @]
      BY <2>2, <3>1 DEF rotate
    <3>11. c = [V EXCEPT !.ready[p] = Append(@, t), !.fault = @]
      <4>1. a.priority[t] = p /\ Len(a.ready[p]) > 1 /\ Contains(a.ready[p], t)
        BY <2>2, <3>1, <3>3, <3>5
      <4>2. QED  BY <4>1 DEF rotate
    <3> HIDE DEF U, V, r, c
    <3>12. /\ r.ready = [U.ready EXCEPT ![p] = Append(@, t)]
           /\ r.state = U.state /\ r.delay_ticks = U.delay_ticks /\ r.wait_list = U.wait_list
           /\ r.bitmap = U.bitmap /\ r.delay = U.delay /\ r.waiters = U.waiters
      BY <3>7, <3>10 DEF Kernel
    <3>13. /\ c.ready = [V.ready EXCEPT ![p] = Append(@, t)] /\ c.priority = V.priority
           /\ c.state = V.state /\ c.delay_ticks = V.delay_ticks /\ c.wait_list = V.wait_list
           /\ c.bitmap = V.bitmap /\ c.delay = V.delay /\ c.waiters = V.waiters
      BY <3>7, <3>11 DEF Kernel
    <3>14. U.ready = V.ready
      BY <3>3, <3>8, <3>9
    <3>15. r \in Kernel
      BY <1>1 DEF OnlyMoved
    <3>16. /\ z.priority = at /\ z.state = r.state
           /\ z.delay_ticks = r.delay_ticks /\ z.wait_list = r.wait_list /\ z.ready = r.ready
           /\ z.bitmap = r.bitmap /\ z.delay = r.delay /\ z.waiters = r.waiters
      BY <3>15, PlacedFields
    <3> HIDE DEF z
    <3>17. KernelConsistent(z)
      BY <3>3, <3>6, <3>8, <3>9, <3>12, <3>13, <3>14, <3>16, ConsistentSame
    <3>18. QED  BY <3>17 DEF Linked, z
  <2>3. QED  BY <2>1, <2>2
<1>3. QED  BY <1>1, <1>2

\* perform_switch to a runnable task.
LEMMA SwitchLinked ==
  ASSUME NEW K \in Kernel, NEW prev, NEW next \in Task, Linked(K), K.state[next] \in Runnable,
         NEW r, r = perform_switch(K, prev, next)
  PROVE  Linked(r)
<1>1. PICK at \in [Task -> Priority] : KernelConsistent(Placed(K, at))
  BY DEF Linked
<1> DEFINE a == Placed(K, at)
           c == perform_switch(a, prev, next)
           z == Placed(r, at)
<1>2. /\ a \in Kernel /\ a.priority = at /\ a.state = K.state
      /\ a.delay_ticks = K.delay_ticks /\ a.wait_list = K.wait_list /\ a.ready = K.ready
      /\ a.bitmap = K.bitmap /\ a.delay = K.delay /\ a.waiters = K.waiters
  BY PlacedFields
<1>3. KernelConsistent(a)
  BY <1>1
<1> HIDE DEF a
<1>4. KernelConsistent(c)
  BY <1>2, <1>3, PerformSwitchEffect
<1>5. r \in Kernel
  BY PerformSwitchType
<1>6. /\ z.priority = at /\ z.state = r.state
      /\ z.delay_ticks = r.delay_ticks /\ z.wait_list = r.wait_list /\ z.ready = r.ready
      /\ z.bitmap = r.bitmap /\ z.delay = r.delay /\ z.waiters = r.waiters
  BY <1>5, PlacedFields
<1> HIDE DEF z
<1> DEFINE f(x) == [t \in Task |-> IF t = next THEN "RUNNING"
                                   ELSE IF t = prev /\ x.state[t] = "RUNNING" THEN "READY"
                                   ELSE x.state[t]]
<1>7. f(a) = f(K)
  BY <1>2
<1>8. /\ r.state = f(K) /\ r.delay_ticks = K.delay_ticks /\ r.wait_list = K.wait_list
      /\ r.ready = K.ready /\ r.bitmap = K.bitmap /\ r.delay = K.delay /\ r.waiters = K.waiters
  BY DEF perform_switch, Kernel
<1>9. /\ c.state = f(a) /\ c.delay_ticks = a.delay_ticks /\ c.wait_list = a.wait_list
      /\ c.ready = a.ready /\ c.bitmap = a.bitmap /\ c.delay = a.delay
      /\ c.waiters = a.waiters /\ c.priority = a.priority
  BY <1>2 DEF perform_switch, Kernel
<1> HIDE DEF f, c
<1>10. KernelConsistent(z)
  BY <1>2, <1>4, <1>6, <1>7, <1>8, <1>9, ConsistentSame
<1>11. QED  BY <1>10 DEF Linked, z

\* A countdown goes on.
LEMMA CountdownLinked ==
  ASSUME NEW K \in Kernel, NEW t \in Task, Linked(K), K.delay_ticks[t] > 1,
         NEW r \in Kernel, r = delayed_task_tick(K, t)
  PROVE  /\ Linked(r)
         /\ r.state = K.state /\ r.wait_list = K.wait_list /\ r.delay = K.delay
         /\ r.fault = K.fault
<1>1. PICK at \in [Task -> Priority] : KernelConsistent(Placed(K, at))
  BY DEF Linked
<1> DEFINE a == Placed(K, at)
           c == delayed_task_tick(a, t)
           z == Placed(r, at)
<1>2. /\ a \in Kernel /\ a.priority = at /\ a.state = K.state
      /\ a.delay_ticks = K.delay_ticks /\ a.wait_list = K.wait_list /\ a.ready = K.ready
      /\ a.bitmap = K.bitmap /\ a.delay = K.delay /\ a.waiters = K.waiters
  BY PlacedFields
<1>3. KernelConsistent(a)
  BY <1>1
<1> HIDE DEF a
<1>4. c = [a EXCEPT !.delay_ticks[t] = @ - 1]
  BY <1>2, <1>3, CountdownConsistent
<1>5. KernelConsistent(c)
  BY <1>2, <1>3, CountdownConsistent
<1>6. r = [K EXCEPT !.delay_ticks[t] = @ - 1]
  BY DEF delayed_task_tick
<1>7. /\ z.priority = at /\ z.state = r.state
      /\ z.delay_ticks = r.delay_ticks /\ z.wait_list = r.wait_list /\ z.ready = r.ready
      /\ z.bitmap = r.bitmap /\ z.delay = r.delay /\ z.waiters = r.waiters
  BY PlacedFields
<1> HIDE DEF z
<1>8. /\ r.delay_ticks = [K.delay_ticks EXCEPT ![t] = @ - 1]
      /\ r.state = K.state /\ r.wait_list = K.wait_list /\ r.fault = K.fault
      /\ r.ready = K.ready /\ r.bitmap = K.bitmap /\ r.delay = K.delay /\ r.waiters = K.waiters
  BY <1>6 DEF Kernel
<1>9. /\ c.delay_ticks = [a.delay_ticks EXCEPT ![t] = @ - 1] /\ c.priority = a.priority
      /\ c.state = a.state /\ c.wait_list = a.wait_list
      /\ c.ready = a.ready /\ c.bitmap = a.bitmap /\ c.delay = a.delay /\ c.waiters = a.waiters
  BY <1>2, <1>4 DEF Kernel
<1> HIDE DEF c
<1>10. KernelConsistent(z)
  <2>1. z.delay_ticks = c.delay_ticks
    BY <1>2, <1>7, <1>8, <1>9, Zenon
  <2>2. /\ z.state = c.state /\ z.priority = c.priority /\ z.wait_list = c.wait_list
        /\ z.ready = c.ready /\ z.bitmap = c.bitmap /\ z.delay = c.delay
        /\ z.waiters = c.waiters
    BY <1>2, <1>7, <1>8, <1>9, Zenon
  <2>3. QED  BY <1>5, <2>1, <2>2, ConsistentSame
<1>11. Linked(r)
  BY <1>10 DEF Linked, z
<1>12. QED  BY <1>8, <1>11

\* With a runnable task there is, select_next_task returns a runnable task.
LEMMA SelectLinked ==
  ASSUME NEW K \in Kernel, Linked(K), NEW i \in Task, K.state[i] \in Runnable
  PROVE  /\ select_next_task(K) \in Task /\ select_next_task(K) # None
         /\ K.state[select_next_task(K)] \in Runnable
<1>1. PICK at \in [Task -> Priority] : KernelConsistent(Placed(K, at))
  BY DEF Linked
<1> DEFINE a == Placed(K, at)
<1>2. a \in Kernel /\ a.state = K.state /\ a.ready = K.ready /\ a.bitmap = K.bitmap
  BY PlacedFields
<1>3. KernelConsistent(a)
  BY <1>1
<1> HIDE DEF a
<1>4. select_next_task(a) \in Task /\ a.state[select_next_task(a)] \in Runnable
  BY <1>2, <1>3, SelectHighest
<1>5. select_next_task(a) = select_next_task(K)
  BY <1>2, Zenon DEF select_next_task
<1>6. QED  BY <1>2, <1>4, <1>5, KernelAssumption

\* A runnable task that is not on the queue of its priority cannot block:
\* remove_ready takes it off another one.
LEMMA RemoveMisplaced ==
  ASSUME NEW K \in Kernel, NEW t \in Task, Linked(K),
         K.state[t] \in Runnable, ~Contains(K.ready[K.priority[t]], t)
  PROVE  remove_ready(K, t) \in Kernel /\ t \in remove_ready(K, t).fault
<1>1. StateLinked(K, t)
  BY LinkedFacts DEF StateLinked
<1>2. remove_ready(K, t) \in Kernel
  BY RemoveReadyType
<1>3. t \in remove_ready(K, t).fault
  BY <1>1 DEF remove_ready, Unlinked, Kernel
<1>4. QED  BY <1>2, <1>3

LEMMA DelayMisplaced ==
  ASSUME NEW K \in Kernel, NEW t \in Task, Linked(K), NEW n,
         K.state[t] \in Runnable, ~Contains(K.ready[K.priority[t]], t)
  PROVE  block_on_delay(K, t, n).fault # {}
<1> DEFINE m == remove_ready(K, t)
<1>1. m \in Kernel /\ t \in m.fault
  BY RemoveMisplaced
<1>2. block_on_delay(K, t, n) = [m EXCEPT !.state[t] = "BLOCKED",
                                          !.delay_ticks[t] = n, !.delay = Append(@, t)]
  BY DEF block_on_delay
<1> HIDE DEF m
<1>3. block_on_delay(K, t, n).fault = m.fault
  BY <1>1, <1>2 DEF Kernel
<1>4. QED  BY <1>1, <1>3

LEMMA WaitMisplaced ==
  ASSUME NEW K \in Kernel, NEW t \in Task, NEW w \in WaitList, Linked(K), NEW n,
         K.state[t] \in Runnable, ~Contains(K.ready[K.priority[t]], t)
  PROVE  block_on_wait_list(K, t, w, n).fault # {}
<1> DEFINE m == remove_ready(K, t)
           d == [m EXCEPT !.state[t] = "BLOCKED", !.wait_list[t] = w]
           r == insert_wait_list_priority(d, w, t)
<1>1. m \in Kernel /\ t \in m.fault
  BY RemoveMisplaced
<1>2. block_on_wait_list(K, t, w, n) =
        IF n # Forever THEN [r EXCEPT !.delay_ticks[t] = n, !.delay = Append(@, t)]
        ELSE [r EXCEPT !.delay_ticks[t] = 0]
  BY DEF block_on_wait_list
<1> HIDE DEF m
<1>3. d \in Kernel /\ d.fault = m.fault
  BY <1>1 DEF Kernel, TaskState
<1> HIDE DEF d
<1>4. t \in r.fault
  BY <1>1, <1>3 DEF insert_wait_list_priority, Kernel
<1>5. r \in Kernel
  BY <1>3, InsertWaitType
<1> HIDE DEF r
<1>6. block_on_wait_list(K, t, w, n).fault = r.fault
  BY <1>2, <1>5 DEF Kernel
<1>7. QED  BY <1>4, <1>6

-----------------------------------------------------------------------------
(* The loop of the delete services.                                        *)

\* What one round keeps, the loop keeps.
LEMMA UnblockAllKeeps ==
  ASSUME NEW K, NEW w, Len(K.waiters[w]) \in Nat,
         NEW S, K \in S, \A x \in S : unblock_highest(x, w) \in S
  PROVE  unblock_all(K, w) \in S
<1> DEFINE n == Len(K.waiters[w])
<1>1. PICK f : Rounds(f, K, w, n) /\ unblock_all(K, w) = f[n]
  BY UnblockAllRounds
<1>2. f[0] = K /\ \A i \in 1 .. n : f[i] = unblock_highest(f[i - 1], w)
  <2>1. n \in Nat
    OBVIOUS
  <2> HIDE DEF n
  <2>2. 0 \in 0 .. n /\ \A i \in 1 .. n : i \in 0 .. n /\ i # 0
    BY <2>1
  <2>3. QED  BY <1>1, <2>2 DEF Rounds
<1> DEFINE B == {i \in 0 .. n : f[i] \notin S}
<1>3. B = {}
  <2> SUFFICES ASSUME B # {} PROVE FALSE
    OBVIOUS
  <2> DEFINE m == Min(B)
  <2>1. B \in SUBSET Nat
    OBVIOUS
  <2>2. m \in B /\ \A x \in B : m <= x
    <3> HIDE DEF B
    <3>1. QED  BY <2>1, MinExists
  <2>3. m \in 0 .. n /\ f[m] \notin S /\ m # 0
    BY <1>2, <2>2
  <2>4. m - 1 \in 0 .. n /\ m \in 1 .. n
    BY <2>3
  <2>5. f[m - 1] \in S
    BY <2>2, <2>4
  <2> HIDE DEF m, B
  <2>6. QED  BY <1>2, <2>3, <2>4, <2>5
<1>4. QED  BY <1>1, <1>3

\* r is K after tasks that waited on w were woken.
WokenFrom(K, r, w) ==
    /\ r \in Kernel /\ Linked(r) /\ r.fault = K.fault
    /\ \A t \in Task :
        \/ /\ r.state[t] = K.state[t] /\ r.wait_list[t] = K.wait_list[t]
           /\ r.delay_ticks[t] = K.delay_ticks[t]
        \/ /\ K.wait_list[t] = w /\ w # None /\ K.state[t] = "BLOCKED" /\ r.state[t] = "READY"
           /\ r.wait_list[t] = None /\ r.delay_ticks[t] = 0

LEMMA WakeLinked ==
  ASSUME NEW K \in Kernel, NEW w \in WaitList, Linked(K), K.waiters[w] # <<>>,
         NEW r, r = unblock_highest(K, w), NEW u, u = highest_waiter(K, w)
  PROVE  /\ u \in Task /\ u # None /\ K.wait_list[u] = w /\ w # None /\ K.state[u] = "BLOCKED"
         /\ r \in Kernel /\ Linked(r) /\ r.fault = K.fault
         /\ \A t \in Task : /\ r.state[t] = IF t = u THEN "READY" ELSE K.state[t]
                            /\ r.wait_list[t] = IF t = u THEN None ELSE K.wait_list[t]
                            /\ r.delay_ticks[t] = IF t = u THEN 0 ELSE K.delay_ticks[t]
<1>1. u = Head(K.waiters[w]) /\ r \in Kernel
  BY UnblockHighestType DEF highest_waiter
<1>2. u \in Task /\ K.state[u] = "BLOCKED" /\ MadeReady(K, r, u, K.priority[u])
  BY <1>1, UnblockLinked
<1>3. K.wait_list[u] = w /\ w # None /\ u # None
  <2>1. Contains(K.waiters[w], u) /\ WaitListsConsistent(K)
    BY <1>1, FieldTypes, HeadElement, LinkedFacts
  <2>2. QED  BY <1>2, <2>1, KernelAssumption DEF WaitListsConsistent
<1>4. K.state[u] \notin Runnable /\ K.priority[u] \in Priority
  BY <1>2, FieldTypes DEF Runnable
<1>5. Linked(r)
  BY <1>1, <1>2, <1>4, MadeReadyLinked
<1>6. /\ K.state \in [Task -> TaskState] /\ K.wait_list \in [Task -> WaitList \cup {None}]
      /\ K.delay_ticks \in [Task -> 0 .. MaxDelay]
  BY FieldTypes
<1>7. QED  BY <1>1, <1>2, <1>3, <1>5, <1>6 DEF MadeReady

LEMMA UnblockAllLinked ==
  ASSUME NEW K \in Kernel, NEW w \in WaitList
  PROVE  /\ unblock_all(K, w) \in Kernel /\ K.fault \subseteq unblock_all(K, w).fault
         /\ Linked(K) => WokenFrom(K, unblock_all(K, w), w)
<1>1. Len(K.waiters[w]) \in Nat
  BY FieldTypes
<1>2. unblock_all(K, w) \in Kernel /\ K.fault \subseteq unblock_all(K, w).fault
  <2> DEFINE S == {x \in Kernel : K.fault \subseteq x.fault}
  <2>1. K \in S
    OBVIOUS
  <2>2. ASSUME NEW x \in S PROVE unblock_highest(x, w) \in S
    <3>1. x \in Kernel /\ Idle \in Task
      BY KernelAssumption
    <3>2. unblock_highest(x, w) \in Kernel /\ x.fault \subseteq unblock_highest(x, w).fault
      BY <3>1, FaultsKept, UnblockHighestType
    <3>3. QED  BY <3>2
  <2> HIDE DEF S
  <2>3. unblock_all(K, w) \in S
    BY <1>1, <2>1, <2>2, UnblockAllKeeps
  <2>4. QED  BY <2>3 DEF S
<1>3. ASSUME Linked(K) PROVE WokenFrom(K, unblock_all(K, w), w)
  <2> DEFINE S == {x \in Kernel : WokenFrom(K, x, w)}
  <2>1. K \in S
    BY <1>3 DEF WokenFrom
  <2>2. ASSUME NEW x \in S PROVE unblock_highest(x, w) \in S
    <3>1. x \in Kernel /\ WokenFrom(K, x, w)
      OBVIOUS
    <3>2. CASE x.waiters[w] = <<>>
      BY <3>2 DEF unblock_highest
    <3>3. CASE x.waiters[w] # <<>>
      <4> DEFINE u == highest_waiter(x, w)
                 r == unblock_highest(x, w)
      <4>1. Linked(x)
        BY <3>1 DEF WokenFrom
      <4>2. /\ u \in Task /\ x.wait_list[u] = w /\ w # None /\ x.state[u] = "BLOCKED"
            /\ r \in Kernel /\ Linked(r) /\ r.fault = x.fault
            /\ \A t \in Task : /\ r.state[t] = IF t = u THEN "READY" ELSE x.state[t]
                               /\ r.wait_list[t] = IF t = u THEN None ELSE x.wait_list[t]
                               /\ r.delay_ticks[t] = IF t = u THEN 0 ELSE x.delay_ticks[t]
        BY <3>1, <3>3, <4>1, WakeLinked
      <4> HIDE DEF u, r
      <4>3. WokenFrom(K, r, w)
        BY <3>1, <4>2 DEF WokenFrom
      <4>4. QED  BY <4>2, <4>3 DEF r
    <3>4. QED  BY <3>2, <3>3
  <2> HIDE DEF S
  <2>3. unblock_all(K, w) \in S
    BY <1>1, <2>1, <2>2, UnblockAllKeeps
  <2>4. QED  BY <2>3 DEF S
<1>4. QED  BY <1>2, <1>3

-----------------------------------------------------------------------------
(***************************************************************************)
(* The invariant of the mutexes.  It asks of the application only that no  *)
(* task blocks while the scheduler is locked.                              *)
(*                                                                         *)
(* A task whose lock was handed over while it waited owns the mutex from   *)
(* the unlock on, and writes itself as the owner once more when it runs.   *)
(* That is harmless because a wait that is told OK is one without timeout, *)
(* and a wait without timeout ends by the hand-over or by the delete.      *)
(*                                                                         *)
(* What the handles say holds even in the state a misuse of a list leaves; *)
(* what ties a lock to the wait of its task holds up to the misuse.        *)
(***************************************************************************)

Locking(t) == locking[t] # NoLock

\* A task that holds a mutex owns it, and holds it no more often than the
\* mutex counts; a task in a lock call does not hold that mutex.
HoldInv ==
    /\ \A w \in WaitList, t \in Task :
        valid[w] /\ depth[w][t] > 0 => owner[w] = t /\ depth[w][t] <= lock_count[w]
    /\ \A t \in Task : Locking(t) => t # Idle /\ depth[locking[t].mutex][t] = 0

\* The scheduler as far as the mutexes depend on it.
OrderInv ==
    /\ Linked(k)
    /\ ScanInv
    /\ BlockedInv
    /\ k.state[Idle] \in Runnable
    /\ IF is_running
       THEN current \in Task
       ELSE current = None /\ ~pendsv /\ isr = "none" /\ lock_nesting = 0

\* The wait of task t is that of the lock call it is in, and a wait without
\* timeout ended by a hand-over or by the delete.
LockOf(t) ==
    /\ InWait(t) => Locking(t) /\ timeout[t] = locking[t].timeout
    /\ k.wait_list[t] # None => InWait(t) /\ locking[t].mutex = k.wait_list[t]
    /\ InWait(t) /\ timeout[t] = Forever =>
        /\ k.delay_ticks[t] = 0
        /\ k.wait_list[t] = None /\ valid[locking[t].mutex] => owner[locking[t].mutex] = t

\* The scheduler is unlocked while a task is in a lock call.
NestingInv == is_running /\ Locking(current) => lock_nesting = 0

Tracked == OrderInv /\ NestingInv /\ \A t \in Task : LockOf(t)

MutexInv ==
    /\ MutexTypeOK
    /\ HoldInv
    /\ is_running \/ k.fault = {}
    /\ k.fault = {} => Tracked

\* What is known wherever a step is taken.
Sound == TypeOK /\ k.fault = {} /\ Tracked

LEMMA SoundFacts ==
  ASSUME Sound
  PROVE  /\ k \in Kernel /\ Linked(k) /\ Idle \in Task /\ k.state[Idle] \in Runnable
         /\ select_next_task(k) \in Task /\ select_next_task(k) # None
         /\ k.state[select_next_task(k)] \in Runnable
         /\ pc \in [Task -> TaskPc]
<1>1. k \in Kernel /\ Linked(k) /\ k.state[Idle] \in Runnable /\ pc \in [Task -> TaskPc]
  BY DEF Sound, TypeOK, Tracked, OrderInv
<1>2. QED  BY <1>1, KernelAssumption, SelectLinked

\* What is known while task t executes.
LEMMA SoundExecuting ==
  ASSUME Sound, NEW t \in Task, Executing(t)
  PROVE  /\ current = t /\ is_running /\ ~pendsv /\ isr = "none" /\ scan = <<>>
         /\ pc[t] \notin {"switch", "wait_switch"} =>
              k.state[t] \in Runnable /\ k.delay_ticks[t] = 0 /\ k.wait_list[t] = None
<1>1. current = t /\ is_running /\ ~pendsv /\ isr = "none"
  BY DEF Executing
<1>2. scan = <<>>
  BY <1>1 DEF Sound, Tracked, OrderInv, ScanInv
<1>3. ASSUME pc[t] \notin {"switch", "wait_switch"}
      PROVE  k.state[t] \in Runnable /\ k.delay_ticks[t] = 0 /\ k.wait_list[t] = None
  <2>1. k.state[t] \in Runnable
    BY <1>1, <1>3 DEF Sound, Tracked, OrderInv, BlockedInv
  <2>2. DelayListConsistent(k) /\ WaitListsConsistent(k) /\ k.delay_ticks[t] \in 0 .. MaxDelay
    BY SoundFacts, LinkedFacts, FieldTypes
  <2>3. QED  BY <2>1, <2>2, KernelAssumption DEF DelayListConsistent, WaitListsConsistent, Runnable
<1>4. QED  BY <1>1, <1>2, <1>3

\* A call of the executing task keeps the scheduler in order.
LEMMA CallOrder ==
  ASSUME Sound, NEW t \in Task, Executing(t), Linked(k'), k'.state[Idle] \in Runnable,
         UNCHANGED <<current, is_running, pendsv, isr, scan>>,
         k'.state[t] \in Runnable \/ (lock_nesting' = 0 /\ pc'[t] \in {"switch", "wait_switch"})
  PROVE  OrderInv'
<1>1. current = t /\ is_running /\ ~pendsv /\ isr = "none" /\ scan = <<>>
  BY SoundExecuting
<1>2. ScanInv'
  BY <1>1 DEF ScanInv, IsInjective, Contains
<1>3. BlockedInv'
  BY <1>1 DEF BlockedInv
<1>4. QED  BY <1>1, <1>2, <1>3 DEF OrderInv

\* The wait of t and its lock stay as they are.
SameLock(t) ==
    /\ k'.wait_list[t] = k.wait_list[t]
    /\ InWait(t)' <=> InWait(t)
    /\ timeout'[t] = timeout[t]
    /\ InWait(t) /\ k.delay_ticks[t] = 0 => k'.delay_ticks[t] = 0

\* So does what the mutex of that lock says of t.
SameHandle(t) ==
    LET m == locking[t].mutex
    IN  /\ locking'[t] = locking[t]
        /\ Locking(t) /\ valid'[m] => valid[m] /\ (owner[m] = t => owner'[m] = t)

LEMMA LockStays ==
  ASSUME NEW t \in Task, LockOf(t), SameLock(t), SameHandle(t)
  PROVE  LockOf(t)'
BY DEF LockOf, SameLock, SameHandle, Locking

LEMMA LockKept ==
  ASSUME NEW t \in Task, LockOf(t), SameLock(t), UNCHANGED <<owner, valid, locking>>
  PROVE  LockOf(t)'
BY LockStays DEF SameHandle

\* A step that moves no task into or out of a wait.
LEMMA LocksKept ==
  ASSUME \A t \in Task : LockOf(t), UNCHANGED mutex_vars, UNCHANGED <<pc, timeout>>,
         k'.wait_list = k.wait_list, k'.delay_ticks = k.delay_ticks
  PROVE  \A t \in Task : LockOf(t)'
<1>1. \A t \in Task : SameLock(t)
  BY DEF SameLock, InWait
<1>2. UNCHANGED <<owner, valid, locking>>
  BY DEF mutex_vars, handle_vars
<1>3. QED  BY <1>1, <1>2, LockKept

-----------------------------------------------------------------------------
(* Steps of the scheduler.                                                 *)

\* A new task waits for nothing.
LEMMA CreateKeepsLocks ==
  ASSUME Sound, NEW u \in Task, k.state[u] = "ABSENT", k' = create_static(k, u, Prio[u])
  PROVE  /\ Linked(k') /\ k'.fault = {}
         /\ k'.wait_list = k.wait_list /\ k'.delay_ticks = k.delay_ticks
         /\ \A t \in Task : k.state[t] \in Runnable => k'.state[t] \in Runnable
<1>1. k \in Kernel /\ Linked(k) /\ Prio[u] \in Priority /\ k.fault = {}
  BY SoundFacts, ConstantTypes DEF Sound
<1>2. PICK r : r = k'
  OBVIOUS
<1>3. r \in Kernel /\ MadeReady(k, r, u, Prio[u])
  BY <1>1, <1>2, CreateLinked, CreateType
<1>4. k.state[u] \notin Runnable
  BY DEF Runnable
<1>5. k.delay_ticks[u] = 0 /\ k.wait_list[u] = None
  BY <1>1, <1>4, OffLinked
<1>6. Linked(r)
  BY <1>1, <1>3, <1>4, MadeReadyLinked
<1>7. /\ k.state \in [Task -> TaskState] /\ k.wait_list \in [Task -> WaitList \cup {None}]
      /\ k.delay_ticks \in [Task -> 0 .. MaxDelay]
  BY <1>1, FieldTypes
<1>8. /\ r.fault = {} /\ r.wait_list = k.wait_list /\ r.delay_ticks = k.delay_ticks
      /\ \A t \in Task : k.state[t] \in Runnable => r.state[t] \in Runnable
  BY <1>1, <1>3, <1>5, <1>7 DEF MadeReady, Runnable
<1>9. QED  BY <1>2, <1>6, <1>8

LEMMA CreateFromMainLocks ==
  ASSUME Sound, NEW u \in Task, CreateFromMain(u), UNCHANGED mutex_vars
  PROVE  k'.fault = {} /\ Tracked'
<1>1. /\ ~is_running /\ k.state[u] = "ABSENT" /\ k' = create_static(k, u, Prio[u])
      /\ UNCHANGED <<current, is_running, lock_vars, pendsv, tick_vars, pc, wait_vars>>
  BY DEF CreateFromMain
<1>2. /\ Linked(k') /\ k'.fault = {}
      /\ k'.wait_list = k.wait_list /\ k'.delay_ticks = k.delay_ticks
      /\ \A t \in Task : k.state[t] \in Runnable => k'.state[t] \in Runnable
  BY <1>1, CreateKeepsLocks
<1>3. /\ current = None /\ ~pendsv /\ isr = "none" /\ lock_nesting = 0
      /\ k.state[Idle] \in Runnable /\ scan = <<>> /\ \A t \in Task : LockOf(t)
  BY <1>1 DEF Sound, Tracked, OrderInv, ScanInv
<1>4. \A t \in Task : LockOf(t)'
  BY <1>1, <1>2, <1>3, LocksKept DEF wait_vars
<1>5. ScanInv' /\ BlockedInv'
  BY <1>1, <1>3 DEF ScanInv, BlockedInv, IsInjective, Contains, tick_vars, lock_vars
<1>6. OrderInv'
  BY <1>1, <1>2, <1>3, <1>5, KernelAssumption DEF OrderInv, tick_vars, lock_vars
<1>7. NestingInv'
  BY <1>1 DEF NestingInv
<1>8. QED  BY <1>2, <1>4, <1>6, <1>7 DEF Tracked

\* The first switch, and every later one.
LEMMA SwitchLocks ==
  ASSUME Sound, UNCHANGED mutex_vars, UNCHANGED <<pc, timeout>>,
         k' = perform_switch(k, current, select_next_task(k)),
         current' = select_next_task(k), is_running', lock_nesting' = 0,
         UNCHANGED <<isr, scan>>
  PROVE  k'.fault = {} /\ Tracked'
<1> DEFINE next == select_next_task(k)
<1>1. /\ k \in Kernel /\ Linked(k) /\ next \in Task /\ k.state[next] \in Runnable
      /\ k.state[Idle] \in Runnable /\ Idle \in Task
  BY SoundFacts
<1>2. PICK r : r = k'
  OBVIOUS
<1>3. Linked(r)
  BY <1>1, <1>2, SwitchLinked
<1> HIDE DEF next
<1>4. /\ r.wait_list = k.wait_list /\ r.delay_ticks = k.delay_ticks /\ r.delay = k.delay
      /\ r.fault = k.fault
      /\ \A t \in Task : r.state[t] = IF t = next THEN "RUNNING"
                                      ELSE IF t = current /\ k.state[t] = "RUNNING" THEN "READY"
                                      ELSE k.state[t]
  BY <1>1, <1>2 DEF perform_switch, Kernel, next
<1>5. \A t \in Task : LockOf(t)
  BY DEF Sound, Tracked
<1>6. \A t \in Task : LockOf(t)'
  BY <1>2, <1>4, <1>5, LocksKept
<1>7. r.state[Idle] \in Runnable /\ r.state[next] \in Runnable
  BY <1>1, <1>4 DEF Runnable
<1>8. ScanInv'
  BY <1>2, <1>4 DEF Sound, Tracked, OrderInv, ScanInv
<1>9. BlockedInv'
  BY <1>2, <1>7 DEF BlockedInv, next
<1>10. OrderInv'
  BY <1>1, <1>2, <1>3, <1>7, <1>8, <1>9 DEF OrderInv, next
<1>11. NestingInv'
  BY DEF NestingInv
<1>12. QED  BY <1>2, <1>4, <1>6, <1>10, <1>11 DEF Tracked, Sound

LEMMA StartLocks ==
  ASSUME Sound, Start, UNCHANGED mutex_vars
  PROVE  k'.fault = {} /\ Tracked'
<1>1. lock_nesting = 0
  BY DEF Start, Sound, Tracked, OrderInv
<1>2. QED  BY <1>1, SwitchLocks DEF Start, lock_vars, tick_vars, wait_vars

LEMMA PendSVLocks ==
  ASSUME Sound, PendSV, UNCHANGED mutex_vars
  PROVE  k'.fault = {} /\ Tracked'
<1>1. lock_nesting = 0 /\ is_running /\ select_next_task(k) # None
  BY SoundFacts DEF PendSV, Sound, Tracked, OrderInv, BlockedInv
<1>2. QED  BY <1>1, SwitchLocks DEF PendSV, lock_vars, tick_vars, wait_vars

\* A step that at most moves tasks between the ready queues.
LEMMA MovedLocks ==
  ASSUME Sound, OnlyMoved(k, k'), Linked(k'), UNCHANGED mutex_vars,
         UNCHANGED <<current, is_running, lock_nesting, timeout>>,
         is_running, \A t \in Task : InWait(t)' <=> InWait(t), ScanInv', BlockedInv'
  PROVE  Tracked'
<1>1. /\ k'.state = k.state /\ k'.wait_list = k.wait_list /\ k'.delay_ticks = k.delay_ticks
  BY DEF OnlyMoved
<1>2. \A t \in Task : LockOf(t)'
  <2>1. \A t \in Task : SameLock(t) /\ LockOf(t)
    BY <1>1 DEF SameLock, Sound, Tracked
  <2>2. UNCHANGED <<owner, valid, locking>>
    BY DEF mutex_vars, handle_vars
  <2>3. QED  BY <2>1, <2>2, LockKept
<1>3. OrderInv' /\ NestingInv'
  BY <1>1 DEF Sound, Tracked, OrderInv, NestingInv, Locking, mutex_vars
<1>4. QED  BY <1>2, <1>3 DEF Tracked

\* The kernel stays as it is, and so does the task that executes.
LEMMA QuietLocks ==
  ASSUME Sound, UNCHANGED mutex_vars, UNCHANGED <<k, current, is_running, lock_nesting, timeout>>,
         is_running, \A t \in Task : InWait(t)' <=> InWait(t), ScanInv', BlockedInv'
  PROVE  k'.fault = {} /\ Tracked'
<1>1. OnlyMoved(k, k') /\ Linked(k') /\ k'.fault = {}
  BY SoundFacts DEF OnlyMoved, Sound
<1>2. QED  BY <1>1, MovedLocks

LEMMA TickEnterLocks ==
  ASSUME Sound, TickEnter, UNCHANGED mutex_vars
  PROVE  k'.fault = {} /\ Tracked'
<1>1. IsInjective(k.delay)
  BY SoundFacts, LinkedFacts DEF ListsInjective
<1>2. /\ is_running /\ isr' = "scan" /\ scan' = k.delay
      /\ UNCHANGED <<k, current, is_running, lock_nesting, pendsv, pc, timeout>>
  BY DEF TickEnter, lock_vars, wait_vars
<1>3. ScanInv' /\ BlockedInv'
  BY <1>1, <1>2 DEF ScanInv, BlockedInv, Sound, Tracked, OrderInv
<1>4. \A t \in Task : InWait(t)' <=> InWait(t)
  BY <1>2 DEF InWait
<1>5. QED  BY <1>2, <1>3, <1>4, QuietLocks

LEMMA TickScanLocks ==
  ASSUME Sound, TypeOK', TickScan, UNCHANGED mutex_vars
  PROVE  k'.fault = {} /\ Tracked'
<1> DEFINE t == Head(scan)
<1>1. /\ isr = "scan" /\ scan # <<>> /\ k' = delayed_task_tick(k, t) /\ scan' = Tail(scan)
      /\ UNCHANGED <<current, is_running, lock_nesting, pendsv, isr, pc, timeout>>
      /\ UNCHANGED <<owner, valid, locking>>
  BY DEF TickScan, lock_vars, mutex_vars, handle_vars
<1>2. k \in Kernel /\ Linked(k) /\ k' \in Kernel /\ scan \in Seq(Task) /\ Idle \in Task
  BY SoundFacts DEF Sound, TypeOK
<1>3. /\ k.fault = {} /\ IsInjective(scan) /\ k.state[Idle] \in Runnable
      /\ \A u \in Task : Contains(scan, u) => Contains(k.delay, u)
      /\ is_running /\ current \in Task /\ NestingInv /\ BlockedInv
      /\ \A u \in Task : LockOf(u)
  BY <1>1 DEF Sound, Tracked, OrderInv, ScanInv
<1>4. t \in Task /\ Contains(scan, t)
  BY <1>1, <1>2, HeadElement
<1>5. /\ IsInjective(Tail(scan))
      /\ \A u : Contains(Tail(scan), u) => Contains(scan, u) /\ u # t
  BY <1>1, <1>2, <1>3, TailElements
<1>6. Contains(k.delay, t)
  BY <1>3, <1>4
<1>7. k.delay_ticks[t] > 0 /\ k.delay_ticks[t] \in 0 .. MaxDelay
  BY <1>2, <1>4, <1>6, LinkedFacts, FieldTypes DEF DelayListConsistent
<1> HIDE DEF t
<1>8. PICK r : r = k'
  OBVIOUS
<1>9. NestingInv'
  BY <1>1, <1>3 DEF NestingInv, Locking
<1>10. CASE k.delay_ticks[t] > 1
  <2>1. r \in Kernel /\ r = delayed_task_tick(k, t)
    BY <1>1, <1>2, <1>8
  <2>2. /\ Linked(r) /\ r.state = k.state /\ r.wait_list = k.wait_list /\ r.delay = k.delay
        /\ r.fault = k.fault
    BY <1>2, <1>4, <1>10, <2>1, CountdownLinked
  <2>3. r.delay_ticks = [k.delay_ticks EXCEPT ![t] = @ - 1]
    <3>1. r = [k EXCEPT !.delay_ticks[t] = @ - 1]
      BY <1>10, <2>1 DEF delayed_task_tick
    <3>2. QED  BY <1>2, <3>1 DEF Kernel
  <2>4. /\ Linked(r) /\ r.state = k.state /\ r.wait_list = k.wait_list /\ r.delay = k.delay
        /\ r.fault = k.fault /\ r.delay_ticks = [k.delay_ticks EXCEPT ![t] = @ - 1]
    BY <2>2, <2>3
  <2>5. k.delay_ticks \in [Task -> 0 .. MaxDelay]
    BY <1>2, FieldTypes
  <2>6. ASSUME NEW u \in Task, k.delay_ticks[u] = 0 PROVE r.delay_ticks[u] = 0
    BY <1>10, <2>4, <2>5, <2>6
  <2>7. \A u \in Task : SameLock(u)
    BY <1>1, <1>8, <2>4, <2>6 DEF SameLock, InWait
  <2>8. \A u \in Task : LockOf(u)'
    BY <1>1, <1>3, <2>7, LockKept
  <2>9. ScanInv' /\ BlockedInv'
    BY <1>1, <1>3, <1>5, <1>8, <2>4 DEF ScanInv, BlockedInv
  <2>10. OrderInv'
    BY <1>1, <1>3, <1>8, <2>4, <2>9 DEF OrderInv
  <2>11. QED  BY <1>3, <1>8, <1>9, <2>4, <2>8, <2>10 DEF Tracked
<1>11. CASE ~(k.delay_ticks[t] > 1)
  <2>1. k.state[t] = "BLOCKED" /\ MadeReady(k, r, t, k.priority[t])
    BY <1>1, <1>2, <1>4, <1>6, <1>8, <1>11, ExpireLinked
  <2>2. k.state[t] \notin Runnable /\ k.priority[t] \in Priority
    BY <1>2, <1>4, <2>1, FieldTypes DEF Runnable
  <2>3. Linked(r)
    BY <1>2, <1>4, <1>8, <2>1, <2>2, MadeReadyLinked
  <2>4. /\ k.state \in [Task -> TaskState] /\ k.wait_list \in [Task -> WaitList \cup {None}]
        /\ k.delay_ticks \in [Task -> 0 .. MaxDelay] /\ k.delay \in Seq(Task)
    BY <1>2, FieldTypes
  <2>5. /\ r.fault = k.fault
        /\ \A u \in Task : /\ r.state[u] = IF u = t THEN "READY" ELSE k.state[u]
                           /\ r.wait_list[u] = IF u = t THEN None ELSE k.wait_list[u]
                           /\ r.delay_ticks[u] = IF u = t THEN 0 ELSE k.delay_ticks[u]
    BY <2>1, <2>4 DEF MadeReady
  <2>6. ASSUME NEW u \in Task PROVE LockOf(u)'
    <3>1. CASE u = t
      <4>1. InWait(t) => Locking(t) /\ timeout[t] = locking[t].timeout /\ timeout[t] # Forever
        BY <1>3, <1>4, <1>7 DEF LockOf
      <4>2. r.wait_list[t] = None
        BY <1>4, <2>5
      <4>3. QED  BY <1>1, <1>8, <3>1, <4>1, <4>2 DEF LockOf, InWait, Locking
    <3>2. CASE u # t
      <4>1. SameLock(u)
        BY <1>1, <1>8, <2>5, <3>2 DEF SameLock, InWait
      <4>2. QED  BY <1>1, <1>3, <4>1, LockKept
    <3>3. QED  BY <3>1, <3>2
  <2>7. ScanInv'
    <3>1. \A u : Contains(r.delay, u) <=> (Contains(k.delay, u) /\ u # t)
      <4>1. r.delay = RemoveFirst(k.delay, t)
        BY <2>1 DEF MadeReady
      <4>2. IsInjective(k.delay)
        BY <1>2, LinkedFacts DEF ListsInjective
      <4>3. QED  BY <2>4, <4>1, <4>2, RemoveElements
    <3>2. QED  BY <1>1, <1>3, <1>5, <1>8, <3>1 DEF ScanInv
  <2>8. BlockedInv'
    BY <1>1, <1>3, <1>8, <2>5 DEF BlockedInv, Runnable
  <2>9. OrderInv'
    BY <1>1, <1>2, <1>3, <1>8, <2>3, <2>5, <2>7, <2>8 DEF OrderInv, Runnable
  <2>10. QED  BY <1>3, <1>8, <1>9, <2>5, <2>6, <2>9 DEF Tracked
<1>12. QED  BY <1>10, <1>11

\* Time slicing moves the current task at most.
LEMMA SliceMoves ==
  ASSUME Sound, k' = process_time_slicing
  PROVE  OnlyMoved(k, k') /\ (k'.fault = {} => Linked(k'))
<1>1. k \in Kernel /\ Linked(k) /\ current \in Task \cup {None}
  BY SoundFacts DEF Sound, TypeOK
<1>2. PICK r : r = k'
  OBVIOUS
<1>3. CASE TimeSlicing /\ current # None
  <2>1. r = rotate(k, current) /\ current \in Task
    BY <1>1, <1>2, <1>3 DEF process_time_slicing
  <2>2. OnlyMoved(k, r) /\ (r.fault = {} => Linked(r))
    BY <1>1, <2>1, RotateLinked
  <2>3. QED  BY <1>2, <2>2
<1>4. CASE ~(TimeSlicing /\ current # None)
  <2>1. k' = k
    BY <1>4 DEF process_time_slicing
  <2>2. OnlyMoved(k, k)
    BY <1>1 DEF OnlyMoved
  <2>3. QED  BY <1>1, <2>1, <2>2
<1>5. QED  BY <1>3, <1>4

LEMMA TickSliceLocks ==
  ASSUME Sound, TickSlice, UNCHANGED mutex_vars
  PROVE  k'.fault = {} => Tracked'
<1> SUFFICES ASSUME k'.fault = {} PROVE Tracked'
  OBVIOUS
<1>1. /\ isr = "scan" /\ scan = <<>> /\ isr' = "switch" /\ k' = process_time_slicing
      /\ UNCHANGED <<current, is_running, lock_nesting, pendsv, scan, pc, timeout>>
  BY DEF TickSlice, lock_vars, wait_vars
<1>2. OnlyMoved(k, k') /\ Linked(k')
  BY <1>1, SliceMoves
<1>3. is_running /\ BlockedInv
  BY <1>1 DEF Sound, Tracked, OrderInv
<1>4. ScanInv' /\ BlockedInv'
  <2>1. k'.state = k.state
    BY <1>2 DEF OnlyMoved
  <2>2. QED  BY <1>1, <1>3, <2>1 DEF ScanInv, BlockedInv, IsInjective, Contains
<1>5. \A t \in Task : InWait(t)' <=> InWait(t)
  BY <1>1 DEF InWait
<1>6. QED  BY <1>1, <1>2, <1>3, <1>4, <1>5, MovedLocks

\* A switch that is due is asked for unless the scheduler is locked.
LEMMA SwitchAsked ==
  ASSUME Sound, switch_context(k)
  PROVE  /\ pendsv => pendsv'
         /\ pendsv' => lock_nesting = 0
         /\ lock_nesting = 0 /\ current # select_next_task(k) => pendsv'
<1>1. lock_nesting \in Nat /\ (pendsv => lock_nesting = 0) /\ select_next_task(k) # None
  BY SoundFacts, SchedulerAssumption DEF Sound, TypeOK, Tracked, OrderInv, BlockedInv
<1>2. CASE lock_nesting > 0
  BY <1>1, <1>2 DEF switch_context
<1>3. CASE ~(lock_nesting > 0)
  <2>1. lock_nesting = 0
    BY <1>1, <1>3
  <2>2. pendsv' <=> (pendsv \/ select_next_task(k) \notin {None, current})
    BY <1>3 DEF switch_context
  <2>3. QED  BY <1>1, <2>1, <2>2
<1>4. QED  BY <1>2, <1>3

LEMMA TickSwitchLocks ==
  ASSUME Sound, TickSwitch, UNCHANGED mutex_vars
  PROVE  k'.fault = {} /\ Tracked'
<1>1. /\ isr = "switch" /\ isr' = "none"
      /\ UNCHANGED <<k, current, is_running, lock_nesting, scan, pc, timeout>>
  BY DEF TickSwitch, wait_vars
<1>2. (pendsv => pendsv') /\ (pendsv' => lock_nesting = 0)
  <2>1. CASE need_reschedule \/ TimeSlicing
    BY <2>1, SwitchAsked DEF TickSwitch
  <2>2. CASE ~(need_reschedule \/ TimeSlicing)
    BY <2>2 DEF TickSwitch, Sound, Tracked, OrderInv, BlockedInv
  <2>3. QED  BY <2>1, <2>2
<1>3. is_running /\ BlockedInv /\ ScanInv
  BY <1>1 DEF Sound, Tracked, OrderInv
<1>4. ScanInv' /\ BlockedInv'
  BY <1>1, <1>2, <1>3 DEF ScanInv, BlockedInv
<1>5. \A t \in Task : InWait(t)' <=> InWait(t)
  BY <1>1 DEF InWait
<1>6. QED  BY <1>1, <1>3, <1>4, <1>5, QuietLocks

LEMMA SwitchContextLocks ==
  ASSUME Sound, NEW t \in Task, SwitchContext(t), UNCHANGED mutex_vars
  PROVE  k'.fault = {} /\ Tracked'
<1>1. /\ Executing(t) /\ pc[t] \in {"switch", "wait_switch"} /\ switch_context(k)
      /\ pc' = [pc EXCEPT ![t] = IF pc[t] = "switch" THEN "user" ELSE "wait_return"]
      /\ UNCHANGED <<k, current, is_running, lock_nesting, isr, scan, timeout>>
  BY DEF SwitchContext, Goto, wait_vars, tick_vars
<1>2. current = t /\ is_running /\ ~pendsv /\ pc \in [Task -> TaskPc]
  BY <1>1, SoundExecuting, SoundFacts
<1>3. k.state[t] \notin Runnable => pendsv'
  <2>1. ASSUME k.state[t] \notin Runnable PROVE pendsv'
    <3>1. lock_nesting = 0
      BY <1>2, <2>1 DEF Sound, Tracked, OrderInv, BlockedInv
    <3>2. select_next_task(k) # t
      BY <2>1, SoundFacts
    <3>3. QED  BY <1>1, <1>2, <3>1, <3>2, SwitchAsked
  <2>2. QED  BY <2>1
<1>4. pendsv' => lock_nesting = 0
  BY <1>1, SwitchAsked
<1>5. BlockedInv'
  BY <1>1, <1>2, <1>3, <1>4 DEF BlockedInv
<1>6. ScanInv'
  BY <1>1 DEF Sound, Tracked, OrderInv, ScanInv
<1>7. \A u \in Task : InWait(u)' <=> InWait(u)
  BY <1>1, <1>2 DEF InWait
<1>8. QED  BY <1>1, <1>2, <1>5, <1>6, <1>7, QuietLocks

LEMMA RescheduleLocks ==
  ASSUME Sound, NEW t \in Task, Reschedule(t), UNCHANGED mutex_vars
  PROVE  k'.fault = {} /\ Tracked'
<1> DEFINE label == IF select_next_task(k) # None
                       /\ k.priority[select_next_task(k)] > k.priority[current]
                    THEN "switch" ELSE "user"
<1>1. /\ Executing(t) /\ pc[t] = "reschedule" /\ pc' = [pc EXCEPT ![t] = label]
      /\ UNCHANGED <<k, current, is_running, lock_nesting, pendsv, isr, scan, timeout>>
  BY DEF Reschedule, Goto, lock_vars, wait_vars, tick_vars
<1>2. label \in {"switch", "user"}
  OBVIOUS
<1> HIDE DEF label
<1>3. current = t /\ is_running /\ k.state[t] \in Runnable /\ pc \in [Task -> TaskPc]
  BY <1>1, SoundExecuting, SoundFacts
<1>4. ScanInv' /\ BlockedInv'
  BY <1>1, <1>3 DEF Sound, Tracked, OrderInv, ScanInv, BlockedInv
<1>5. \A u \in Task : InWait(u)' <=> InWait(u)
  BY <1>1, <1>2, <1>3 DEF InWait
<1>6. QED  BY <1>1, <1>3, <1>4, <1>5, QuietLocks

\* A call of a task that is in no lock call and waits for nothing after it.
LEMMA CallLocks ==
  ASSUME Sound, NEW t \in Task, Executing(t), ~InWait(t), locking[t] = NoLock,
         \A u \in Task : InWait(u)' <=> InWait(u),
         Linked(k'), k'.state[Idle] \in Runnable,
         \A u \in Task : /\ k'.wait_list[u] = k.wait_list[u]
                         /\ u # t => k'.delay_ticks[u] = k.delay_ticks[u],
         UNCHANGED <<current, is_running, pendsv, isr, scan, timeout>>, UNCHANGED mutex_vars,
         k'.state[t] \in Runnable \/ (lock_nesting' = 0 /\ pc'[t] \in {"switch", "wait_switch"})
  PROVE  Tracked'
<1>1. OrderInv'
  BY CallOrder
<1>2. NestingInv'
  BY SoundExecuting DEF NestingInv, Locking, mutex_vars
<1>3. \A u \in Task : SameLock(u) /\ LockOf(u)
  BY DEF SameLock, Sound, Tracked
<1>4. UNCHANGED <<owner, valid, locking>>
  BY DEF mutex_vars, handle_vars
<1>5. \A u \in Task : LockOf(u)'
  BY <1>3, <1>4, LockKept
<1>6. QED  BY <1>1, <1>2, <1>5 DEF Tracked

LEMMA CallStepLocks ==
  ASSUME Sound, TypeOK', NEW t \in Task, CallStep(t), locking[t] = NoLock, UNCHANGED mutex_vars,
         "block_locked" \notin Calls
  PROVE  k'.fault = {} => Tracked'
<1> SUFFICES ASSUME k'.fault = {} PROVE Tracked'
  OBVIOUS
<1>1. \/ \E u \in Task : Create(t, u)
      \/ Yield(t)
      \/ \E n \in 1 .. MaxDelay : Delay(t, n)
      \/ Lock(t)
      \/ Unlock(t)
  BY DEF CallStep
<1>2. /\ Executing(t) /\ pc[t] = "user" /\ t # Idle
      /\ UNCHANGED <<current, is_running, pendsv, isr, scan, timeout>>
  BY <1>1 DEF Create, Yield, Delay, Lock, Unlock, InUser, AtUser, lock_vars, tick_vars, wait_vars
<1>3. /\ k \in Kernel /\ Linked(k) /\ k' \in Kernel /\ k.state[Idle] \in Runnable /\ Idle \in Task
      /\ pc \in [Task -> TaskPc]
  BY SoundFacts DEF TypeOK
<1>4. k.state[t] \in Runnable /\ k.wait_list[t] = None /\ ~InWait(t)
  BY <1>2, SoundExecuting DEF InWait
<1>5. ASSUME NEW label \in {"switch", "reschedule", "user"}, pc' = [pc EXCEPT ![t] = label]
      PROVE  \A u \in Task : InWait(u)' <=> InWait(u)
  BY <1>2, <1>3, <1>5 DEF InWait
<1>6. ASSUME NEW u \in Task, Create(t, u) PROVE Tracked'
  <2>1. k.state[u] = "ABSENT" /\ k' = create_static(k, u, Prio[u]) /\ Goto(t, "reschedule")
    BY <1>6 DEF Create
  <2>2. /\ Linked(k')
        /\ k'.wait_list = k.wait_list /\ k'.delay_ticks = k.delay_ticks
        /\ \A x \in Task : k.state[x] \in Runnable => k'.state[x] \in Runnable
    BY <2>1, CreateKeepsLocks
  <2>3. \A x \in Task : InWait(x)' <=> InWait(x)
    BY <1>5, <2>1 DEF Goto
  <2>4. QED  BY <1>2, <1>3, <1>4, <2>2, <2>3, CallLocks
<1>7. CASE Yield(t)
  <2>1. k' = process_time_slicing /\ Goto(t, "switch")
    BY <1>7 DEF Yield
  <2>2. OnlyMoved(k, k') /\ Linked(k')
    BY <2>1, SliceMoves
  <2>3. k'.state = k.state /\ k'.wait_list = k.wait_list /\ k'.delay_ticks = k.delay_ticks
    BY <2>2 DEF OnlyMoved
  <2>4. \A x \in Task : InWait(x)' <=> InWait(x)
    BY <1>5, <2>1 DEF Goto
  <2>5. QED  BY <1>2, <1>3, <1>4, <2>2, <2>3, <2>4, CallLocks
<1>8. ASSUME NEW n \in 1 .. MaxDelay, Delay(t, n) PROVE Tracked'
  <2>1. /\ lock_nesting' = 0 /\ k' = block_on_delay(k, t, n) /\ Goto(t, "switch")
    BY <1>8 DEF Delay, MayBlock, lock_vars
  <2>2. PICK r : r = k'
    OBVIOUS
  <2>3. Contains(k.ready[k.priority[t]], t)
    <3>1. ASSUME ~Contains(k.ready[k.priority[t]], t) PROVE FALSE
      BY <1>3, <1>4, <2>1, <3>1, DelayMisplaced
    <3>2. QED  BY <3>1
  <2>4. MadeBlocked(k, r, t, None, n)
    BY <1>3, <2>1, <2>2, <2>3, BlockOnDelayLinked
  <2>5. n \in 0 .. MaxDelay /\ n > 0
    BY KernelAssumption
  <2>6. Linked(r)
    BY <1>3, <2>2, <2>3, <2>4, <2>5, MadeBlockedLinked
  <2>7. /\ k.state \in [Task -> TaskState] /\ k.wait_list \in [Task -> WaitList \cup {None}]
        /\ k.delay_ticks \in [Task -> 0 .. MaxDelay]
    BY <1>3, FieldTypes
  <2>8. /\ \A u \in Task : /\ r.wait_list[u] = k.wait_list[u]
                           /\ u # t => r.delay_ticks[u] = k.delay_ticks[u]
        /\ r.state[Idle] = k.state[Idle]
    BY <1>2, <1>3, <1>4, <2>4, <2>7 DEF MadeBlocked
  <2>9. (\A x \in Task : InWait(x)' <=> InWait(x)) /\ pc'[t] = "switch"
    BY <1>3, <1>5, <2>1 DEF Goto
  <2>10. QED  BY <1>2, <1>3, <1>4, <2>1, <2>2, <2>6, <2>8, <2>9, CallLocks
<1>9. CASE Lock(t)
  <2>1. UNCHANGED k /\ UNCHANGED pc
    BY <1>9 DEF Lock
  <2>2. \A x \in Task : InWait(x)' <=> InWait(x)
    BY <2>1 DEF InWait
  <2>3. QED  BY <1>2, <1>3, <1>4, <2>1, <2>2, CallLocks
<1>10. CASE Unlock(t)
  <2>1. UNCHANGED k /\ (Goto(t, "switch") \/ UNCHANGED pc)
    BY <1>10 DEF Unlock
  <2>2. \A x \in Task : InWait(x)' <=> InWait(x)
    BY <1>5, <2>1 DEF InWait, Goto
  <2>3. QED  BY <1>2, <1>3, <1>4, <2>1, <2>2, CallLocks
<1>11. QED  BY <1>1, <1>6, <1>7, <1>8, <1>9, <1>10

LEMMA SystemStepLocks ==
  ASSUME Sound, TypeOK', SystemStep, UNCHANGED mutex_vars
  PROVE  (is_running' \/ k'.fault = {}) /\ (k'.fault = {} => Tracked')
<1>1. ASSUME NEW u \in Task, CreateFromMain(u) PROVE k'.fault = {} /\ Tracked'
  BY <1>1, CreateFromMainLocks
<1>2. CASE Start
  BY <1>2, StartLocks
<1>3. CASE PendSV
  BY <1>3, PendSVLocks
<1>4. CASE TickEnter
  BY <1>4, TickEnterLocks
<1>5. CASE TickScan
  BY <1>5, TickScanLocks
<1>6. CASE TickSlice
  <2>1. is_running'
    BY <1>6 DEF TickSlice, Sound, Tracked, OrderInv
  <2>2. QED  BY <1>6, <2>1, TickSliceLocks
<1>7. CASE TickSwitch
  BY <1>7, TickSwitchLocks
<1>8. QED  BY <1>1, <1>2, <1>3, <1>4, <1>5, <1>6, <1>7 DEF SystemStep

-----------------------------------------------------------------------------
(* Steps of the mutexes.                                                   *)

\* What is known when task t calls a service of mutex w.
LEMMA AtMutexFacts ==
  ASSUME MutexInv, NEW t \in Task, NEW w \in WaitList, NEW call, AtMutex(t, w, call)
  PROVE  /\ Sound /\ Executing(t) /\ pc[t] = "user" /\ t # Idle
         /\ locking[t] = NoLock /\ ~Locking(t) /\ valid[w] /\ ~InWait(t)
         /\ k.state[t] \in Runnable /\ k.wait_list[t] = None /\ is_running /\ current = t
<1>1. Executing(t) /\ pc[t] = "user" /\ t # Idle /\ locking[t] = NoLock /\ valid[w]
  BY DEF AtMutex, AtUser
<1>2. Sound
  BY <1>1 DEF Sound, MutexInv, MutexTypeOK, Executing
<1>3. QED  BY <1>1, <1>2, SoundExecuting DEF Locking, InWait

\* A mutex a task is locking is one of them.
LEMMA LockingType ==
  ASSUME MutexTypeOK, NEW t \in Task, Locking(t)
  PROVE  locking[t].mutex \in WaitList /\ locking[t].timeout \in 1 .. Forever
BY DEF MutexTypeOK, Locking

\* The larger of two numbers.
LEMMA MaxPair ==
  ASSUME NEW a \in Int, NEW b \in Int
  PROVE  Max({a, b}) = IF a >= b THEN a ELSE b
<1> DEFINE m == IF a >= b THEN a ELSE b
<1>1. m \in {a, b} /\ \A y \in {a, b} : m >= y
  OBVIOUS
<1>2. \A x \in {a, b} : (\A y \in {a, b} : x >= y) => x = m
  OBVIOUS
<1>3. Max({a, b}) = CHOOSE x \in {a, b} : \A y \in {a, b} : x >= y
  BY DEF Max
<1> HIDE DEF m
<1>4. Max({a, b}) = m
  BY <1>1, <1>2, <1>3
<1>5. QED  BY <1>4 DEF m

LEMMA GrantedEffect ==
  ASSUME MutexTypeOK, NEW t \in Task, NEW w \in WaitList, Granted(t, w),
         depth[w][t] < MaxRecursion
  PROVE  /\ depth' \in [WaitList -> [Task -> 0 .. MaxRecursion]]
         /\ \A x \in WaitList, u \in Task :
              depth'[x][u] = IF x = w /\ u = t THEN depth[w][t] + 1 ELSE depth[x][u]
<1>1. /\ depth \in [WaitList -> [Task -> 0 .. MaxRecursion]] /\ depth[w][t] \in 0 .. MaxRecursion
      /\ MaxRecursion \in Nat
  BY MutexAssumption DEF MutexTypeOK
<1>2. depth[w][t] + 1 \in 0 .. MaxRecursion
  BY <1>1
<1>3. depth' = [depth EXCEPT ![w][t] = depth[w][t] + 1]
  BY DEF Granted
<1>4. QED  BY <1>1, <1>2, <1>3

LEMMA ReleasedEffect ==
  ASSUME MutexTypeOK, NEW t \in Task, NEW w \in WaitList, Released(t, w)
  PROVE  /\ depth' \in [WaitList -> [Task -> 0 .. MaxRecursion]]
         /\ \A x \in WaitList, u \in Task :
              depth'[x][u] = IF x = w /\ u = t /\ depth[w][t] > 0
                             THEN depth[w][t] - 1 ELSE depth[x][u]
<1> DEFINE d == depth[w][t]
           e == IF d > 0 THEN d - 1 ELSE 0
<1>1. /\ depth \in [WaitList -> [Task -> 0 .. MaxRecursion]] /\ d \in 0 .. MaxRecursion
      /\ MaxRecursion \in Nat
  BY MutexAssumption DEF MutexTypeOK
<1>2. Max({0, d - 1}) = e
  <2>1. 0 \in Int /\ d - 1 \in Int /\ d \in Nat
    BY <1>1
  <2>2. Max({0, d - 1}) = IF 0 >= d - 1 THEN 0 ELSE d - 1
    BY <2>1, MaxPair
  <2>3. QED  BY <2>1, <2>2
<1>3. e \in 0 .. MaxRecursion /\ (~(d > 0) => e = d)
  BY <1>1
<1>4. depth' = [depth EXCEPT ![w][t] = e]
  BY <1>2 DEF Released
<1>5. QED  BY <1>1, <1>3, <1>4

\* Who holds a mutex after one of its counts changed, when only its owner to be
\* may hold it.
LEMMA HoldersOfOne ==
  ASSUME HoldInv, NEW w \in WaitList, NEW t \in Task, valid' = valid, locking' = locking,
         ~Locking(t),
         \A x \in WaitList : x # w => owner'[x] = owner[x] /\ lock_count'[x] = lock_count[x],
         \A x \in WaitList, u \in Task : ~(x = w /\ u = t) => depth'[x][u] = depth[x][u],
         \A u \in Task : u # t => ~(depth[w][u] > 0),
         depth'[w][t] > 0 => owner'[w] = t /\ depth'[w][t] <= lock_count'[w],
         \A u \in Task : Locking(u) => locking[u].mutex \in WaitList
  PROVE  HoldInv'
<1>1. ASSUME NEW x \in WaitList, NEW u \in Task, valid'[x], depth'[x][u] > 0
      PROVE  owner'[x] = u /\ depth'[x][u] <= lock_count'[x]
  <2>1. CASE x = w
    BY <1>1, <2>1
  <2>2. CASE x # w
    BY <1>1, <2>2 DEF HoldInv
  <2>3. QED  BY <2>1, <2>2
<1>2. ASSUME NEW u \in Task, Locking(u)'
      PROVE  u # Idle /\ depth'[locking'[u].mutex][u] = 0
  BY <1>2 DEF HoldInv, Locking
<1>3. QED  BY <1>1, <1>2 DEF HoldInv

\* Only the handles change: no owner loses its mutex.
LEMMA HandlesChange ==
  ASSUME MutexInv, UNCHANGED vars, UNCHANGED <<valid, locking>>,
         \A x \in WaitList : owner[x] # None => owner'[x] = owner[x]
  PROVE  (is_running' \/ k'.fault = {}) /\ (k'.fault = {} => Tracked') /\ TypeOK'
<1>0. /\ UNCHANGED <<k, current, is_running, lock_nesting, reschedule_pending, ticks>>
      /\ UNCHANGED <<pendsv, isr, scan, need_reschedule, pc, timeout, deadline, woken>>
  BY DEF vars, lock_vars, tick_vars, wait_vars
<1>1. TypeOK' /\ (is_running' \/ k'.fault = {})
  BY <1>0 DEF MutexInv, MutexTypeOK, TypeOK
<1>2. ASSUME k'.fault = {} PROVE Tracked'
  <2>1. OrderInv /\ NestingInv /\ \A t \in Task : LockOf(t)
    BY <1>0, <1>2 DEF MutexInv, Tracked
  <2>2. OrderInv' /\ NestingInv'
    BY <1>0, <2>1 DEF OrderInv, NestingInv, Locking, ScanInv, BlockedInv
  <2>3. ASSUME NEW t \in Task PROVE LockOf(t)'
    <3>1. SameLock(t)
      BY <1>0 DEF SameLock, InWait
    <3>2. SameHandle(t)
      <4>1. ASSUME Locking(t), owner[locking[t].mutex] = t PROVE owner'[locking[t].mutex] = t
        BY <4>1, LockingType, KernelAssumption DEF MutexInv
      <4>2. QED  BY <4>1 DEF SameHandle
    <3>3. QED  BY <2>1, <3>1, <3>2, LockStays
  <2>4. QED  BY <2>2, <2>3 DEF Tracked
<1>3. QED  BY <1>1, <1>2

LEMMA LockFreeInv ==
  ASSUME MutexInv, NEW t \in Task, NEW w \in WaitList, LockFree(t, w)
  PROVE  MutexInv'
<1>1. /\ owner[w] = None /\ owner' = [owner EXCEPT ![w] = t]
      /\ lock_count' = [lock_count EXCEPT ![w] = 1]
      /\ original' = [original EXCEPT ![w] = k.priority[t]]
      /\ Granted(t, w) /\ UNCHANGED vars /\ UNCHANGED <<valid, locking, lapsed>>
      /\ AtMutex(t, w, "lock")
  BY DEF LockFree
<1>2. MutexTypeOK /\ HoldInv /\ ~Locking(t) /\ valid[w] /\ k \in Kernel
  BY <1>1, AtMutexFacts DEF MutexInv, MutexTypeOK, TypeOK
<1>3. /\ owner \in [WaitList -> Task \cup {None}]
      /\ lock_count \in [WaitList -> 0 .. MaxRecursion]
      /\ original \in [WaitList -> Priority] /\ k.priority[t] \in Priority
      /\ depth \in [WaitList -> [Task -> 0 .. MaxRecursion]]
      /\ MaxRecursion \in Nat \ {0}
  BY <1>2, MutexAssumption, FieldTypes DEF MutexTypeOK
<1>4. \A u \in Task : depth[w][u] = 0
  BY <1>1, <1>2, <1>3, KernelAssumption DEF HoldInv
<1>5. /\ depth' \in [WaitList -> [Task -> 0 .. MaxRecursion]]
      /\ \A x \in WaitList, u \in Task :
           depth'[x][u] = IF x = w /\ u = t THEN depth[w][t] + 1 ELSE depth[x][u]
  BY <1>1, <1>2, <1>3, <1>4, GrantedEffect
<1>6. HoldInv'
  <2>1. \A u \in Task : Locking(u) => locking[u].mutex \in WaitList
    BY <1>2, LockingType
  <2>2. depth'[w][t] > 0 => owner'[w] = t /\ depth'[w][t] <= lock_count'[w]
    BY <1>1, <1>3, <1>4, <1>5
  <2>3. \A x \in WaitList : x # w => owner'[x] = owner[x] /\ lock_count'[x] = lock_count[x]
    BY <1>1, <1>3
  <2>4. \A u \in Task : u # t => ~(depth[w][u] > 0)
    BY <1>4
  <2>5. \A x \in WaitList, u \in Task : ~(x = w /\ u = t) => depth'[x][u] = depth[x][u]
    BY <1>5
  <2>6. QED  BY <1>1, <1>2, <2>1, <2>2, <2>3, <2>4, <2>5, HoldersOfOne
<1>7. (is_running' \/ k'.fault = {}) /\ (k'.fault = {} => Tracked') /\ TypeOK'
  <2>1. \A x \in WaitList : owner[x] # None => owner'[x] = owner[x]
    BY <1>1, <1>3
  <2>2. QED  BY <1>1, <2>1, HandlesChange
<1>8. MutexTypeOK'
  BY <1>1, <1>2, <1>3, <1>5, <1>7 DEF MutexTypeOK
<1>9. QED  BY <1>6, <1>7, <1>8 DEF MutexInv

LEMMA LockAgainInv ==
  ASSUME MutexInv, NEW t \in Task, NEW w \in WaitList, LockAgain(t, w)
  PROVE  MutexInv'
<1>1. /\ owner[w] = t /\ lock_count[w] < MaxRecursion
      /\ lock_count' = [lock_count EXCEPT ![w] = @ + 1]
      /\ Granted(t, w) /\ UNCHANGED vars /\ UNCHANGED <<owner, original, valid, locking, lapsed>>
      /\ AtMutex(t, w, "lock")
  BY DEF LockAgain
<1>2. MutexTypeOK /\ HoldInv /\ ~Locking(t) /\ valid[w]
  BY <1>1, AtMutexFacts DEF MutexInv
<1>3. /\ lock_count \in [WaitList -> 0 .. MaxRecursion] /\ lock_count[w] \in 0 .. MaxRecursion
      /\ depth \in [WaitList -> [Task -> 0 .. MaxRecursion]] /\ depth[w][t] \in 0 .. MaxRecursion
      /\ MaxRecursion \in Nat \ {0}
  BY <1>2, MutexAssumption DEF MutexTypeOK
<1>4. depth[w][t] <= lock_count[w] /\ \A u \in Task : u # t => ~(depth[w][u] > 0)
  BY <1>1, <1>2, <1>3 DEF HoldInv
<1>5. depth[w][t] < MaxRecursion /\ lock_count[w] + 1 \in 0 .. MaxRecursion
  BY <1>1, <1>3, <1>4
<1>6. /\ depth' \in [WaitList -> [Task -> 0 .. MaxRecursion]]
      /\ \A x \in WaitList, u \in Task :
           depth'[x][u] = IF x = w /\ u = t THEN depth[w][t] + 1 ELSE depth[x][u]
  BY <1>1, <1>2, <1>5, GrantedEffect
<1>7. HoldInv'
  <2>1. \A u \in Task : Locking(u) => locking[u].mutex \in WaitList
    BY <1>2, LockingType
  <2>2. depth'[w][t] > 0 => owner'[w] = t /\ depth'[w][t] <= lock_count'[w]
    BY <1>1, <1>3, <1>4, <1>6
  <2>3. \A x \in WaitList : x # w => owner'[x] = owner[x] /\ lock_count'[x] = lock_count[x]
    BY <1>1, <1>3
  <2>4. \A x \in WaitList, u \in Task : ~(x = w /\ u = t) => depth'[x][u] = depth[x][u]
    BY <1>6
  <2>5. QED  BY <1>1, <1>2, <1>4, <2>1, <2>2, <2>3, <2>4, HoldersOfOne
<1>8. (is_running' \/ k'.fault = {}) /\ (k'.fault = {} => Tracked') /\ TypeOK'
  BY <1>1, HandlesChange
<1>9. MutexTypeOK'
  BY <1>1, <1>2, <1>3, <1>5, <1>6, <1>8 DEF MutexTypeOK
<1>10. QED  BY <1>7, <1>8, <1>9 DEF MutexInv

LEMMA UnlockInnerInv ==
  ASSUME MutexInv, NEW t \in Task, NEW w \in WaitList, UnlockInner(t, w)
  PROVE  MutexInv'
<1>1. /\ owner[w] = t /\ lock_count[w] > 1
      /\ lock_count' = [lock_count EXCEPT ![w] = @ - 1]
      /\ Released(t, w) /\ UNCHANGED vars /\ UNCHANGED <<owner, original, valid, locking, lapsed>>
      /\ AtMutex(t, w, "unlock")
  BY DEF UnlockInner
<1>2. MutexTypeOK /\ HoldInv /\ ~Locking(t) /\ valid[w]
  BY <1>1, AtMutexFacts DEF MutexInv
<1>3. /\ lock_count \in [WaitList -> 0 .. MaxRecursion] /\ lock_count[w] \in 0 .. MaxRecursion
      /\ depth \in [WaitList -> [Task -> 0 .. MaxRecursion]] /\ depth[w][t] \in 0 .. MaxRecursion
      /\ MaxRecursion \in Nat \ {0}
  BY <1>2, MutexAssumption DEF MutexTypeOK
<1>4. depth[w][t] <= lock_count[w] /\ \A u \in Task : u # t => ~(depth[w][u] > 0)
  BY <1>1, <1>2, <1>3 DEF HoldInv
<1>5. lock_count[w] - 1 \in 0 .. MaxRecursion
  BY <1>1, <1>3
<1>6. /\ depth' \in [WaitList -> [Task -> 0 .. MaxRecursion]]
      /\ \A x \in WaitList, u \in Task :
           depth'[x][u] = IF x = w /\ u = t /\ depth[w][t] > 0
                          THEN depth[w][t] - 1 ELSE depth[x][u]
  BY <1>1, <1>2, ReleasedEffect
<1>7. HoldInv'
  <2>1. \A u \in Task : Locking(u) => locking[u].mutex \in WaitList
    BY <1>2, LockingType
  <2>2. depth'[w][t] > 0 => owner'[w] = t /\ depth'[w][t] <= lock_count'[w]
    BY <1>1, <1>3, <1>4, <1>6
  <2>3. \A x \in WaitList : x # w => owner'[x] = owner[x] /\ lock_count'[x] = lock_count[x]
    BY <1>1, <1>3
  <2>4. \A x \in WaitList, u \in Task : ~(x = w /\ u = t) => depth'[x][u] = depth[x][u]
    BY <1>6
  <2>5. QED  BY <1>1, <1>2, <1>4, <2>1, <2>2, <2>3, <2>4, HoldersOfOne
<1>8. (is_running' \/ k'.fault = {}) /\ (k'.fault = {} => Tracked') /\ TypeOK'
  BY <1>1, HandlesChange
<1>9. MutexTypeOK'
  BY <1>1, <1>2, <1>3, <1>5, <1>6, <1>8 DEF MutexTypeOK
<1>10. QED  BY <1>7, <1>8, <1>9 DEF MutexInv

\* The executing task changes what it waits for; every other task keeps its lock.
LEMMA CallerLocks ==
  ASSUME Sound, NEW t \in Task, Executing(t),
         Linked(k'), k'.state[Idle] \in Runnable,
         UNCHANGED <<current, is_running, pendsv, isr, scan>>,
         k'.state[t] \in Runnable \/ (lock_nesting' = 0 /\ pc'[t] \in {"switch", "wait_switch"}),
         Locking(t)' => lock_nesting' = 0,
         LockOf(t)', \A u \in Task : u # t => LockOf(u)'
  PROVE  Tracked'
<1>1. OrderInv'
  BY CallOrder
<1>2. NestingInv'
  BY SoundExecuting DEF NestingInv
<1>3. QED  BY <1>1, <1>2 DEF Tracked

LEMMA LockMissInv ==
  ASSUME MutexInv, NEW t \in Task, NEW w \in WaitList, NEW n \in Timeouts, LockMiss(t, w, n),
         "block_locked" \notin Calls
  PROVE  MutexInv'
<1> DEFINE v == owner[w]
           p == Max({k.priority[t], k.priority[v]})
           l == IF n = 0 THEN NoLock ELSE [mutex |-> w, timeout |-> n]
<1>1. /\ AtMutex(t, w, "lock") /\ lock_nesting = 0 /\ v \notin {None, t}
      /\ k' = change_priority(k, v, p) /\ locking' = [locking EXCEPT ![t] = l]
      /\ UNCHANGED <<current, is_running, lock_nesting, reschedule_pending, pendsv>>
      /\ UNCHANGED <<isr, scan, need_reschedule, ticks, pc, timeout, deadline, woken>>
      /\ UNCHANGED <<owner, lock_count, original, valid, depth>> /\ lapsed' = lapsed \ {t}
  BY DEF LockMiss, MayBlock, apply_priority_inheritance, lock_vars, tick_vars, wait_vars,
         handle_vars
<1>2. /\ Sound /\ Executing(t) /\ pc[t] = "user" /\ t # Idle /\ valid[w] /\ ~InWait(t)
      /\ k.state[t] \in Runnable /\ k.wait_list[t] = None /\ is_running
      /\ MutexTypeOK /\ HoldInv
  BY <1>1, AtMutexFacts DEF MutexInv
<1>3. /\ k \in Kernel /\ Linked(k) /\ v \in Task /\ k.state[Idle] \in Runnable
  BY <1>1, <1>2, SoundFacts DEF MutexTypeOK
<1>4. p \in Priority
  <2>1. k.priority[t] \in Priority /\ k.priority[v] \in Priority /\ Priority \subseteq Int
    BY <1>3, FieldTypes DEF Priority
  <2>2. p = IF k.priority[t] >= k.priority[v] THEN k.priority[t] ELSE k.priority[v]
    BY <2>1, MaxPair
  <2>3. QED  BY <2>1, <2>2
<1>5. l \in {NoLock} \cup [mutex : WaitList, timeout : 1 .. Forever]
  BY MutexAssumption, PriorityType
<1>6. l # NoLock => l.mutex = w
  OBVIOUS
<1> HIDE DEF v, p, l
<1>7. OnlyMoved(k, k')
  BY <1>1, <1>3, <1>4, ChangePriorityFields
<1>8. TypeOK'
  BY <1>1, <1>2, <1>7 DEF OnlyMoved, MutexTypeOK, TypeOK
<1>9. locking \in [Task -> {NoLock} \cup [mutex : WaitList, timeout : 1 .. Forever]]
  BY <1>2 DEF MutexTypeOK
<1>10. MutexTypeOK'
  BY <1>1, <1>2, <1>5, <1>8, <1>9 DEF MutexTypeOK
<1>11. HoldInv'
  <2>1. depth[w][t] = 0
    <3>1. depth[w][t] \in 0 .. MaxRecursion
      BY <1>2 DEF MutexTypeOK
    <3>2. ~(depth[w][t] > 0)
      BY <1>1, <1>2 DEF HoldInv, v
    <3>3. QED  BY <3>1, <3>2, MutexAssumption
  <2>2. ASSUME NEW u \in Task, Locking(u)'
        PROVE  u # Idle /\ depth'[locking'[u].mutex][u] = 0
    BY <1>1, <1>2, <1>6, <1>9, <2>1, <2>2 DEF HoldInv, Locking
  <2>3. QED  BY <1>1, <1>2, <2>2 DEF HoldInv
<1>12. ASSUME k'.fault = {} PROVE Tracked'
  <2>1. Linked(k')
    <3>1. PICK r : r = k'
      OBVIOUS
    <3>2. Linked(r)
      BY <1>1, <1>3, <1>4, <1>12, <3>1, ChangePriorityLinked
    <3>3. QED  BY <3>1, <3>2
  <2>2. k'.state = k.state /\ k'.wait_list = k.wait_list /\ k'.delay_ticks = k.delay_ticks
    BY <1>7 DEF OnlyMoved
  <2>3. \A u \in Task : LockOf(u)
    BY <1>2 DEF Sound, Tracked
  <2>4. LockOf(t)'
    BY <1>1, <1>2, <2>2 DEF LockOf, InWait
  <2>5. ASSUME NEW u \in Task, u # t PROVE LockOf(u)'
    <3>1. SameLock(u)
      BY <1>1, <2>2 DEF SameLock, InWait
    <3>2. SameHandle(u)
      BY <1>1, <1>9, <2>5 DEF SameHandle
    <3>3. QED  BY <2>3, <3>1, <3>2, LockStays
  <2>6. QED  BY <1>1, <1>2, <1>3, <2>1, <2>2, <2>4, <2>5, CallerLocks
<1>13. QED  BY <1>1, <1>2, <1>10, <1>11, <1>12 DEF MutexInv

LEMMA LockBlockInv ==
  ASSUME MutexInv, NEW t \in Task, LockBlock(t)
  PROVE  MutexInv'
<1> DEFINE m == locking[t].mutex
           n == locking[t].timeout
           c == IF n = Forever THEN 0 ELSE n
<1>1. /\ Executing(t) /\ pc[t] = "user" /\ Locking(t) /\ WaitListBlock(t, m, n)
      /\ UNCHANGED <<current, is_running, lock_vars, pendsv, tick_vars>>
      /\ UNCHANGED <<owner, lock_count, original, valid, locking, depth, lapsed>>
  BY DEF LockBlock, Locking, mutex_vars, handle_vars
<1>2. MutexTypeOK /\ HoldInv /\ Sound /\ TypeOK
  BY <1>1 DEF MutexInv, Sound, MutexTypeOK, Executing
<1>3. m \in WaitList /\ n \in 1 .. Forever /\ t # Idle
  BY <1>1, <1>2, LockingType DEF HoldInv
<1>4. /\ current = t /\ is_running
      /\ k.state[t] \in Runnable /\ k.delay_ticks[t] = 0 /\ k.wait_list[t] = None
  BY <1>1, <1>2, SoundExecuting
<1>5. lock_nesting' = 0
  BY <1>1, <1>2, <1>4 DEF Sound, Tracked, NestingInv, lock_vars
<1>6. /\ k' = block_on_wait_list(k, t, m, n) /\ timeout' = [timeout EXCEPT ![t] = n]
      /\ pc' = [pc EXCEPT ![t] = "wait_switch"]
  BY <1>1 DEF WaitListBlock, Goto
<1>7. Locking(t)' /\ locking'[t].mutex = m /\ locking'[t].timeout = n
  BY <1>1 DEF Locking
<1> HIDE DEF m, n
<1>8. TypeOK'
  BY <1>1, <1>2, <1>3, WaitListBlockType
<1>9. MutexTypeOK' /\ HoldInv'
  BY <1>1, <1>2, <1>8 DEF MutexTypeOK, HoldInv, Locking
<1>10. ASSUME k'.fault = {} PROVE Tracked'
  <2>1. /\ k \in Kernel /\ Linked(k) /\ k' \in Kernel /\ pc \in [Task -> TaskPc] /\ Idle \in Task
        /\ k.state[Idle] \in Runnable /\ timeout \in [Task -> 0 .. Forever]
    BY <1>2, <1>8, SoundFacts DEF TypeOK
  <2>2. PICK r : r = k'
    OBVIOUS
  <2>3. Contains(k.ready[k.priority[t]], t)
    <3>1. ASSUME ~Contains(k.ready[k.priority[t]], t) PROVE FALSE
      BY <1>3, <1>4, <1>6, <1>10, <2>1, <3>1, WaitMisplaced
    <3>2. QED  BY <3>1
  <2>4. MadeBlocked(k, r, t, m, c)
    BY <1>3, <1>6, <2>1, <2>2, <2>3, BlockOnWaitListLinked
  <2>5. c \in 0 .. MaxDelay /\ m # None /\ (n = Forever => c = 0)
    BY <1>3, KernelAssumption DEF Forever
  <2> HIDE DEF c
  <2>6. Linked(r)
    BY <1>3, <2>1, <2>2, <2>3, <2>4, <2>5, MadeBlockedLinked
  <2>7. /\ k.state \in [Task -> TaskState] /\ k.wait_list \in [Task -> WaitList \cup {None}]
        /\ k.delay_ticks \in [Task -> 0 .. MaxDelay]
    BY <2>1, FieldTypes
  <2>8. /\ r.wait_list[t] = m /\ r.delay_ticks[t] = c
        /\ \A u \in Task : u # t => /\ r.wait_list[u] = k.wait_list[u]
                                    /\ r.delay_ticks[u] = k.delay_ticks[u]
                                    /\ r.state[u] = k.state[u]
    BY <2>4, <2>7 DEF MadeBlocked
  <2>9. \A u \in Task : LockOf(u)
    BY <1>2 DEF Sound, Tracked
  <2>10. timeout'[t] = n /\ pc'[t] = "wait_switch"
    BY <1>6, <2>1
  <2>11. LockOf(t)'
    BY <1>7, <2>2, <2>5, <2>8, <2>10 DEF LockOf, InWait
  <2>12. ASSUME NEW u \in Task, u # t PROVE LockOf(u)'
    <3>1. SameLock(u)
      BY <1>6, <2>1, <2>2, <2>8, <2>12 DEF SameLock, InWait
    <3>2. QED  BY <1>1, <2>9, <3>1, LockKept
  <2>13. k'.state[Idle] \in Runnable
    BY <1>3, <2>1, <2>2, <2>8
  <2>14. UNCHANGED <<current, is_running, pendsv, isr, scan>>
    BY <1>1 DEF tick_vars
  <2>15. QED  BY <1>1, <1>2, <1>5, <2>2, <2>6, <2>10, <2>11, <2>12, <2>13, <2>14, CallerLocks
<1>11. QED  BY <1>1, <1>4, <1>9, <1>10 DEF MutexInv

\* A lock call that is told OK writes what unlock wrote before it.
LEMMA LockReturnInv ==
  ASSUME MutexInv, NEW t \in Task, LockReturn(t)
  PROVE  MutexInv'
<1> DEFINE m == locking[t].mutex
           ok == wait_list_status(t) = "OK"
<1>1. /\ Executing(t) /\ pc[t] = "wait_return" /\ timeout' = [timeout EXCEPT ![t] = 0]
      /\ woken' = [woken EXCEPT ![t] = "no"] /\ pc' = [pc EXCEPT ![t] = "user"]
      /\ UNCHANGED <<k, current, is_running, lock_nesting, reschedule_pending, pendsv>>
      /\ UNCHANGED <<isr, scan, need_reschedule, ticks, deadline, valid, lapsed>>
      /\ locking' = [locking EXCEPT ![t] = NoLock]
      /\ IF ok THEN /\ owner' = [owner EXCEPT ![m] = t]
                    /\ lock_count' = [lock_count EXCEPT ![m] = 1]
                    /\ original' = [original EXCEPT ![m] = k.base_priority[t]]
                    /\ Granted(t, m)
         ELSE UNCHANGED <<owner, lock_count, original, depth>>
  BY DEF LockReturn, WaitReturn, Goto, lock_vars, tick_vars
<1>2. MutexTypeOK /\ HoldInv /\ Sound /\ TypeOK
  BY <1>1 DEF MutexInv, Sound, MutexTypeOK, Executing
<1>3. /\ k \in Kernel /\ Linked(k) /\ pc \in [Task -> TaskPc] /\ k.state[Idle] \in Runnable
      /\ \A u \in Task : LockOf(u)
  BY <1>2, SoundFacts DEF Sound, Tracked
<1>4. /\ current = t /\ is_running
      /\ k.state[t] \in Runnable /\ k.delay_ticks[t] = 0 /\ k.wait_list[t] = None
  BY <1>1, <1>2, SoundExecuting
<1>5. Locking(t) /\ (ok /\ valid[m] => owner[m] = t)
  <2>1. InWait(t)
    BY <1>1 DEF InWait
  <2>2. ok => timeout[t] = Forever
    BY <1>4 DEF wait_list_status
  <2>3. QED  BY <1>3, <1>4, <2>1, <2>2 DEF LockOf
<1>6. m \in WaitList /\ depth[m][t] = 0
  BY <1>2, <1>5, LockingType DEF HoldInv
<1> HIDE DEF ok
<1>7. TypeOK'
  BY <1>1, <1>2, PriorityType DEF TypeOK, TaskPc
<1>8. /\ owner \in [WaitList -> Task \cup {None}]
      /\ lock_count \in [WaitList -> 0 .. MaxRecursion]
      /\ original \in [WaitList -> Priority] /\ k.base_priority[t] \in Priority
      /\ depth \in [WaitList -> [Task -> 0 .. MaxRecursion]]
      /\ locking \in [Task -> {NoLock} \cup [mutex : WaitList, timeout : 1 .. Forever]]
      /\ MaxRecursion \in Nat \ {0} /\ 1 \in 0 .. MaxRecursion
  BY <1>2, <1>3, MutexAssumption, FieldTypes DEF MutexTypeOK
<1>9. /\ depth' \in [WaitList -> [Task -> 0 .. MaxRecursion]]
      /\ \A x \in WaitList, u \in Task :
           depth'[x][u] = IF ok /\ x = m /\ u = t THEN 1 ELSE depth[x][u]
  <2>1. CASE ok
    <3>1. Granted(t, m) /\ depth[m][t] < MaxRecursion
      BY <1>1, <1>6, <1>8, <2>1
    <3>2. /\ depth' \in [WaitList -> [Task -> 0 .. MaxRecursion]]
          /\ \A x \in WaitList, u \in Task :
               depth'[x][u] = IF x = m /\ u = t THEN depth[m][t] + 1 ELSE depth[x][u]
      <4> HIDE DEF m
      <4> QED  BY <1>2, <1>6, <3>1, GrantedEffect
    <3>3. QED  BY <1>6, <2>1, <3>2
  <2>2. CASE ~ok
    BY <1>1, <1>8, <2>2
  <2>3. QED  BY <2>1, <2>2
<1> HIDE DEF m
<1>10. MutexTypeOK'
  <2>1. /\ owner' \in [WaitList -> Task \cup {None}]
        /\ lock_count' \in [WaitList -> 0 .. MaxRecursion]
        /\ original' \in [WaitList -> Priority]
    <3>1. CASE ok
      <4>1. /\ owner' = [owner EXCEPT ![m] = t] /\ lock_count' = [lock_count EXCEPT ![m] = 1]
            /\ original' = [original EXCEPT ![m] = k.base_priority[t]]
        BY <1>1, <3>1
      <4>2. owner' \in [WaitList -> Task \cup {None}]
        BY <1>8, <4>1
      <4>3. lock_count' \in [WaitList -> 0 .. MaxRecursion]
        BY <1>8, <4>1
      <4>4. original' \in [WaitList -> Priority]
        BY <1>8, <4>1
      <4>5. QED  BY <4>2, <4>3, <4>4
    <3>2. CASE ~ok
      BY <1>1, <1>8, <3>2
    <3>3. QED  BY <3>1, <3>2
  <2>2. locking' \in [Task -> {NoLock} \cup [mutex : WaitList, timeout : 1 .. Forever]]
    BY <1>1, <1>8
  <2>3. QED  BY <1>1, <1>2, <1>7, <1>9, <2>1, <2>2 DEF MutexTypeOK
<1>11. \A x \in WaitList : /\ owner'[x] = IF ok /\ x = m THEN t ELSE owner[x]
                           /\ lock_count'[x] = IF ok /\ x = m THEN 1 ELSE lock_count[x]
  BY <1>1, <1>8
<1>12. \A u \in Task : locking'[u] = IF u = t THEN NoLock ELSE locking[u]
  BY <1>1, <1>8
<1>13. HoldInv'
  <2>1. ASSUME NEW x \in WaitList, NEW u \in Task, valid'[x], depth'[x][u] > 0
        PROVE  owner'[x] = u /\ depth'[x][u] <= lock_count'[x]
    <3>1. CASE ok /\ x = m
      <4>1. u = t
        BY <1>1, <1>2, <1>5, <1>9, <2>1, <3>1 DEF HoldInv, m
      <4>2. QED  BY <1>9, <1>11, <3>1, <4>1
    <3>2. CASE ~(ok /\ x = m)
      BY <1>1, <1>2, <1>9, <1>11, <2>1, <3>2 DEF HoldInv
    <3>3. QED  BY <3>1, <3>2
  <2>2. ASSUME NEW u \in Task, Locking(u)'
        PROVE  u # Idle /\ depth'[locking'[u].mutex][u] = 0
    <3>1. u # t /\ locking'[u] = locking[u] /\ Locking(u)
      BY <1>12, <2>2 DEF Locking
    <3>2. locking[u].mutex \in WaitList
      BY <1>2, <3>1, LockingType
    <3>3. QED  BY <1>2, <1>9, <3>1, <3>2 DEF HoldInv
  <2>3. QED  BY <2>1, <2>2 DEF HoldInv
<1>14. Tracked'
  <2>1. LockOf(t)' /\ ~Locking(t)'
    BY <1>1, <1>3, <1>4, <1>12 DEF LockOf, InWait, Locking
  <2>2. ASSUME NEW u \in Task, u # t PROVE LockOf(u)'
    <3>1. SameLock(u)
      <4>1. timeout'[u] = timeout[u] /\ pc'[u] = pc[u]
        BY <1>1, <1>2, <1>3, <2>2 DEF TypeOK
      <4>2. QED  BY <1>1, <4>1 DEF SameLock, InWait
    <3>2. SameHandle(u)
      <4>1. ASSUME Locking(u), valid[locking[u].mutex], owner[locking[u].mutex] = u
            PROVE  owner'[locking[u].mutex] = u
        <5>1. locking[u].mutex \in WaitList
          BY <1>2, <4>1, LockingType
        <5>2. ~(ok /\ locking[u].mutex = m)
          BY <1>5, <2>2, <4>1 DEF m
        <5>3. QED  BY <1>11, <4>1, <5>1, <5>2
      <4>2. QED  BY <1>1, <1>12, <2>2, <4>1 DEF SameHandle
    <3>3. QED  BY <1>3, <3>1, <3>2, LockStays
  <2>3. QED  BY <1>1, <1>2, <1>3, <1>4, <2>1, <2>2, CallerLocks
<1>15. QED  BY <1>1, <1>4, <1>10, <1>13, <1>14 DEF MutexInv

\* The first waiter owns the mutex from here on, before it runs.
LEMMA UnlockOuterInv ==
  ASSUME MutexInv, NEW t \in Task, NEW w \in WaitList, UnlockOuter(t, w)
  PROVE  MutexInv'
<1> DEFINE r == change_priority(k, t, original[w])
           u == highest_waiter(r, w)
           s == unblock_highest(r, w)
<1>1. /\ AtMutex(t, w, "unlock") /\ owner[w] = t /\ lock_count[w] = 1
      /\ k' = s /\ RecordEvent(u) /\ pc' = [pc EXCEPT ![t] = "reschedule"]
      /\ owner' = [owner EXCEPT ![w] = u]
      /\ lock_count' = [lock_count EXCEPT ![w] = IF u = None THEN 0 ELSE 1]
      /\ original' = [original EXCEPT ![w] = IF u = None THEN @ ELSE k.base_priority[u]]
      /\ Released(t, w) /\ Outdated(w)
      /\ UNCHANGED <<current, is_running, lock_nesting, reschedule_pending, pendsv>>
      /\ UNCHANGED <<isr, scan, need_reschedule, ticks, timeout, valid, locking>>
  BY DEF UnlockOuter, restore_owner_priority, Goto, lock_vars, tick_vars
<1>2. /\ Sound /\ Executing(t) /\ pc[t] = "user" /\ t # Idle /\ valid[w] /\ ~InWait(t)
      /\ ~Locking(t) /\ k.state[t] \in Runnable /\ k.wait_list[t] = None /\ is_running
      /\ MutexTypeOK /\ HoldInv /\ TypeOK
  BY <1>1, AtMutexFacts DEF MutexInv, MutexTypeOK
<1>3. /\ k \in Kernel /\ Linked(k) /\ Idle \in Task /\ k.state[Idle] \in Runnable
      /\ original[w] \in Priority /\ pc \in [Task -> TaskPc]
  BY <1>2, SoundFacts DEF MutexTypeOK
<1>4. OnlyMoved(k, r)
  BY <1>3, ChangePriorityFields
<1>5. /\ r \in Kernel /\ r.state = k.state /\ r.wait_list = k.wait_list
      /\ r.delay_ticks = k.delay_ticks
  BY <1>4 DEF OnlyMoved
<1>6. r.fault = {} => Linked(r)
  BY <1>3, ChangePriorityLinked
<1> HIDE DEF r
<1>7. s \in Kernel /\ u \in Task \cup {None} /\ r.fault \subseteq s.fault
  BY <1>3, <1>5, UnblockHighestType, HighestWaiterType, FaultsKept
<1>8. r.waiters[w] = <<>> => u = None /\ s = r
  BY DEF highest_waiter, unblock_highest
<1>9. ASSUME r.waiters[w] # <<>>, Linked(r)
      PROVE  /\ u \in Task /\ u # None /\ r.wait_list[u] = w /\ w # None /\ r.state[u] = "BLOCKED"
             /\ Linked(s)
             /\ \A x \in Task : /\ s.state[x] = IF x = u THEN "READY" ELSE r.state[x]
                                /\ s.wait_list[x] = IF x = u THEN None ELSE r.wait_list[x]
                                /\ s.delay_ticks[x] = IF x = u THEN 0 ELSE r.delay_ticks[x]
  BY <1>5, <1>9, WakeLinked
<1> HIDE DEF u, s
<1>10. TypeOK'
  <2>1. /\ woken' \in [Task -> {"no", "event", "timeout", "deleted"}]
        /\ deadline' \in [Task -> 0 .. TickMod - 1]
    BY <1>1, <1>2, <1>7, ConstantTypes DEF TypeOK, RecordEvent
  <2>2. pc' \in [Task -> TaskPc]
    BY <1>1, <1>3 DEF TaskPc
  <2>3. QED  BY <1>1, <1>2, <1>7, <2>1, <2>2 DEF TypeOK
<1>11. /\ owner \in [WaitList -> Task \cup {None}]
       /\ lock_count \in [WaitList -> 0 .. MaxRecursion]
       /\ original \in [WaitList -> Priority]
       /\ depth \in [WaitList -> [Task -> 0 .. MaxRecursion]] /\ depth[w][t] \in 0 .. MaxRecursion
       /\ MaxRecursion \in Nat \ {0} /\ 1 \in 0 .. MaxRecursion /\ 0 \in 0 .. MaxRecursion
       /\ u # None => k.base_priority[u] \in Priority
  BY <1>2, <1>3, <1>7, MutexAssumption, FieldTypes DEF MutexTypeOK
<1>12. /\ depth' \in [WaitList -> [Task -> 0 .. MaxRecursion]]
       /\ \A x \in WaitList, y \in Task :
            depth'[x][y] = IF x = w /\ y = t /\ depth[w][t] > 0
                           THEN depth[w][t] - 1 ELSE depth[x][y]
  BY <1>1, <1>2, ReleasedEffect
<1>13. MutexTypeOK'
  <2>1. original' \in [WaitList -> Priority]
    BY <1>1, <1>11
  <2>2. owner' \in [WaitList -> Task \cup {None}] /\ lock_count' \in [WaitList -> 0 .. MaxRecursion]
    BY <1>1, <1>7, <1>11
  <2>3. QED  BY <1>1, <1>2, <1>10, <1>12, <2>1, <2>2 DEF MutexTypeOK, Outdated
<1>14. \A x \in WaitList : x # w => owner'[x] = owner[x] /\ lock_count'[x] = lock_count[x]
  BY <1>1, <1>11
<1>15. HoldInv'
  <2>1. \A y \in Task : Locking(y) => locking[y].mutex \in WaitList
    BY <1>2, LockingType
  <2>2. \A y \in Task : y # t => ~(depth[w][y] > 0)
    BY <1>1, <1>2 DEF HoldInv
  <2>3. ~(depth'[w][t] > 0)
    <3>1. depth[w][t] > 0 => depth[w][t] <= 1
      BY <1>1, <1>2 DEF HoldInv
    <3>2. QED  BY <1>11, <1>12, <3>1
  <2>4. \A x \in WaitList, y \in Task : ~(x = w /\ y = t) => depth'[x][y] = depth[x][y]
    BY <1>12
  <2>5. QED  BY <1>1, <1>2, <1>14, <2>1, <2>2, <2>3, <2>4, HoldersOfOne
<1>16. ASSUME k'.fault = {} PROVE Tracked'
  <2>1. Linked(r)
    BY <1>1, <1>6, <1>7, <1>16
  <2>2. \A y \in Task : LockOf(y)
    BY <1>2 DEF Sound, Tracked
  <2>3. owner'[w] = u /\ \A y \in Task : y # t => pc'[y] = pc[y]
    BY <1>1, <1>3, <1>11
  <2>4. pc'[t] = "reschedule"
    BY <1>1, <1>3
  <2>5. ASSUME NEW y \in Task, y # t PROVE SameHandle(y)
    <3>1. ASSUME Locking(y), owner[locking[y].mutex] = y PROVE owner'[locking[y].mutex] = y
      <4>1. locking[y].mutex \in WaitList /\ locking[y].mutex # w
        BY <1>1, <1>2, <2>5, <3>1, LockingType
      <4>2. QED  BY <1>14, <3>1, <4>1
    <3>2. QED  BY <1>1, <3>1 DEF SameHandle
  <2>6. ASSUME NEW y \in Task, y # t,
               /\ s.wait_list[y] = k.wait_list[y]
               /\ s.delay_ticks[y] = k.delay_ticks[y]
        PROVE  LockOf(y)'
    <3>1. SameLock(y)
      BY <1>1, <2>3, <2>6 DEF SameLock, InWait
    <3>2. QED  BY <2>2, <2>5, <2>6, <3>1, LockStays
  <2>7. CASE r.waiters[w] = <<>>
    <3>1. s = r
      BY <1>8, <2>7
    <3>2. \A y \in Task : y # t => LockOf(y)'
      BY <1>5, <2>6, <3>1
    <3>3. LockOf(t)'
      BY <1>1, <1>2, <1>5, <2>4, <3>1 DEF LockOf, InWait
    <3>4. Linked(k') /\ k'.state[Idle] \in Runnable /\ k'.state[t] \in Runnable
      BY <1>1, <1>2, <1>3, <1>5, <2>1, <3>1
    <3>5. ~Locking(t)'
      BY <1>1, <1>2 DEF Locking
    <3>6. QED  BY <1>1, <1>2, <3>2, <3>3, <3>4, <3>5, CallerLocks
  <2>8. CASE r.waiters[w] # <<>>
    <3>1. /\ u \in Task /\ u # None /\ r.wait_list[u] = w /\ w # None /\ r.state[u] = "BLOCKED"
          /\ Linked(s)
          /\ \A x \in Task : /\ s.state[x] = IF x = u THEN "READY" ELSE r.state[x]
                             /\ s.wait_list[x] = IF x = u THEN None ELSE r.wait_list[x]
                             /\ s.delay_ticks[x] = IF x = u THEN 0 ELSE r.delay_ticks[x]
      BY <1>9, <2>1, <2>8
    <3>2. u # t /\ u # Idle
      BY <1>2, <1>3, <1>5, <3>1 DEF Runnable
    <3>3. ASSUME NEW y \in Task, y = u PROVE LockOf(y)'
      <4>1. InWait(y) /\ Locking(y) /\ locking[y].mutex = w /\ timeout[y] = locking[y].timeout
        BY <1>5, <2>2, <3>1, <3>3 DEF LockOf
      <4>2. s.wait_list[y] = None /\ s.delay_ticks[y] = 0
        BY <3>1, <3>3
      <4>3. InWait(y)' /\ Locking(y)' /\ locking'[y] = locking[y] /\ timeout'[y] = timeout[y]
        BY <1>1, <2>3, <3>2, <3>3, <4>1 DEF InWait, Locking
      <4>4. QED  BY <1>1, <2>3, <3>3, <4>1, <4>2, <4>3 DEF LockOf
    <3>4. ASSUME NEW y \in Task, y # t PROVE LockOf(y)'
      <4>1. CASE y = u
        BY <3>3, <4>1
      <4>2. CASE y # u
        BY <1>5, <2>6, <3>1, <3>4, <4>2
      <4>3. QED  BY <4>1, <4>2
    <3>5. LockOf(t)'
      BY <1>1, <1>2, <1>5, <2>4, <3>1, <3>2 DEF LockOf, InWait
    <3>6. Linked(k') /\ k'.state[Idle] \in Runnable /\ k'.state[t] \in Runnable
      BY <1>1, <1>2, <1>3, <1>5, <3>1, <3>2
    <3>7. ~Locking(t)'
      BY <1>1, <1>2 DEF Locking
    <3>8. QED  BY <1>1, <1>2, <3>4, <3>5, <3>6, <3>7, CallerLocks
  <2>9. QED  BY <2>7, <2>8
<1>17. QED  BY <1>1, <1>2, <1>13, <1>15, <1>16 DEF MutexInv

LEMMA DeleteMutexInv ==
  ASSUME MutexInv, NEW t \in Task, NEW w \in WaitList, DeleteMutex(t, w)
  PROVE  MutexInv'
<1> DEFINE r == IF owner[w] = None THEN k ELSE change_priority(k, owner[w], original[w])
           s == unblock_all(r, w)
<1>1. /\ AtMutex(t, w, "delete") /\ valid' = [valid EXCEPT ![w] = FALSE]
      /\ k' = s /\ pc' = [pc EXCEPT ![t] = "reschedule"]
      /\ \E D : woken' = [x \in Task |-> IF x \in D THEN "deleted" ELSE woken[x]]
      /\ \E D : deadline' = [x \in Task |-> IF x \in D THEN 0 ELSE deadline[x]]
      /\ UNCHANGED <<current, is_running, lock_nesting, reschedule_pending, pendsv>>
      /\ UNCHANGED <<isr, scan, need_reschedule, ticks, timeout>>
      /\ UNCHANGED <<owner, lock_count, original, locking, depth>> /\ Outdated(w)
  BY DEF DeleteMutex, restore_owner_priority, Goto, lock_vars, tick_vars
<1>2. /\ Sound /\ Executing(t) /\ pc[t] = "user" /\ t # Idle /\ ~InWait(t)
      /\ ~Locking(t) /\ k.state[t] \in Runnable /\ k.wait_list[t] = None /\ is_running
      /\ MutexTypeOK /\ HoldInv /\ TypeOK
  BY <1>1, AtMutexFacts DEF MutexInv, MutexTypeOK
<1>3. /\ k \in Kernel /\ Linked(k) /\ Idle \in Task /\ k.state[Idle] \in Runnable
      /\ original[w] \in Priority /\ owner[w] \in Task \cup {None} /\ pc \in [Task -> TaskPc]
      /\ valid \in [WaitList -> BOOLEAN]
  BY <1>2, SoundFacts DEF MutexTypeOK
<1>4. OnlyMoved(k, r) /\ (r.fault = {} => Linked(r))
  <2>1. CASE owner[w] = None
    BY <1>3, <2>1 DEF OnlyMoved
  <2>2. CASE owner[w] # None
    <3> DEFINE q == change_priority(k, owner[w], original[w])
    <3>1. OnlyMoved(k, q) /\ (q.fault = {} => Linked(q))
      BY <1>3, <2>2, ChangePriorityFields, ChangePriorityLinked
    <3>2. r = q
      BY <2>2
    <3> HIDE DEF q, r
    <3>3. QED  BY <3>1, <3>2
  <2>3. QED  BY <2>1, <2>2
<1> HIDE DEF r
<1>5. /\ r \in Kernel /\ r.state = k.state /\ r.wait_list = k.wait_list
      /\ r.delay_ticks = k.delay_ticks
  BY <1>4 DEF OnlyMoved
<1>6. s \in Kernel /\ r.fault \subseteq s.fault /\ (Linked(r) => WokenFrom(r, s, w))
  BY <1>5, UnblockAllLinked
<1> HIDE DEF s
<1>7. TypeOK'
  <2>1. /\ woken' \in [Task -> {"no", "event", "timeout", "deleted"}]
        /\ deadline' \in [Task -> 0 .. TickMod - 1]
    BY <1>1, <1>2, ConstantTypes DEF TypeOK
  <2>2. pc' \in [Task -> TaskPc]
    BY <1>1, <1>3 DEF TaskPc
  <2>3. QED  BY <1>1, <1>2, <1>6, <2>1, <2>2 DEF TypeOK
<1>8. \A x \in WaitList : valid'[x] <=> (valid[x] /\ x # w)
  BY <1>1, <1>3
<1>9. MutexTypeOK'
  BY <1>1, <1>2, <1>3, <1>7 DEF MutexTypeOK, Outdated
<1>10. HoldInv'
  BY <1>1, <1>2, <1>8 DEF HoldInv, Locking
<1>11. ASSUME k'.fault = {} PROVE Tracked'
  <2>1. WokenFrom(r, s, w)
    BY <1>1, <1>4, <1>6, <1>11
  <2>2. \A y \in Task : LockOf(y)
    BY <1>2 DEF Sound, Tracked
  <2>3. pc'[t] = "reschedule" /\ \A y \in Task : y # t => pc'[y] = pc[y]
    BY <1>1, <1>3
  <2>4. ASSUME NEW y \in Task, y # t PROVE LockOf(y)'
    <3>1. CASE s.wait_list[y] = k.wait_list[y] /\ s.delay_ticks[y] = k.delay_ticks[y]
      <4>1. SameLock(y)
        BY <1>1, <2>3, <2>4, <3>1 DEF SameLock, InWait
      <4>2. SameHandle(y)
        <5>1. Locking(y) => locking[y].mutex \in WaitList
          BY <1>2, LockingType
        <5>2. QED  BY <1>1, <1>8, <5>1 DEF SameHandle
      <4>3. QED  BY <2>2, <4>1, <4>2, LockStays
    <3>2. CASE ~(s.wait_list[y] = k.wait_list[y] /\ s.delay_ticks[y] = k.delay_ticks[y])
      <4>1. k.wait_list[y] = w /\ w # None /\ s.wait_list[y] = None /\ s.delay_ticks[y] = 0
        BY <1>5, <2>1, <3>2 DEF WokenFrom
      <4>2. InWait(y) /\ Locking(y) /\ locking[y].mutex = w /\ timeout[y] = locking[y].timeout
        BY <2>2, <4>1 DEF LockOf
      <4>3. InWait(y)' /\ Locking(y)' /\ locking'[y] = locking[y] /\ timeout'[y] = timeout[y]
            /\ ~valid'[w]
        BY <1>1, <1>8, <2>3, <2>4, <4>2 DEF InWait, Locking
      <4>4. QED  BY <1>1, <4>1, <4>2, <4>3 DEF LockOf
    <3>3. QED  BY <3>1, <3>2
  <2>5. /\ Linked(s) /\ s.state[Idle] \in Runnable /\ s.state[t] \in Runnable
        /\ s.wait_list[t] = None
    <3>1. \A y \in Task : k.state[y] \in Runnable => s.state[y] \in Runnable
      BY <1>5, <2>1 DEF WokenFrom, Runnable
    <3>2. s.wait_list[t] = None
      BY <1>2, <1>5, <2>1 DEF WokenFrom
    <3>3. QED  BY <1>2, <1>3, <2>1, <3>1, <3>2 DEF WokenFrom
  <2>6. LockOf(t)' /\ ~Locking(t)'
    BY <1>1, <1>2, <2>3, <2>5 DEF LockOf, InWait, Locking
  <2>7. QED  BY <1>1, <1>2, <2>4, <2>5, <2>6, CallerLocks
<1>12. QED  BY <1>1, <1>2, <1>9, <1>10, <1>11 DEF MutexInv

-----------------------------------------------------------------------------
\* The steps of the scheduler leave the handles alone.
LEMMA SchedulerStepInv ==
  ASSUME MutexInv, Sound, UNCHANGED mutex_vars, TypeOK',
         (is_running' \/ k'.fault = {}) /\ (k'.fault = {} => Tracked')
  PROVE  MutexInv'
<1>1. MutexTypeOK'
  BY DEF MutexInv, MutexTypeOK, mutex_vars, handle_vars
<1>2. HoldInv'
  BY DEF MutexInv, HoldInv, Locking, mutex_vars, handle_vars
<1>3. QED  BY <1>1, <1>2 DEF MutexInv

LEMMA MutexInit_Inv == MutexInit => MutexInv
<1> SUFFICES ASSUME MutexInit PROVE MutexInv
  OBVIOUS
<1>1. Init /\ TypeOK
  BY InitType DEF MutexInit
<1>2. MutexTypeOK
  BY <1>1, MutexAssumption, PriorityType DEF MutexInit, MutexTypeOK
<1>3. \A t \in Task : ~Locking(t)
  BY DEF MutexInit, Locking
<1>4. HoldInv
  BY <1>3 DEF MutexInit, HoldInv
<1>5. k = InitKernel /\ k \in Kernel /\ KernelConsistent(k) /\ k.fault = {} /\ ~is_running
  BY <1>1, InitKernelEffect DEF Init, TypeOK
<1>6. Linked(k) /\ k.state[Idle] \in Runnable
  BY <1>5, InitKernelEffect, KernelLinked, KernelAssumption DEF Runnable
<1>7. ScanInv /\ BlockedInv
  BY <1>1 DEF Init, ScanInv, BlockedInv, IsInjective, Contains
<1>8. OrderInv /\ NestingInv
  BY <1>1, <1>6, <1>7 DEF Init, OrderInv, NestingInv
<1>9. ASSUME NEW t \in Task PROVE LockOf(t)
  <2>1. ~InWait(t)
    BY <1>1 DEF Init, InWait
  <2>2. k.wait_list[t] = None
    <3>1. WaitListsConsistent(k) /\ k.state[t] # "BLOCKED"
      BY <1>5, InitKernelEffect DEF KernelConsistent
    <3>2. QED  BY <3>1 DEF WaitListsConsistent
  <2>3. QED  BY <2>1, <2>2 DEF LockOf
<1>10. QED  BY <1>2, <1>4, <1>5, <1>8, <1>9 DEF MutexInv, Tracked

LEMMA MutexNext_Inv ==
  ASSUME MutexInv, [MutexNext]_<<vars, mutex_vars>>, "block_locked" \notin Calls
  PROVE  MutexInv'
<1>1. CASE UNCHANGED <<vars, mutex_vars>>
  <2>1. \A x \in WaitList : owner'[x] = owner[x]
    BY <1>1 DEF mutex_vars, handle_vars
  <2>2. UNCHANGED vars /\ UNCHANGED <<valid, locking>>
    BY <1>1 DEF mutex_vars, handle_vars
  <2>3. (is_running' \/ k'.fault = {}) /\ (k'.fault = {} => Tracked') /\ TypeOK'
    BY <2>1, <2>2, HandlesChange
  <2>4. MutexTypeOK' /\ HoldInv'
    BY <1>1, <2>3 DEF MutexInv, MutexTypeOK, HoldInv, Locking, mutex_vars, handle_vars
  <2>5. QED  BY <2>3, <2>4 DEF MutexInv
<1>2. CASE SystemStep /\ UNCHANGED mutex_vars
  <2>1. Sound
    <3>1. k.fault = {}
      BY <1>2 DEF SystemStep, CreateFromMain, Start, PendSV, TickEnter, TickScan, TickSlice,
                  TickSwitch, MutexInv
    <3>2. QED  BY <3>1 DEF Sound, MutexInv, MutexTypeOK
  <2>2. TypeOK'
    BY <1>2, <2>1, NextType DEF Sound, Next
  <2>3. QED  BY <1>2, <2>1, <2>2, SystemStepLocks, SchedulerStepInv
<1>3. ASSUME NEW t \in Task, KernelStep(t), UNCHANGED mutex_vars PROVE MutexInv'
  <2>1. k.fault = {}
    BY <1>3 DEF KernelStep, SwitchContext, Reschedule, Executing
  <2>2. Sound
    BY <2>1 DEF Sound, MutexInv, MutexTypeOK
  <2>3. TypeOK'
    BY <1>3, <2>2, NextType DEF Sound, Next
  <2>4. k'.fault = {} /\ Tracked'
    BY <1>3, <2>2, SwitchContextLocks, RescheduleLocks DEF KernelStep
  <2>5. QED  BY <1>3, <2>2, <2>3, <2>4, SchedulerStepInv
<1>4. ASSUME NEW t \in Task, locking[t] = NoLock, CallStep(t), UNCHANGED mutex_vars
      PROVE  MutexInv'
  <2>1. k.fault = {} /\ is_running'
    BY <1>4 DEF CallStep, Create, Yield, Delay, Lock, Unlock, InUser, AtUser, Executing
  <2>2. Sound
    BY <2>1 DEF Sound, MutexInv, MutexTypeOK
  <2>3. TypeOK'
    BY <1>4, <2>2, NextType DEF Sound, Next
  <2>4. QED  BY <1>4, <2>1, <2>2, <2>3, CallStepLocks, SchedulerStepInv
<1>5. ASSUME NEW t \in Task, NEW w \in WaitList,
             \/ LockFree(t, w)
             \/ LockAgain(t, w)
             \/ \E n \in Timeouts : LockMiss(t, w, n)
             \/ UnlockInner(t, w)
             \/ UnlockOuter(t, w)
             \/ DeleteMutex(t, w)
      PROVE  MutexInv'
  BY <1>5, LockFreeInv, LockAgainInv, LockMissInv, UnlockInnerInv, UnlockOuterInv, DeleteMutexInv
<1>6. ASSUME NEW t \in Task, LockBlock(t) \/ LockReturn(t) PROVE MutexInv'
  BY <1>6, LockBlockInv, LockReturnInv
<1>7. QED  BY <1>1, <1>2, <1>3, <1>4, <1>5, <1>6 DEF MutexNext

\* The invariant holds in every state, for any number of tasks, mutexes and
\* priorities, with or without time slicing, whatever lists are misused.
THEOREM MutexSafe ==
  ASSUME "block_locked" \notin Calls
  PROVE  MutexSpec => []MutexInv
<1>1. MutexInv /\ [MutexNext]_<<vars, mutex_vars>> => MutexInv'
  BY MutexNext_Inv
<1>2. QED  BY <1>1, MutexInit_Inv, PTL DEF MutexSpec

\* A lock count stays within the bound of the recursion, and an owner is a task.
THEOREM MutexTypeCorrect ==
  ASSUME "block_locked" \notin Calls
  PROVE  MutexSpec => []MutexTypeOK
<1>1. MutexInv => MutexTypeOK
  BY DEF MutexInv
<1>2. QED  BY <1>1, MutexSafe, PTL

\* No two tasks hold a mutex that exists, through hand-over at unlock,
\* recursive locks, timeouts, deletion and preemption at every point of a call.
THEOREM MutexesExclude ==
  ASSUME "block_locked" \notin Calls
  PROVE  MutexSpec => []MutualExclusion
<1>1. MutexInv => MutualExclusion
  BY DEF MutexInv, HoldInv, MutualExclusion
<1>2. QED  BY <1>1, MutexSafe, PTL

-----------------------------------------------------------------------------
(***************************************************************************)
(* Priority inheritance.                                                   *)
(*                                                                         *)
(* The routines but for change_priority and wait_list_block are steady:    *)
(* they change the priority of no task that exists and let nobody join a   *)
(* wait list.                                                              *)
(***************************************************************************)

Steady(K, r) ==
    /\ \A t \in Task : K.state[t] # "ABSENT" =>
        r.state[t] # "ABSENT" /\ r.priority[t] = K.priority[t]
    /\ \A t \in Task : r.wait_list[t] # None => r.wait_list[t] = K.wait_list[t]
    /\ \A w \in WaitList, f \in [Task -> Priority] :
        SortedBy(K.waiters[w], f) => SortedBy(r.waiters[w], f)

\* A waiter exists, and its control block names the list.
LEMMA WaiterFacts ==
  ASSUME NEW K \in Kernel, Linked(K), NEW w \in WaitList, NEW u \in Task
  PROVE  Contains(K.waiters[w], u) <=> (K.wait_list[u] = w /\ w # None /\ K.state[u] = "BLOCKED")
<1>1. WaitListsConsistent(K) /\ w # None
  BY LinkedFacts, KernelAssumption
<1>2. QED  BY <1>1 DEF WaitListsConsistent

LEMMA SteadySorted ==
  ASSUME NEW K \in Kernel, NEW r \in Kernel, Linked(K), Steady(K, r), WaitersSorted(K)
  PROVE  WaitersSorted(r)
<1> SUFFICES ASSUME NEW w \in WaitList PROVE SortedBy(r.waiters[w], r.priority)
  BY WaitersSortedBy
<1>1. K.waiters[w] \in Seq(Task) /\ r.priority \in [Task -> Priority]
  BY FieldTypes
<1>2. SortedBy(K.waiters[w], K.priority)
  BY WaitersSortedBy
<1>3. \A u \in Task : Contains(K.waiters[w], u) => K.priority[u] = r.priority[u]
  BY WaiterFacts DEF Steady
<1>4. SortedBy(K.waiters[w], r.priority)
  BY <1>1, <1>2, <1>3, SortedSame
<1>5. QED  BY <1>1, <1>4 DEF Steady

LEMMA SteadyTransitive ==
  ASSUME NEW K, NEW x, NEW r, Steady(K, x), Steady(x, r)
  PROVE  Steady(K, r)
<1>1. \A t \in Task : K.state[t] # "ABSENT" =>
        r.state[t] # "ABSENT" /\ r.priority[t] = K.priority[t]
  BY DEF Steady
<1>2. \A t \in Task : r.wait_list[t] # None => r.wait_list[t] = K.wait_list[t]
  BY DEF Steady
<1>3. \A w \in WaitList, f \in [Task -> Priority] :
        SortedBy(K.waiters[w], f) => SortedBy(r.waiters[w], f)
  BY DEF Steady
<1>4. QED  BY <1>1, <1>2, <1>3 DEF Steady

LEMMA SameSteady ==
  ASSUME NEW K, NEW r, r.priority = K.priority, r.wait_list = K.wait_list, r.waiters = K.waiters,
         \A t \in Task : K.state[t] # "ABSENT" => r.state[t] # "ABSENT"
  PROVE  Steady(K, r)
BY DEF Steady

\* A task is made ready: by its creation, an event or its timeout.
LEMMA ReadySteady ==
  ASSUME NEW K \in Kernel, NEW r, NEW t \in Task, NEW p \in Priority, MadeReady(K, r, t, p),
         p = K.priority[t] \/ K.state[t] = "ABSENT"
  PROVE  Steady(K, r)
<1>1. /\ K.state \in [Task -> TaskState] /\ K.priority \in [Task -> Priority]
      /\ K.wait_list \in [Task -> WaitList \cup {None}] /\ K.waiters \in [WaitList -> Seq(Task)]
  BY FieldTypes
<1>2. /\ r.state = [K.state EXCEPT ![t] = "READY"] /\ r.priority = [K.priority EXCEPT ![t] = p]
      /\ r.wait_list = [K.wait_list EXCEPT ![t] = None]
      /\ r.waiters = [w \in WaitList |-> RemoveFirst(K.waiters[w], t)]
  BY DEF MadeReady
<1>3. \A u \in Task : K.state[u] # "ABSENT" =>
        r.state[u] # "ABSENT" /\ r.priority[u] = K.priority[u]
  BY <1>1, <1>2
<1>4. \A u \in Task : r.wait_list[u] # None => r.wait_list[u] = K.wait_list[u]
  BY <1>1, <1>2
<1>5. ASSUME NEW w \in WaitList, NEW f \in [Task -> Priority], SortedBy(K.waiters[w], f)
      PROVE  SortedBy(r.waiters[w], f)
  <2>1. K.waiters[w] \in Seq(Task) /\ r.waiters[w] = RemoveFirst(K.waiters[w], t)
    BY <1>1, <1>2
  <2>2. SortedBy(RemoveFirst(K.waiters[w], t), f)
    BY <1>5, <2>1, RemoveSorted
  <2>3. QED  BY <2>1, <2>2
<1>6. QED  BY <1>3, <1>4, <1>5 DEF Steady

LEMMA RotateSteady ==
  ASSUME NEW K \in Kernel, NEW t \in Task, Linked(K), NEW r, r = rotate(K, t)
  PROVE  Steady(K, r)
<1>1. OnlyMoved(K, r)
  BY RotateLinked
<1>2. r.priority = K.priority
  BY DEF rotate, Unlinked, Kernel
<1>3. r.state = K.state /\ r.wait_list = K.wait_list /\ r.waiters = K.waiters
  BY <1>1 DEF OnlyMoved
<1>4. QED  BY <1>2, <1>3, SameSteady

LEMMA SwitchSteady ==
  ASSUME NEW K \in Kernel, NEW prev, NEW next \in Task, NEW r, r = perform_switch(K, prev, next)
  PROVE  Steady(K, r)
<1>1. r.priority = K.priority /\ r.wait_list = K.wait_list /\ r.waiters = K.waiters
  BY DEF perform_switch, Kernel
<1>2. \A t \in Task : r.state[t] = IF t = next THEN "RUNNING"
                                   ELSE IF t = prev /\ K.state[t] = "RUNNING" THEN "READY"
                                   ELSE K.state[t]
  BY DEF perform_switch, Kernel
<1>3. QED  BY <1>1, <1>2, SameSteady

LEMMA TickSteady ==
  ASSUME NEW K \in Kernel, NEW t \in Task, Linked(K), Contains(K.delay, t),
         NEW r, r = delayed_task_tick(K, t)
  PROVE  Steady(K, r)
<1>1. CASE K.delay_ticks[t] > 1
  <2>1. r = [K EXCEPT !.delay_ticks[t] = @ - 1]
    BY <1>1 DEF delayed_task_tick
  <2>2. /\ r.priority = K.priority /\ r.wait_list = K.wait_list /\ r.waiters = K.waiters
        /\ r.state = K.state
    BY <2>1 DEF Kernel
  <2>3. QED  BY <2>2, SameSteady
<1>2. CASE ~(K.delay_ticks[t] > 1)
  <2>1. MadeReady(K, r, t, K.priority[t]) /\ K.priority[t] \in Priority
    BY <1>2, ExpireLinked, FieldTypes
  <2>2. QED  BY <2>1, ReadySteady
<1>3. QED  BY <1>1, <1>2

\* An event wakes the head of a wait list.
LEMMA WakeSteady ==
  ASSUME NEW K \in Kernel, NEW w \in WaitList, Linked(K), NEW r, r = unblock_highest(K, w)
  PROVE  /\ Steady(K, r)
         /\ K.waiters[w] # <<>> => Len(r.waiters[w]) = Len(K.waiters[w]) - 1
<1>1. CASE K.waiters[w] = <<>>
  <2>1. r = K
    BY <1>1 DEF unblock_highest
  <2>2. QED  BY <1>1, <2>1, SameSteady
<1>2. CASE K.waiters[w] # <<>>
  <2> DEFINE u == Head(K.waiters[w])
  <2>1. u \in Task /\ MadeReady(K, r, u, K.priority[u])
    BY <1>2, UnblockLinked
  <2>2. K.waiters[w] \in Seq(Task) /\ IsInjective(K.waiters[w])
    BY FieldTypes, LinkedFacts DEF ListsInjective
  <2>3. r.waiters[w] = Tail(K.waiters[w])
    <3>1. r.waiters[w] = RemoveFirst(K.waiters[w], u)
      BY <2>1 DEF MadeReady
    <3>2. QED  BY <1>2, <2>2, <3>1, RemoveHead
  <2>4. Len(r.waiters[w]) = Len(K.waiters[w]) - 1
    BY <1>2, <2>2, <2>3
  <2> HIDE DEF u
  <2>5. K.priority[u] \in Priority
    BY <2>1, FieldTypes
  <2>6. QED  BY <2>1, <2>4, <2>5, ReadySteady
<1>3. QED  BY <1>1, <1>2

\* The loop of the delete service empties the wait list.
LEMMA WakeAllSteady ==
  ASSUME NEW K \in Kernel, NEW w \in WaitList, Linked(K), NEW r, r = unblock_all(K, w)
  PROVE  Steady(K, r) /\ r.waiters[w] = <<>>
<1> DEFINE n == Len(K.waiters[w])
           After(x, i) == /\ x \in Kernel /\ Linked(x) /\ Steady(K, x)
                          /\ Len(x.waiters[w]) = n - i
<1>1. n \in Nat
  BY FieldTypes
<1>2. PICK f : Rounds(f, K, w, n) /\ r = f[n]
  BY <1>1, UnblockAllRounds
<1>3. f[0] = K /\ \A i \in 1 .. n : f[i] = unblock_highest(f[i - 1], w)
  <2> HIDE DEF n
  <2>1. 0 \in 0 .. n /\ \A i \in 1 .. n : i \in 0 .. n /\ i # 0
    BY <1>1
  <2>2. QED  BY <1>2, <2>1 DEF Rounds
<1>4. After(f[0], 0)
  <2>1. Steady(K, K)
    BY SameSteady
  <2>2. QED  BY <1>1, <1>3, <2>1
<1>5. ASSUME NEW i \in 1 .. n, NEW x, After(x, i - 1) PROVE After(unblock_highest(x, w), i)
  <2> DEFINE y == unblock_highest(x, w)
  <2>1. x \in Kernel /\ Linked(x) /\ Steady(K, x) /\ Len(x.waiters[w]) = n - (i - 1)
    BY <1>5
  <2> HIDE DEF n
  <2>2. x.waiters[w] # <<>>
    BY <1>1, <2>1
  <2>3. Steady(x, y) /\ Len(y.waiters[w]) = Len(x.waiters[w]) - 1
    BY <2>1, <2>2, WakeSteady
  <2>4. y \in Kernel /\ Linked(y)
    BY <2>1, <2>2, WakeLinked
  <2> HIDE DEF y
  <2>5. Steady(K, y)
    BY <2>1, <2>3, SteadyTransitive
  <2>6. Len(y.waiters[w]) = n - i
    BY <1>1, <2>1, <2>3
  <2>7. After(y, i)
    BY <2>4, <2>5, <2>6
  <2>8. QED  BY <2>7 DEF y
<1> HIDE DEF After
<1> DEFINE B == {i \in 0 .. n : ~After(f[i], i)}
<1>6. B = {}
  <2> SUFFICES ASSUME B # {} PROVE FALSE
    OBVIOUS
  <2> DEFINE m == Min(B)
  <2>1. B \in SUBSET Nat
    BY <1>1
  <2>2. m \in B /\ \A x \in B : m <= x
    <3> HIDE DEF B
    <3>1. QED  BY <2>1, MinExists
  <2>3. m \in 0 .. n /\ ~After(f[m], m) /\ m # 0
    BY <1>4, <2>2
  <2>4. m - 1 \in 0 .. n /\ m \in 1 .. n
    BY <1>1, <2>3
  <2>5. After(f[m - 1], m - 1)
    BY <1>1, <2>2, <2>4
  <2> HIDE DEF m, B, n
  <2>6. QED  BY <1>3, <1>5, <2>3, <2>4, <2>5
<1>7. After(f[n], n)
  BY <1>1, <1>6
<1>8. r \in Kernel /\ Steady(K, r) /\ Len(r.waiters[w]) = 0
  BY <1>1, <1>2, <1>7 DEF After
<1>9. r.waiters[w] \in Seq(Task)
  BY <1>8, FieldTypes
<1>10. QED  BY <1>8, <1>9

\* change_priority sets one priority.
LEMMA ChangePrioritySets ==
  ASSUME NEW K \in Kernel, NEW u \in Task, NEW p \in Priority, NEW r, r = change_priority(K, u, p)
  PROVE  /\ r \in Kernel /\ r.state = K.state /\ r.wait_list = K.wait_list
         /\ r.waiters = K.waiters
         /\ \A t \in Task : r.priority[t] = IF t = u THEN p ELSE K.priority[t]
<1>1. OnlyMoved(K, r)
  BY ChangePriorityFields
<1>2. K.priority \in [Task -> Priority]
  BY FieldTypes
<1>3. r.priority = [K.priority EXCEPT ![u] = p]
  <2>1. CASE K.priority[u] = p
    BY <1>2, <2>1 DEF change_priority
  <2>2. CASE K.priority[u] # p /\ K.state[u] = "READY"
    <3> DEFINE o == remove_ready(K, u)
               d == [o EXCEPT !.priority[u] = p]
    <3>1. o \in Kernel /\ o.priority = K.priority
      <4>1. o \in Kernel
        BY RemoveReadyType
      <4>2. o.priority = K.priority
        BY DEF remove_ready, Unlinked, Kernel
      <4>3. QED  BY <4>1, <4>2
    <3>2. r = add_ready(d, u)
      BY <2>2 DEF change_priority
    <3> HIDE DEF o
    <3>3. d \in Kernel /\ d.priority = [K.priority EXCEPT ![u] = p]
      BY <3>1 DEF Kernel
    <3> HIDE DEF d
    <3>4. r.priority = d.priority
      BY <3>2, <3>3 DEF add_ready, Kernel
    <3>5. QED  BY <3>3, <3>4
  <2>3. CASE K.priority[u] # p /\ K.state[u] # "READY"
    BY <2>3 DEF change_priority, Kernel
  <2>4. QED  BY <2>1, <2>2, <2>3
<1>4. QED  BY <1>1, <1>2, <1>3 DEF OnlyMoved

\* The priority of a task that does not wait does not touch the wait lists.
LEMMA ChangePrioritySorted ==
  ASSUME NEW K \in Kernel, NEW u \in Task, NEW p \in Priority, NEW r, r = change_priority(K, u, p),
         Linked(K), K.wait_list[u] = None, WaitersSorted(K)
  PROVE  WaitersSorted(r)
<1> SUFFICES ASSUME NEW w \in WaitList PROVE SortedBy(r.waiters[w], r.priority)
  BY WaitersSortedBy
<1>1. K.waiters[w] \in Seq(Task)
  BY FieldTypes
<1>2. r.waiters = K.waiters /\ \A t \in Task : r.priority[t] = IF t = u THEN p ELSE K.priority[t]
  BY ChangePrioritySets
<1>3. SortedBy(K.waiters[w], K.priority)
  BY WaitersSortedBy
<1>4. ~Contains(K.waiters[w], u)
  BY WaiterFacts
<1>5. SortedBy(K.waiters[w], r.priority)
  BY <1>1, <1>2, <1>3, <1>4, SortedSame
<1>6. QED  BY <1>2, <1>5

-----------------------------------------------------------------------------
(***************************************************************************)
(* The invariant of the inheritance, for one mutex.                        *)
(*                                                                         *)
(* A task is pending from the test of its lock call to the end of its      *)
(* wait.  The owner is never pending, so only a task nobody is compared    *)
(* with changes its priority, and it has at least that of every pending    *)
(* task: lock boosts it, and a hand-over goes to the first waiter of a     *)
(* sorted list.  With two mutexes an owner may wait for the other one, and *)
(* neither holds.                                                          *)
(***************************************************************************)

Pending(t) == Locking(t) /\ (pc[t] = "user" \/ k.wait_list[t] # None)

\* Whoever is pending does not own the mutex, and unless what it saw is out of
\* date, the owner has at least its priority.
Claim(t) ==
    LET m == locking[t].mutex
    IN  Pending(t) =>
        /\ owner[m] # t
        /\ t \notin lapsed =>
            valid[m] /\ owner[m] # None /\ k.priority[owner[m]] >= k.priority[t]

\* Where a task in a lock call is.
LockPlace(t) == Locking(t) => k.state[t] # "ABSENT" /\ (pc[t] = "user" \/ InWait(t))

Inherited ==
    /\ WaitersSorted(k)
    /\ \A w \in WaitList : owner[w] # None => k.state[owner[w]] # "ABSENT"
    /\ \A t \in Task : LockPlace(t) /\ Claim(t)

InheritInv == MutexInv /\ (k.fault = {} => Inherited)

OneMutex == \A v, w \in WaitList : v = w

\* A pending task stays pending in the same call, or the call is no longer pending.
LEMMA SchedulerInherits ==
  ASSUME MutexTypeOK, Sound, Inherited, UNCHANGED mutex_vars, k' \in Kernel, Steady(k, k'),
         \A t \in Task : Locking(t) => pc'[t] = pc[t] \/ (InWait(t) /\ InWait(t)')
  PROVE  Inherited'
<1>1. UNCHANGED <<owner, valid, locking, lapsed>>
  BY DEF mutex_vars, handle_vars
<1>2. WaitersSorted(k')
  <2>1. PICK r : r = k'
    OBVIOUS
  <2>2. k \in Kernel /\ Linked(k) /\ r \in Kernel /\ Steady(k, r) /\ WaitersSorted(k)
    BY <2>1, SoundFacts DEF Inherited
  <2>3. WaitersSorted(r)
    BY <2>2, SteadySorted
  <2>4. QED  BY <2>1, <2>3
<1>3. \A t \in Task : k.state[t] # "ABSENT" =>
        k'.state[t] # "ABSENT" /\ k'.priority[t] = k.priority[t]
  BY DEF Steady
<1>4. \A w \in WaitList : owner[w] \in Task \cup {None}
  BY DEF MutexTypeOK
<1>5. \A w \in WaitList : owner'[w] # None => k'.state[owner'[w]] # "ABSENT"
  BY <1>1, <1>3, <1>4 DEF Inherited
<1>6. ASSUME NEW t \in Task PROVE LockPlace(t)' /\ Claim(t)'
  <2>1. Locking(t)' <=> Locking(t)
    BY <1>1 DEF Locking
  <2>2. LockPlace(t)'
    BY <1>3, <2>1 DEF Inherited, LockPlace, InWait
  <2>3. ASSUME Pending(t)' PROVE Pending(t)
    <3>1. Locking(t)
      BY <2>1, <2>3 DEF Pending
    <3>2. pc'[t] = "user" => pc[t] = "user"
      BY <3>1 DEF InWait
    <3>3. k'.wait_list[t] # None => k.wait_list[t] # None
      BY DEF Steady
    <3>4. QED  BY <2>3, <3>1, <3>2, <3>3 DEF Pending
  <2>4. Claim(t)'
    <3> SUFFICES ASSUME Pending(t)'
                 PROVE  LET m == locking'[t].mutex
                        IN  /\ owner'[m] # t
                            /\ t \notin lapsed' => /\ valid'[m] /\ owner'[m] # None
                                                   /\ k'.priority[owner'[m]] >= k'.priority[t]
      BY DEF Claim
    <3> DEFINE m == locking[t].mutex
    <3>1. Pending(t) /\ Claim(t) /\ Locking(t) /\ k.state[t] # "ABSENT"
      BY <2>3 DEF Inherited, Pending, LockPlace
    <3>2. m \in WaitList
      BY <3>1, LockingType
    <3>3. /\ owner[m] # t
          /\ t \notin lapsed =>
               valid[m] /\ owner[m] # None /\ k.priority[owner[m]] >= k.priority[t]
      BY <3>1 DEF Claim
    <3> HIDE DEF m
    <3>4. owner[m] # None => k'.priority[owner[m]] = k.priority[owner[m]]
      BY <1>3, <1>4, <3>2 DEF Inherited
    <3>5. k'.priority[t] = k.priority[t]
      BY <1>3, <3>1
    <3>6. QED  BY <1>1, <3>3, <3>4, <3>5 DEF m
  <2>5. QED  BY <2>2, <2>4
<1>7. QED  BY <1>2, <1>5, <1>6 DEF Inherited

LEMMA SliceSteady ==
  ASSUME Sound, k' = process_time_slicing
  PROVE  Steady(k, k')
<1>1. k \in Kernel /\ Linked(k) /\ current \in Task \cup {None}
  BY SoundFacts DEF Sound, TypeOK
<1>2. PICK r : r = k'
  OBVIOUS
<1>3. CASE TimeSlicing /\ current # None
  <2>1. r = rotate(k, current) /\ current \in Task
    BY <1>1, <1>2, <1>3 DEF process_time_slicing
  <2>2. Steady(k, r)
    BY <1>1, <2>1, RotateSteady
  <2>3. QED  BY <1>2, <2>2
<1>4. CASE ~(TimeSlicing /\ current # None)
  <2>1. r = k
    BY <1>2, <1>4 DEF process_time_slicing
  <2>2. Steady(k, r)
    BY <2>1, SameSteady
  <2>3. QED  BY <1>2, <2>2
<1>5. QED  BY <1>3, <1>4

LEMMA SameKernelSteady ==
  ASSUME k' = k
  PROVE  Steady(k, k')
<1>1. Steady(k, k)
  BY SameSteady
<1>2. QED  BY <1>1

LEMMA CreateSteady ==
  ASSUME Sound, NEW u \in Task, k.state[u] = "ABSENT", k' = create_static(k, u, Prio[u])
  PROVE  Steady(k, k')
<1>1. k \in Kernel /\ Linked(k) /\ Prio[u] \in Priority
  BY SoundFacts, ConstantTypes
<1>2. PICK r : r = k'
  OBVIOUS
<1>3. MadeReady(k, r, u, Prio[u])
  BY <1>1, <1>2, CreateLinked
<1>4. Steady(k, r)
  BY <1>1, <1>3, ReadySteady
<1>5. QED  BY <1>2, <1>4

LEMMA SystemStepSteady ==
  ASSUME Sound, SystemStep
  PROVE  Steady(k, k') /\ pc' = pc
<1>1. pc' = pc
  BY DEF SystemStep, CreateFromMain, Start, PendSV, TickEnter, TickScan, TickSlice, TickSwitch
<1>2. ASSUME NEW u \in Task, CreateFromMain(u) PROVE Steady(k, k')
  BY <1>2, CreateSteady DEF CreateFromMain
<1>3. ASSUME k' = perform_switch(k, current, select_next_task(k)) PROVE Steady(k, k')
  <2>1. PICK r : r = k'
    OBVIOUS
  <2>2. Steady(k, r)
    BY <1>3, <2>1, SoundFacts, SwitchSteady
  <2>3. QED  BY <2>1, <2>2
<1>4. CASE Start
  BY <1>3, <1>4 DEF Start
<1>5. CASE PendSV
  <2>1. select_next_task(k) # None
    BY SoundFacts
  <2>2. k' = perform_switch(k, current, select_next_task(k))
    BY <1>5, <2>1 DEF PendSV
  <2>3. QED  BY <1>1, <1>3, <2>2
<1>6. CASE TickEnter \/ TickSwitch
  BY <1>6, SameKernelSteady DEF TickEnter, TickSwitch
<1>7. CASE TickScan
  <2> DEFINE t == Head(scan)
  <2>1. /\ isr = "scan" /\ scan # <<>> /\ k' = delayed_task_tick(k, t) /\ scan \in Seq(Task)
        /\ \A u \in Task : Contains(scan, u) => Contains(k.delay, u)
    BY <1>7 DEF TickScan, Sound, TypeOK, Tracked, OrderInv, ScanInv
  <2>2. t \in Task /\ Contains(k.delay, t)
    BY <2>1, HeadElement
  <2>3. PICK r : r = k'
    OBVIOUS
  <2> HIDE DEF t
  <2>4. Steady(k, r)
    BY <2>1, <2>2, <2>3, SoundFacts, TickSteady
  <2>5. QED  BY <1>1, <2>3, <2>4
<1>8. CASE TickSlice
  BY <1>8, SliceSteady DEF TickSlice
<1>9. QED  BY <1>1, <1>2, <1>4, <1>5, <1>6, <1>7, <1>8 DEF SystemStep

LEMMA KernelStepSteady ==
  ASSUME Sound, Inherited, NEW t \in Task, KernelStep(t)
  PROVE  /\ Steady(k, k')
         /\ \A u \in Task : Locking(u) => pc'[u] = pc[u] \/ (InWait(u) /\ InWait(u)')
<1>1. k' = k /\ pc[t] \in {"switch", "wait_switch", "reschedule"}
  BY DEF KernelStep, SwitchContext, Reschedule
<1>2. pc \in [Task -> TaskPc]
  BY SoundFacts
<1>3. \A u \in Task : u # t => pc'[u] = pc[u]
  BY <1>2 DEF KernelStep, SwitchContext, Reschedule, Goto
<1>4. ASSUME Locking(t) PROVE InWait(t) /\ InWait(t)'
  <2>1. pc[t] = "wait_switch"
    BY <1>1, <1>4 DEF Inherited, LockPlace, InWait
  <2>2. pc'[t] = "wait_return"
    BY <1>2, <2>1 DEF KernelStep, SwitchContext, Reschedule, Goto
  <2>3. QED  BY <2>1, <2>2 DEF InWait
<1>5. QED  BY <1>1, <1>3, <1>4, SameKernelSteady

LEMMA CallStepSteady ==
  ASSUME Sound, NEW t \in Task, CallStep(t), k'.fault = {}
  PROVE  Steady(k, k') /\ \A u \in Task : u # t => pc'[u] = pc[u]
<1>1. \/ \E u \in Task : Create(t, u)
      \/ Yield(t)
      \/ \E n \in 1 .. MaxDelay : Delay(t, n)
      \/ Lock(t)
      \/ Unlock(t)
  BY DEF CallStep
<1>2. Executing(t) /\ pc[t] = "user"
  BY <1>1 DEF Create, Yield, Delay, Lock, Unlock, InUser, AtUser
<1>3. k \in Kernel /\ Linked(k) /\ pc \in [Task -> TaskPc]
  BY SoundFacts
<1>4. k.state[t] \in Runnable
  BY <1>2, SoundExecuting
<1>5. \A u \in Task : u # t => pc'[u] = pc[u]
  BY <1>1, <1>3 DEF Create, Yield, Delay, Lock, Unlock, Goto
<1>6. ASSUME NEW u \in Task, Create(t, u) PROVE Steady(k, k')
  BY <1>6, CreateSteady DEF Create
<1>7. CASE Yield(t)
  BY <1>5, <1>7, SliceSteady DEF Yield
<1>8. ASSUME NEW n \in 1 .. MaxDelay, Delay(t, n) PROVE Steady(k, k')
  <2>1. PICK r : r = k'
    OBVIOUS
  <2>2. r = block_on_delay(k, t, n) /\ r.fault = {}
    BY <1>8, <2>1 DEF Delay
  <2>3. Contains(k.ready[k.priority[t]], t)
    <3>1. ASSUME ~Contains(k.ready[k.priority[t]], t) PROVE FALSE
      BY <1>3, <1>4, <2>2, <3>1, DelayMisplaced
    <3>2. QED  BY <3>1
  <2>4. MadeBlocked(k, r, t, None, n)
    BY <1>3, <2>2, <2>3, BlockOnDelayLinked
  <2>5. k.state \in [Task -> TaskState] /\ k.wait_list \in [Task -> WaitList \cup {None}]
        /\ k.wait_list[t] = None
    BY <1>2, <1>3, FieldTypes, SoundExecuting
  <2>6. r.priority = k.priority /\ r.wait_list = k.wait_list /\ r.waiters = k.waiters
    BY <2>4, <2>5 DEF MadeBlocked
  <2>7. \A u \in Task : k.state[u] # "ABSENT" => r.state[u] # "ABSENT"
    BY <2>4, <2>5 DEF MadeBlocked
  <2>8. Steady(k, r)
    BY <2>6, <2>7, SameSteady
  <2>9. QED  BY <2>1, <2>8
<1>9. CASE Lock(t) \/ Unlock(t)
  BY <1>5, <1>9, SameKernelSteady DEF Lock, Unlock
<1>10. QED  BY <1>1, <1>5, <1>6, <1>7, <1>8, <1>9

-----------------------------------------------------------------------------
(* Steps of the mutexes.                                                   *)

\* The owner waits for nothing.
LEMMA OwnerNotPending ==
  ASSUME MutexInv, Sound, Inherited, OneMutex, NEW w \in WaitList, NEW v \in Task, owner[w] = v
  PROVE  ~Pending(v) /\ k.wait_list[v] = None
<1>1. MutexTypeOK /\ LockOf(v) /\ Claim(v)
  BY DEF MutexInv, Sound, Tracked, Inherited
<1>2. ~Pending(v)
  <2> SUFFICES ASSUME Pending(v) PROVE FALSE
    OBVIOUS
  <2>1. locking[v].mutex \in WaitList
    BY <1>1, LockingType DEF Pending
  <2>2. locking[v].mutex = w
    BY <2>1 DEF OneMutex
  <2>3. QED  BY <1>1, <2>2 DEF Claim
<1>3. k.wait_list[v] # None => Pending(v)
  BY <1>1 DEF LockOf, Pending
<1>4. QED  BY <1>2, <1>3

\* Only the handles and histories of tasks that are not pending change.
LEMMA HandlesInherit ==
  ASSUME MutexInv, Inherited, UNCHANGED <<k, valid, lapsed>>,
         \A t \in Task : /\ Locking(t)' => Locking(t) /\ locking'[t] = locking[t]
                         /\ Locking(t)' => pc'[t] = pc[t],
         \A w \in WaitList : owner'[w] # owner[w] =>
            /\ owner'[w] \in Task /\ k.state[owner'[w]] # "ABSENT" /\ locking'[owner'[w]] = NoLock
            /\ owner[w] = None \/ ~valid[w]
  PROVE  Inherited'
<1>1. \A w \in WaitList : owner'[w] # None => k'.state[owner'[w]] # "ABSENT"
  BY DEF Inherited
<1>2. WaitersSorted(k')
  BY DEF Inherited
<1>3. ASSUME NEW t \in Task PROVE LockPlace(t)' /\ Claim(t)'
  <2>1. LockPlace(t)'
    BY DEF Inherited, LockPlace, InWait
  <2>2. Pending(t)' => Pending(t)
    BY DEF Pending
  <2>3. Claim(t)'
    <3> SUFFICES ASSUME Pending(t)'
                 PROVE  LET m == locking'[t].mutex
                        IN  /\ owner'[m] # t
                            /\ t \notin lapsed' => /\ valid'[m] /\ owner'[m] # None
                                                   /\ k'.priority[owner'[m]] >= k'.priority[t]
      BY DEF Claim
    <3> DEFINE m == locking[t].mutex
    <3>1. Pending(t) /\ Claim(t) /\ Locking(t) /\ Locking(t)' /\ MutexTypeOK
      BY <2>2 DEF Inherited, Pending, MutexInv
    <3>2. m \in WaitList
      BY <3>1, LockingType
    <3>3. /\ owner[m] # t
          /\ t \notin lapsed =>
               valid[m] /\ owner[m] # None /\ k.priority[owner[m]] >= k.priority[t]
      BY <3>1 DEF Claim
    <3>4. locking'[t].mutex = m
      BY <3>1
    <3> HIDE DEF m
    <3>5. CASE owner'[m] = owner[m]
      BY <3>3, <3>4, <3>5
    <3>6. CASE owner'[m] # owner[m]
      <4>1. locking'[owner'[m]] = NoLock /\ (owner[m] = None \/ ~valid[m])
        BY <3>2, <3>6
      <4>2. owner'[m] # t
        BY <3>1, <4>1 DEF Locking
      <4>3. t \in lapsed
        BY <3>3, <4>1
      <4>4. QED  BY <3>4, <4>2, <4>3
    <3>7. QED  BY <3>5, <3>6
  <2>4. QED  BY <2>1, <2>3
<1>4. QED  BY <1>1, <1>2, <1>3 DEF Inherited

LEMMA LockFreeInherits ==
  ASSUME MutexInv, Inherited, NEW t \in Task, NEW w \in WaitList, LockFree(t, w)
  PROVE  Inherited'
<1>1. /\ owner[w] = None /\ owner' = [owner EXCEPT ![w] = t] /\ AtMutex(t, w, "lock")
      /\ UNCHANGED <<k, pc, valid, locking, lapsed>>
  BY DEF LockFree, vars
<1>2. ~Locking(t) /\ k.state[t] \in Runnable /\ owner \in [WaitList -> Task \cup {None}]
  BY <1>1, AtMutexFacts DEF MutexInv, MutexTypeOK
<1>3. \A x \in WaitList : owner'[x] = IF x = w THEN t ELSE owner[x]
  BY <1>1, <1>2
<1>4. ~Locking(t)' /\ k.state[t] # "ABSENT"
  BY <1>1, <1>2 DEF Locking, Runnable
<1>5. \A x \in WaitList : owner'[x] # owner[x] =>
        /\ owner'[x] \in Task /\ k.state[owner'[x]] # "ABSENT" /\ locking'[owner'[x]] = NoLock
        /\ owner[x] = None \/ ~valid[x]
  <2> SUFFICES ASSUME NEW x \in WaitList, owner'[x] # owner[x]
               PROVE  /\ owner'[x] \in Task /\ k.state[owner'[x]] # "ABSENT"
                      /\ locking'[owner'[x]] = NoLock
                      /\ owner[x] = None \/ ~valid[x]
    OBVIOUS
  <2>1. x = w /\ owner'[x] = t
    BY <1>3
  <2>2. locking'[owner'[x]] = locking'[t]
    BY <2>1
  <2>3. QED  BY <1>1, <1>4, <2>1, <2>2 DEF Locking
<1>6. \A u \in Task : Locking(u)' => Locking(u) /\ locking'[u] = locking[u] /\ pc'[u] = pc[u]
  BY <1>1 DEF Locking
<1>7. QED  BY <1>1, <1>5, <1>6, HandlesInherit

LEMMA RecursionInherits ==
  ASSUME MutexInv, Inherited, NEW t \in Task, NEW w \in WaitList,
         LockAgain(t, w) \/ UnlockInner(t, w)
  PROVE  Inherited'
<1>1. UNCHANGED <<k, pc, owner, valid, locking, lapsed>>
  BY DEF LockAgain, UnlockInner, vars
<1>2. \A u \in Task : Locking(u)' => Locking(u) /\ locking'[u] = locking[u] /\ pc'[u] = pc[u]
  BY <1>1 DEF Locking
<1>3. QED  BY <1>1, <1>2, HandlesInherit

\* The task that is told OK owned the mutex already, unless it was deleted.
LEMMA LockReturnInherits ==
  ASSUME MutexInv, Inherited, NEW t \in Task, LockReturn(t)
  PROVE  Inherited'
<1> DEFINE m == locking[t].mutex
           ok == wait_list_status(t) = "OK"
<1>1. /\ Executing(t) /\ pc[t] = "wait_return" /\ pc' = [pc EXCEPT ![t] = "user"]
      /\ UNCHANGED <<k, valid, lapsed>> /\ locking' = [locking EXCEPT ![t] = NoLock]
      /\ IF ok THEN owner' = [owner EXCEPT ![m] = t] ELSE owner' = owner
  BY DEF LockReturn, WaitReturn, Goto
<1>2. MutexTypeOK /\ Sound
  BY <1>1 DEF MutexInv, Sound, MutexTypeOK, Executing
<1>3. k.state[t] \in Runnable /\ k.delay_ticks[t] = 0 /\ k.wait_list[t] = None
  BY <1>1, <1>2, SoundExecuting
<1>4. Locking(t) /\ (ok /\ valid[m] => owner[m] = t)
  <2>1. InWait(t) /\ LockOf(t)
    BY <1>1, <1>2 DEF InWait, Sound, Tracked
  <2>2. ok => timeout[t] = Forever
    BY <1>3 DEF wait_list_status
  <2>3. QED  BY <1>3, <2>1, <2>2 DEF LockOf
<1>5. m \in WaitList
  BY <1>2, <1>4, LockingType
<1>6. /\ owner \in [WaitList -> Task \cup {None}] /\ pc \in [Task -> TaskPc]
      /\ locking \in [Task -> {NoLock} \cup [mutex : WaitList, timeout : 1 .. Forever]]
  BY <1>2, SoundFacts DEF MutexTypeOK
<1> HIDE DEF m, ok
<1>7. \A x \in WaitList : owner'[x] = IF ok /\ x = m THEN t ELSE owner[x]
  BY <1>1, <1>6
<1>8. \A u \in Task : /\ locking'[u] = IF u = t THEN NoLock ELSE locking[u]
                      /\ pc'[u] = IF u = t THEN "user" ELSE pc[u]
  BY <1>1, <1>6
<1>9. \A u \in Task : Locking(u)' => Locking(u) /\ locking'[u] = locking[u] /\ pc'[u] = pc[u]
  BY <1>8 DEF Locking
<1>10. ASSUME NEW x \in WaitList, owner'[x] # owner[x]
       PROVE  /\ owner'[x] \in Task /\ k.state[owner'[x]] # "ABSENT" /\ locking'[owner'[x]] = NoLock
              /\ owner[x] = None \/ ~valid[x]
  <2>1. ok /\ x = m /\ owner'[x] = t
    BY <1>7, <1>10
  <2>2. locking'[owner'[x]] = NoLock
    BY <1>8, <2>1
  <2>3. ~valid[x]
    BY <1>4, <1>10, <2>1
  <2>4. QED  BY <1>3, <2>1, <2>2, <2>3 DEF Locking, Runnable
<1>11. QED  BY <1>1, <1>9, <1>10, HandlesInherit

\* The caller joins the wait list at its place.
LEMMA LockBlockInherits ==
  ASSUME MutexInv, Inherited, NEW t \in Task, LockBlock(t), k'.fault = {}
  PROVE  Inherited'
<1> DEFINE m == locking[t].mutex
           n == locking[t].timeout
<1>1. /\ Executing(t) /\ pc[t] = "user" /\ Locking(t)
      /\ k' = block_on_wait_list(k, t, m, n) /\ pc' = [pc EXCEPT ![t] = "wait_switch"]
      /\ UNCHANGED <<owner, valid, locking, lapsed>>
  BY DEF LockBlock, WaitListBlock, Goto, Locking, mutex_vars, handle_vars
<1>2. MutexTypeOK /\ Sound
  BY <1>1 DEF MutexInv, Sound, MutexTypeOK, Executing
<1>3. m \in WaitList /\ n \in 1 .. Forever
  BY <1>1, <1>2, LockingType
<1>4. k \in Kernel /\ Linked(k) /\ k.state[t] \in Runnable /\ pc \in [Task -> TaskPc]
  BY <1>1, <1>2, SoundFacts, SoundExecuting
<1> HIDE DEF m, n
<1>5. PICK r : r = k'
  OBVIOUS
<1>6. r = block_on_wait_list(k, t, m, n) /\ r.fault = {}
  BY <1>1, <1>5
<1>7. WaitersSorted(r)
  BY <1>3, <1>4, <1>6, BlockSorted DEF Inherited
<1>8. Contains(k.ready[k.priority[t]], t)
  <2>1. ASSUME ~Contains(k.ready[k.priority[t]], t) PROVE FALSE
    BY <1>3, <1>4, <1>6, <2>1, WaitMisplaced
  <2>2. QED  BY <2>1
<1>9. MadeBlocked(k, r, t, m, IF n = Forever THEN 0 ELSE n)
  BY <1>3, <1>4, <1>6, <1>8, BlockOnWaitListLinked
<1>10. /\ r.priority = k.priority
       /\ \A u \in Task : /\ r.state[u] = IF u = t THEN "BLOCKED" ELSE k.state[u]
                          /\ u # t => r.wait_list[u] = k.wait_list[u]
  BY <1>4, <1>9, FieldTypes DEF MadeBlocked
<1>11. \A u \in Task : pc'[u] = IF u = t THEN "wait_switch" ELSE pc[u]
  BY <1>1, <1>4
<1>12. ASSUME NEW u \in Task PROVE LockPlace(u)' /\ Claim(u)'
  <2>1. LockPlace(u) /\ Claim(u)
    BY DEF Inherited
  <2>2. LockPlace(u)'
    BY <1>1, <1>5, <1>10, <1>11, <2>1 DEF LockPlace, InWait, Locking
  <2>3. Pending(u)' => Pending(u)
    BY <1>1, <1>5, <1>10, <1>11 DEF Pending, Locking
  <2>4. Claim(u)'
    BY <1>1, <1>5, <1>10, <2>1, <2>3 DEF Claim
  <2>5. QED  BY <2>2, <2>4
<1>13. \A w \in WaitList : owner[w] # None => r.state[owner[w]] # "ABSENT"
  <2>1. \A w \in WaitList : owner[w] \in Task \cup {None}
    BY <1>2 DEF MutexTypeOK
  <2>2. QED  BY <1>10, <2>1 DEF Inherited
<1>14. QED  BY <1>1, <1>5, <1>7, <1>12, <1>13 DEF Inherited

\* A caller that finds the mutex taken boosts its owner.
LEMMA LockMissInherits ==
  ASSUME MutexInv, Inherited, OneMutex, NEW t \in Task, NEW w \in WaitList, NEW n \in Timeouts,
         LockMiss(t, w, n)
  PROVE  Inherited'
<1> DEFINE v == owner[w]
           p == Max({k.priority[t], k.priority[v]})
           l == IF n = 0 THEN NoLock ELSE [mutex |-> w, timeout |-> n]
<1>1. /\ AtMutex(t, w, "lock") /\ v \notin {None, t}
      /\ k' = change_priority(k, v, p) /\ locking' = [locking EXCEPT ![t] = l]
      /\ UNCHANGED <<pc, owner, valid>> /\ lapsed' = lapsed \ {t}
  BY DEF LockMiss, apply_priority_inheritance, handle_vars
<1>2. /\ Sound /\ pc[t] = "user" /\ valid[w] /\ k.state[t] \in Runnable /\ MutexTypeOK
  BY <1>1, AtMutexFacts DEF MutexInv
<1>3. k \in Kernel /\ Linked(k) /\ v \in Task
  BY <1>1, <1>2, SoundFacts DEF MutexTypeOK
<1>4. \A u \in Task : k.priority[u] \in Priority /\ k.priority[u] \in Nat
  BY <1>3, FieldTypes, PriorityType
<1>5. p \in Priority /\ p >= k.priority[t] /\ p >= k.priority[v]
  <2>1. k.priority[t] \in Int /\ k.priority[v] \in Int
    BY <1>3, <1>4
  <2>2. p = IF k.priority[t] >= k.priority[v] THEN k.priority[t] ELSE k.priority[v]
    BY <2>1, MaxPair
  <2>3. QED  BY <1>3, <1>4, <2>1, <2>2
<1>6. l # NoLock => l.mutex = w
  OBVIOUS
<1>7. locking \in [Task -> {NoLock} \cup [mutex : WaitList, timeout : 1 .. Forever]]
      /\ \A x \in WaitList : owner[x] \in Task \cup {None}
  BY <1>2 DEF MutexTypeOK
<1>8. \A x \in WaitList : x = w
  BY DEF OneMutex
<1>9. ~Pending(v) /\ k.wait_list[v] = None
  BY <1>2, <1>3, OwnerNotPending
<1>10. owner[w] = v
  OBVIOUS
<1> HIDE DEF v, p, l
<1>11. PICK r : r = k'
  OBVIOUS
<1>12. r = change_priority(k, v, p)
  BY <1>1, <1>11
<1>13. /\ r.state = k.state /\ r.wait_list = k.wait_list
       /\ \A u \in Task : r.priority[u] = IF u = v THEN p ELSE k.priority[u]
  BY <1>3, <1>5, <1>12, ChangePrioritySets
<1>14. WaitersSorted(r)
  BY <1>3, <1>5, <1>9, <1>12, ChangePrioritySorted DEF Inherited
<1>15. \A x \in WaitList : owner'[x] # None => k'.state[owner'[x]] # "ABSENT"
  BY <1>1, <1>11, <1>13 DEF Inherited
<1>16. \A u \in Task : locking'[u] = IF u = t THEN l ELSE locking[u]
  BY <1>1, <1>7
<1>17. ASSUME NEW u \in Task PROVE LockPlace(u)' /\ Claim(u)'
  <2>1. LockPlace(u)'
    BY <1>1, <1>2, <1>11, <1>13, <1>16 DEF Inherited, LockPlace, InWait, Locking, Runnable
  <2>2. CASE u = t
    <3>1. Locking(u)' => locking'[u].mutex = w
      BY <1>6, <1>16, <2>2 DEF Locking
    <3>2. k'.priority[v] >= k'.priority[t]
      BY <1>1, <1>3, <1>5, <1>11, <1>13
    <3>3. Claim(u)'
      BY <1>1, <1>2, <1>10, <2>2, <3>1, <3>2 DEF Claim, Pending
    <3>4. QED  BY <2>1, <3>3
  <2>3. CASE u # t
    <3>1. locking'[u] = locking[u] /\ (u \in lapsed' <=> u \in lapsed)
      BY <1>1, <1>16, <2>3
    <3>2. Pending(u)' <=> Pending(u)
      BY <1>1, <1>11, <1>13, <3>1 DEF Pending, Locking
    <3>3. ASSUME Pending(u)
          PROVE  LET m == locking[u].mutex
                 IN  /\ owner[m] # u
                     /\ u \notin lapsed =>
                          valid[m] /\ owner[m] # None /\ k'.priority[owner[m]] >= k'.priority[u]
      <4>1. Claim(u) /\ Locking(u)
        BY <3>3 DEF Inherited, Pending
      <4>2. locking[u].mutex = w
        BY <1>2, <1>8, <4>1, LockingType
      <4>3. owner[w] # u /\ (u \notin lapsed => valid[w] /\ k.priority[v] >= k.priority[u])
        BY <1>10, <3>3, <4>1, <4>2 DEF Claim
      <4>4. k'.priority[u] = k.priority[u] /\ k'.priority[v] = p
        BY <1>3, <1>10, <1>11, <1>13, <4>3
      <4>5. k.priority[u] \in Nat /\ k.priority[v] \in Nat /\ p \in Nat
        BY <1>3, <1>4, <1>5, PriorityType
      <4>6. k.priority[v] >= k.priority[u] => k'.priority[v] >= k'.priority[u]
        BY <1>5, <4>4, <4>5
      <4>7. QED  BY <1>1, <1>10, <4>2, <4>3, <4>6
    <3>4. Claim(u)'
      BY <1>1, <3>1, <3>2, <3>3 DEF Claim
    <3>5. QED  BY <2>1, <3>4
  <2>4. QED  BY <2>2, <2>3
<1>18. QED  BY <1>11, <1>14, <1>15, <1>17 DEF Inherited

\* Whoever is between its test and its wait has seen an owner that is gone.
LEMMA OutdatedEffect ==
  ASSUME NEW w \in WaitList, Outdated(w)
  PROVE  \A u \in Task : u \notin lapsed' =>
            u \notin lapsed /\ ~(locking[u].mutex = w /\ pc[u] = "user")
BY DEF Outdated

\* The mutex goes to the first waiter, which is one of highest priority.
LEMMA UnlockOuterInherits ==
  ASSUME MutexInv, Inherited, OneMutex, NEW t \in Task, NEW w \in WaitList, UnlockOuter(t, w),
         k'.fault = {}
  PROVE  Inherited'
<1> DEFINE r == change_priority(k, t, original[w])
           u == highest_waiter(r, w)
           s == unblock_highest(r, w)
<1>1. /\ AtMutex(t, w, "unlock") /\ owner[w] = t
      /\ k' = s /\ pc' = [pc EXCEPT ![t] = "reschedule"]
      /\ owner' = [owner EXCEPT ![w] = u] /\ UNCHANGED <<valid, locking>> /\ Outdated(w)
  BY DEF UnlockOuter, restore_owner_priority, Goto
<1>2. /\ Sound /\ pc[t] = "user" /\ valid[w] /\ k.state[t] \in Runnable /\ MutexTypeOK
      /\ ~Locking(t)
  BY <1>1, AtMutexFacts DEF MutexInv
<1>3. /\ k \in Kernel /\ Linked(k) /\ original[w] \in Priority /\ pc \in [Task -> TaskPc]
      /\ owner \in [WaitList -> Task \cup {None}] /\ \A x \in WaitList : x = w
      /\ \A y \in Task : LockOf(y) /\ LockPlace(y) /\ Claim(y)
  BY <1>2, SoundFacts DEF MutexTypeOK, OneMutex, Sound, Tracked, Inherited
<1>4. k.wait_list[t] = None
  BY <1>1, <1>2, OwnerNotPending
<1>5. /\ r \in Kernel /\ r.state = k.state /\ r.wait_list = k.wait_list /\ r.waiters = k.waiters
      /\ \A y \in Task : r.priority[y] = IF y = t THEN original[w] ELSE k.priority[y]
  BY <1>3, ChangePrioritySets
<1>6. WaitersSorted(r)
  BY <1>3, <1>4, ChangePrioritySorted DEF Inherited
<1>7. r.fault = {} => Linked(r)
  BY <1>3, ChangePriorityLinked
<1> HIDE DEF r
<1>8. s \in Kernel /\ r.fault \subseteq s.fault
  BY <1>3, <1>5, UnblockHighestType, FaultsKept
<1>9. Linked(r)
  BY <1>1, <1>7, <1>8
<1>10. Steady(r, s)
  BY <1>5, <1>9, WakeSteady
<1>11. r.waiters[w] = <<>> => u = None /\ s = r
  BY DEF highest_waiter, unblock_highest
<1>12. ASSUME r.waiters[w] # <<>>
       PROVE  /\ u \in Task /\ r.wait_list[u] = w /\ w # None /\ r.state[u] = "BLOCKED"
              /\ u = r.waiters[w][1]
              /\ \A x \in Task : /\ s.state[x] = IF x = u THEN "READY" ELSE r.state[x]
                                 /\ s.wait_list[x] = IF x = u THEN None ELSE r.wait_list[x]
  <2>1. u = r.waiters[w][1]
    BY <1>12 DEF highest_waiter
  <2>2. QED  BY <1>5, <1>9, <1>12, <2>1, WakeLinked
<1> HIDE DEF u, s
<1>13. WaitersSorted(s)
  BY <1>5, <1>6, <1>8, <1>9, <1>10, SteadySorted
<1>14. \A y \in Task : k.state[y] # "ABSENT" /\ y # t =>
         s.state[y] # "ABSENT" /\ s.priority[y] = k.priority[y]
  BY <1>5, <1>10 DEF Steady
<1>15. owner'[w] = u /\ (u # None => u \in Task /\ s.state[u] # "ABSENT")
  BY <1>1, <1>3, <1>11, <1>12
<1>16. \A x \in WaitList : owner'[x] # None => s.state[owner'[x]] # "ABSENT"
  BY <1>3, <1>15
<1>17. ASSUME NEW y \in Task PROVE LockPlace(y)' /\ Claim(y)'
  <2>1. CASE y = t
    BY <1>1, <1>2, <2>1 DEF LockPlace, Claim, Pending, Locking
  <2>2. CASE y # t
    <3>1. pc'[y] = pc[y] /\ (Locking(y)' <=> Locking(y)) /\ locking'[y] = locking[y]
      BY <1>1, <1>3, <2>2 DEF Locking
    <3>2. LockPlace(y)'
      BY <1>1, <1>3, <1>14, <2>2, <3>1 DEF LockPlace, InWait
    <3>3. ASSUME Pending(y)'
          PROVE  /\ locking[y].mutex = w /\ u # y
                 /\ y \notin lapsed' => u # None /\ s.priority[u] >= s.priority[y]
      <4>1. Locking(y) /\ locking[y].mutex = w
        <5>1. Locking(y)
          BY <3>1, <3>3 DEF Pending
        <5>2. QED  BY <1>2, <1>3, <5>1, LockingType
      <4>2. CASE pc[y] = "user"
        <5>1. y \in lapsed'
          BY <1>1, <4>1, <4>2, OutdatedEffect
        <5>2. k.wait_list[y] = None
          BY <1>3, <4>2 DEF LockOf, InWait
        <5>3. u # y
          BY <1>5, <1>11, <1>12, <5>2, KernelAssumption
        <5>4. QED  BY <4>1, <5>1, <5>3
      <4>3. CASE s.wait_list[y] # None
        <5>1. r.wait_list[y] # None /\ r.wait_list[y] \in WaitList \cup {None}
          BY <1>5, <1>10, <4>3, FieldTypes DEF Steady
        <5>2. Contains(r.waiters[w], y) /\ r.state[y] = "BLOCKED"
          <6>1. WaitListsConsistent(r) /\ r.wait_list[y] = w
            BY <1>3, <1>5, <1>9, <5>1, LinkedFacts
          <6>2. QED  BY <5>1, <6>1 DEF WaitListsConsistent
        <5>3. r.waiters[w] \in Seq(Task)
          BY <1>5, FieldTypes
        <5>4. PICK i \in 1 .. Len(r.waiters[w]) : r.waiters[w][i] = y
          BY <5>2, <5>3 DEF Contains
        <5>5. r.waiters[w] # <<>>
          BY <5>3, <5>4
        <5>6. u \in Task /\ u = r.waiters[w][1] /\ u # y /\ r.state[u] = "BLOCKED"
          BY <1>12, <4>3, <5>5
        <5>7. r.priority[u] >= r.priority[y]
          <6>1. SortedBy(r.waiters[w], r.priority)
            BY <1>6, WaitersSortedBy
          <6>2. 1 \in 1 .. Len(r.waiters[w]) /\ 1 < i
            BY <5>3, <5>4, <5>6
          <6>3. QED  BY <5>4, <5>6, <6>1, <6>2 DEF SortedBy
        <5>8. s.priority[u] = r.priority[u] /\ s.priority[y] = r.priority[y]
          BY <1>10, <5>2, <5>6 DEF Steady
        <5>9. QED  BY <4>1, <5>6, <5>7, <5>8, KernelAssumption
      <4>4. QED  BY <1>1, <3>1, <3>3, <4>2, <4>3 DEF Pending
    <3>4. Claim(y)'
      BY <1>1, <1>2, <1>15, <3>1, <3>3 DEF Claim
    <3>5. QED  BY <3>2, <3>4
  <2>3. QED  BY <2>1, <2>2
<1>18. QED  BY <1>1, <1>13, <1>16, <1>17 DEF Inherited

\* A mutex that is deleted has no waiter left, and whoever is about to wait
\* for it has seen a mutex that is gone.
LEMMA DeleteInherits ==
  ASSUME MutexInv, Inherited, OneMutex, NEW t \in Task, NEW w \in WaitList, DeleteMutex(t, w),
         k'.fault = {}
  PROVE  Inherited'
<1> DEFINE v == owner[w]
           r == IF v = None THEN k ELSE change_priority(k, v, original[w])
           s == unblock_all(r, w)
<1>1. /\ AtMutex(t, w, "delete") /\ k' = s /\ pc' = [pc EXCEPT ![t] = "reschedule"]
      /\ UNCHANGED <<owner, locking>> /\ Outdated(w)
  BY DEF DeleteMutex, restore_owner_priority, Goto
<1>2. /\ Sound /\ pc[t] = "user" /\ k.state[t] \in Runnable /\ MutexTypeOK /\ ~Locking(t)
  BY <1>1, AtMutexFacts DEF MutexInv
<1>3. /\ k \in Kernel /\ Linked(k) /\ original[w] \in Priority /\ pc \in [Task -> TaskPc]
      /\ v \in Task \cup {None} /\ \A x \in WaitList : x = w
      /\ \A y \in Task : LockOf(y) /\ LockPlace(y) /\ Claim(y)
      /\ WaitersSorted(k)
  BY <1>2, SoundFacts DEF MutexTypeOK, OneMutex, Sound, Tracked, Inherited
<1>4. /\ r \in Kernel /\ r.state = k.state /\ r.wait_list = k.wait_list
      /\ WaitersSorted(r) /\ (r.fault = {} => Linked(r))
  <2>1. CASE v = None
    BY <1>3, <2>1
  <2>2. CASE v # None
    <3> DEFINE q == change_priority(k, v, original[w])
    <3>1. v \in Task /\ k.wait_list[v] = None
      BY <1>2, <1>3, <2>2, OwnerNotPending
    <3>2. r = q
      BY <2>2
    <3> HIDE DEF v, r
    <3>3. q \in Kernel /\ q.state = k.state /\ q.wait_list = k.wait_list
      BY <1>3, <3>1, ChangePrioritySets
    <3>4. WaitersSorted(q)
      BY <1>3, <3>1, ChangePrioritySorted
    <3>5. q.fault = {} => Linked(q)
      BY <1>3, <3>1, ChangePriorityLinked
    <3> HIDE DEF q
    <3>6. QED  BY <3>2, <3>3, <3>4, <3>5
  <2>3. QED  BY <2>1, <2>2
<1> HIDE DEF r
<1>5. s \in Kernel /\ r.fault \subseteq s.fault /\ (Linked(r) => WokenFrom(r, s, w))
  BY <1>4, UnblockAllLinked
<1>6. Linked(r) /\ Linked(s)
  BY <1>1, <1>4, <1>5 DEF WokenFrom
<1>7. Steady(r, s) /\ s.waiters[w] = <<>>
  BY <1>4, <1>6, WakeAllSteady
<1> HIDE DEF s
<1>8. WaitersSorted(s)
  BY <1>4, <1>5, <1>6, <1>7, SteadySorted
<1>9. \A y \in Task : k.state[y] # "ABSENT" => s.state[y] # "ABSENT"
  BY <1>4, <1>7 DEF Steady
<1>10. \A x \in WaitList : owner'[x] # None => s.state[owner'[x]] # "ABSENT"
  <2>1. \A x \in WaitList : owner[x] \in Task \cup {None}
    BY <1>2 DEF MutexTypeOK
  <2>2. QED  BY <1>1, <1>9, <2>1 DEF Inherited
<1>11. \A y \in Task : s.wait_list[y] = None
  <2> SUFFICES ASSUME NEW y \in Task, s.wait_list[y] # None PROVE FALSE
    OBVIOUS
  <2>1. WaitListsConsistent(s) /\ s.wait_list[y] = w
    BY <1>3, <1>5, <1>6, LinkedFacts, FieldTypes
  <2>2. Contains(s.waiters[w], y)
    BY <2>1 DEF WaitListsConsistent
  <2>3. QED  BY <1>7, <2>2 DEF Contains
<1>12. ASSUME NEW y \in Task PROVE LockPlace(y)' /\ Claim(y)'
  <2>1. CASE y = t
    BY <1>1, <1>2, <2>1 DEF LockPlace, Claim, Pending, Locking
  <2>2. CASE y # t
    <3>1. pc'[y] = pc[y] /\ (Locking(y)' <=> Locking(y)) /\ locking'[y] = locking[y]
      BY <1>1, <1>3, <2>2 DEF Locking
    <3>2. LockPlace(y)'
      BY <1>1, <1>3, <1>9, <3>1 DEF LockPlace, InWait
    <3>3. ASSUME Pending(y)' PROVE y \in lapsed' /\ owner[locking[y].mutex] # y
      <4>1. Locking(y) /\ pc[y] = "user"
        BY <1>1, <1>11, <3>1, <3>3 DEF Pending
      <4>2. locking[y].mutex = w
        BY <1>2, <1>3, <4>1, LockingType
      <4>3. y \in lapsed'
        BY <1>1, <4>1, <4>2, OutdatedEffect
      <4>4. owner[locking[y].mutex] # y
        BY <1>3, <4>1 DEF Claim, Pending
      <4>5. QED  BY <4>3, <4>4
    <3>4. Claim(y)'
      BY <1>1, <3>1, <3>3 DEF Claim
    <3>5. QED  BY <3>2, <3>4
  <2>3. QED  BY <2>1, <2>2
<1>13. QED  BY <1>1, <1>8, <1>10, <1>12 DEF Inherited

-----------------------------------------------------------------------------
LEMMA InheritInit == MutexInit => InheritInv
<1> SUFFICES ASSUME MutexInit PROVE InheritInv
  OBVIOUS
<1>1. MutexInv
  BY MutexInit_Inv
<1>2. k = InitKernel /\ k \in Kernel /\ KernelConsistent(k) /\ k.fault = {}
  BY InitKernelEffect, InitType DEF MutexInit, Init, TypeOK
<1>3. \A t \in Task : ~Locking(t)
  BY DEF MutexInit, Locking
<1>4. WaitersSorted(k)
  <2>1. k = InitKernel
    BY <1>2
  <2>2. \A w \in WaitList : k.waiters[w] = <<>>
    BY <2>1 DEF InitKernel, create_static, add_ready
  <2>3. \A w \in WaitList : SortedBy(k.waiters[w], k.priority)
    BY <2>2 DEF SortedBy
  <2>4. QED  BY <2>3, WaitersSortedBy
<1>5. \A w \in WaitList : owner[w] = None
  BY DEF MutexInit
<1>6. \A t \in Task : LockPlace(t) /\ Claim(t)
  BY <1>3 DEF LockPlace, Claim, Pending
<1>7. QED  BY <1>1, <1>4, <1>5, <1>6 DEF InheritInv, Inherited

LEMMA InheritNext ==
  ASSUME InheritInv, [MutexNext]_<<vars, mutex_vars>>, OneMutex, "block_locked" \notin Calls
  PROVE  InheritInv'
<1>1. MutexInv /\ MutexInv' /\ MutexTypeOK
  BY MutexNext_Inv DEF InheritInv, MutexInv
<1>2. k' \in Kernel
  BY <1>1 DEF MutexInv, MutexTypeOK, TypeOK
<1> SUFFICES ASSUME k'.fault = {} PROVE Inherited'
  BY <1>1 DEF InheritInv
<1>3. ASSUME k.fault = {} PROVE Sound /\ Inherited
  BY <1>1, <1>3 DEF Sound, MutexInv, MutexTypeOK, InheritInv
<1>4. CASE UNCHANGED <<vars, mutex_vars>>
  <2>1. UNCHANGED <<k, pc, owner, valid, locking, lapsed>>
    BY <1>4 DEF vars, mutex_vars, handle_vars
  <2>2. Inherited
    BY <1>3, <2>1
  <2>3. \A u \in Task : Locking(u)' => Locking(u) /\ locking'[u] = locking[u] /\ pc'[u] = pc[u]
    BY <2>1 DEF Locking
  <2>4. QED  BY <1>1, <2>1, <2>2, <2>3, HandlesInherit
<1>5. CASE SystemStep /\ UNCHANGED mutex_vars
  <2>1. k.fault = {}
    BY <1>1, <1>5 DEF SystemStep, CreateFromMain, Start, PendSV, TickEnter, TickScan, TickSlice,
                      TickSwitch, MutexInv
  <2>2. Sound /\ Inherited
    BY <1>3, <2>1
  <2>3. Steady(k, k') /\ pc' = pc
    BY <1>5, <2>2, SystemStepSteady
  <2>4. QED  BY <1>1, <1>2, <1>5, <2>2, <2>3, SchedulerInherits
<1>6. ASSUME NEW t \in Task, KernelStep(t), UNCHANGED mutex_vars PROVE Inherited'
  <2>1. k.fault = {}
    BY <1>6 DEF KernelStep, SwitchContext, Reschedule, Executing
  <2>2. Sound /\ Inherited
    BY <1>3, <2>1
  <2>3. /\ Steady(k, k')
        /\ \A u \in Task : Locking(u) => pc'[u] = pc[u] \/ (InWait(u) /\ InWait(u)')
    BY <1>6, <2>2, KernelStepSteady
  <2>4. QED  BY <1>1, <1>2, <1>6, <2>2, <2>3, SchedulerInherits
<1>7. ASSUME NEW t \in Task, locking[t] = NoLock, CallStep(t), UNCHANGED mutex_vars
      PROVE  Inherited'
  <2>1. k.fault = {}
    BY <1>7 DEF CallStep, Create, Yield, Delay, Lock, Unlock, InUser, AtUser, Executing
  <2>2. Sound /\ Inherited
    BY <1>3, <2>1
  <2>3. Steady(k, k') /\ \A u \in Task : u # t => pc'[u] = pc[u]
    BY <1>7, <2>2, CallStepSteady
  <2>4. \A u \in Task : Locking(u) => pc'[u] = pc[u]
    BY <1>7, <2>3 DEF Locking
  <2>5. QED  BY <1>1, <1>2, <1>7, <2>2, <2>3, <2>4, SchedulerInherits
<1>8. ASSUME NEW t \in Task, NEW w \in WaitList,
             \/ LockFree(t, w)
             \/ LockAgain(t, w)
             \/ \E n \in Timeouts : LockMiss(t, w, n)
             \/ UnlockInner(t, w)
             \/ UnlockOuter(t, w)
             \/ DeleteMutex(t, w)
      PROVE  Inherited'
  <2>1. k.fault = {}
    BY <1>8 DEF LockFree, LockAgain, LockMiss, UnlockInner, UnlockOuter, DeleteMutex, AtMutex,
                AtUser, Executing
  <2>2. Inherited
    BY <1>3, <2>1
  <2>3. QED  BY <1>1, <1>8, <2>2, LockFreeInherits, RecursionInherits, LockMissInherits,
                UnlockOuterInherits, DeleteInherits
<1>9. ASSUME NEW t \in Task, LockBlock(t) \/ LockReturn(t) PROVE Inherited'
  <2>1. k.fault = {}
    BY <1>9 DEF LockBlock, LockReturn, WaitReturn, Executing
  <2>2. Inherited
    BY <1>3, <2>1
  <2>3. QED  BY <1>1, <1>9, <2>2, LockBlockInherits, LockReturnInherits
<1>10. QED  BY <1>4, <1>5, <1>6, <1>7, <1>8, <1>9 DEF MutexNext

\* With one mutex the owner has at least the priority of every task that waits
\* for it since its lock call found the mutex taken, for any number of tasks
\* and priorities, through hand-over, recursion, timeouts and deletion.
THEOREM OwnersBoosted ==
  ASSUME OneMutex, "block_locked" \notin Calls
  PROVE  MutexSpec => []OwnerBoosted
<1>1. InheritInv /\ [MutexNext]_<<vars, mutex_vars>> => InheritInv'
  BY InheritNext
<1>2. InheritInv => OwnerBoosted
  <2> SUFFICES ASSUME InheritInv, k.fault = {}, NEW w \in WaitList, NEW t \in Task \ lapsed,
                      Contains(k.waiters[w], t), owner[w] # None
               PROVE  k.priority[owner[w]] >= k.priority[t]
    BY DEF OwnerBoosted
  <2>1. Sound /\ Inherited /\ LockOf(t) /\ Claim(t)
    BY DEF InheritInv, MutexInv, MutexTypeOK, Sound, Tracked, Inherited
  <2>2. k.wait_list[t] = w /\ w # None
    BY <2>1, SoundFacts, WaiterFacts
  <2>3. Pending(t) /\ locking[t].mutex = w
    BY <2>1, <2>2 DEF LockOf, Pending
  <2>4. QED  BY <2>1, <2>3 DEF Claim
<1>3. QED  BY <1>1, <1>2, InheritInit, PTL DEF MutexSpec
=============================================================================
