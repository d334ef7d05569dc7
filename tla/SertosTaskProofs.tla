-------------------------- MODULE SertosTaskProofs --------------------------
(***************************************************************************)
(* What a task does and what is done to it, for every value of the         *)
(* constants.                                                              *)
(*                                                                         *)
(* Waiting and delays of SertosScheduler in a disciplined application: the *)
(* wait lists stay sorted by priority, every countdown ends at the tick it *)
(* was asked for, and a task that is told OK was woken by an event.  The   *)
(* three rest on SchedInv.  So does what delay_until builds on them: a     *)
(* periodic task is never early.                                           *)
(*                                                                         *)
(* The life cycle of SertosTask in a careful application: the lists of the *)
(* scheduler stay consistent when tasks are suspended, resumed, deleted    *)
(* and given other priorities; the invariant is in the second half.        *)
(***************************************************************************)
EXTENDS SertosPeriodic, SertosTask, SertosSafetyProofs

-----------------------------------------------------------------------------
(* Waiting and delays: the invariant.                                      *)

Waiting == {"wait_switch", "wait_return"}

\* A blocked waiter with a countdown did not ask to wait forever; a waiter
\* that is no longer blocked was woken by an event or, unless it asked to
\* wait forever, by its timeout.
WaitHistory ==
    \A t \in Task : pc[t] \in Waiting =>
        IF k.state[t] = "BLOCKED"
        THEN k.delay_ticks[t] > 0 => timeout[t] # Forever
        ELSE /\ woken[t] \in {"event", "timeout"}
             /\ woken[t] = "timeout" => timeout[t] # Forever

WaitInv == WaitersSorted(k) /\ DeadlineKept /\ WaitHistory

\* The tick at which the countdown of t ends.
DueAt(t) == (ticks + k.delay_ticks[t] - (IF Contains(scan, t) THEN 1 ELSE 0)) % TickMod

LEMMA DeadlineDue ==
  ASSUME SchedInv
  PROVE  DeadlineKept <=> \A t \in Task : k.delay_ticks[t] > 0 => deadline[t] = DueAt(t)
BY DEF SchedInv, DeadlineKept, DueAt

\* A step that touches no wait and no countdown.
LEMMA QuietKeeps ==
  ASSUME SchedInv, SchedInv', WaitInv,
         k'.priority = k.priority, k'.waiters = k.waiters, k'.delay_ticks = k.delay_ticks,
         \A t \in Task : k'.state[t] = "BLOCKED" <=> k.state[t] = "BLOCKED",
         UNCHANGED <<ticks, scan, wait_vars>>,
         \A t \in Task : pc'[t] \in Waiting => pc[t] \in Waiting
  PROVE  WaitInv'
<1>1. WaitersSorted(k')
  BY WaitersSortedBy DEF WaitInv
<1>2. DeadlineKept'
  BY DEF WaitInv, DeadlineKept, SchedInv, wait_vars
<1>3. WaitHistory'
  BY DEF WaitInv, WaitHistory, wait_vars
<1>4. QED  BY <1>1, <1>2, <1>3 DEF WaitInv

\* A step that makes one task ready.
LEMMA ReadyKeeps ==
  ASSUME SchedInv, SchedInv', WaitInv, NEW u \in Task, NEW p \in Priority,
         MadeReady(k, k', u, p), UNCHANGED <<ticks, timeout>>,
         \A t \in Task \ {u} : /\ woken'[t] = woken[t] /\ deadline'[t] = deadline[t]
                               /\ Contains(scan', t) <=> Contains(scan, t),
         \A t \in Task : pc'[t] \in Waiting => pc[t] \in Waiting,
         pc[u] \in Waiting => /\ woken'[u] \in {"event", "timeout"}
                              /\ woken'[u] = "timeout" => timeout[u] # Forever
  PROVE  WaitInv'
<1>1. k \in Kernel /\ k' \in Kernel /\ KernelConsistent(k)
  BY DEF SchedInv, TypeOK
<1>2. WaitersSorted(k')
  BY <1>1, ReadySorted DEF WaitInv
<1>3. \A t \in Task : /\ k'.state[t] = IF t = u THEN "READY" ELSE k.state[t]
                      /\ k'.delay_ticks[t] = IF t = u THEN 0 ELSE k.delay_ticks[t]
  BY <1>1, FieldTypes DEF MadeReady
<1>4. DeadlineKept'
  <2>1. \A t \in Task : k.delay_ticks[t] > 0 => deadline[t] = DueAt(t)
    BY DeadlineDue DEF WaitInv
  <2>2. \A t \in Task \ {u} : DueAt(t)' = DueAt(t)
    BY <1>3 DEF DueAt
  <2>3. \A t \in Task : k'.delay_ticks[t] > 0 => deadline'[t] = DueAt(t)'
    BY <1>3, <2>1, <2>2
  <2>4. QED  BY <2>3 DEF DeadlineKept, DueAt
<1>5. WaitHistory'
  BY <1>3 DEF WaitInv, WaitHistory
<1>6. QED  BY <1>2, <1>4, <1>5 DEF WaitInv

\* An event wakes the first waiter, from a task or from an interrupt.
LEMMA EventKeeps ==
  ASSUME SchedInv, SchedInv', WaitInv, NEW w \in WaitList, k.waiters[w] # <<>>,
         k' = unblock_highest(k, w), RecordEvent(highest_waiter(k, w)),
         UNCHANGED <<ticks, timeout, scan>>,
         \A t \in Task : pc'[t] \in Waiting => pc[t] \in Waiting
  PROVE  WaitInv'
<1> DEFINE u == highest_waiter(k, w)
<1>1. u \in Task /\ MadeReady(k, k', u, k.priority[u]) /\ k.priority[u] \in Priority
  BY SignalEffect
<1>2. woken' = [woken EXCEPT ![u] = "event"] /\ deadline' = [deadline EXCEPT ![u] = 0]
  BY <1>1, KernelAssumption DEF RecordEvent
<1>3. woken \in [Task -> {"no", "event", "timeout", "deleted"}]
      /\ deadline \in [Task -> 0 .. TickMod - 1]
  BY DEF SchedInv, TypeOK
<1> HIDE DEF u
<1>4. QED  BY <1>1, <1>2, <1>3, ReadyKeeps

\* The elements of the rest of a list.
LEMMA TailContains ==
  ASSUME NEW S, NEW s \in Seq(S), s # <<>>, IsInjective(s), NEW u, u # Head(s)
  PROVE  Contains(Tail(s), u) <=> Contains(s, u)
<1>1. Contains(Tail(s), u) => Contains(s, u)
  BY TailElements
<1>2. ASSUME Contains(s, u) PROVE Contains(Tail(s), u)
  <2>1. PICK i \in 1 .. Len(s) : s[i] = u
    BY <1>2 DEF Contains
  <2>2. i # 1 /\ Len(s) \in Nat /\ Len(Tail(s)) = Len(s) - 1
    BY <2>1
  <2>3. i - 1 \in 1 .. Len(Tail(s)) /\ Tail(s)[i - 1] = s[i]
    BY <2>1, <2>2
  <2>4. QED  BY <2>1, <2>3 DEF Contains
<1>3. QED  BY <1>1, <1>2

\* After sertos_scheduler_init nobody waits and no countdown runs.
LEMMA InitKernelWaits ==
  WaitersSorted(InitKernel) /\ \A t \in Task : ~(InitKernel.delay_ticks[t] > 0)
<1> DEFINE kern == InitKernel
<1>1. kern \in Kernel /\ KernelConsistent(kern) /\ \A t \in Task : kern.state[t] # "BLOCKED"
  BY InitKernelType, InitKernelEffect
<1> HIDE DEF kern
<1>2. \A t \in Task : ~(kern.delay_ticks[t] > 0) /\ kern.wait_list[t] = None
  BY <1>1 DEF KernelConsistent, DelayListConsistent, WaitListsConsistent
<1>3. \A w \in WaitList : kern.waiters[w] = <<>>
  <2> SUFFICES ASSUME NEW w \in WaitList, kern.waiters[w] # <<>> PROVE FALSE
    OBVIOUS
  <2>1. kern.waiters[w] \in Seq(Task)
    BY <1>1, FieldTypes
  <2>2. Head(kern.waiters[w]) \in Task /\ Contains(kern.waiters[w], Head(kern.waiters[w]))
    BY <2>1, HeadElement
  <2>3. QED  BY <1>1, <1>2, <2>2, KernelAssumption DEF KernelConsistent, WaitListsConsistent
<1>4. \A w \in WaitList : SortedBy(kern.waiters[w], kern.priority)
  BY <1>3 DEF SortedBy
<1>5. QED  BY <1>2, <1>4, WaitersSortedBy DEF kern

LEMMA InitWaits == Init => WaitInv
BY InitKernelWaits DEF Init, WaitInv, DeadlineKept, WaitHistory, Waiting

LEMMA StopWaits ==
  ASSUME NEW t \in Task, Stop(t)
  PROVE  WaitInv'
<1>1. k' = InitKernel /\ pc' = [u \in Task |-> "user"]
  BY DEF Stop
<1>2. QED  BY <1>1, InitKernelWaits DEF WaitInv, DeadlineKept, WaitHistory, Waiting

LEMMA TickEnterWaits ==
  ASSUME SchedInv, SchedInv', WaitInv, TickEnter
  PROVE  WaitInv'
<1>1. /\ isr = "none" /\ ticks' = (ticks + 1) % TickMod /\ scan' = k.delay
      /\ UNCHANGED <<k, pc, wait_vars>>
  BY DEF TickEnter
<1>2. scan = <<>>
  BY <1>1 DEF SchedInv, ScanInv
<1>3. k \in Kernel /\ ticks \in 0 .. TickMod - 1 /\ KernelConsistent(k)
  BY DEF SchedInv, TypeOK
<1>4. DeadlineKept'
  <2> SUFFICES ASSUME NEW t \in Task, k.delay_ticks[t] > 0
               PROVE  deadline'[t] = (ticks' + k.delay_ticks[t] - 1) % TickMod
    <3>1. \A t \in Task : k.delay_ticks[t] > 0 => Contains(scan', t)
      BY <1>1, <1>3 DEF KernelConsistent, DelayListConsistent
    <3>2. QED  BY <1>1, <3>1 DEF DeadlineKept
  <2>1. k.delay_ticks[t] \in 1 .. MaxDelay
    BY <1>3, FieldTypes, KernelAssumption
  <2>2. ~Contains(scan, t)
    BY <1>2 DEF Contains
  <2>3. deadline[t] = (ticks + k.delay_ticks[t]) % TickMod
    <3>1. deadline[t] = (ticks + k.delay_ticks[t] - 0) % TickMod
      BY <2>2 DEF WaitInv, DeadlineKept, SchedInv
    <3>2. ticks + k.delay_ticks[t] - 0 = ticks + k.delay_ticks[t]
      BY <1>3, <2>1, SchedulerAssumption, KernelAssumption
    <3>3. QED  BY <3>1, <3>2
  <2>4. TickMod \in Nat \ {0} /\ k.delay_ticks[t] \in 1 .. TickMod - 1
    BY <2>1, SchedulerAssumption, KernelAssumption
  <2>5. QED  BY <1>1, <1>3, <2>1, <2>3, <2>4, TickThenCount DEF wait_vars
<1>5. WaitersSorted(k') /\ WaitHistory'
  BY <1>1 DEF WaitInv, WaitHistory, wait_vars
<1>6. QED  BY <1>4, <1>5 DEF WaitInv

LEMMA TickScanKeepsWaits ==
  ASSUME SchedInv, SchedInv', WaitInv, TickScan
  PROVE  WaitInv'
<1> DEFINE t == Head(scan)
<1>1. /\ isr = "scan" /\ scan # <<>> /\ k' = delayed_task_tick(k, t) /\ scan' = Tail(scan)
      /\ UNCHANGED <<ticks, pc, timeout>>
  BY DEF TickScan
<1>2. /\ k \in Kernel /\ k' \in Kernel /\ scan \in Seq(Task) /\ ticks \in 0 .. TickMod - 1
      /\ KernelConsistent(k) /\ IsInjective(scan)
      /\ \A u \in Task : Contains(scan, u) => Contains(k.delay, u)
      /\ woken \in [Task -> {"no", "event", "timeout", "deleted"}]
      /\ deadline \in [Task -> 0 .. TickMod - 1]
  BY DEF SchedInv, TypeOK, ScanInv
<1>3. t \in Task /\ Contains(scan, t) /\ Contains(k.delay, t)
  BY <1>1, <1>2, HeadElement
<1>4. ~Contains(scan', t)
  BY <1>1, <1>2, TailElements
<1>5. \A u \in Task : u # t => (Contains(scan', u) <=> Contains(scan, u))
  BY <1>1, <1>2, TailContains
<1>6. k.delay_ticks[t] \in 1 .. MaxDelay /\ k.state[t] = "BLOCKED"
  BY <1>2, <1>3, FieldTypes DEF KernelConsistent, DelayListConsistent
<1>7. k.delay_ticks[t] > 1 => UNCHANGED <<woken, deadline>>
  BY DEF TickScan
<1>8. ~(k.delay_ticks[t] > 1) => /\ woken' = [woken EXCEPT ![t] = "timeout"]
                                 /\ deadline' = [deadline EXCEPT ![t] = 0]
  BY DEF TickScan
<1> HIDE DEF t
<1>9. CASE k.delay_ticks[t] > 1
  <2>1. k' = [k EXCEPT !.delay_ticks[t] = @ - 1]
    BY <1>1, <1>2, <1>3, <1>9, CountdownConsistent
  <2>2. /\ k'.state = k.state /\ k'.priority = k.priority /\ k'.waiters = k.waiters
        /\ k'.delay_ticks = [k.delay_ticks EXCEPT ![t] = @ - 1]
    BY <2>1, <1>2 DEF Kernel
  <2>3. \A u \in Task : k'.delay_ticks[u] = IF u = t THEN k.delay_ticks[t] - 1 ELSE k.delay_ticks[u]
    BY <2>2, <1>2, FieldTypes
  <2>4. WaitersSorted(k')
    BY <2>2, WaitersSortedBy DEF WaitInv
  <2>5. \A u \in Task : DueAt(u)' = DueAt(u)
    <3> TAKE u \in Task
    <3>1. CASE u # t
      BY <1>1, <1>5, <2>3, <3>1 DEF DueAt
    <3>2. CASE u = t
      <4>1. ticks + (k.delay_ticks[t] - 1) - 0 = ticks + k.delay_ticks[t] - 1
        BY <1>2, <1>6, SchedulerAssumption, KernelAssumption
      <4>2. QED  BY <1>1, <1>3, <1>4, <2>3, <3>2, <4>1 DEF DueAt
    <3>3. QED  BY <3>1, <3>2
  <2>6. \A u \in Task : k'.delay_ticks[u] > 0 => deadline'[u] = DueAt(u)'
    <3>1. \A u \in Task : k.delay_ticks[u] > 0 => deadline[u] = DueAt(u)
      BY DeadlineDue DEF WaitInv
    <3>2. \A u \in Task : k'.delay_ticks[u] > 0 => k.delay_ticks[u] > 0
      BY <1>6, <2>3
    <3>3. QED  BY <1>7, <1>9, <2>5, <3>1, <3>2
  <2>7. DeadlineKept'
    BY <2>6 DEF DeadlineKept, DueAt
  <2>8. WaitHistory'
    BY <1>1, <1>6, <1>7, <1>9, <2>2, <2>3 DEF WaitInv, WaitHistory
  <2>9. QED  BY <2>4, <2>7, <2>8 DEF WaitInv
<1>10. CASE ~(k.delay_ticks[t] > 1)
  <2>1. MadeReady(k, k', t, k.priority[t]) /\ k.priority[t] \in Priority
    BY <1>1, <1>2, <1>3, <1>10, ExpireEffect, FieldTypes
  <2>2. pc[t] \in Waiting => timeout[t] # Forever
    BY <1>3, <1>6 DEF WaitInv, WaitHistory
  <2>3. QED  BY <1>1, <1>2, <1>3, <1>5, <1>8, <1>10, <2>1, <2>2, ReadyKeeps
<1>11. QED  BY <1>9, <1>10

LEMMA DelayWaits ==
  ASSUME SchedInv, SchedInv', WaitInv, NEW t \in Task, NEW n \in 1 .. MaxDelay, Delay(t, n)
  PROVE  WaitInv'
<1>1. /\ Executing(t) /\ pc[t] = "user" /\ k' = block_on_delay(k, t, n)
      /\ deadline' = [deadline EXCEPT ![t] = (ticks + n) % TickMod]
      /\ pc' = [pc EXCEPT ![t] = "switch"] /\ UNCHANGED <<tick_vars, timeout, woken>>
  BY DEF Delay, InUser, AtUser, Goto
<1>2. scan = <<>> /\ k.state[t] \in Runnable
  BY <1>1, ExecutingFacts
<1>3. /\ k \in Kernel /\ k' \in Kernel /\ KernelConsistent(k) /\ ticks \in 0 .. TickMod - 1
      /\ pc \in [Task -> TaskPc] /\ deadline \in [Task -> 0 .. TickMod - 1]
  BY DEF SchedInv, TypeOK
<1>4. MadeBlocked(k, k', t, None, n)
  BY <1>1, <1>2, <1>3, BlockOnDelayEffect
<1>5. k'.priority = k.priority /\ k'.waiters = k.waiters
  BY <1>4 DEF MadeBlocked
<1>6. \A u \in Task : /\ k'.state[u] = IF u = t THEN "BLOCKED" ELSE k.state[u]
                      /\ k'.delay_ticks[u] = IF u = t THEN n ELSE k.delay_ticks[u]
  BY <1>3, <1>4, FieldTypes DEF MadeBlocked
<1>7. WaitersSorted(k')
  BY <1>5, WaitersSortedBy DEF WaitInv
<1>8. \A u \in Task : k'.delay_ticks[u] > 0 => deadline'[u] = DueAt(u)'
  <2> SUFFICES ASSUME NEW u \in Task, k'.delay_ticks[u] > 0 PROVE deadline'[u] = DueAt(u)'
    OBVIOUS
  <2>1. CASE u = t
    <3>1. ~Contains(scan', t) /\ ticks' = ticks
      BY <1>1, <1>2 DEF tick_vars, Contains
    <3>2. ticks + n - 0 = ticks + n
      BY <1>3, SchedulerAssumption, KernelAssumption
    <3>3. QED  BY <1>1, <1>3, <1>6, <2>1, <3>1, <3>2 DEF DueAt
  <2>2. CASE u # t
    <3>1. deadline[u] = DueAt(u)
      BY <1>6, <2>2, DeadlineDue DEF WaitInv
    <3>2. QED  BY <1>1, <1>3, <1>6, <2>2, <3>1 DEF DueAt, tick_vars
  <2>3. QED  BY <2>1, <2>2
<1>9. DeadlineKept'
  BY <1>8 DEF DeadlineKept, DueAt
<1>10. WaitHistory'
  BY <1>1, <1>3, <1>6 DEF WaitInv, WaitHistory, Waiting
<1>11. QED  BY <1>7, <1>9, <1>10 DEF WaitInv

LEMMA WaitWaits ==
  ASSUME SchedInv, SchedInv', WaitInv,
         NEW t \in Task, NEW w \in WaitList, NEW n \in 1 .. Forever, Wait(t, w, n)
  PROVE  WaitInv'
<1> DEFINE c == IF n = Forever THEN 0 ELSE n
<1>1. /\ Executing(t) /\ pc[t] = "user" /\ k' = block_on_wait_list(k, t, w, n)
      /\ timeout' = [timeout EXCEPT ![t] = n]
      /\ deadline' = [deadline EXCEPT ![t] = IF n = Forever THEN 0 ELSE (ticks + n) % TickMod]
      /\ woken' = [woken EXCEPT ![t] = "no"]
      /\ pc' = [pc EXCEPT ![t] = "wait_switch"] /\ UNCHANGED tick_vars
  BY DEF Wait, WaitListBlock, InUser, AtUser, Goto
<1>2. scan = <<>> /\ k.state[t] \in Runnable
  BY <1>1, ExecutingFacts
<1>3. /\ k \in Kernel /\ k' \in Kernel /\ KernelConsistent(k) /\ ticks \in 0 .. TickMod - 1
      /\ pc \in [Task -> TaskPc] /\ deadline \in [Task -> 0 .. TickMod - 1]
      /\ timeout \in [Task -> 0 .. Forever]
      /\ woken \in [Task -> {"no", "event", "timeout", "deleted"}]
  BY DEF SchedInv, TypeOK
<1>4. MadeBlocked(k, k', t, w, c)
  BY <1>1, <1>2, <1>3, BlockOnWaitListEffect
<1>5. WaitersSorted(k')
  BY <1>1, <1>2, <1>3, BlockSorted DEF WaitInv
<1>6. \A u \in Task : /\ k'.state[u] = IF u = t THEN "BLOCKED" ELSE k.state[u]
                      /\ k'.delay_ticks[u] = IF u = t THEN c ELSE k.delay_ticks[u]
  BY <1>3, <1>4, FieldTypes DEF MadeBlocked
<1>7. n = Forever => c = 0
  OBVIOUS
<1>8. n # Forever => c = n
  OBVIOUS
<1> HIDE DEF c
<1>9. \A u \in Task : k'.delay_ticks[u] > 0 => deadline'[u] = DueAt(u)'
  <2> SUFFICES ASSUME NEW u \in Task, k'.delay_ticks[u] > 0 PROVE deadline'[u] = DueAt(u)'
    OBVIOUS
  <2>1. CASE u = t
    <3>1. ~Contains(scan', t) /\ ticks' = ticks
      BY <1>1, <1>2 DEF tick_vars, Contains
    <3>2. n # Forever /\ k'.delay_ticks[u] = n
      BY <1>6, <1>7, <1>8, <2>1
    <3>3. ticks + n - 0 = ticks + n
      BY <1>3, SchedulerAssumption, PriorityType
    <3>4. QED  BY <1>1, <1>3, <2>1, <3>1, <3>2, <3>3 DEF DueAt
  <2>2. CASE u # t
    <3>1. deadline[u] = DueAt(u)
      BY <1>6, <2>2, DeadlineDue DEF WaitInv
    <3>2. QED  BY <1>1, <1>3, <1>6, <2>2, <3>1 DEF DueAt, tick_vars
  <2>3. QED  BY <2>1, <2>2
<1>10. DeadlineKept'
  BY <1>9 DEF DeadlineKept, DueAt
<1>11. WaitHistory'
  <2>1. k'.delay_ticks[t] > 0 => timeout'[t] # Forever
    BY <1>1, <1>3, <1>6, <1>7
  <2>2. QED  BY <1>1, <1>3, <1>6, <2>1 DEF WaitInv, WaitHistory, Waiting
<1>12. QED  BY <1>5, <1>10, <1>11 DEF WaitInv

\* The caller of wait_list_block leaves it.
LEMMA WaitReturnWaits ==
  ASSUME SchedInv, SchedInv', WaitInv, NEW t \in Task, WaitReturn(t)
  PROVE  WaitInv'
<1>1. /\ pc' = [pc EXCEPT ![t] = "user"] /\ UNCHANGED <<k, tick_vars, deadline>>
      /\ timeout' = [timeout EXCEPT ![t] = 0] /\ woken' = [woken EXCEPT ![t] = "no"]
  BY DEF WaitReturn, Goto
<1>2. /\ pc \in [Task -> TaskPc] /\ timeout \in [Task -> 0 .. Forever]
      /\ woken \in [Task -> {"no", "event", "timeout", "deleted"}]
  BY DEF SchedInv, TypeOK
<1>3. WaitersSorted(k') /\ DeadlineKept'
  BY <1>1 DEF WaitInv, DeadlineKept, tick_vars
<1>4. WaitHistory'
  BY <1>1, <1>2 DEF WaitInv, WaitHistory, Waiting
<1>5. QED  BY <1>3, <1>4 DEF WaitInv

\* A task is created.
LEMMA CreateKeepsWaits ==
  ASSUME SchedInv, SchedInv', WaitInv, NEW u \in Task, k.state[u] = "ABSENT",
         k' = create_static(k, u, Prio[u]), UNCHANGED <<tick_vars, wait_vars>>,
         \A t \in Task : pc'[t] \in Waiting => pc[t] \in Waiting
  PROVE  WaitInv'
<1>1. k \in Kernel /\ KernelConsistent(k) /\ Prio[u] \in Priority
  BY ConstantTypes DEF SchedInv, TypeOK
<1>2. MadeReady(k, k', u, Prio[u])
  BY <1>1, CreateEffect
<1>3. pc[u] \in Waiting => /\ woken'[u] \in {"event", "timeout"}
                           /\ woken'[u] = "timeout" => timeout[u] # Forever
  BY DEF WaitInv, WaitHistory, wait_vars
<1>4. QED  BY <1>1, <1>2, <1>3, ReadyKeeps DEF tick_vars, wait_vars

\* A switch of the CPU.
LEMMA SwitchKeepsWaits ==
  ASSUME SchedInv, SchedInv', WaitInv, k' = perform_switch(k, current, select_next_task(k)),
         UNCHANGED <<tick_vars, pc, wait_vars>>
  PROVE  WaitInv'
<1> DEFINE next == select_next_task(k)
<1>1. k \in Kernel /\ next \in Task /\ k.state[next] \in Runnable /\ KernelConsistent(k)
  BY SelectFacts
<1>2. /\ k'.priority = k.priority /\ k'.waiters = k.waiters /\ k'.delay_ticks = k.delay_ticks
  BY <1>1 DEF perform_switch, Kernel
<1>3. \A t \in Task : k'.state[t] = IF t = next THEN "RUNNING"
                                    ELSE IF t = current /\ k.state[t] = "RUNNING" THEN "READY"
                                    ELSE k.state[t]
  BY <1>1, PerformSwitchEffect
<1> HIDE DEF next
<1>4. \A t \in Task : k'.state[t] = "BLOCKED" <=> k.state[t] = "BLOCKED"
  BY <1>1, <1>3 DEF Runnable
<1>5. QED  BY <1>2, <1>4, QuietKeeps DEF tick_vars

\* The rotation of a ready queue.
LEMMA SliceKeepsWaits ==
  ASSUME SchedInv, SchedInv', WaitInv, k' = process_time_slicing,
         UNCHANGED <<ticks, scan, wait_vars>>,
         \A t \in Task : pc'[t] \in Waiting => pc[t] \in Waiting
  PROVE  WaitInv'
<1>1. k \in Kernel
  BY DEF SchedInv, TypeOK
<1>2. /\ k'.priority = k.priority /\ k'.waiters = k.waiters /\ k'.delay_ticks = k.delay_ticks
      /\ k'.state = k.state
  BY <1>1 DEF process_time_slicing, rotate, Unlinked, Kernel
<1>3. QED  BY <1>2, QuietKeeps

\* WaitInv is inductive, given SchedInv.
LEMMA NextWaits ==
  ASSUME SchedInv, SchedInv', WaitInv, [Next]_vars
  PROVE  WaitInv'
<1> USE DEF Waiting
<1>1. pc \in [Task -> TaskPc]
  BY DEF SchedInv, TypeOK
<1>2. ASSUME NEW u \in Task, CreateFromMain(u) PROVE WaitInv'
  BY <1>2, CreateKeepsWaits DEF CreateFromMain
<1>3. CASE Start
  BY <1>3, SwitchKeepsWaits DEF Start
<1>4. CASE PendSV
  <2>1. select_next_task(k) # None
    BY SelectFacts
  <2>2. QED  BY <1>4, <2>1, SwitchKeepsWaits DEF PendSV
<1>5. CASE TickSlice
  BY <1>5, SliceKeepsWaits DEF TickSlice
<1>6. CASE TickSwitch
  BY <1>6, QuietKeeps DEF TickSwitch
<1>7. ASSUME NEW t \in Task, NEW u \in Task, Create(t, u) PROVE WaitInv'
  <2>1. \A v \in Task : pc'[v] \in Waiting => pc[v] \in Waiting
    BY <1>1, <1>7 DEF Create, Goto
  <2>2. QED  BY <1>7, <2>1, CreateKeepsWaits DEF Create
<1>8. ASSUME NEW t \in Task, SwitchContext(t) PROVE WaitInv'
  <2>1. \A v \in Task : pc'[v] \in Waiting => pc[v] \in Waiting
    BY <1>1, <1>8 DEF SwitchContext, Goto
  <2>2. QED  BY <1>8, <2>1, QuietKeeps DEF SwitchContext, tick_vars
<1>9. ASSUME NEW t \in Task, Reschedule(t) PROVE WaitInv'
  <2>1. \A v \in Task : pc'[v] \in Waiting => pc[v] \in Waiting
    BY <1>1, <1>9 DEF Reschedule, Goto
  <2>2. QED  BY <1>9, <2>1, QuietKeeps DEF Reschedule, tick_vars
<1>10. ASSUME NEW t \in Task, Yield(t) PROVE WaitInv'
  <2>1. \A v \in Task : pc'[v] \in Waiting => pc[v] \in Waiting
    BY <1>1, <1>10 DEF Yield, Goto
  <2>2. QED  BY <1>10, <2>1, SliceKeepsWaits DEF Yield, tick_vars
<1>11. ASSUME NEW t \in Task, Lock(t) PROVE WaitInv'
  BY <1>11, QuietKeeps DEF Lock, tick_vars
<1>12. ASSUME NEW t \in Task, Unlock(t) PROVE WaitInv'
  <2>1. \A v \in Task : pc'[v] \in Waiting => pc[v] \in Waiting
    BY <1>1, <1>12 DEF Unlock, Goto
  <2>2. QED  BY <1>12, <2>1, QuietKeeps DEF Unlock, tick_vars
<1>13. ASSUME NEW w \in WaitList, IsrSignal(w) PROVE WaitInv'
  <2>1. k.waiters[w] # <<>>
    BY <1>13 DEF IsrSignal, highest_waiter
  <2>2. QED  BY <1>13, <2>1, EventKeeps DEF IsrSignal, tick_vars
<1>14. ASSUME NEW t \in Task, NEW w \in WaitList, Signal(t, w) PROVE WaitInv'
  <2>1. \A v \in Task : pc'[v] \in Waiting => pc[v] \in Waiting
    BY <1>1, <1>14 DEF Signal, Goto
  <2>2. QED  BY <1>14, <2>1, EventKeeps DEF Signal, tick_vars
<1>15. CASE UNCHANGED vars
  BY <1>15, QuietKeeps DEF vars, tick_vars
<1>16. QED
  BY <1>2, <1>3, <1>4, <1>5, <1>6, <1>7, <1>8, <1>9, <1>10, <1>11, <1>12, <1>13, <1>14, <1>15,
     TickEnterWaits, TickScanKeepsWaits, StopWaits, DelayWaits, WaitWaits, WaitReturnWaits
  DEF Next, SystemStep, KernelStep, CallStep

-----------------------------------------------------------------------------
LEMMA WaitsSafe ==
  ASSUME Disciplined
  PROVE  Spec => [](SchedInv /\ WaitInv)
<1>1. SchedInv /\ WaitInv /\ [Next]_vars => SchedInv' /\ WaitInv'
  BY NextSafe, NextWaits
<1>2. QED  BY <1>1, InitSafe, InitWaits, PTL DEF Spec

\* Every wait list stays sorted by priority, so that unblock_highest, which
\* takes the head, wakes a waiter of highest priority.
THEOREM WaitListsSorted ==
  ASSUME Disciplined
  PROVE  Spec => []WaitersByPriority
<1>1. WaitInv => WaitersByPriority
  BY DEF WaitInv, WaitersByPriority
<1>2. QED  BY <1>1, WaitsSafe, PTL

\* Every delay and every timeout ends at the tick it was asked for, whatever
\* the length of the delay list and wherever the tick counter wraps.
THEOREM DeadlinesMet ==
  ASSUME Disciplined
  PROVE  Spec => []DeadlineKept
<1>1. WaitInv => DeadlineKept
  BY DEF WaitInv
<1>2. QED  BY <1>1, WaitsSafe, PTL

\* wait_list_block returns OK only to a task that an event woke.
THEOREM OkIsAnEvent ==
  ASSUME Disciplined
  PROVE  Spec => []OkMeansEvent
<1>1. SchedInv /\ WaitInv => OkMeansEvent
  <2> SUFFICES ASSUME SchedInv, WaitInv, NEW t \in Task, Executing(t), pc[t] = "wait_return"
               PROVE  woken[t] # "no" /\ (wait_list_status(t) = "OK" => woken[t] = "event")
    BY DEF OkMeansEvent
  <2>1. k.state[t] \in Runnable /\ k \in Kernel /\ KernelConsistent(k)
    BY ExecutingFacts DEF SchedInv, TypeOK
  <2>2. woken[t] \in {"event", "timeout"} /\ (woken[t] = "timeout" => timeout[t] # Forever)
    BY <2>1 DEF WaitInv, WaitHistory, Waiting, Runnable
  <2>3. k.delay_ticks[t] = 0 /\ k.wait_list[t] = None
    BY <2>1, FieldTypes DEF KernelConsistent, DelayListConsistent, WaitListsConsistent, Runnable
  <2>4. QED  BY <2>2, <2>3 DEF wait_list_status
<1>2. QED  BY <1>1, WaitsSafe, PTL

-----------------------------------------------------------------------------
(* Periodic tasks.                                                         *)

\* The ticks until the countdown of t ends.
Rest(t) == k.delay_ticks[t] - (IF Contains(scan, t) THEN 1 ELSE 0)

\* The ticks until a delay_until, or the delay it ended in, lets t go on.
Remaining(t) == IF InUntil(t) THEN until[t] ELSE Rest(t)

PeriodicTypes ==
    /\ last_wake \in [Periodic -> 0 .. TickMod - 1]
    /\ until \in [Periodic -> (0 .. Period) \cup {None}]
    /\ lag \in [Periodic -> -Period .. MaxLag]

\* A task cannot go on before *last_wake_time, and lag tells how long ago that
\* was, in the arithmetic of a counter that wraps, until it is too late to tell.
LagInv ==
    \A t \in Periodic :
        /\ lag[t] + Remaining(t) >= 0
        /\ lag[t] < MaxLag => ticks - last_wake[t] - lag[t] \in {-TickMod, 0, TickMod}

PeriodicInv == SchedInv /\ PeriodicTypes /\ LagInv

LEMMA RestType ==
  ASSUME SchedInv, NEW t \in Task
  PROVE  /\ Rest(t) \in Nat
         /\ k.delay_ticks[t] \in Nat
         /\ k.state[t] \in Runnable => Rest(t) = 0
<1>1. k \in Kernel /\ KernelConsistent(k)
  BY DEF SchedInv, TypeOK
<1>2. k.delay_ticks[t] \in 0 .. MaxDelay
  BY <1>1, FieldTypes
<1>3. Contains(scan, t) => k.delay_ticks[t] > 0
  BY <1>1 DEF SchedInv, ScanInv, KernelConsistent, DelayListConsistent
<1>4. k.state[t] \in Runnable => ~(k.delay_ticks[t] > 0)
  BY <1>1 DEF KernelConsistent, DelayListConsistent, Runnable
<1>5. QED  BY <1>2, <1>3, <1>4, KernelAssumption DEF Rest

\* A step that touches no countdown.
LEMMA RestSame ==
  ASSUME k'.delay_ticks = k.delay_ticks, scan' = scan
  PROVE  \A t \in Task : Rest(t)' = Rest(t)
BY DEF Rest

\* A countdown that ends, or is not begun, with the creation of a task or the
\* end of a delay.
LEMMA RestReady ==
  ASSUME SchedInv, SchedInv', NEW u \in Task, NEW p \in Priority, MadeReady(k, k', u, p),
         Rest(u) = 0, \A t \in Task \ {u} : Contains(scan', t) <=> Contains(scan, t)
  PROVE  \A t \in Task : Rest(t)' >= Rest(t)
<1>1. k \in Kernel
  BY DEF SchedInv, TypeOK
<1>2. \A t \in Task : k'.delay_ticks[t] = IF t = u THEN 0 ELSE k.delay_ticks[t]
  BY <1>1, FieldTypes DEF MadeReady
<1>3. \A t \in Task : Rest(t) \in Nat /\ Rest(t)' \in Nat
  <2> TAKE t \in Task
  <2>1. Rest(t) \in Nat
    BY RestType
  <2>2. k'.delay_ticks[t] \in 0 .. MaxDelay /\ (Contains(scan', t) => k'.delay_ticks[t] > 0)
    BY FieldTypes DEF SchedInv, TypeOK, ScanInv, KernelConsistent, DelayListConsistent
  <2>3. Rest(t)' \in Nat
    BY <2>2, KernelAssumption DEF Rest
  <2>4. QED  BY <2>1, <2>3
<1>4. \A t \in Task \ {u} : Rest(t)' = Rest(t)
  BY <1>2 DEF Rest
<1>5. QED  BY <1>3, <1>4

\* One round of the tick handler's loop: the tick it counts was taken into
\* account when the handler began.
LEMMA RestTickScan ==
  ASSUME SchedInv, SchedInv', TickScan
  PROVE  \A u \in Task : Rest(u)' >= Rest(u)
<1>1. scan \in Seq(Task) /\ scan # <<>>
  BY DEF SchedInv, TypeOK, TickScan
<1> SUFFICES ASSUME NEW t \in Task, t = Head(scan)
             PROVE  \A u \in Task : Rest(u)' >= Rest(u)
  BY <1>1, HeadElement
<1>2. scan # <<>> /\ k' = delayed_task_tick(k, t) /\ scan' = Tail(scan)
  BY DEF TickScan
<1>3. /\ k \in Kernel /\ scan \in Seq(Task) /\ KernelConsistent(k) /\ IsInjective(scan)
      /\ \A u \in Task : Contains(scan, u) => Contains(k.delay, u)
  BY DEF SchedInv, TypeOK, ScanInv
<1>4. Contains(scan, t) /\ Contains(k.delay, t)
  BY <1>2, <1>3, HeadElement
<1>5. ~Contains(scan', t)
  BY <1>2, <1>3, TailElements
<1>6. \A u \in Task : u # t => (Contains(scan', u) <=> Contains(scan, u))
  BY <1>2, <1>3, TailContains
<1>7. k.delay_ticks[t] \in 1 .. MaxDelay
  BY <1>3, <1>4, FieldTypes DEF KernelConsistent, DelayListConsistent
<1>8. CASE k.delay_ticks[t] > 1
  <2>1. k' = [k EXCEPT !.delay_ticks[t] = @ - 1]
    BY <1>2, <1>3, <1>8, CountdownConsistent
  <2>2. k'.delay_ticks = [k.delay_ticks EXCEPT ![t] = @ - 1]
    BY <1>3, <2>1 DEF Kernel
  <2>3. \A u \in Task : k'.delay_ticks[u] = IF u = t THEN k.delay_ticks[t] - 1 ELSE k.delay_ticks[u]
    BY <1>3, <2>2, FieldTypes
  <2>4. \A u \in Task : u # t => Rest(u)' = Rest(u)
    BY <1>6, <2>3 DEF Rest
  <2>5. Rest(t)' = Rest(t)
    BY <1>4, <1>5, <1>7, <2>3 DEF Rest
  <2>6. QED  BY <2>4, <2>5, RestType
<1>9. CASE ~(k.delay_ticks[t] > 1)
  <2>1. MadeReady(k, k', t, k.priority[t]) /\ k.priority[t] \in Priority
    BY <1>2, <1>3, <1>4, <1>9, ExpireEffect, FieldTypes
  <2>2. Rest(t) = 0
    BY <1>4, <1>7, <1>9 DEF Rest
  <2>3. QED  BY <1>4, <1>6, <2>1, <2>2, RestReady
<1>10. QED  BY <1>8, <1>9

\* The tick handler begins: one tick less for everybody who waits.
LEMMA RestTickEnter ==
  ASSUME SchedInv, TickEnter
  PROVE  ticks' = (ticks + 1) % TickMod /\ \A t \in Task : Rest(t)' >= Rest(t) - 1
<1>1. isr = "none" /\ ticks' = (ticks + 1) % TickMod /\ UNCHANGED k
  BY DEF TickEnter
<1>2. scan = <<>>
  BY <1>1 DEF SchedInv, ScanInv
<1>3. \A t \in Task : ~Contains(scan, t)
  BY <1>2 DEF Contains
<1>4. QED  BY <1>1, <1>3, RestType DEF Rest

LEMMA RestDelay ==
  ASSUME SchedInv, NEW t \in Task, NEW n \in 1 .. MaxDelay, Delay(t, n)
  PROVE  /\ Rest(t)' = n
         /\ \A u \in Task : Rest(u)' >= Rest(u)
<1>1. Executing(t) /\ pc[t] = "user" /\ k' = block_on_delay(k, t, n) /\ UNCHANGED scan
  BY DEF Delay, InUser, AtUser, tick_vars
<1>2. scan = <<>> /\ k.state[t] \in Runnable /\ k \in Kernel /\ KernelConsistent(k)
  BY <1>1, ExecutingFacts DEF SchedInv, TypeOK
<1>3. MadeBlocked(k, k', t, None, n)
  BY <1>1, <1>2, BlockOnDelayEffect
<1>4. \A u \in Task : k'.delay_ticks[u] = IF u = t THEN n ELSE k.delay_ticks[u]
  BY <1>2, <1>3, FieldTypes DEF MadeBlocked
<1>5. \A u \in Task : ~Contains(scan, u)
  BY <1>2 DEF Contains
<1>6. Rest(t) = 0 /\ n \in Nat
  BY <1>2, RestType, KernelAssumption
<1>7. \A u \in Task : u # t => Rest(u)' = Rest(u)
  BY <1>1, <1>4 DEF Rest
<1>8. Rest(t)' = n
  BY <1>1, <1>4, <1>5, <1>6 DEF Rest
<1>9. QED  BY <1>6, <1>7, <1>8, RestType

LEMMA RestSlice ==
  ASSUME SchedInv, k' = process_time_slicing, scan' = scan
  PROVE  \A t \in Task : Rest(t)' = Rest(t)
<1>1. k \in Kernel
  BY DEF SchedInv, TypeOK
<1>2. k'.delay_ticks = k.delay_ticks
  BY <1>1 DEF process_time_slicing, rotate, Unlinked, Kernel
<1>3. QED  BY <1>2, RestSame

LEMMA RestSwitch ==
  ASSUME SchedInv, k' = perform_switch(k, current, select_next_task(k)), scan' = scan
  PROVE  \A t \in Task : Rest(t)' = Rest(t)
<1>1. k'.delay_ticks = k.delay_ticks
  BY DEF SchedInv, TypeOK, perform_switch, Kernel
<1>2. QED  BY <1>1, RestSame

LEMMA RestCreate ==
  ASSUME SchedInv, SchedInv', NEW u \in Task, k.state[u] = "ABSENT",
         k' = create_static(k, u, Prio[u]), scan' = scan
  PROVE  \A t \in Task : Rest(t)' >= Rest(t)
<1>1. k \in Kernel /\ KernelConsistent(k) /\ Prio[u] \in Priority
  BY ConstantTypes DEF SchedInv, TypeOK
<1>2. MadeReady(k, k', u, Prio[u])
  BY <1>1, CreateEffect
<1>3. ~Contains(k.delay, u) /\ ~(k.delay_ticks[u] > 0)
  BY <1>1 DEF KernelConsistent, DelayListConsistent
<1>4. ~Contains(scan, u)
  BY <1>3 DEF SchedInv, ScanInv
<1>5. Rest(u) = 0
  BY <1>3, <1>4, RestType DEF Rest
<1>6. QED  BY <1>1, <1>2, <1>5, RestReady

\* A step of the scheduler takes a tick off a countdown only when it counts one.
LEMMA RestStep ==
  ASSUME SchedInv, SchedInv',
         SystemStep \/ \E t \in Task : KernelStep(t) \/ CallStep(t)
  PROVE  \/ ticks' = ticks /\ \A t \in Task : Rest(t)' >= Rest(t)
         \/ ticks' = (ticks + 1) % TickMod /\ \A t \in Task : Rest(t)' >= Rest(t) - 1
<1> DEFINE Kept == \A t \in Task : Rest(t)' >= Rest(t)
<1>1. \A t \in Task : Rest(t) \in Nat
  BY RestType
<1>2. (\A t \in Task : Rest(t)' = Rest(t)) => Kept
  BY <1>1
<1>3. ASSUME NEW u \in Task, CreateFromMain(u) PROVE ticks' = ticks /\ Kept
  BY <1>3, RestCreate DEF CreateFromMain, tick_vars
<1>4. CASE Start
  BY <1>2, <1>4, RestSwitch DEF Start, tick_vars
<1>5. CASE PendSV
  <2>1. select_next_task(k) # None
    BY SelectFacts
  <2>2. QED  BY <1>2, <1>5, <2>1, RestSwitch DEF PendSV, tick_vars
<1>6. CASE TickScan
  BY <1>6, RestTickScan DEF TickScan
<1>7. CASE TickSlice
  BY <1>2, <1>7, RestSlice DEF TickSlice
<1>8. CASE TickSwitch
  BY <1>2, <1>8, RestSame DEF TickSwitch
<1>9. ASSUME NEW t \in Task, NEW u \in Task, Create(t, u) PROVE ticks' = ticks /\ Kept
  BY <1>9, RestCreate DEF Create, tick_vars
<1>10. ASSUME NEW t \in Task, SwitchContext(t) \/ Reschedule(t) \/ Lock(t) \/ Unlock(t)
       PROVE  ticks' = ticks /\ Kept
  BY <1>2, <1>10, RestSame DEF SwitchContext, Reschedule, Lock, Unlock, tick_vars
<1>11. ASSUME NEW t \in Task, Yield(t) PROVE ticks' = ticks /\ Kept
  BY <1>2, <1>11, RestSlice DEF Yield, tick_vars
<1>12. ASSUME NEW t \in Task, NEW n \in 1 .. MaxDelay, Delay(t, n) PROVE ticks' = ticks /\ Kept
  BY <1>12, RestDelay DEF Delay, tick_vars
<1>13. QED
  BY <1>3, <1>4, <1>5, <1>6, <1>7, <1>8, <1>9, <1>10, <1>11, <1>12, RestTickEnter
  DEF SystemStep, KernelStep, CallStep

-----------------------------------------------------------------------------
(* The time since *last_wake_time.                                         *)

\* The tick counter goes up by one or wraps to zero.
LEMMA TickCounted ==
  ASSUME ticks \in 0 .. TickMod - 1
  PROVE  /\ (ticks + 1) % TickMod # ticks
         /\ (ticks + 1) % TickMod \in {ticks + 1, ticks + 1 - TickMod}
         /\ (ticks + 1) % TickMod \in 0 .. TickMod - 1
<1>1. TickMod \in Nat /\ TickMod > 1 /\ ticks + 1 \in Nat
  BY SchedulerAssumption, KernelAssumption
<1>2. CASE ticks + 1 < TickMod
  <2>1. (ticks + 1) % TickMod = ticks + 1
    BY <1>1, <1>2
  <2>2. QED  BY <1>1, <1>2, <2>1
<1>3. CASE ticks + 1 = TickMod
  <2>1. (ticks + 1) % TickMod = 0
    BY <1>1, <1>3
  <2>2. QED  BY <1>1, <1>3, <2>1
<1>4. QED  BY <1>1, <1>2, <1>3

\* elapsed is the time since *last_wake_time.
LEMMA ElapsedIsLag ==
  ASSUME PeriodicInv, NEW t \in Periodic, lag[t] < MaxLag, lag[t] >= 0
  PROVE  elapsed(t) = lag[t]
<1>1. /\ TickMod \in Nat /\ TickMod > 0 /\ MaxLag \in Int /\ MaxLag < TickMod
  BY SchedulerAssumption, KernelAssumption, PeriodicAssumption
<1>2. /\ ticks \in 0 .. TickMod - 1 /\ last_wake[t] \in 0 .. TickMod - 1
      /\ lag[t] \in Int
      /\ ticks - last_wake[t] - lag[t] \in {-TickMod, 0, TickMod}
  BY PeriodicAssumption DEF PeriodicInv, PeriodicTypes, LagInv, SchedInv, TypeOK
<1>3. lag[t] \in 0 .. TickMod - 1
  BY <1>1, <1>2
<1>4. \/ ticks - last_wake[t] = TickMod * 0 + lag[t]
      \/ ticks - last_wake[t] = TickMod * (-1) + lag[t]
  BY <1>1, <1>2, <1>3
<1>5. (TickMod * 0 + lag[t]) % TickMod = lag[t] /\ (TickMod * (-1) + lag[t]) % TickMod = lag[t]
  BY <1>1, <1>3, Remainder
<1>6. (ticks - last_wake[t]) % TickMod = lag[t]
  BY <1>4, <1>5
<1>7. QED  BY <1>6 DEF elapsed

LEMMA PeriodicConstants ==
  /\ TickMod \in Nat /\ TickMod > 1 /\ MaxDelay \in Nat /\ MaxDelay < TickMod
  /\ Period \in Nat /\ Period >= 1 /\ Period <= MaxDelay
  /\ MaxLag \in Nat /\ MaxLag >= Period /\ MaxLag < TickMod
  /\ None \notin 0 .. Period /\ \A t \in Periodic : t \in Task
BY SchedulerAssumption, KernelAssumption, PeriodicAssumption

\* A call of delay_until, up to its comparison.
LEMMA UntilReadsLag ==
  ASSUME PeriodicInv, NEW t \in Periodic, UntilReads(t)
  PROVE  PeriodicTypes' /\ LagInv'
<1>1. /\ Executing(t) /\ pc[t] = "user" /\ ~InUntil(t) /\ lag[t] < MaxLag
      /\ until' = [until EXCEPT ![t] = IF elapsed(t) < Period THEN Period - elapsed(t) ELSE 0]
      /\ last_wake' = [last_wake EXCEPT ![t] = (@ + Period) % TickMod]
      /\ lag' = [lag EXCEPT ![t] = @ - Period]
      /\ UNCHANGED <<k, ticks, scan>>
  BY DEF UntilReads, AtUser, vars, tick_vars
<1>2. /\ t \in Task /\ ticks \in 0 .. TickMod - 1
      /\ last_wake \in [Periodic -> 0 .. TickMod - 1] /\ lag \in [Periodic -> -Period .. MaxLag]
      /\ until \in [Periodic -> (0 .. Period) \cup {None}] /\ SchedInv
  BY PeriodicConstants DEF PeriodicInv, PeriodicTypes, SchedInv, TypeOK
<1>3. Rest(t) = 0
  BY <1>1, <1>2, ExecutingFacts, RestType
<1>4. /\ lag[t] \in Int /\ lag[t] >= 0
      /\ ticks - last_wake[t] - lag[t] \in {-TickMod, 0, TickMod}
  <2>1. lag[t] + Remaining(t) >= 0
    BY DEF PeriodicInv, LagInv
  <2>2. Remaining(t) = 0
    BY <1>1, <1>3 DEF Remaining
  <2>3. lag[t] \in Int
    BY <1>2
  <2>4. QED  BY <1>1, <2>1, <2>2, <2>3 DEF PeriodicInv, LagInv
<1>5. elapsed(t) = lag[t]
  BY <1>1, <1>4, ElapsedIsLag
<1>6. /\ until'[t] = IF lag[t] < Period THEN Period - lag[t] ELSE 0
      /\ last_wake'[t] = (last_wake[t] + Period) % TickMod
      /\ lag'[t] = lag[t] - Period
  BY <1>1, <1>2, <1>5
<1>7. until'[t] \in 0 .. Period /\ until'[t] # None
  BY <1>4, <1>6, PeriodicConstants
<1>8. /\ last_wake'[t] \in 0 .. TickMod - 1
      /\ last_wake'[t] \in {last_wake[t] + Period, last_wake[t] + Period - TickMod}
  <2> DEFINE y == last_wake[t] + Period
  <2>1. y \in Nat /\ y < 2 * TickMod /\ last_wake'[t] = y % TickMod /\ TickMod \in Nat \ {0}
    BY <1>2, <1>6, PeriodicConstants
  <2> HIDE DEF y
  <2>2. /\ y < TickMod => y % TickMod = y
        /\ y >= TickMod => y % TickMod = y - TickMod
    BY <2>1, ModWraps
  <2>3. \/ last_wake'[t] = y /\ y < TickMod
        \/ last_wake'[t] = y - TickMod /\ y >= TickMod
    BY <2>1, <2>2
  <2>4. last_wake'[t] \in 0 .. TickMod - 1
    BY <2>1, <2>3
  <2>5. last_wake'[t] \in {y, y - TickMod}
    BY <2>3
  <2>6. QED  BY <1>2, <2>4, <2>5, PeriodicConstants DEF y
<1>9. PeriodicTypes'
  <2>1. lag'[t] \in -Period .. MaxLag
    BY <1>2, <1>4, <1>6, PeriodicConstants
  <2>2. lag' \in [Periodic -> -Period .. MaxLag]
    BY <1>1, <1>2, <1>6, <2>1
  <2>3. last_wake' \in [Periodic -> 0 .. TickMod - 1]
    BY <1>1, <1>2, <1>6, <1>8
  <2>4. until' \in [Periodic -> (0 .. Period) \cup {None}]
    BY <1>1, <1>2, <1>5, <1>6, <1>7
  <2>5. QED  BY <2>2, <2>3, <2>4 DEF PeriodicTypes
<1>10. LagInv'
  <2> SUFFICES ASSUME NEW u \in Periodic
               PROVE  /\ lag'[u] + Remaining(u)' >= 0
                      /\ lag'[u] < MaxLag => ticks' - last_wake'[u] - lag'[u] \in {-TickMod, 0, TickMod}
    BY DEF LagInv
  <2>1. CASE u = t
    <3>1. Remaining(t)' = until'[t]
      BY <1>7 DEF Remaining, InUntil
    <3>2. lag'[t] + until'[t] >= 0
      BY <1>4, <1>6, PeriodicConstants
    <3>3. ticks - last_wake'[t] - lag'[t] \in {-TickMod, 0, TickMod}
      BY <1>2, <1>4, <1>6, <1>8, PeriodicConstants
    <3>4. QED  BY <1>1, <2>1, <3>1, <3>2, <3>3
  <2>2. CASE u # t
    <3>1. lag'[u] = lag[u] /\ last_wake'[u] = last_wake[u] /\ until'[u] = until[u]
      BY <1>1, <1>2, <2>2
    <3>2. Remaining(u)' = Remaining(u)
      BY <1>1, <3>1 DEF Remaining, InUntil, Rest
    <3>3. QED  BY <1>1, <3>1, <3>2 DEF PeriodicInv, LagInv
  <2>3. QED  BY <2>1, <2>2
<1>11. QED  BY <1>9, <1>10

\* It ends in a delay of what remains, or in a yield when nothing does.
LEMMA UntilEndsLag ==
  ASSUME PeriodicInv, SchedInv', NEW t \in Periodic, InUntil(t),
         until' = [until EXCEPT ![t] = None], UNCHANGED <<last_wake, lag, ticks>>,
         Rest(t)' >= until[t], \A u \in Task : Rest(u)' >= Rest(u)
  PROVE  PeriodicTypes' /\ LagInv'
<1>1. PeriodicTypes'
  BY DEF PeriodicInv, PeriodicTypes
<1>2. /\ until \in [Periodic -> (0 .. Period) \cup {None}] /\ lag \in [Periodic -> -Period .. MaxLag]
      /\ SchedInv
  BY DEF PeriodicInv, PeriodicTypes
<1>3. ASSUME NEW u \in Periodic PROVE lag[u] + Remaining(u)' >= 0
  <2>1. lag[u] + Remaining(u) >= 0 /\ u \in Task
    BY PeriodicConstants DEF PeriodicInv, LagInv
  <2>2. lag[u] \in Int /\ Rest(u) \in Int
    BY <1>2, <2>1, RestType, PeriodicConstants
  <2>3. Rest(u)' \in Int
    <3>1. k'.delay_ticks[u] \in 0 .. MaxDelay
      BY <2>1, FieldTypes DEF SchedInv, TypeOK
    <3>2. QED  BY <3>1, KernelAssumption DEF Rest
  <2>4. CASE u = t
    <3>1. until[t] \in 0 .. Period
      BY <1>2 DEF InUntil
    <3>2. Remaining(t)' = Rest(t)'
      BY <1>2 DEF Remaining, InUntil
    <3>3. Remaining(t) = until[t]
      BY DEF Remaining
    <3>4. QED  BY <2>1, <2>2, <2>3, <2>4, <3>1, <3>2, <3>3
  <2>5. CASE u # t
    <3>1. until'[u] = until[u] /\ (InUntil(u)' <=> InUntil(u))
      BY <1>2, <2>5 DEF InUntil
    <3>2. InUntil(u) => until[u] \in 0 .. Period
      BY <1>2 DEF InUntil
    <3>3. CASE InUntil(u)
      BY <2>1, <3>1, <3>3 DEF Remaining
    <3>4. CASE ~InUntil(u)
      <4>1. Remaining(u) = Rest(u) /\ Remaining(u)' = Rest(u)'
        BY <3>1, <3>4 DEF Remaining
      <4>2. QED  BY <2>1, <2>2, <2>3, <4>1
    <3>5. QED  BY <3>3, <3>4
  <2>6. QED  BY <2>4, <2>5
<1>4. LagInv'
  BY <1>3 DEF PeriodicInv, LagInv
<1>5. QED  BY <1>1, <1>4

\* Every other step.
LEMMA OtherLag ==
  ASSUME PeriodicInv, SchedInv', OtherStep
  PROVE  PeriodicTypes' /\ LagInv'
<1>1. /\ lag' = [t \in Periodic |-> IF ticks' # ticks /\ lag[t] < MaxLag THEN lag[t] + 1 ELSE lag[t]]
      /\ UNCHANGED <<last_wake, until>>
  BY DEF OtherStep
<1>2. \/ ticks' = ticks /\ \A t \in Task : Rest(t)' >= Rest(t)
      \/ ticks' = (ticks + 1) % TickMod /\ \A t \in Task : Rest(t)' >= Rest(t) - 1
  BY RestStep DEF OtherStep, PeriodicInv
<1>3. /\ until \in [Periodic -> (0 .. Period) \cup {None}] /\ lag \in [Periodic -> -Period .. MaxLag]
      /\ last_wake \in [Periodic -> 0 .. TickMod - 1] /\ ticks \in 0 .. TickMod - 1 /\ SchedInv
  BY DEF PeriodicInv, PeriodicTypes, SchedInv, TypeOK
<1>4. ticks' # ticks => ticks' \in {ticks + 1, ticks + 1 - TickMod} /\ ticks' \in 0 .. TickMod - 1
  BY <1>2, <1>3, TickCounted
<1>5. ASSUME NEW u \in Periodic
      PROVE  /\ lag'[u] \in -Period .. MaxLag /\ lag'[u] + Remaining(u)' >= 0
             /\ lag'[u] < MaxLag => ticks' - last_wake[u] - lag'[u] \in {-TickMod, 0, TickMod}
  <2>1. /\ lag[u] \in -Period .. MaxLag /\ lag[u] + Remaining(u) >= 0 /\ u \in Task
        /\ lag[u] < MaxLag => ticks - last_wake[u] - lag[u] \in {-TickMod, 0, TickMod}
        /\ last_wake[u] \in 0 .. TickMod - 1
    BY <1>3, PeriodicConstants DEF PeriodicInv, LagInv
  <2>2. Rest(u) \in Nat
    BY <1>3, <2>1, RestType
  <2>3. Rest(u)' \in Nat
    <3>1. k'.delay_ticks[u] \in 0 .. MaxDelay /\ (Contains(scan', u) => k'.delay_ticks[u] > 0)
      BY <2>1, FieldTypes DEF SchedInv, TypeOK, ScanInv, KernelConsistent, DelayListConsistent
    <3>2. QED  BY <3>1, KernelAssumption DEF Rest
  <2>4. lag'[u] = IF ticks' # ticks /\ lag[u] < MaxLag THEN lag[u] + 1 ELSE lag[u]
    BY <1>1
  <2>5. InUntil(u) => until[u] \in 0 .. Period
    BY <1>3 DEF InUntil
  <2>6. /\ InUntil(u) => Remaining(u) \in Nat /\ Remaining(u)' = Remaining(u)
        /\ ~InUntil(u) => Remaining(u) = Rest(u) /\ Remaining(u)' = Rest(u)'
    BY <1>1, <2>5, PeriodicConstants DEF Remaining, InUntil
  <2>7. /\ Remaining(u) \in Nat /\ Remaining(u)' \in Nat
        /\ Remaining(u)' >= Remaining(u) - 1
        /\ ticks' = ticks => Remaining(u)' >= Remaining(u)
    <3>1. CASE InUntil(u)
      BY <2>6, <3>1
    <3>2. CASE ~InUntil(u)
      <4>1. Rest(u)' >= Rest(u) - 1
        BY <1>2, <2>1, <2>2, <2>3
      <4>2. ticks' = ticks => Rest(u)' >= Rest(u)
        BY <1>2, <1>3, <2>1, TickCounted
      <4>3. QED  BY <2>2, <2>3, <2>6, <3>2, <4>1, <4>2
    <3>3. QED  BY <3>1, <3>2
  <2>8. lag'[u] \in -Period .. MaxLag /\ lag'[u] + Remaining(u)' >= 0
    BY <2>1, <2>4, <2>7, PeriodicConstants
  <2>9. ASSUME lag'[u] < MaxLag
        PROVE  ticks' - last_wake[u] - lag'[u] \in {-TickMod, 0, TickMod}
    <3>1. lag[u] < MaxLag
      BY <2>1, <2>4, <2>9, PeriodicConstants
    <3>2. CASE ticks' = ticks
      BY <2>1, <2>4, <3>1, <3>2
    <3>3. CASE ticks' # ticks
      BY <1>3, <1>4, <2>1, <2>4, <2>8, <3>1, <3>3, PeriodicConstants
    <3>4. QED  BY <3>2, <3>3
  <2>10. QED  BY <2>8, <2>9
<1>6. PeriodicTypes'
  BY <1>1, <1>3, <1>5 DEF PeriodicTypes
<1>7. LagInv'
  BY <1>1, <1>5 DEF LagInv
<1>8. QED  BY <1>6, <1>7

\* The scheduler below takes steps of its own specification.
LEMMA PeriodicIsNext ==
  ASSUME PeriodicInv, [PeriodicNext]_all_vars
  PROVE  [Next]_vars
<1>1. CASE OtherStep
  BY <1>1 DEF OtherStep, Next
<1>2. ASSUME NEW t \in Periodic, UntilDelays(t) PROVE Next
  <2>1. until[t] \in 1 .. MaxDelay /\ t \in Task
    BY <1>2, PeriodicConstants DEF UntilDelays, InUntil, PeriodicInv, PeriodicTypes
  <2>2. QED  BY <1>2, <2>1 DEF UntilDelays, Next, CallStep
<1>3. ASSUME NEW t \in Periodic, UntilYields(t) PROVE Next
  BY <1>3, PeriodicConstants DEF UntilYields, Next, CallStep
<1>4. ASSUME NEW t \in Periodic, UntilReads(t) PROVE UNCHANGED vars
  BY <1>4 DEF UntilReads
<1>5. CASE UNCHANGED all_vars
  BY <1>5 DEF all_vars
<1>6. QED  BY <1>1, <1>2, <1>3, <1>4, <1>5 DEF PeriodicNext

LEMMA PeriodicNextLag ==
  ASSUME Disciplined, PeriodicInv, [PeriodicNext]_all_vars
  PROVE  PeriodicInv'
<1>1. SchedInv'
  BY PeriodicIsNext, NextSafe DEF PeriodicInv
<1>2. ASSUME NEW t \in Periodic, UntilDelays(t) PROVE PeriodicTypes' /\ LagInv'
  <2>1. until[t] \in 1 .. MaxDelay /\ t \in Task /\ InUntil(t) /\ Delay(t, until[t])
    BY <1>2, PeriodicConstants DEF UntilDelays, InUntil, PeriodicInv, PeriodicTypes
  <2>2. SUFFICES ASSUME NEW n \in 1 .. MaxDelay, n = until[t] PROVE PeriodicTypes' /\ LagInv'
    BY <2>1
  <2>3. Rest(t)' = n /\ \A u \in Task : Rest(u)' >= Rest(u)
    BY <2>1, <2>2, RestDelay DEF PeriodicInv
  <2>4. Rest(t)' >= until[t]
    BY <2>2, <2>3, KernelAssumption
  <2>5. ticks' = ticks
    BY <2>1 DEF Delay, tick_vars
  <2>6. QED  BY <1>1, <1>2, <2>1, <2>3, <2>4, <2>5, UntilEndsLag DEF UntilDelays
<1>3. ASSUME NEW t \in Periodic, UntilYields(t) PROVE PeriodicTypes' /\ LagInv'
  <2>1. t \in Task /\ InUntil(t) /\ until[t] = 0 /\ Yield(t)
    BY <1>3, PeriodicConstants DEF UntilYields
  <2>2. k' = process_time_slicing /\ UNCHANGED <<ticks, scan>>
    BY <2>1 DEF Yield, tick_vars
  <2>3. \A u \in Task : Rest(u)' = Rest(u) /\ Rest(u) \in Nat
    BY <2>2, RestSlice, RestType DEF PeriodicInv
  <2>4. Rest(t)' >= until[t] /\ \A u \in Task : Rest(u)' >= Rest(u)
    BY <2>1, <2>3
  <2>5. QED  BY <1>1, <1>3, <2>1, <2>2, <2>4, UntilEndsLag DEF UntilYields
<1>4. ASSUME UNCHANGED all_vars PROVE PeriodicTypes' /\ LagInv'
  <2>1. UNCHANGED <<k, scan, ticks, last_wake, until, lag>>
    BY <1>4 DEF all_vars, vars, tick_vars, periodic_vars
  <2>2. QED  BY <2>1 DEF PeriodicInv, PeriodicTypes, LagInv, Remaining, InUntil, Rest
<1>5. PeriodicTypes' /\ LagInv'
  BY <1>1, <1>2, <1>3, <1>4, UntilReadsLag, OtherLag DEF PeriodicNext
<1>6. QED  BY <1>1, <1>5 DEF PeriodicInv

LEMMA PeriodicInitLag == PeriodicInit => PeriodicInv
<1> SUFFICES ASSUME PeriodicInit PROVE PeriodicInv
  OBVIOUS
<1>1. SchedInv /\ ticks = 0
  BY InitSafe DEF PeriodicInit, Init
<1>2. /\ last_wake = [t \in Periodic |-> 0] /\ lag = [t \in Periodic |-> 0]
      /\ until = [t \in Periodic |-> None]
  BY DEF PeriodicInit
<1>3. PeriodicTypes
  BY <1>2, PeriodicConstants DEF PeriodicTypes
<1>4. ASSUME NEW t \in Periodic PROVE lag[t] + Remaining(t) >= 0
  <2>1. Remaining(t) = Rest(t) /\ Rest(t) \in Nat
    BY <1>1, <1>2, RestType, PeriodicConstants DEF Remaining, InUntil
  <2>2. QED  BY <1>2, <2>1
<1>5. LagInv
  BY <1>1, <1>2, <1>4, PeriodicConstants DEF LagInv
<1>6. QED  BY <1>1, <1>3, <1>5 DEF PeriodicInv

\* A periodic task is never released before its time, for every period, every
\* width of the tick counter and every lateness the counter can tell: whatever
\* ticks, switches and calls come between delay_until's reading of the counter
\* and its delay.
THEOREM PeriodicNeverEarly ==
  ASSUME Disciplined
  PROVE  PeriodicSpec => []NeverEarly
<1>1. PeriodicInv => NeverEarly
  <2> SUFFICES ASSUME PeriodicInv, NEW t \in Periodic, ~InUntil(t), k.state[t] \in Runnable
               PROVE  lag[t] >= 0
    BY DEF NeverEarly
  <2>1. Remaining(t) = 0
    BY RestType, PeriodicConstants DEF PeriodicInv, Remaining
  <2>2. lag[t] + Remaining(t) >= 0 /\ lag[t] \in -Period .. MaxLag
    BY DEF PeriodicInv, LagInv, PeriodicTypes
  <2>3. QED  BY <2>1, <2>2, PeriodicConstants
<1>2. PeriodicInv /\ [PeriodicNext]_all_vars => PeriodicInv'
  BY PeriodicNextLag
<1>3. QED  BY <1>1, <1>2, PeriodicInitLag, PTL DEF PeriodicSpec

-----------------------------------------------------------------------------
(* The life cycle of tasks: what its routines do to a consistent kernel.   *)

\* No routine of the scheduler touches the registry, creation excepted.
LEMMA RegistryKept ==
  ASSUME NEW K \in Kernel, NEW t \in Task
  PROVE  /\ add_ready(K, t).registry = K.registry
         /\ remove_ready(K, t).registry = K.registry
         /\ rotate(K, t).registry = K.registry
         /\ \A n : block_on_delay(K, t, n).registry = K.registry
         /\ \A prev, next : perform_switch(K, prev, next).registry = K.registry
         /\ delayed_task_tick(K, t).registry = K.registry
         /\ \A p \in Priority : create_static(K, t, p).registry = K.registry \cup {t}
<1>1. /\ add_ready(K, t).registry = K.registry
      /\ rotate(K, t).registry = K.registry
      /\ \A prev, next : perform_switch(K, prev, next).registry = K.registry
  BY DEF add_ready, rotate, Unlinked, perform_switch, Kernel
<1>2. remove_ready(K, t).registry = K.registry
  BY DEF remove_ready, Unlinked, Kernel
<1>3. \A n : block_on_delay(K, t, n).registry = K.registry
  <2>1. remove_ready(K, t) \in Kernel
    BY RemoveReadyType
  <2>2. QED  BY <1>2, <2>1 DEF block_on_delay, Kernel
<1>4. delayed_task_tick(K, t).registry = K.registry
  BY DEF delayed_task_tick, add_ready, wait_list_remove, Kernel
<1>5. \A p \in Priority : create_static(K, t, p).registry = K.registry \cup {t}
  BY DEF create_static, add_ready, Kernel
<1>6. QED  BY <1>1, <1>2, <1>3, <1>4, <1>5

\* A task on no ready queue can change state between SUSPENDED and TERMINATED.
LEMMA StateConsistent ==
  ASSUME NEW K \in Kernel, NEW r, NEW u \in Task, NEW s \in {"SUSPENDED", "TERMINATED"},
         KernelConsistent(K), K.state[u] = "SUSPENDED",
         r.state = [K.state EXCEPT ![u] = s],
         r.priority = K.priority, r.delay_ticks = K.delay_ticks, r.wait_list = K.wait_list,
         r.ready = K.ready, r.bitmap = K.bitmap, r.delay = K.delay, r.waiters = K.waiters
  PROVE  KernelConsistent(r)
<1>1. \A t \in Task : r.state[t] = IF t = u THEN s ELSE K.state[t]
  BY FieldTypes
<1>2. ListsInjective(r) /\ BitmapConsistent(r)
  BY DEF KernelConsistent, ListsInjective, BitmapConsistent
<1>3. ReadyQueuesConsistent(r)
  BY <1>1 DEF KernelConsistent, ReadyQueuesConsistent, Runnable
<1>4. DelayListConsistent(r) /\ WaitListsConsistent(r) /\ BlockedCanWake(r)
  BY <1>1 DEF KernelConsistent, DelayListConsistent, WaitListsConsistent, BlockedCanWake
<1>5. QED  BY <1>2, <1>3, <1>4 DEF KernelConsistent

\* The priority of a task on no ready queue can change.
LEMMA PriorityConsistent ==
  ASSUME NEW K \in Kernel, NEW r, NEW u \in Task, NEW p \in Priority,
         KernelConsistent(K), K.state[u] \notin Runnable,
         r.priority = [K.priority EXCEPT ![u] = p],
         r.state = K.state, r.delay_ticks = K.delay_ticks, r.wait_list = K.wait_list,
         r.ready = K.ready, r.bitmap = K.bitmap, r.delay = K.delay, r.waiters = K.waiters
  PROVE  KernelConsistent(r)
<1>1. \A t \in Task : r.priority[t] = IF t = u THEN p ELSE K.priority[t]
  BY FieldTypes
<1>2. ListsInjective(r) /\ BitmapConsistent(r)
  BY DEF KernelConsistent, ListsInjective, BitmapConsistent
<1>3. ReadyQueuesConsistent(r)
  BY <1>1 DEF KernelConsistent, ReadyQueuesConsistent
<1>4. DelayListConsistent(r) /\ WaitListsConsistent(r) /\ BlockedCanWake(r)
  BY DEF KernelConsistent, DelayListConsistent, WaitListsConsistent, BlockedCanWake
<1>5. QED  BY <1>2, <1>3, <1>4 DEF KernelConsistent

\* r is k after task u left its queue for state s, and the registry became g.
Unqueued(r, u, s, g) ==
    \/ r = [unqueue(u) EXCEPT !.state[u] = s, !.registry = g]
    \/ r = [unqueue(u) EXCEPT !.state[u] = s]

\* Nothing but the state of u changed in r for the tasks, and r is consistent.
Parted(r, u, s) ==
    /\ r \in Kernel /\ KernelConsistent(r)
    /\ \A t \in Task : r.state[t] = IF t = u THEN s ELSE k.state[t]
    /\ r.priority = k.priority /\ r.delay = k.delay /\ r.fault = k.fault

\* The critical sections of suspend and delete, for a READY or SUSPENDED task.
LEMMA UnqueueEffect ==
  ASSUME k \in Kernel, KernelConsistent(k), NEW u \in Task, NEW s \in {"SUSPENDED", "TERMINATED"},
         k.state[u] \in {"READY", "SUSPENDED"}, NEW g \in SUBSET Task, NEW r,
         Unqueued(r, u, s, g)
  PROVE  Parted(r, u, s)
<1> DEFINE o == unqueue(u)
<1>1. o \in Kernel
  BY RemoveReadyType DEF unqueue
<1>2. /\ r \in Kernel /\ r.state = [o.state EXCEPT ![u] = s]
      /\ r.priority = o.priority /\ r.delay_ticks = o.delay_ticks /\ r.wait_list = o.wait_list
      /\ r.ready = o.ready /\ r.bitmap = o.bitmap /\ r.delay = o.delay
      /\ r.waiters = o.waiters /\ r.fault = o.fault
  <2> HIDE DEF o
  <2>1. s \in TaskState
    BY DEF TaskState
  <2>2. CASE r = [o EXCEPT !.state[u] = s, !.registry = g]
    BY <1>1, <2>1, <2>2 DEF Kernel
  <2>3. CASE r = [o EXCEPT !.state[u] = s]
    BY <1>1, <2>1, <2>3 DEF Kernel
  <2>4. QED  BY <2>2, <2>3 DEF o, Unqueued
<1>3. CASE k.state[u] = "READY"
  <2> DEFINE p == k.priority[u]
             q == RemoveFirst(k.ready[p], u)
             B == IF q = <<>> THEN k.bitmap \ {p} ELSE k.bitmap
  <2>1. k.state[u] \in Runnable
    BY <1>3 DEF Runnable
  <2>2. o = [k EXCEPT !.ready[p] = q, !.bitmap = B]
    BY <1>3, <2>1, RemoveReadyFields DEF unqueue
  <2> HIDE DEF q, B, o
  <2>3. /\ o.state = k.state /\ o.priority = k.priority /\ o.delay_ticks = k.delay_ticks
        /\ o.wait_list = k.wait_list /\ o.ready = [k.ready EXCEPT ![p] = q] /\ o.bitmap = B
        /\ o.delay = k.delay /\ o.waiters = k.waiters /\ o.fault = k.fault
    BY <2>2 DEF Kernel
  <2>4. TakenOff(k, r, u, s)
    BY <1>2, <2>3, Zenon DEF TakenOff, q, B
  <2>5. KernelConsistent(r)
    BY <2>1, <2>4, TakenOffConsistent
  <2>6. \A t \in Task : r.state[t] = IF t = u THEN s ELSE k.state[t]
    BY <2>4, FieldTypes DEF TakenOff
  <2>7. QED  BY <1>2, <2>3, <2>5, <2>6 DEF Parted
<1>4. CASE k.state[u] = "SUSPENDED"
  <2>1. o = k
    BY <1>4 DEF unqueue
  <2>2. KernelConsistent(r)
    <3>1. /\ r.state = [k.state EXCEPT ![u] = s]
          /\ r.priority = k.priority /\ r.delay_ticks = k.delay_ticks /\ r.wait_list = k.wait_list
          /\ r.ready = k.ready /\ r.bitmap = k.bitmap /\ r.delay = k.delay
          /\ r.waiters = k.waiters
      BY <1>2, <2>1, Zenon
    <3>2. QED  BY <1>4, <3>1, StateConsistent
  <2>3. \A t \in Task : r.state[t] = IF t = u THEN s ELSE k.state[t]
    BY <1>2, <2>1, FieldTypes
  <2>4. QED  BY <1>2, <2>1, <2>2, <2>3 DEF Parted
<1>5. QED  BY <1>3, <1>4

\* The critical section of resume makes the suspended task ready.
LEMMA ResumeEffect ==
  ASSUME NEW K \in Kernel, KernelConsistent(K), NEW u \in Task, K.state[u] = "SUSPENDED"
  PROVE  MadeReady(K, add_ready(K, u), u, K.priority[u])
<1>1. /\ ~StateLinked(K, u) /\ RemoveFirst(K.delay, u) = K.delay
      /\ [w \in WaitList |-> RemoveFirst(K.waiters[w], u)] = K.waiters
      /\ K.delay_ticks[u] = 0 /\ K.wait_list[u] = None
  BY OffLists DEF Runnable
<1>2. /\ K.priority[u] \in Priority
      /\ K.priority = [K.priority EXCEPT ![u] = K.priority[u]]
      /\ K.delay_ticks = [K.delay_ticks EXCEPT ![u] = 0]
      /\ K.wait_list = [K.wait_list EXCEPT ![u] = None]
  BY <1>1, FieldTypes
<1>3. QED  BY <1>1, <1>2, AddReadyEffect

\* The critical section of set_priority, for a READY or SUSPENDED task.
LEMMA SetPriorityEffect ==
  ASSUME NEW K \in Kernel, KernelConsistent(K), NEW u \in Task, NEW p \in Priority,
         K.state[u] # "RUNNING"
  PROVE  /\ set_priority(K, u, p) \in Kernel
         /\ KernelConsistent(set_priority(K, u, p))
         /\ set_priority(K, u, p).state = K.state
         /\ set_priority(K, u, p).priority = [K.priority EXCEPT ![u] = p]
         /\ \A t : Contains(set_priority(K, u, p).delay, t) <=> Contains(K.delay, t)
         /\ set_priority(K, u, p).fault = K.fault
         /\ set_priority(K, u, p).registry = K.registry
<1> DEFINE r == set_priority(K, u, p)
<1>1. CASE K.state[u] # "READY"
  <2>1. r = [K EXCEPT !.priority[u] = p, !.base_priority[u] = p]
    BY <1>1 DEF set_priority
  <2> HIDE DEF r
  <2>2. /\ r \in Kernel /\ r.priority = [K.priority EXCEPT ![u] = p]
        /\ r.state = K.state /\ r.delay_ticks = K.delay_ticks /\ r.wait_list = K.wait_list
        /\ r.ready = K.ready /\ r.bitmap = K.bitmap /\ r.delay = K.delay
        /\ r.waiters = K.waiters /\ r.fault = K.fault /\ r.registry = K.registry
    BY <2>1 DEF Kernel
  <2>3. K.state[u] \notin Runnable
    BY <1>1 DEF Runnable
  <2>4. KernelConsistent(r)
    BY <2>2, <2>3, PriorityConsistent
  <2>5. QED  BY <2>2, <2>4 DEF r
<1>2. CASE K.state[u] = "READY"
  <2> DEFINE o == remove_ready(K, u)
             d == [o EXCEPT !.priority[u] = p, !.base_priority[u] = p]
  <2>1. o \in Kernel /\ o.registry = K.registry
    BY RemoveReadyType, RegistryKept
  <2>2. r = add_ready(d, u)
    BY <1>2 DEF set_priority
  <2> HIDE DEF o, r
  <2>3. /\ d \in Kernel /\ d.state = o.state
        /\ d.priority = [o.priority EXCEPT ![u] = p]
        /\ d.delay_ticks = o.delay_ticks /\ d.wait_list = o.wait_list
        /\ d.ready = o.ready /\ d.bitmap = o.bitmap /\ d.delay = o.delay
        /\ d.waiters = o.waiters /\ d.fault = o.fault /\ d.registry = o.registry
    BY <2>1 DEF Kernel
  <2> HIDE DEF d
  <2>4. o = remove_ready(K, u)
    BY DEF o
  <2>5. KernelConsistent(r) /\ Requeued(K, r, u, p)
    BY <1>2, <2>2, <2>3, <2>4, RequeueEffect
  <2>6. r.registry = K.registry
    BY <2>1, <2>2, <2>3, RegistryKept
  <2>7. QED  BY <2>5, <2>6 DEF Requeued, r
<1>3. QED  BY <1>1, <1>2

-----------------------------------------------------------------------------
(***************************************************************************)
(* The invariant of the life cycle, which holds as long as no call is      *)
(* misdirected.  It asks of the application that it does not block under   *)
(* the lock and does not mix set_priority with time slicing.               *)
(*                                                                         *)
(* SchedInv itself does not hold: a task woken before it was switched away *)
(* from is current and READY, so that it can suspend or delete itself and  *)
(* goes on executing until its yield or, under the lock, until the unlock. *)
(***************************************************************************)
Careful ==
    /\ Disciplined
    /\ TimeSlicing => "set_priority" \notin TaskCalls

PendingCall == [call : TaskApi \cup {"none", "yield"}, target : Task \cup {None}]

\* A task in a call is between the call's test and its critical section, or
\* about to yield; it may have been preempted there.
PendingInv ==
    \A t \in Task : pending[t] # NoCall =>
        /\ pc[t] = "user"
        /\ pending[t].call = "yield" \/ pending[t].target \in Task \ {Idle}

\* The history and the registry agree with the control blocks.
LifeLists ==
    /\ suspended = {t \in Task : k.state[t] = "SUSPENDED"}
    /\ k.registry = {t \in Task : k.state[t] \notin {"ABSENT", "TERMINATED"}}

\* No runnable task exceeds the priority of cur.
Highest(kern, cur) ==
    \A t \in Task : kern.state[t] \in Runnable => kern.priority[t] <= kern.priority[cur]

\* The current task is to be preempted: the switch is due or on its way.
DueInv ==
    is_running =>
        \/ Highest(k, current)
        \/ pendsv
        \/ pc[current] \in {"switch", "reschedule"}
        \/ isr \in {"scan", "switch"} /\ need_reschedule
        \/ lock_nesting > 0 /\ reschedule_pending

\* A current task that is not runnable is about to lose the CPU, or to yield, or
\* holds the lock and has asked for the switch.
LeavingInv ==
    /\ pendsv => lock_nesting = 0
    /\ is_running /\ k.state[current] \notin Runnable =>
        \/ pendsv
        \/ pc[current] = "switch"
        \/ pending[current].call = "yield"
        \/ lock_nesting > 0 /\ reschedule_pending

\* Nobody waits for an event.
NoWaits == \A t \in Task : pc[t] \in {"user", "switch", "reschedule"}

TaskInv ==
    /\ SchedCore
    /\ pending \in [Task -> PendingCall]
    /\ PendingInv
    /\ LifeLists
    /\ DueInv
    /\ LeavingInv
    /\ NoWaits

LEMMA TaskInit_Inv == TaskInit => TaskInv
<1> SUFFICES ASSUME TaskInit PROVE TaskInv
  OBVIOUS
<1>1. Init /\ SchedCore
  BY InitSafe, CoreOfSched DEF TaskInit
<1>2. pending = [t \in Task |-> NoCall] /\ suspended = {} /\ ~is_running /\ ~pendsv
  BY <1>1 DEF TaskInit, Init
<1>3. NoCall \in PendingCall
  BY DEF NoCall, PendingCall
<1>4. k.registry = {Idle}
  <2> DEFINE e == [ state         |-> [t \in Task |-> "ABSENT"],
                    priority      |-> [t \in Task |-> 0],
                    base_priority |-> [t \in Task |-> 0],
                    delay_ticks   |-> [t \in Task |-> 0],
                    wait_list     |-> [t \in Task |-> None],
                    registry      |-> {},
                    ready         |-> [p \in Priority |-> <<>>],
                    bitmap        |-> {},
                    delay         |-> <<>>,
                    waiters       |-> [w \in WaitList |-> <<>>],
                    fault         |-> {} ]
  <2>1. e \in Kernel /\ e.registry = {}
    BY PriorityType, KernelAssumption DEF Kernel, TaskState
  <2>2. InitKernel = create_static(e, Idle, 0)
    BY DEF InitKernel
  <2> HIDE DEF e
  <2>3. InitKernel.registry = {Idle}
    BY <2>1, <2>2, RegistryKept, PriorityType, KernelAssumption
  <2>4. QED  BY <1>1, <2>3 DEF Init
<1>5. \A t \in Task : k.state[t] = IF t = Idle THEN "READY" ELSE "ABSENT"
  BY <1>1, InitKernelEffect DEF Init
<1>6. LifeLists
  BY <1>2, <1>4, <1>5, KernelAssumption DEF LifeLists
<1>7. PendingInv /\ DueInv /\ LeavingInv
  BY <1>2 DEF PendingInv, DueInv, LeavingInv
<1>8. NoWaits
  BY <1>1 DEF Init, NoWaits
<1>9. QED  BY <1>1, <1>2, <1>3, <1>6, <1>7, <1>8 DEF TaskInv

\* What is known while a task executes.
LEMMA TaskExecuting ==
  ASSUME TaskInv, NEW t \in Task, Executing(t)
  PROVE  /\ current = t /\ is_running /\ ~pendsv /\ isr = "none" /\ scan = <<>> /\ k.fault = {}
         /\ k \in Kernel /\ KernelConsistent(k) /\ k.state[t] # "ABSENT" /\ TasksOf(k, t)
         /\ lock_nesting \in Nat /\ pc \in [Task -> TaskPc] /\ pending \in [Task -> PendingCall]
         /\ pc[t] # "user" => pending[t] = NoCall
         /\ pc[t] = "user" =>
              \/ Highest(k, t) /\ (pending[t].call = "yield" \/ k.state[t] \in Runnable)
              \/ lock_nesting > 0 /\ reschedule_pending
         /\ pc[t] = "user" /\ pending[t] = NoCall =>
              \/ Highest(k, t) /\ k.state[t] \in Runnable
              \/ lock_nesting > 0 /\ reschedule_pending
         /\ pc[t] = "reschedule" =>
              \/ k.state[t] \in Runnable
              \/ lock_nesting > 0 /\ reschedule_pending
<1>1. current = t /\ is_running /\ ~pendsv /\ isr = "none" /\ k.fault = {}
  BY DEF Executing
<1>2. /\ scan = <<>> /\ k \in Kernel /\ KernelConsistent(k) /\ k.state[t] # "ABSENT"
      /\ TasksOf(k, t) /\ lock_nesting \in Nat /\ pc \in [Task -> TaskPc]
      /\ pending \in [Task -> PendingCall]
  BY <1>1, SchedulerAssumption DEF TaskInv, SchedCore, TypeOK, ScanInv, StartedInv, TasksInv, TasksOf
<1>3. pc[t] # "user" => pending[t] = NoCall
  BY DEF TaskInv, PendingInv
<1>4. NoCall.call # "yield"
  BY DEF NoCall
<1>5. QED  BY <1>1, <1>2, <1>3, <1>4 DEF TaskInv, DueInv, LeavingInv

\* A step of task t that ends its call, or that it makes outside one.
LEMMA PendingStep ==
  ASSUME PendingInv, NEW t \in Task, NEW l, pc \in [Task -> TaskPc], pc' = [pc EXCEPT ![t] = l],
         \A x \in Task \ {t} : pending'[x] = pending[x], pending'[t] = NoCall
  PROVE  PendingInv'
BY DEF PendingInv

\* A step of the scheduler that leaves the states and priorities alone.
LEMMA SameTasks ==
  ASSUME TaskInv, TypeOK', is_running, UNCHANGED <<current, is_running, suspended>>,
         KernelConsistent(k'), k'.state = k.state, k'.priority = k.priority,
         k'.registry = k.registry, k'.fault = k.fault, ScanInv'
  PROVE  SchedCore' /\ LifeLists' /\ (Highest(k, current) => Highest(k', current))
<1>1. StartedInv' /\ TasksInv'
  BY DEF TaskInv, SchedCore, StartedInv, TasksInv
<1>2. LifeLists'
  BY DEF TaskInv, LifeLists
<1>3. QED  BY <1>1, <1>2 DEF TaskInv, SchedCore, Highest

\* A step of the scheduler that makes task u ready.
LEMMA ReadyStep ==
  ASSUME TaskInv, TypeOK', NEW u \in Task, NEW p \in Priority,
         k.state[u] \notin Runnable, MadeReady(k, k', u, p), TimeSlicing => p = Prio[u],
         current' = current, k'.registry = k.registry \cup {u}, suspended' = suspended \ {u},
         StartedInv', ScanInv'
  PROVE  /\ SchedCore' /\ LifeLists'
         /\ \A v \in Task : k'.state[v] = IF v = u THEN "READY" ELSE k.state[v]
<1>1. k \in Kernel /\ k' \in Kernel /\ KernelConsistent(k) /\ TasksOf(k, current) /\ k.fault = {}
  BY DEF TaskInv, SchedCore, TypeOK, TasksInv, TasksOf
<1>2. /\ KernelConsistent(k') /\ TasksOf(k', current) /\ k'.fault = k.fault
      /\ \A v \in Task : k'.state[v] = IF v = u THEN "READY" ELSE k.state[v]
  BY <1>1, ReadyTasks
<1>3. TasksInv'
  BY <1>2 DEF TasksInv, TasksOf
<1>4. LifeLists'
  BY <1>2 DEF TaskInv, LifeLists
<1>5. QED  BY <1>1, <1>2, <1>3, <1>4 DEF SchedCore

-----------------------------------------------------------------------------
(* Its steps.                                                              *)

LEMMA CreateFromMainLife ==
  ASSUME TaskInv, TypeOK', NEW u \in Task, CreateFromMain(u), UNCHANGED life_vars
  PROVE  TaskInv'
<1>1. /\ ~is_running /\ k.state[u] = "ABSENT" /\ k' = create_static(k, u, Prio[u])
      /\ UNCHANGED <<current, is_running, lock_vars, pendsv, tick_vars, pc, pending, suspended>>
  BY DEF CreateFromMain, life_vars
<1>2. k \in Kernel /\ KernelConsistent(k) /\ Prio[u] \in Priority
  BY ConstantTypes DEF TaskInv, SchedCore, TypeOK
<1>3. MadeReady(k, k', u, Prio[u]) /\ k'.registry = k.registry \cup {u}
  BY <1>1, <1>2, CreateEffect, RegistryKept
<1>4. StartedInv' /\ scan' = <<>>
  BY <1>1 DEF TaskInv, SchedCore, StartedInv, ScanInv, lock_vars, tick_vars
<1>5. ScanInv'
  BY <1>4 DEF ScanInv, IsInjective, Contains
<1>6. k.state[u] \notin Runnable /\ suspended' = suspended \ {u}
  BY <1>1 DEF Runnable, TaskInv, LifeLists
<1>7. SchedCore' /\ LifeLists'
  BY <1>1, <1>2, <1>3, <1>4, <1>5, <1>6, ReadyStep
<1>8. PendingInv'
  BY <1>1 DEF TaskInv, PendingInv
<1>9. DueInv' /\ LeavingInv' /\ NoWaits'
  BY <1>1 DEF TaskInv, DueInv, LeavingInv, NoWaits, lock_vars
<1>10. QED  BY <1>1, <1>7, <1>8, <1>9 DEF TaskInv

\* The head of the highest queue gets the CPU.
LEMMA SwitchLife ==
  ASSUME TaskInv, TypeOK', is_running', current' = select_next_task(k), isr = "none",
         lock_nesting = 0, lock_nesting' = 0, ~pendsv',
         k' = perform_switch(k, current, select_next_task(k)),
         UNCHANGED <<tick_vars, pc, life_vars>>
  PROVE  TaskInv'
<1> DEFINE next == select_next_task(k)
<1>1. /\ k \in Kernel /\ KernelConsistent(k) /\ next \in Task /\ k.state[next] \in Runnable
      /\ \A t \in Task : k.state[t] \in Runnable => k.priority[t] <= k.priority[next]
  BY SelectCore DEF TaskInv
<1>2. current' = next /\ k' = perform_switch(k, current, next) /\ k.fault = {}
      /\ TasksOf(k, current) /\ scan = <<>>
  BY DEF TaskInv, SchedCore, TasksInv, TasksOf, ScanInv
<1> HIDE DEF next
<1>3. /\ KernelConsistent(k') /\ k'.priority = k.priority /\ k'.delay = k.delay
      /\ k'.fault = k.fault
      /\ \A t \in Task : k'.state[t] = IF t = next THEN "RUNNING"
                                       ELSE IF t = current /\ k.state[t] = "RUNNING" THEN "READY"
                                       ELSE k.state[t]
  BY <1>1, <1>2, PerformSwitchEffect
<1>4. k'.registry = k.registry
  BY <1>1, <1>2, RegistryKept
<1>5. \A t \in Task : /\ k'.state[t] \in Runnable <=> k.state[t] \in Runnable
                      /\ k'.state[t] \notin Runnable => k'.state[t] = k.state[t]
  BY <1>1, <1>3 DEF Runnable
<1>6. Highest(k', next) /\ k'.state[next] \in Runnable
  BY <1>1, <1>3, <1>5 DEF Highest, Runnable
<1>7. StartedInv'
  BY <1>1, <1>2, <1>3 DEF StartedInv
<1>8. TasksInv'
  <2>1. Idle \in Task /\ k.state[next] # "ABSENT"
    BY <1>1, KernelAssumption DEF Runnable
  <2>2. QED  BY <2>1, <1>2, <1>3 DEF TasksInv, TasksOf, Runnable
<1>9. ScanInv'
  BY <1>2 DEF ScanInv, tick_vars, IsInjective, Contains
<1>10. SchedCore'
  BY <1>2, <1>3, <1>7, <1>8, <1>9 DEF SchedCore
<1>11. LifeLists'
  <2>1. \A t \in Task : /\ k'.state[t] = "SUSPENDED" <=> k.state[t] = "SUSPENDED"
                        /\ k'.state[t] \in {"ABSENT", "TERMINATED"}
                             <=> k.state[t] \in {"ABSENT", "TERMINATED"}
    BY <1>5 DEF Runnable
  <2>2. UNCHANGED suspended
    BY DEF life_vars
  <2>3. QED  BY <1>4, <2>1, <2>2 DEF TaskInv, LifeLists
<1>12. PendingInv'
  BY DEF TaskInv, PendingInv, life_vars
<1>13. DueInv' /\ LeavingInv' /\ NoWaits'
  BY <1>2, <1>6 DEF DueInv, LeavingInv, NoWaits, TaskInv
<1>14. QED  BY <1>10, <1>11, <1>12, <1>13 DEF TaskInv, life_vars

LEMMA StartLife ==
  ASSUME TaskInv, TypeOK', Start, UNCHANGED life_vars
  PROVE  TaskInv'
<1>1. ~is_running /\ isr = "none" /\ lock_nesting = 0 /\ ~pendsv
  BY DEF Start, TaskInv, SchedCore, StartedInv
<1>2. QED  BY <1>1, SwitchLife DEF Start, lock_vars

LEMMA PendSVLife ==
  ASSUME TaskInv, TypeOK', PendSV, UNCHANGED life_vars
  PROVE  TaskInv'
<1>1. select_next_task(k) # None
  BY SelectCore DEF TaskInv
<1>2. lock_nesting = 0 /\ is_running
  BY DEF PendSV, TaskInv, LeavingInv, SchedCore, StartedInv
<1>3. QED  BY <1>1, <1>2, SwitchLife DEF PendSV, lock_vars

LEMMA TickEnterLife ==
  ASSUME TaskInv, TypeOK', TickEnter, UNCHANGED life_vars
  PROVE  TaskInv'
<1>1. /\ is_running /\ isr = "none" /\ isr' = "scan" /\ scan' = k.delay
      /\ UNCHANGED <<k, current, is_running, lock_nesting, reschedule_pending, pendsv, pc, pending, suspended>>
  BY DEF TickEnter, lock_vars, life_vars
<1>2. ScanInv'
  BY <1>1 DEF ScanInv, TaskInv, SchedCore, KernelConsistent, ListsInjective
<1>3. KernelConsistent(k')
  BY <1>1 DEF TaskInv, SchedCore
<1>4. SchedCore' /\ LifeLists'
  BY <1>1, <1>2, <1>3, SameTasks
<1>5. PendingInv'
  BY <1>1 DEF TaskInv, PendingInv
<1>6. DueInv' /\ LeavingInv' /\ NoWaits'
  BY <1>1 DEF TaskInv, DueInv, LeavingInv, NoWaits
<1>7. QED  BY <1>1, <1>4, <1>5, <1>6 DEF TaskInv

LEMMA TickScanLife ==
  ASSUME TaskInv, TypeOK', TickScan, UNCHANGED life_vars
  PROVE  TaskInv'
<1> DEFINE t == Head(scan)
<1>1. /\ isr = "scan" /\ scan # <<>> /\ k' = delayed_task_tick(k, t) /\ scan' = Tail(scan)
      /\ UNCHANGED <<current, is_running, lock_nesting, reschedule_pending, pendsv, isr, pc, pending, suspended>>
  BY DEF TickScan, lock_vars, life_vars
<1>2. /\ k \in Kernel /\ k' \in Kernel /\ scan \in Seq(Task)
      /\ KernelConsistent(k) /\ k.fault = {} /\ TasksOf(k, current) /\ is_running
      /\ IsInjective(scan) /\ \A u \in Task : Contains(scan, u) => Contains(k.delay, u)
  BY <1>1 DEF TaskInv, SchedCore, TypeOK, TasksInv, TasksOf, ScanInv, StartedInv
<1>3. t \in Task /\ Contains(scan, t) /\ Contains(k.delay, t)
  BY <1>1, <1>2, HeadElement
<1>4. /\ IsInjective(Tail(scan))
      /\ \A u : Contains(Tail(scan), u) => Contains(scan, u) /\ u # t
  BY <1>1, <1>2, TailElements
<1>5. k'.registry = k.registry
  BY <1>1, <1>2, <1>3, RegistryKept
<1> HIDE DEF t
<1>6. CASE k.delay_ticks[t] > 1
  <2>1. k' = [k EXCEPT !.delay_ticks[t] = @ - 1] /\ KernelConsistent(k')
    BY <1>1, <1>2, <1>3, <1>6, CountdownConsistent
  <2>2. /\ k'.state = k.state /\ k'.priority = k.priority /\ k'.delay = k.delay
        /\ k'.fault = k.fault
    BY <2>1, <1>2 DEF Kernel
  <2>3. UNCHANGED need_reschedule
    BY <1>6 DEF TickScan, t
  <2>4. ScanInv'
    BY <1>1, <1>2, <1>4, <2>2 DEF ScanInv
  <2>5. SchedCore' /\ LifeLists' /\ (Highest(k, current) => Highest(k', current))
    BY <1>1, <1>2, <1>5, <2>1, <2>2, <2>4, SameTasks
  <2>6. PendingInv'
    BY <1>1, <2>2 DEF TaskInv, PendingInv
  <2>7. DueInv' /\ LeavingInv' /\ NoWaits'
    BY <1>1, <2>2, <2>3, <2>5 DEF TaskInv, DueInv, LeavingInv, NoWaits
  <2>8. QED  BY <1>1, <2>5, <2>6, <2>7 DEF TaskInv
<1>7. CASE ~(k.delay_ticks[t] > 1)
  <2>1. k.state[t] = "BLOCKED" /\ MadeReady(k, k', t, k.priority[t])
    BY <1>1, <1>2, <1>3, <1>7, ExpireEffect
  <2>2. (TimeSlicing => k.priority[t] = Prio[t]) /\ k.priority[t] \in Priority
    BY <1>2, <1>3, <2>1, FieldTypes DEF TasksOf
  <2>3. need_reschedule' = TRUE
    BY <1>7 DEF TickScan, t
  <2>4. ScanInv'
    <3>1. \A u : Contains(k'.delay, u) <=> (Contains(k.delay, u) /\ u # t)
      <4>1. k'.delay = RemoveFirst(k.delay, t)
        BY <2>1 DEF MadeReady
      <4>2. k.delay \in Seq(Task) /\ IsInjective(k.delay)
        BY <1>2, FieldTypes DEF KernelConsistent, ListsInjective
      <4>3. QED  BY <4>1, <4>2, RemoveElements
    <3>2. QED  BY <1>1, <1>2, <1>4, <3>1 DEF ScanInv
  <2>5. /\ k.state[t] \notin Runnable /\ suspended' = suspended \ {t}
        /\ k'.registry = k.registry \cup {t}
    BY <1>1, <1>3, <1>5, <2>1 DEF Runnable, TaskInv, LifeLists
  <2>6. k'.state = [k.state EXCEPT ![t] = "READY"] /\ k.state \in [Task -> TaskState]
    BY <1>2, <2>1, FieldTypes DEF MadeReady
  <2>7. StartedInv'
    BY <1>1, <1>2, <1>3, <2>6 DEF TaskInv, SchedCore, StartedInv
  <2>8. /\ SchedCore' /\ LifeLists'
        /\ \A v \in Task : k'.state[v] = IF v = t THEN "READY" ELSE k.state[v]
    BY <1>1, <1>3, <2>1, <2>2, <2>4, <2>5, <2>7, ReadyStep
  <2>9. PendingInv'
    BY <1>1, <2>1, <2>8 DEF TaskInv, PendingInv
  <2>10. DueInv'
    BY <1>1, <2>3 DEF DueInv
  <2>11. LeavingInv' /\ NoWaits'
    <3>1. is_running => current \in Task
      BY DEF TaskInv, SchedCore, StartedInv
    <3>2. QED  BY <1>1, <2>8, <3>1 DEF TaskInv, LeavingInv, NoWaits, Runnable
  <2>12. QED  BY <1>1, <2>8, <2>9, <2>10, <2>11 DEF TaskInv
<1>8. QED  BY <1>6, <1>7

LEMMA TickSliceLife ==
  ASSUME Careful, TaskInv, TypeOK', TickSlice, UNCHANGED life_vars
  PROVE  TaskInv'
<1>1. /\ isr = "scan" /\ isr' = "switch" /\ k' = process_time_slicing /\ scan = <<>>
      /\ UNCHANGED <<current, is_running, lock_nesting, reschedule_pending, pendsv, scan, need_reschedule, pc, pending, suspended>>
  BY DEF TickSlice, lock_vars, life_vars
<1>2. is_running /\ k \in Kernel /\ current \in Task
  BY <1>1 DEF TaskInv, SchedCore, StartedInv, TypeOK
<1>3. /\ KernelConsistent(k') /\ k'.state = k.state /\ k'.priority = k.priority
      /\ k'.delay = k.delay /\ k'.fault = k.fault
  BY <1>1, <1>2, SliceCore DEF Careful, TaskInv
<1>4. k'.registry = k.registry
  BY <1>1, <1>2, RegistryKept DEF process_time_slicing
<1>5. ScanInv'
  BY <1>1 DEF ScanInv, IsInjective, Contains
<1>6. SchedCore' /\ LifeLists' /\ (Highest(k, current) => Highest(k', current))
  BY <1>1, <1>2, <1>3, <1>4, <1>5, SameTasks
<1>7. PendingInv'
  BY <1>1, <1>3 DEF TaskInv, PendingInv
<1>8. DueInv' /\ LeavingInv' /\ NoWaits'
  BY <1>1, <1>3, <1>6 DEF TaskInv, DueInv, LeavingInv, NoWaits
<1>9. QED  BY <1>1, <1>6, <1>7, <1>8 DEF TaskInv

\* After switch_context the switch that is due is pending or remembered.
LEMMA SwitchContextDue ==
  ASSUME TaskInv, TypeOK', switch_context(k), is_running, UNCHANGED <<k, current, lock_nesting>>
  PROVE  /\ \/ Highest(k', current')
            \/ pendsv'
            \/ lock_nesting' > 0 /\ reschedule_pending'
         /\ pendsv' => lock_nesting' = 0
         /\ k'.state[current'] \notin Runnable => pendsv' \/ (lock_nesting' > 0 /\ reschedule_pending')
         /\ pendsv => pendsv'
         /\ reschedule_pending => reschedule_pending'
<1>1. lock_nesting \in Nat /\ (pendsv => lock_nesting = 0)
  BY SchedulerAssumption DEF TaskInv, SchedCore, TypeOK, LeavingInv
<1>2. /\ select_next_task(k) # None /\ k.state[select_next_task(k)] \in Runnable
      /\ \A t \in Task : k.state[t] \in Runnable => k.priority[t] <= k.priority[select_next_task(k)]
  BY SelectCore DEF TaskInv
<1>3. CASE lock_nesting > 0
  BY <1>1, <1>3 DEF switch_context
<1>4. CASE ~(lock_nesting > 0)
  <2>1. lock_nesting = 0
    BY <1>1, <1>4
  <2>2. pendsv' <=> (pendsv \/ select_next_task(k) \notin {None, current})
    BY <1>4 DEF switch_context
  <2>3. reschedule_pending => reschedule_pending'
    BY <1>4 DEF switch_context
  <2>4. CASE select_next_task(k) = current
    BY <1>2, <2>1, <2>2, <2>3, <2>4 DEF Highest
  <2>5. CASE select_next_task(k) # current
    BY <1>2, <2>1, <2>2, <2>3, <2>5
  <2>6. QED  BY <2>4, <2>5
<1>5. QED  BY <1>3, <1>4

LEMMA TickSwitchLife ==
  ASSUME TaskInv, TypeOK', TickSwitch, UNCHANGED life_vars
  PROVE  TaskInv'
<1>1. /\ isr = "switch" /\ isr' = "none"
      /\ UNCHANGED <<k, current, is_running, lock_nesting, scan, pc, pending, suspended>>
  BY DEF TickSwitch, life_vars
<1>2. is_running /\ scan = <<>>
  BY <1>1 DEF TaskInv, SchedCore, StartedInv, ScanInv
<1>3. ScanInv' /\ KernelConsistent(k')
  BY <1>1, <1>2 DEF ScanInv, IsInjective, Contains, TaskInv, SchedCore
<1>4. SchedCore' /\ LifeLists'
  BY <1>1, <1>2, <1>3, SameTasks
<1>5. PendingInv'
  BY <1>1 DEF TaskInv, PendingInv
<1>6. DueInv' /\ LeavingInv' /\ NoWaits'
  <2>1. CASE need_reschedule \/ TimeSlicing
    <3>1. switch_context(k)
      BY <2>1 DEF TickSwitch
    <3>2. QED
      BY <1>1, <1>2, <3>1, SwitchContextDue DEF TaskInv, DueInv, LeavingInv, NoWaits
  <2>2. CASE ~(need_reschedule \/ TimeSlicing)
    BY <1>1, <2>2 DEF TickSwitch, TaskInv, DueInv, LeavingInv, NoWaits
  <2>3. QED  BY <2>1, <2>2
<1>7. QED  BY <1>1, <1>4, <1>5, <1>6 DEF TaskInv

LEMMA SwitchContextLife ==
  ASSUME TaskInv, TypeOK', NEW t \in Task, SwitchContext(t), UNCHANGED life_vars
  PROVE  TaskInv'
<1>1. /\ Executing(t) /\ pc[t] \in {"switch", "wait_switch"} /\ switch_context(k)
      /\ pc' = [pc EXCEPT ![t] = IF pc[t] = "switch" THEN "user" ELSE "wait_return"]
      /\ UNCHANGED <<k, current, is_running, lock_nesting, tick_vars, pending, suspended>>
  BY DEF SwitchContext, Goto, life_vars
<1>2. pc[t] = "switch" /\ pc' = [pc EXCEPT ![t] = "user"]
  BY <1>1 DEF TaskInv, NoWaits
<1>3. /\ current = t /\ is_running /\ isr = "none" /\ scan = <<>> /\ pc \in [Task -> TaskPc]
      /\ KernelConsistent(k) /\ pending[t] = NoCall
  BY <1>1, <1>2, TaskExecuting
<1>4. ScanInv'
  BY <1>1, <1>3 DEF ScanInv, IsInjective, Contains, tick_vars
<1>5. SchedCore' /\ LifeLists'
  BY <1>1, <1>3, <1>4, SameTasks
<1>6. PendingInv'
  BY <1>1, <1>2, <1>3, PendingStep DEF TaskInv
<1>7. DueInv' /\ LeavingInv'
  BY <1>1, <1>3, SwitchContextDue DEF DueInv, LeavingInv
<1>8. NoWaits'
  BY <1>2, <1>3 DEF TaskInv, NoWaits
<1>9. QED  BY <1>1, <1>5, <1>6, <1>7, <1>8 DEF TaskInv

LEMMA RescheduleLife ==
  ASSUME TaskInv, TypeOK', NEW t \in Task, Reschedule(t), UNCHANGED life_vars
  PROVE  TaskInv'
<1> DEFINE next == select_next_task(k)
<1>1. /\ Executing(t) /\ pc[t] = "reschedule"
      /\ pc' = [pc EXCEPT ![t] = IF next # None /\ k.priority[next] > k.priority[current]
                                 THEN "switch" ELSE "user"]
      /\ UNCHANGED <<k, current, is_running, lock_nesting, reschedule_pending, pendsv, tick_vars, pending, suspended>>
  BY DEF Reschedule, Goto, life_vars, lock_vars
<1>2. /\ current = t /\ is_running /\ isr = "none" /\ scan = <<>> /\ pc \in [Task -> TaskPc]
      /\ KernelConsistent(k) /\ pending[t] = NoCall
      /\ k.state[t] \in Runnable \/ (lock_nesting > 0 /\ reschedule_pending)
  BY <1>1, TaskExecuting
<1>3. /\ next # None /\ k.priority[next] \in Nat /\ \A x \in Task : k.priority[x] \in Nat
      /\ \A x \in Task : k.state[x] \in Runnable => k.priority[x] <= k.priority[next]
  BY SelectCore DEF TaskInv
<1> HIDE DEF next
<1>4. ScanInv'
  BY <1>1, <1>2 DEF ScanInv, IsInjective, Contains, tick_vars
<1>5. SchedCore' /\ LifeLists'
  BY <1>1, <1>2, <1>4, SameTasks
<1>6. PendingInv'
  BY <1>1, <1>2, PendingStep DEF TaskInv
<1>7. DueInv'
  <2>1. CASE k.priority[next] > k.priority[current]
    BY <1>1, <1>2, <1>3, <2>1 DEF DueInv
  <2>2. CASE ~(k.priority[next] > k.priority[current])
    <3>1. Highest(k, current)
      BY <1>2, <1>3, <2>2 DEF Highest
    <3>2. QED  BY <1>1, <3>1 DEF DueInv
  <2>3. QED  BY <2>1, <2>2
<1>8. LeavingInv'
  BY <1>1, <1>2 DEF TaskInv, LeavingInv
<1>9. NoWaits'
  BY <1>1, <1>2 DEF TaskInv, NoWaits
<1>10. QED  BY <1>1, <1>5, <1>6, <1>7, <1>8, <1>9 DEF TaskInv

\* The calling task made u ready, under a lock or not, and reschedules.
LEMMA ReadyLife ==
  ASSUME TaskInv, TypeOK', NEW t \in Task, NEW u \in Task, NEW p \in Priority,
         Executing(t), pc[t] = "user", pc' = [pc EXCEPT ![t] = "reschedule"],
         k.state[u] \notin Runnable, MadeReady(k, k', u, p), TimeSlicing => p = Prio[u],
         k'.registry = k.registry \cup {u}, suspended' = suspended \ {u},
         \A x \in Task \ {t} : pending'[x] = pending[x], pending'[t] = NoCall,
         pending' \in [Task -> PendingCall],
         pending[t].call # "yield",
         UNCHANGED <<current, is_running, lock_vars, pendsv, tick_vars>>
  PROVE  TaskInv'
<1>1. /\ current = t /\ is_running /\ ~pendsv /\ isr = "none" /\ scan = <<>>
      /\ k \in Kernel /\ k.state[t] # "ABSENT" /\ pc \in [Task -> TaskPc]
      /\ lock_nesting \in Nat
  BY TaskExecuting
<1>2. k'.state = [k.state EXCEPT ![u] = "READY"] /\ k.state \in [Task -> TaskState]
  BY <1>1, FieldTypes DEF MadeReady
<1>3. StartedInv' /\ ScanInv'
  BY <1>1, <1>2 DEF StartedInv, ScanInv, IsInjective, Contains, tick_vars
<1>4. /\ SchedCore' /\ LifeLists'
      /\ \A v \in Task : k'.state[v] = IF v = u THEN "READY" ELSE k.state[v]
  BY <1>3, ReadyStep
<1>5. PendingInv'
  BY <1>1, PendingStep DEF TaskInv
<1>6. DueInv' /\ NoWaits'
  BY <1>1 DEF TaskInv, DueInv, NoWaits
<1>7. LeavingInv'
  BY <1>1, <1>4 DEF TaskInv, LeavingInv, Runnable, lock_vars
<1>8. QED  BY <1>4, <1>5, <1>6, <1>7 DEF TaskInv

LEMMA CreateLife ==
  ASSUME TaskInv, TypeOK', NEW t \in Task, NEW u \in Task, Create(t, u), pending[t] = NoCall,
         UNCHANGED life_vars
  PROVE  TaskInv'
<1>1. /\ Executing(t) /\ pc[t] = "user" /\ pc' = [pc EXCEPT ![t] = "reschedule"]
      /\ k.state[u] = "ABSENT" /\ k' = create_static(k, u, Prio[u])
      /\ UNCHANGED <<current, is_running, lock_vars, pendsv, tick_vars, pending, suspended>>
  BY DEF Create, InUser, AtUser, Goto, life_vars
<1>2. k \in Kernel /\ KernelConsistent(k) /\ Prio[u] \in Priority
  BY ConstantTypes DEF TaskInv, SchedCore, TypeOK
<1>3. MadeReady(k, k', u, Prio[u]) /\ k'.registry = k.registry \cup {u}
  BY <1>1, <1>2, CreateEffect, RegistryKept
<1>4. k.state[u] \notin Runnable /\ suspended' = suspended \ {u}
  BY <1>1 DEF Runnable, TaskInv, LifeLists
<1>5. /\ (\A x \in Task \ {t} : pending'[x] = pending[x]) /\ pending'[t] = NoCall
      /\ pending' \in [Task -> PendingCall] /\ pending[t].call # "yield"
  BY <1>1, TaskExecuting DEF NoCall
<1>6. QED  BY <1>1, <1>2, <1>3, <1>4, <1>5, ReadyLife

\* A yield, by a call of its own or at the end of suspend or delete.
LEMMA YieldLife ==
  ASSUME Careful, TaskInv, TypeOK', NEW t \in Task, Executing(t), pc[t] = "user",
         pc' = [pc EXCEPT ![t] = "switch"], k' = process_time_slicing,
         \A x \in Task \ {t} : pending'[x] = pending[x], pending'[t] = NoCall,
         pending' \in [Task -> PendingCall],
         UNCHANGED <<current, is_running, lock_vars, pendsv, tick_vars, suspended>>
  PROVE  TaskInv'
<1>1. /\ current = t /\ is_running /\ isr = "none" /\ scan = <<>>
      /\ k \in Kernel /\ pc \in [Task -> TaskPc]
  BY TaskExecuting
<1>2. /\ KernelConsistent(k') /\ k'.state = k.state /\ k'.priority = k.priority
      /\ k'.delay = k.delay /\ k'.fault = k.fault
  BY <1>1, SliceCore DEF Careful, TaskInv
<1>3. k'.registry = k.registry
  BY <1>1, RegistryKept DEF process_time_slicing
<1>4. ScanInv'
  BY <1>1 DEF ScanInv, IsInjective, Contains, tick_vars
<1>5. SchedCore' /\ LifeLists'
  BY <1>1, <1>2, <1>3, <1>4, SameTasks
<1>6. PendingInv'
  BY <1>1, PendingStep DEF TaskInv
<1>7. DueInv' /\ LeavingInv' /\ NoWaits'
  BY <1>1 DEF TaskInv, DueInv, LeavingInv, NoWaits, lock_vars
<1>8. QED  BY <1>5, <1>6, <1>7 DEF TaskInv

LEMMA DelayLife ==
  ASSUME Careful, TaskInv, TypeOK', NEW t \in Task, NEW n \in 1 .. MaxDelay, Delay(t, n),
         pending[t] = NoCall, UNCHANGED life_vars
  PROVE  TaskInv'
<1>1. /\ Executing(t) /\ pc[t] = "user" /\ t # Idle /\ MayBlock
      /\ pc' = [pc EXCEPT ![t] = "switch"] /\ k' = block_on_delay(k, t, n)
      /\ UNCHANGED <<current, is_running, lock_nesting, reschedule_pending, pendsv, tick_vars, pending, suspended>>
  BY DEF Delay, InUser, AtUser, Goto, life_vars, lock_vars
<1>2. lock_nesting = 0
  BY <1>1 DEF MayBlock, Careful, Disciplined
<1>3. /\ current = t /\ is_running /\ isr = "none" /\ scan = <<>> /\ k.fault = {} /\ TasksOf(k, t)
      /\ k \in Kernel /\ KernelConsistent(k) /\ pc \in [Task -> TaskPc]
      /\ k.state[t] \in Runnable
  BY <1>1, <1>2, TaskExecuting
<1>4. MadeBlocked(k, k', t, None, n)
  BY <1>1, <1>3, BlockOnDelayEffect
<1>5. n \in 0 .. MaxDelay /\ n > 0 /\ None \in WaitList \cup {None}
  BY KernelAssumption
<1>6. k' \in Kernel
  BY DEF TypeOK
<1>7. KernelConsistent(k') /\ TasksOf(k', t) /\ k'.fault = k.fault /\ k'.state[t] = "BLOCKED"
  BY <1>1, <1>3, <1>4, <1>5, <1>6, BlockedTasks
<1>8. \A u \in Task : k'.state[u] = IF u = t THEN "BLOCKED" ELSE k.state[u]
  <2>1. k.state \in [Task -> TaskState]
    BY <1>3, FieldTypes
  <2>2. QED  BY <1>4, <2>1 DEF MadeBlocked
<1>9. StartedInv' /\ TasksInv' /\ ScanInv'
  BY <1>1, <1>3, <1>7 DEF StartedInv, TasksInv, TasksOf, ScanInv, tick_vars, IsInjective, Contains
<1>10. SchedCore'
  BY <1>3, <1>7, <1>9 DEF SchedCore
<1>11. LifeLists'
  <2>1. k'.registry = k.registry
    BY <1>1, <1>3, RegistryKept
  <2>2. QED  BY <1>1, <1>3, <1>8, <2>1 DEF TaskInv, LifeLists, Runnable
<1>12. PendingInv'
  BY <1>1, <1>3, PendingStep DEF TaskInv
<1>13. DueInv' /\ LeavingInv' /\ NoWaits'
  BY <1>1, <1>2, <1>3 DEF TaskInv, DueInv, LeavingInv, NoWaits
<1>14. QED  BY <1>1, <1>10, <1>11, <1>12, <1>13 DEF TaskInv

LEMMA LockLife ==
  ASSUME TaskInv, TypeOK', NEW t \in Task, Lock(t) \/ Unlock(t), pending[t] = NoCall,
         UNCHANGED life_vars
  PROVE  TaskInv'
<1>1. /\ Executing(t) /\ pc[t] = "user"
      /\ UNCHANGED <<k, current, is_running, pendsv, tick_vars, pending, suspended>>
  BY DEF Lock, Unlock, InUser, AtUser, life_vars
<1>2. /\ current = t /\ is_running /\ ~pendsv /\ isr = "none" /\ scan = <<>>
      /\ KernelConsistent(k) /\ pc \in [Task -> TaskPc] /\ lock_nesting \in Nat
      /\ \/ Highest(k, t) /\ k.state[t] \in Runnable
         \/ lock_nesting > 0 /\ reschedule_pending
  BY <1>1, TaskExecuting
<1>3. ScanInv'
  BY <1>1, <1>2 DEF ScanInv, IsInjective, Contains, tick_vars
<1>4. SchedCore' /\ LifeLists'
  BY <1>1, <1>2, <1>3, SameTasks
<1>5. PendingInv'
  <2>1. PICK l : pc' = [pc EXCEPT ![t] = l]
    <3>1. pc' = pc \/ \E l : pc' = [pc EXCEPT ![t] = l]
      BY DEF Lock, Unlock, Goto
    <3>2. pc = [pc EXCEPT ![t] = pc[t]]
      BY <1>2
    <3>3. QED  BY <3>1, <3>2
  <2>2. QED  BY <1>1, <1>2, <2>1, PendingStep DEF TaskInv
<1>6. CASE Lock(t)
  <2>1. lock_nesting' = lock_nesting + 1 /\ UNCHANGED <<reschedule_pending, pc>>
    BY <1>6 DEF Lock
  <2>2. lock_nesting' > 0
    BY <1>2, <2>1
  <2>3. DueInv' /\ LeavingInv' /\ NoWaits'
    BY <1>1, <1>2, <2>1, <2>2 DEF TaskInv, DueInv, LeavingInv, NoWaits
  <2>4. QED  BY <1>1, <1>4, <1>5, <2>3 DEF TaskInv
<1>7. CASE Unlock(t)
  <2>1. lock_nesting > 0 /\ lock_nesting' = lock_nesting - 1
    BY <1>7 DEF Unlock
  <2>2. CASE lock_nesting = 1 /\ reschedule_pending
    <3>1. pc' = [pc EXCEPT ![t] = "switch"]
      BY <1>7, <2>2 DEF Unlock, Goto
    <3>2. DueInv' /\ LeavingInv' /\ NoWaits'
      BY <1>1, <1>2, <3>1 DEF TaskInv, DueInv, LeavingInv, NoWaits
    <3>3. QED  BY <1>1, <1>4, <1>5, <3>2 DEF TaskInv
  <2>3. CASE ~(lock_nesting = 1 /\ reschedule_pending)
    <3>1. UNCHANGED <<reschedule_pending, pc>>
      BY <1>7, <2>3 DEF Unlock
    <3>2. reschedule_pending => lock_nesting' > 0
      BY <1>2, <2>1, <2>3
    <3>3. DueInv' /\ LeavingInv' /\ NoWaits'
      BY <1>1, <1>2, <3>1, <3>2 DEF TaskInv, DueInv, LeavingInv, NoWaits
    <3>4. QED  BY <1>1, <1>4, <1>5, <3>3 DEF TaskInv
  <2>4. QED  BY <2>2, <2>3
<1>8. QED  BY <1>6, <1>7

\* The test of a call.
LEMMA CheckLife ==
  ASSUME TaskInv, NEW t \in Task, NEW u \in Task,
         NEW call \in {"suspend", "resume", "delete"}, Check(t, u, call)
  PROVE  TaskInv'
<1>1. /\ Executing(t) /\ pc[t] = "user" /\ pending[t] = NoCall /\ u # Idle
      /\ pending' = [pending EXCEPT ![t] = [call |-> call, target |-> u]]
      /\ UNCHANGED <<vars, suspended>>
  BY DEF Check, AtTask, AtUser
<1>2. /\ current = t /\ is_running /\ pending \in [Task -> PendingCall]
      /\ \/ Highest(k, t) /\ k.state[t] \in Runnable
         \/ lock_nesting > 0 /\ reschedule_pending
  BY <1>1, TaskExecuting
<1>3. SchedCore' /\ LifeLists' /\ NoWaits'
  BY <1>1 DEF TaskInv, SchedCore, LifeLists, NoWaits, vars, lock_vars, tick_vars, wait_vars,
              TypeOK, StartedInv, TasksInv, ScanInv
<1>4. UNCHANGED <<k, current, is_running, lock_nesting, reschedule_pending, pendsv, pc, isr, need_reschedule>>
  BY <1>1 DEF vars, lock_vars, tick_vars
<1>5. [call |-> call, target |-> u] \in PendingCall
  BY DEF PendingCall, TaskApi
<1>6. /\ pending' \in [Task -> PendingCall]
      /\ \A x \in Task \ {t} : pending'[x] = pending[x]
      /\ pending'[t].call = call /\ pending'[t].target = u
  BY <1>1, <1>2, <1>5
<1>7. PendingInv'
  BY <1>1, <1>4, <1>6 DEF TaskInv, PendingInv
<1>8. DueInv' /\ LeavingInv'
  BY <1>2, <1>4 DEF TaskInv, DueInv, LeavingInv, Highest
<1>9. QED  BY <1>3, <1>6, <1>7, <1>8 DEF TaskInv

\* suspend and delete take task u, READY or SUSPENDED, off its queue; a caller
\* that does so to itself goes on to yield.
LEMMA UnqueueLife ==
  ASSUME TaskInv, NEW t \in Task, NEW u \in Task, u # Idle, NEW s \in {"SUSPENDED", "TERMINATED"},
         Executing(t), pc[t] = "user", k.state[u] \in {"READY", "SUSPENDED"},
         pending[t].call # "yield", YieldIfCurrent(t, u),
         NEW g \in SUBSET Task, NEW r, k' = r, Unqueued(r, u, s, g),
         r.registry = IF s = "SUSPENDED" THEN k.registry ELSE k.registry \ {u},
         suspended' = IF s = "SUSPENDED" THEN suspended \cup {u} ELSE suspended \ {u},
         UNCHANGED <<current, is_running, lock_vars, pendsv, tick_vars, pc, wait_vars>>
  PROVE  TaskInv'
<1>1. /\ current = t /\ is_running /\ ~pendsv /\ isr = "none" /\ scan = <<>> /\ k.fault = {}
      /\ k \in Kernel /\ KernelConsistent(k) /\ k.state[t] # "ABSENT" /\ TasksOf(k, t)
      /\ pending \in [Task -> PendingCall] /\ pc \in [Task -> TaskPc]
      /\ \/ Highest(k, t) /\ k.state[t] \in Runnable
         \/ lock_nesting > 0 /\ reschedule_pending
  BY TaskExecuting
<1>2. Parted(r, u, s)
  BY <1>1, UnqueueEffect
<1>3. /\ k' \in Kernel /\ KernelConsistent(k')
      /\ \A x \in Task : k'.state[x] = IF x = u THEN s ELSE k.state[x]
      /\ k'.priority = k.priority /\ k'.delay = k.delay /\ k'.fault = k.fault
  BY <1>2, Zenon DEF Parted
<1>4. TypeOK'
  BY <1>3 DEF TaskInv, SchedCore, TypeOK, lock_vars, tick_vars, wait_vars
<1>5. StartedInv' /\ ScanInv'
  BY <1>1, <1>3 DEF StartedInv, ScanInv, IsInjective, Contains, tick_vars
<1>6. TasksInv'
  BY <1>1, <1>3, KernelAssumption DEF TasksInv, TasksOf, Runnable
<1>7. SchedCore'
  BY <1>1, <1>3, <1>4, <1>5, <1>6 DEF SchedCore
<1>8. LifeLists'
  <2>1. CASE s = "SUSPENDED"
    BY <1>3, <2>1 DEF TaskInv, LifeLists
  <2>2. CASE s = "TERMINATED"
    BY <1>3, <2>2 DEF TaskInv, LifeLists
  <2>3. QED  BY <2>1, <2>2
<1>9. /\ \A x \in Task \ {t} : pending'[x] = pending[x]
      /\ u = t => pending'[t] = [call |-> "yield", target |-> None]
      /\ u # t => pending'[t] = NoCall
      /\ pending' \in [Task -> PendingCall]
  <2>1. [call |-> "yield", target |-> None] \in PendingCall /\ NoCall \in PendingCall
    BY DEF PendingCall, NoCall
  <2>2. QED  BY <1>1, <2>1 DEF YieldIfCurrent
<1>10. NoCall.call # "yield" /\ [call |-> "yield", target |-> None].call = "yield"
  BY DEF NoCall
<1>11. PendingInv'
  BY <1>9, <1>10 DEF TaskInv, PendingInv
<1>12. DueInv' /\ LeavingInv'
  <2>1. Highest(k, t) => Highest(k', t)
    BY <1>3 DEF Highest, Runnable
  <2>2. u # t => k'.state[t] = k.state[t]
    BY <1>3
  <2>3. DueInv'
    BY <1>1, <2>1 DEF DueInv, lock_vars
  <2>4. LeavingInv'
    BY <1>1, <1>9, <1>10, <2>2 DEF LeavingInv, lock_vars
  <2>5. QED  BY <2>3, <2>4
<1>13. NoWaits'
  BY DEF TaskInv, NoWaits
<1>14. QED  BY <1>7, <1>8, <1>9, <1>11, <1>12, <1>13 DEF TaskInv

\* What is known of the target of a call that enters its critical section and
\* is not misdirected.
LEMMA CommitFacts ==
  ASSUME TaskInv, NEW t \in Task, NEW call \in {"suspend", "resume", "delete"}, Commits(t, call),
         Aims(pending[t].target, call), ~misdirected'
  PROVE  /\ Executing(t) /\ pc[t] = "user" /\ pending[t].call = call
         /\ pending[t].target \in Task \ {Idle}
         /\ k.state[pending[t].target] \in {"READY", "SUSPENDED"}
         /\ call = "resume" => k.state[pending[t].target] = "SUSPENDED"
<1>1. Executing(t) /\ pc[t] = "user" /\ pending[t].call = call
  BY DEF Commits
<1>2. pending[t] # NoCall
  BY <1>1 DEF NoCall
<1>3. pending[t].target \in Task \ {Idle}
  BY <1>1, <1>2 DEF TaskInv, PendingInv
<1>4. k.state[pending[t].target] \in Handles(call)
  BY DEF Aims
<1>5. QED  BY <1>1, <1>3, <1>4 DEF Handles

LEMMA SuspendLife ==
  ASSUME TaskInv, ~misdirected', NEW t \in Task, Suspend(t)
  PROVE  TaskInv'
<1>1. PICK u \in Task : /\ u = pending[t].target /\ u # Idle
                        /\ k.state[u] \in {"READY", "SUSPENDED"}
  BY CommitFacts DEF Suspend
<1>2. /\ Executing(t) /\ pc[t] = "user" /\ pending[t].call # "yield"
  BY CommitFacts DEF Suspend
<1>3. /\ YieldIfCurrent(t, u)
      /\ k' = [unqueue(u) EXCEPT !.state[u] = "SUSPENDED"]
      /\ suspended' = suspended \cup {u}
      /\ UNCHANGED <<current, is_running, lock_vars, pendsv, tick_vars, pc, wait_vars>>
  BY <1>1 DEF Suspend, TaskInv, LifeLists
<1>4. unqueue(u) \in Kernel /\ unqueue(u).registry = k.registry /\ k.registry \in SUBSET Task
  BY <1>2, TaskExecuting, RemoveReadyType, RegistryKept, FieldTypes DEF unqueue
<1>5. PICK g \in SUBSET Task : g = k.registry \ {u}
  BY <1>4
<1>6. PICK r : r = k'
  OBVIOUS
<1>7. Unqueued(r, u, "SUSPENDED", g) /\ r.registry = k.registry
  BY <1>3, <1>4, <1>5, <1>6 DEF Unqueued, Kernel
<1>8. QED  BY <1>1, <1>2, <1>3, <1>5, <1>6, <1>7, UnqueueLife

LEMMA DeleteLife ==
  ASSUME TaskInv, ~misdirected', NEW t \in Task, Delete(t)
  PROVE  TaskInv'
<1>1. PICK u \in Task : /\ u = pending[t].target /\ u # Idle
                        /\ k.state[u] \in {"READY", "SUSPENDED"}
  BY CommitFacts DEF Delete
<1>2. /\ Executing(t) /\ pc[t] = "user" /\ pending[t].call # "yield"
  BY CommitFacts DEF Delete
<1>3. /\ YieldIfCurrent(t, u)
      /\ k' = [unqueue(u) EXCEPT !.state[u] = "TERMINATED", !.registry = @ \ {u}]
      /\ suspended' = suspended \ {u}
      /\ UNCHANGED <<current, is_running, lock_vars, pendsv, tick_vars, pc, wait_vars>>
  BY <1>1 DEF Delete
<1>4. unqueue(u) \in Kernel /\ unqueue(u).registry = k.registry /\ k.registry \in SUBSET Task
  BY <1>2, TaskExecuting, RemoveReadyType, RegistryKept, FieldTypes DEF unqueue
<1>5. PICK g \in SUBSET Task : g = k.registry \ {u}
  BY <1>4
<1>6. PICK r : r = k'
  OBVIOUS
<1>7. Unqueued(r, u, "TERMINATED", g) /\ r.registry = k.registry \ {u}
  BY <1>3, <1>4, <1>5, <1>6 DEF Unqueued, Kernel
<1>8. QED  BY <1>1, <1>2, <1>3, <1>5, <1>6, <1>7, UnqueueLife

LEMMA ResumeLife ==
  ASSUME TaskInv, ~misdirected', NEW t \in Task, Resume(t)
  PROVE  TaskInv'
<1>1. PICK u \in Task : u = pending[t].target /\ k.state[u] = "SUSPENDED"
  BY CommitFacts DEF Resume
<1>2. /\ Executing(t) /\ pc[t] = "user" /\ pending[t].call # "yield"
  BY CommitFacts DEF Resume
<1>3. /\ k' = add_ready(k, u) /\ suspended' = suspended \ {u}
      /\ pending' = [pending EXCEPT ![t] = NoCall]
      /\ pc' = [pc EXCEPT ![t] = "reschedule"]
      /\ UNCHANGED <<current, is_running, lock_vars, pendsv, tick_vars, wait_vars>>
  BY <1>1 DEF Resume, Goto
<1>4. /\ k \in Kernel /\ KernelConsistent(k) /\ TasksOf(k, t) /\ current = t
      /\ pc \in [Task -> TaskPc] /\ pending \in [Task -> PendingCall]
  BY <1>2, TaskExecuting
<1>5. PICK p \in Priority : p = k.priority[u]
  BY <1>4, FieldTypes
<1>6. MadeReady(k, k', u, p) /\ (TimeSlicing => p = Prio[u]) /\ k.state[u] \notin Runnable
  BY <1>1, <1>3, <1>4, <1>5, ResumeEffect DEF TasksOf, Runnable
<1>7. k' \in Kernel /\ k'.registry = k.registry
  BY <1>3, <1>4, AddReadyType, RegistryKept
<1>8. k'.registry = k.registry \cup {u}
  BY <1>1, <1>7 DEF TaskInv, LifeLists
<1>9. TypeOK'
  BY <1>3, <1>4, <1>7 DEF TaskInv, SchedCore, TypeOK, lock_vars, tick_vars, wait_vars, TaskPc
<1>10. /\ (\A x \in Task \ {t} : pending'[x] = pending[x]) /\ pending'[t] = NoCall
       /\ pending' \in [Task -> PendingCall]
  <2>1. NoCall \in PendingCall
    BY DEF PendingCall, NoCall
  <2>2. QED  BY <1>3, <1>4, <2>1
<1>11. QED  BY <1>2, <1>3, <1>6, <1>8, <1>9, <1>10, ReadyLife

LEMMA CallYieldsLife ==
  ASSUME Careful, TaskInv, NEW t \in Task, CallYields(t)
  PROVE  TaskInv'
<1>1. /\ Executing(t) /\ pc[t] = "user" /\ k' = process_time_slicing
      /\ pending' = [pending EXCEPT ![t] = NoCall] /\ pc' = [pc EXCEPT ![t] = "switch"]
      /\ UNCHANGED <<current, is_running, lock_vars, pendsv, tick_vars, wait_vars, suspended>>
  BY DEF CallYields, Commits, Goto
<1>2. /\ k \in Kernel /\ current = t /\ pc \in [Task -> TaskPc] /\ pending \in [Task -> PendingCall]
  BY <1>1, TaskExecuting
<1>3. k' \in Kernel
  BY <1>1, <1>2, RotateType DEF process_time_slicing
<1>4. TypeOK'
  BY <1>1, <1>2, <1>3 DEF TaskInv, SchedCore, TypeOK, lock_vars, tick_vars, wait_vars, TaskPc
<1>5. /\ (\A x \in Task \ {t} : pending'[x] = pending[x]) /\ pending'[t] = NoCall
      /\ pending' \in [Task -> PendingCall]
  <2>1. NoCall \in PendingCall
    BY DEF PendingCall, NoCall
  <2>2. QED  BY <1>1, <1>2, <2>1
<1>6. QED  BY <1>1, <1>4, <1>5, YieldLife

LEMMA SetPriorityLife ==
  ASSUME Careful, TaskInv, ~misdirected', NEW t \in Task, NEW u \in Task, NEW p \in Priority,
         SetPriority(t, u, p)
  PROVE  TaskInv'
<1>1. /\ Executing(t) /\ pc[t] = "user" /\ pending[t] = NoCall /\ ~TimeSlicing
      /\ k.state[u] # "RUNNING"
      /\ k' = set_priority(k, u, p) /\ pc' = [pc EXCEPT ![t] = "reschedule"]
      /\ UNCHANGED <<current, is_running, lock_vars, pendsv, tick_vars, wait_vars, pending, suspended>>
  BY DEF SetPriority, AtTask, AtUser, Goto, Careful, Aims, Handles
<1>2. /\ current = t /\ is_running /\ ~pendsv /\ isr = "none" /\ scan = <<>> /\ k.fault = {}
      /\ k \in Kernel /\ KernelConsistent(k) /\ k.state[t] # "ABSENT" /\ TasksOf(k, t)
      /\ pc \in [Task -> TaskPc] /\ pending[t] = NoCall
  BY <1>1, TaskExecuting
<1>3. /\ k' \in Kernel /\ KernelConsistent(k') /\ k'.state = k.state
      /\ k'.fault = k.fault /\ k'.registry = k.registry
  BY <1>1, <1>2, SetPriorityEffect
<1>4. TypeOK'
  BY <1>1, <1>2, <1>3 DEF TaskInv, SchedCore, TypeOK, lock_vars, tick_vars, wait_vars, TaskPc
<1>5. StartedInv' /\ TasksInv' /\ ScanInv'
  BY <1>1, <1>2, <1>3 DEF StartedInv, TasksInv, TasksOf, ScanInv, IsInjective, Contains, tick_vars
<1>6. SchedCore' /\ LifeLists'
  BY <1>1, <1>2, <1>3, <1>4, <1>5 DEF TaskInv, SchedCore, LifeLists
<1>7. PendingInv'
  BY <1>1, <1>2, PendingStep DEF TaskInv
<1>8. DueInv' /\ NoWaits'
  BY <1>1, <1>2 DEF TaskInv, DueInv, NoWaits
<1>9. LeavingInv'
  BY <1>1, <1>2, <1>3 DEF TaskInv, LeavingInv, lock_vars
<1>10. QED  BY <1>1, <1>6, <1>7, <1>8, <1>9 DEF TaskInv

\* TaskInv is inductive as long as no call is misdirected.
LEMMA TaskNext_Inv ==
  ASSUME Careful, TaskInv, ~misdirected', [TaskNext]_task_vars
  PROVE  TaskInv'
<1>1. CASE UNCHANGED task_vars
  BY <1>1 DEF TaskInv, SchedCore, LifeLists, NoWaits, PendingInv, DueInv, LeavingInv, Highest,
     task_vars, life_vars, vars, lock_vars, tick_vars, wait_vars, TypeOK, StartedInv, TasksInv, ScanInv
<1>2. CASE SystemStep /\ UNCHANGED life_vars
  <2>1. TypeOK'
    BY <1>2, NextType DEF Next, TaskInv, SchedCore
  <2>2. QED
    BY <1>2, <2>1, CreateFromMainLife, StartLife, PendSVLife, TickEnterLife, TickScanLife,
       TickSliceLife, TickSwitchLife DEF SystemStep
<1>3. ASSUME NEW t \in Task, KernelStep(t), UNCHANGED life_vars PROVE TaskInv'
  <2>1. TypeOK'
    BY <1>3, NextType DEF Next, TaskInv, SchedCore
  <2>2. QED  BY <1>3, <2>1, SwitchContextLife, RescheduleLife DEF KernelStep
<1>4. ASSUME NEW t \in Task, pending[t] = NoCall, CallStep(t), UNCHANGED life_vars PROVE TaskInv'
  <2>1. TypeOK'
    BY <1>4, NextType DEF Next, TaskInv, SchedCore
  <2>2. CASE Yield(t)
    <3>1. /\ Executing(t) /\ pc[t] = "user" /\ pc' = [pc EXCEPT ![t] = "switch"]
          /\ k' = process_time_slicing
          /\ UNCHANGED <<current, is_running, lock_vars, pendsv, tick_vars, suspended, pending>>
      BY <1>4, <2>2 DEF Yield, InUser, AtUser, Goto, life_vars
    <3>2. /\ (\A x \in Task \ {t} : pending'[x] = pending[x]) /\ pending'[t] = NoCall
          /\ pending' \in [Task -> PendingCall]
      BY <1>4, <3>1, TaskExecuting
    <3>3. QED  BY <2>1, <3>1, <3>2, YieldLife
  <2>3. QED  BY <1>4, <2>1, <2>2, CreateLife, DelayLife, LockLife DEF CallStep
<1>5. QED
  BY <1>1, <1>2, <1>3, <1>4, SuspendLife, ResumeLife, DeleteLife, CallYieldsLife, CheckLife,
     SetPriorityLife DEF TaskNext

\* A misdirected call is remembered.
LEMMA MisdirectedKept ==
  ASSUME misdirected, [TaskNext]_task_vars
  PROVE  misdirected'
BY DEF TaskNext, Suspend, Resume, Delete, CallYields, Check, SetPriority, Aims, task_vars, life_vars

\* TaskInv holds in every careful application until a call is misdirected.
THEOREM TaskSafe ==
  ASSUME Careful
  PROVE  TaskSpec => [](~misdirected => TaskInv)
<1>1. (~misdirected => TaskInv) /\ [TaskNext]_task_vars => (~misdirected => TaskInv)'
  BY TaskNext_Inv, MisdirectedKept
<1>2. QED  BY <1>1, TaskInit_Inv, PTL DEF TaskSpec

\* suspend, resume, delete and set_priority, preempted anywhere and made by any
\* number of tasks, misuse no list, leave the lists, the bitmap and the control
\* blocks in agreement, and the registry holds exactly the tasks that live,
\* until one of them is misdirected.
THEOREM LifeCycleCorrect ==
  ASSUME Careful
  PROVE  TaskSpec => []LifeCycleLists
<1>1. (~misdirected => TaskInv) => LifeCycleLists
  BY DEF TaskInv, SchedCore, LifeLists, LifeCycleLists
<1>2. QED  BY <1>1, TaskSafe, PTL

\* Outside the lock, application code executes only while no READY task has a
\* higher priority than its own, through every change of priorities, until a
\* call is misdirected.
THEOREM PrioritiesRespected ==
  ASSUME Careful
  PROVE  TaskSpec => []PriorityRespected
<1>1. (~misdirected => TaskInv) => PriorityRespected
  <2> SUFFICES ASSUME TaskInv, Quiescent, lock_nesting = 0, NEW t \in Task, k.state[t] = "READY"
               PROVE  k.priority[t] <= k.priority[current]
    BY DEF PriorityRespected
  <2>1. /\ is_running /\ current \in Task /\ ~pendsv /\ isr = "none"
        /\ pc[current] \notin {"switch", "reschedule"}
    BY DEF Quiescent, TaskInv, SchedCore, StartedInv
  <2>2. Highest(k, current)
    BY <2>1 DEF TaskInv, DueInv
  <2>3. QED  BY <2>2 DEF Highest, Runnable
<1>2. QED  BY <1>1, TaskSafe, PTL

-----------------------------------------------------------------------------
(***************************************************************************)
(* Suspensions outlast misdirected calls.  What such a call leaves intact, *)
(* until the first misuse of a list, is the lists themselves: every        *)
(* state_node is on one list at most, whatever the control blocks say.     *)
(***************************************************************************)
Clean(K) ==
    /\ BitmapConsistent(K)
    /\ \A p \in Priority : IsInjective(K.ready[p])
    /\ IsInjective(K.delay)
    /\ \A x \in Task, p, q \in Priority :
          Contains(K.ready[p], x) /\ Contains(K.ready[q], x) => p = q
    /\ \A x \in Task, p \in Priority : Contains(K.ready[p], x) => ~Contains(K.delay, x)
    /\ Contains(K.ready[0], Idle)

\* No task but those of T got onto a list.
Joined(K, r, T) == \A x \in Task \ T : StateLinked(r, x) => StateLinked(K, x)

LEMMA SameClean ==
  ASSUME NEW K, NEW r, r.ready = K.ready, r.bitmap = K.bitmap, r.delay = K.delay
  PROVE  /\ Clean(K) => Clean(r)
         /\ \A x : StateLinked(r, x) <=> StateLinked(K, x)
BY DEF Clean, BitmapConsistent, StateLinked

\* A sequence is empty iff it holds nothing.
LEMMA EmptySequence ==
  ASSUME NEW S, NEW s \in Seq(S)
  PROVE  s = <<>> <=> \A u \in S : ~Contains(s, u)
BY HeadElement

\* The head of the highest queue exists and is on a list.
LEMMA CleanSelect ==
  ASSUME NEW K \in Kernel, Clean(K)
  PROVE  select_next_task(K) \in Task /\ StateLinked(K, select_next_task(K))
<1> DEFINE m == Max(K.bitmap)
<1>1. 0 \in Priority /\ Idle \in Task /\ K.ready \in [Priority -> Seq(Task)] /\ K.bitmap \in SUBSET Priority
  BY PriorityType, KernelAssumption, FieldTypes
<1>2. K.ready[0] # <<>>
  BY <1>1, EmptySequence DEF Clean
<1>3. 0 \in K.bitmap
  BY <1>1, <1>2 DEF Clean, BitmapConsistent
<1>4. K.bitmap \in SUBSET (0 .. MaxPriorities - 1) /\ MaxPriorities - 1 \in Nat
  BY <1>1, KernelAssumption DEF Priority
<1>5. m \in K.bitmap /\ m \in Priority
  BY <1>1, <1>3, <1>4, MaxExists
<1> HIDE DEF m
<1>6. K.ready[m] # <<>> /\ K.ready[m] \in Seq(Task)
  BY <1>1, <1>5 DEF Clean, BitmapConsistent
<1>7. select_next_task(K) = Head(K.ready[m])
  BY <1>3, <1>6 DEF select_next_task, m
<1>8. Head(K.ready[m]) \in Task /\ Contains(K.ready[m], Head(K.ready[m]))
  BY <1>6, HeadElement
<1>9. QED  BY <1>5, <1>7, <1>8 DEF StateLinked

LEMMA CleanAdd ==
  ASSUME NEW K \in Kernel, NEW t \in Task, add_ready(K, t).fault = {}
  PROVE  /\ K.fault = {} /\ ~StateLinked(K, t)
         /\ add_ready(K, t).state = [K.state EXCEPT ![t] = "READY"]
         /\ add_ready(K, t).delay = K.delay
         /\ Clean(K) => Clean(add_ready(K, t)) /\ Joined(K, add_ready(K, t), {t})
<1> DEFINE p == K.priority[t]
           q == Append(K.ready[p], t)
           r == add_ready(K, t)
<1>1. p \in Priority /\ K.ready \in [Priority -> Seq(Task)] /\ K.ready[p] \in Seq(Task)
  BY FieldTypes
<1>2. /\ q # <<>> /\ (\A u : Contains(q, u) <=> (Contains(K.ready[p], u) \/ u = t))
      /\ IsInjective(K.ready[p]) /\ ~Contains(K.ready[p], t) => IsInjective(q)
  BY <1>1, AppendElements
<1>3. /\ r.ready = [K.ready EXCEPT ![p] = q] /\ r.bitmap = K.bitmap \cup {p}
      /\ r.state = [K.state EXCEPT ![t] = "READY"] /\ r.delay = K.delay
      /\ r.fault = IF StateLinked(K, t) THEN K.fault \cup {t} ELSE K.fault
  BY DEF add_ready, Kernel
<1>4. ~StateLinked(K, t) /\ K.fault = {}
  BY <1>3
<1> HIDE DEF r, q, p
<1>5. \A u \in Priority : r.ready[u] = IF u = p THEN q ELSE K.ready[u]
  BY <1>1, <1>3
<1>6. ~Contains(K.delay, t) /\ \A u \in Priority : ~Contains(K.ready[u], t)
  BY <1>4 DEF StateLinked
<1>7. ASSUME Clean(K) PROVE Clean(r)
  <2>1. BitmapConsistent(r)
    BY <1>1, <1>2, <1>3, <1>5, <1>7 DEF Clean, BitmapConsistent
  <2>2. \A u \in Priority : IsInjective(r.ready[u])
    BY <1>1, <1>2, <1>5, <1>6, <1>7 DEF Clean
  <2>3. \A x \in Task, u \in Priority :
           Contains(r.ready[u], x) <=> (Contains(K.ready[u], x) \/ (x = t /\ u = p))
    BY <1>1, <1>2, <1>5
  <2>4. 0 \in Priority /\ Idle \in Task
    BY PriorityType, KernelAssumption
  <2>5. QED  BY <1>1, <1>3, <1>6, <1>7, <2>1, <2>2, <2>3, <2>4 DEF Clean
<1>8. Joined(K, r, {t})
  BY <1>1, <1>2, <1>3, <1>5 DEF Joined, StateLinked
<1>9. QED  BY <1>3, <1>4, <1>7, <1>8 DEF r

LEMMA CleanRemove ==
  ASSUME NEW K \in Kernel, NEW t \in Task, t # Idle, Clean(K), remove_ready(K, t).fault = {}
  PROVE  /\ Clean(remove_ready(K, t)) /\ Joined(K, remove_ready(K, t), {})
         /\ ~StateLinked(remove_ready(K, t), t)
         /\ remove_ready(K, t).state = K.state
         /\ remove_ready(K, t).delay = K.delay
<1> DEFINE p == K.priority[t]
           q == RemoveFirst(K.ready[p], t)
           r == remove_ready(K, t)
<1>1. p \in Priority /\ K.ready \in [Priority -> Seq(Task)] /\ K.ready[p] \in Seq(Task) /\ q \in Seq(Task)
      /\ K.delay \in Seq(Task)
  BY FieldTypes, RemoveType
<1>2. CASE Contains(K.ready[p], t)
  <2>1. IsInjective(q) /\ \A u : Contains(q, u) <=> (Contains(K.ready[p], u) /\ u # t)
    BY <1>1, RemoveElements DEF Clean
  <2>2. /\ r.ready = [K.ready EXCEPT ![p] = q]
        /\ r.bitmap = IF q = <<>> THEN K.bitmap \ {p} ELSE K.bitmap
        /\ r.state = K.state /\ r.delay = K.delay
    BY <1>2 DEF remove_ready, Kernel
  <2> HIDE DEF r, q, p
  <2>3. \A u \in Priority : r.ready[u] = IF u = p THEN q ELSE K.ready[u]
    BY <1>1, <2>2
  <2>4. \A x \in Task, u \in Priority :
           Contains(r.ready[u], x) <=> (Contains(K.ready[u], x) /\ x # t)
    BY <1>1, <1>2, <2>1, <2>3 DEF Clean
  <2>5. BitmapConsistent(r)
    BY <1>1, <1>2, <2>2, <2>3, EmptySequence DEF Clean, BitmapConsistent
  <2>6. 0 \in Priority /\ Idle \in Task
    BY PriorityType, KernelAssumption
  <2>7. \A u \in Priority : IsInjective(r.ready[u])
    BY <2>1, <2>3 DEF Clean
  <2>8. Clean(r)
    BY <2>2, <2>4, <2>5, <2>6, <2>7 DEF Clean
  <2>9. Joined(K, r, {}) /\ ~StateLinked(r, t)
    BY <1>1, <1>2, <2>2, <2>4 DEF Joined, StateLinked, Clean
  <2>10. QED  BY <2>2, <2>8, <2>9 DEF r
<1>3. CASE ~Contains(K.ready[p], t)
  <2>1. /\ r.ready = [u \in Priority |-> RemoveFirst(K.ready[u], t)]
        /\ r.delay = RemoveFirst(K.delay, t) /\ r.bitmap = K.bitmap /\ r.state = K.state
        /\ r.fault = IF StateLinked(K, t) THEN K.fault \cup {t} ELSE K.fault
    BY <1>3 DEF remove_ready, Unlinked, Kernel
  <2>2. ~StateLinked(K, t)
    BY <2>1
  <2> HIDE DEF r
  <2>3. r.delay = K.delay
    BY <1>1, <2>1, <2>2, RemoveAbsent DEF StateLinked
  <2>4. \A u \in Priority : RemoveFirst(K.ready[u], t) = K.ready[u]
    BY <1>1, <2>2, RemoveAbsent DEF StateLinked
  <2>5. r.ready = K.ready
    BY <1>1, <2>1, <2>4
  <2>6. Clean(r) /\ \A x : StateLinked(r, x) <=> StateLinked(K, x)
    BY <2>1, <2>3, <2>5, SameClean
  <2>7. QED  BY <2>1, <2>2, <2>3, <2>6 DEF Joined, r
<1>4. QED  BY <1>2, <1>3

LEMMA CleanRotate ==
  ASSUME NEW K \in Kernel, NEW t \in Task, Clean(K), rotate(K, t).fault = {}
  PROVE  /\ Clean(rotate(K, t)) /\ Joined(K, rotate(K, t), {})
         /\ rotate(K, t).state = K.state
<1> DEFINE p == K.priority[t]
           q == Append(RemoveFirst(K.ready[p], t), t)
           r == rotate(K, t)
<1>1. p \in Priority /\ K.ready \in [Priority -> Seq(Task)] /\ K.ready[p] \in Seq(Task)
      /\ K.delay \in Seq(Task) /\ RemoveFirst(K.ready[p], t) \in Seq(Task)
  BY FieldTypes, RemoveType
<1>2. CASE ~(Len(K.ready[p]) > 1)
  <2>1. r = K
    BY <1>2 DEF rotate
  <2>2. QED  BY <2>1 DEF Joined
<1>3. CASE Len(K.ready[p]) > 1
  <2> DEFINE l == [u \in Priority |-> RemoveFirst(K.ready[u], t)]
  <2>1. /\ r.ready = [l EXCEPT ![p] = Append(l[p], t)]
        /\ r.delay = RemoveFirst(K.delay, t) /\ r.bitmap = K.bitmap /\ r.state = K.state
        /\ r.fault = IF Contains(K.ready[p], t) THEN K.fault ELSE K.fault \cup {t}
    BY <1>3 DEF rotate, Unlinked, Kernel
  <2>2. Contains(K.ready[p], t)
    BY <2>1
  <2>3. \A u \in Priority : r.ready[u] = IF u = p THEN q ELSE RemoveFirst(K.ready[u], t)
    BY <1>1, <2>1
  <2>4. \A u \in Priority \ {p} : ~Contains(K.ready[u], t)
    BY <1>1, <2>2 DEF Clean
  <2>5. ~Contains(K.delay, t)
    BY <1>1, <2>2 DEF Clean
  <2>6. /\ IsInjective(RemoveFirst(K.ready[p], t))
        /\ \A u : Contains(RemoveFirst(K.ready[p], t), u) <=> (Contains(K.ready[p], u) /\ u # t)
    BY <1>1, RemoveElements DEF Clean
  <2>7. IsInjective(q) /\ q # <<>> /\ \A u : Contains(q, u) <=> Contains(K.ready[p], u)
    BY <1>1, <2>2, <2>6, AppendElements
  <2> HIDE DEF r, q, p, l
  <2>8. \A u \in Priority \ {p} : RemoveFirst(K.ready[u], t) = K.ready[u]
    BY <1>1, <2>4, RemoveAbsent
  <2>9. \A u \in Priority : r.ready[u] = IF u = p THEN q ELSE K.ready[u]
    BY <2>3, <2>8
  <2>10. r.delay = K.delay
    BY <1>1, <2>1, <2>5, RemoveAbsent
  <2>11. K.ready[p] # <<>>
    BY <1>1, <2>2, EmptySequence
  <2>12. BitmapConsistent(r)
    BY <1>1, <2>1, <2>7, <2>9, <2>11 DEF Clean, BitmapConsistent
  <2>13. 0 \in Priority
    BY PriorityType
  <2>14. \A x, u : u \in Priority => (Contains(r.ready[u], x) <=> Contains(K.ready[u], x))
    BY <2>7, <2>9
  <2>15. \A u \in Priority : IsInjective(r.ready[u])
    BY <2>7, <2>9 DEF Clean
  <2>16. Clean(r)
    BY <2>10, <2>12, <2>13, <2>14, <2>15 DEF Clean
  <2>17. QED  BY <2>1, <2>10, <2>14, <2>16 DEF Joined, StateLinked, r
<1>4. QED  BY <1>2, <1>3

LEMMA CleanBlock ==
  ASSUME NEW K \in Kernel, NEW t \in Task, t # Idle, NEW n \in 1 .. MaxDelay, Clean(K),
         block_on_delay(K, t, n).fault = {}
  PROVE  /\ Clean(block_on_delay(K, t, n)) /\ Joined(K, block_on_delay(K, t, n), {t})
         /\ \A x \in Task \ {t} : block_on_delay(K, t, n).state[x] = K.state[x]
<1> DEFINE o == remove_ready(K, t)
           r == block_on_delay(K, t, n)
<1>1. o \in Kernel
  BY RemoveReadyType
<1>2. /\ r.ready = o.ready /\ r.bitmap = o.bitmap /\ r.delay = Append(o.delay, t)
      /\ r.fault = o.fault /\ r.state = [o.state EXCEPT ![t] = "BLOCKED"]
  <2> HIDE DEF o
  <2> QED  BY <1>1 DEF block_on_delay, o, Kernel
<1>3. Clean(o) /\ Joined(K, o, {}) /\ ~StateLinked(o, t) /\ o.state = K.state
  BY <1>2, CleanRemove
<1> HIDE DEF o, r
<1>4. /\ \A u : Contains(r.delay, u) <=> (Contains(o.delay, u) \/ u = t)
      /\ IsInjective(r.delay)
  <2>1. o.delay \in Seq(Task) /\ IsInjective(o.delay) /\ ~Contains(o.delay, t)
    BY <1>1, <1>3, FieldTypes DEF Clean, StateLinked
  <2>2. QED  BY <1>2, <2>1, AppendElements
<1>5. \A p \in Priority : ~Contains(r.ready[p], t)
  BY <1>2, <1>3 DEF StateLinked
<1>6. Clean(r)
  BY <1>2, <1>3, <1>4, <1>5 DEF Clean, BitmapConsistent
<1>7. Joined(K, r, {t})
  <2> SUFFICES ASSUME NEW x \in Task \ {t}, StateLinked(r, x) PROVE StateLinked(K, x)
    BY DEF Joined
  <2>1. StateLinked(o, x)
    BY <1>2, <1>4 DEF StateLinked
  <2>2. QED  BY <1>3, <2>1 DEF Joined
<1>8. \A x \in Task \ {t} : r.state[x] = K.state[x]
  BY <1>1, <1>2, <1>3, FieldTypes
<1>9. QED  BY <1>6, <1>7, <1>8 DEF r

LEMMA CleanExpire ==
  ASSUME NEW K \in Kernel, NEW t \in Task, Clean(K), Contains(K.delay, t),
         delayed_task_tick(K, t).fault = {}
  PROVE  /\ Clean(delayed_task_tick(K, t)) /\ Joined(K, delayed_task_tick(K, t), {t})
         /\ \A x \in Task \ {t} : delayed_task_tick(K, t).state[x] = K.state[x]
         /\ \A x \in Task \ {t} : Contains(K.delay, x) => Contains(delayed_task_tick(K, t).delay, x)
<1> DEFINE r == delayed_task_tick(K, t)
<1>1. CASE K.delay_ticks[t] > 1
  <2>1. /\ r.ready = K.ready /\ r.bitmap = K.bitmap /\ r.delay = K.delay /\ r.state = K.state
    BY <1>1 DEF delayed_task_tick, Kernel
  <2> HIDE DEF r
  <2>2. Clean(r) /\ \A x : StateLinked(r, x) <=> StateLinked(K, x)
    BY <2>1, SameClean
  <2>3. QED  BY <2>1, <2>2 DEF Joined, r
<1>2. CASE ~(K.delay_ticks[t] > 1)
  <2> DEFINE w == K.wait_list[t]
             l == RemoveFirst(K.delay, t)
             d == [K EXCEPT !.delay_ticks[t] = 0, !.delay = l]
             o == IF w = None THEN d ELSE [wait_list_remove(d, w, t) EXCEPT !.wait_list[t] = None]
  <2>1. r = add_ready(o, t)
    BY <1>2 DEF delayed_task_tick
  <2>2. l \in Seq(Task) /\ K.delay \in Seq(Task) /\ w \in WaitList \cup {None} /\ 0 \in 0 .. MaxDelay
    BY FieldTypes, RemoveType, KernelAssumption
  <2>3. /\ IsInjective(l)
        /\ \A u : Contains(l, u) <=> (Contains(K.delay, u) /\ u # t)
    BY <2>2, RemoveElements DEF Clean
  <2>4. d \in Kernel /\ d.ready = K.ready /\ d.bitmap = K.bitmap /\ d.delay = l /\ d.state = K.state
    <3> HIDE DEF l
    <3> QED  BY <2>2 DEF Kernel
  <2>5. o \in Kernel /\ o.ready = K.ready /\ o.bitmap = K.bitmap /\ o.delay = l /\ o.state = K.state
    <3> HIDE DEF d, l, w
    <3>1. CASE w = None
      BY <2>4, <3>1
    <3>2. CASE w # None
      <4>1. RemoveFirst(d.waiters[w], t) \in Seq(Task)
        BY <2>2, <2>4, <3>2, FieldTypes, RemoveType
      <4>2. QED  BY <2>2, <2>4, <3>2, <4>1 DEF wait_list_remove, Kernel
    <3>3. QED  BY <3>1, <3>2
  <2> HIDE DEF o, d, l, r
  <2>6. Clean(o)
    BY <2>3, <2>5 DEF Clean, BitmapConsistent
  <2>7. Joined(K, o, {t})
    BY <2>3, <2>5 DEF Joined, StateLinked
  <2>8. /\ Clean(r) /\ Joined(o, r, {t}) /\ r.delay = o.delay
        /\ r.state = [o.state EXCEPT ![t] = "READY"]
    BY <2>1, <2>5, <2>6, CleanAdd DEF r
  <2>9. QED  BY <2>3, <2>5, <2>7, <2>8, FieldTypes DEF Joined, r
<1>3. QED  BY <1>1, <1>2

LEMMA CleanSetPriority ==
  ASSUME NEW K \in Kernel, NEW u \in Task, u # Idle, NEW p \in Priority, Clean(K), K.fault = {},
         set_priority(K, u, p).fault = {}
  PROVE  /\ Clean(set_priority(K, u, p)) /\ set_priority(K, u, p).state = K.state
         /\ Joined(K, set_priority(K, u, p), IF K.state[u] = "READY" THEN {u} ELSE {})
<1> DEFINE r == set_priority(K, u, p)
<1>1. CASE K.state[u] # "READY"
  <2>1. r = [K EXCEPT !.priority[u] = p, !.base_priority[u] = p]
    BY <1>1 DEF set_priority
  <2> HIDE DEF r
  <2>2. r.state = K.state /\ r.ready = K.ready /\ r.bitmap = K.bitmap /\ r.delay = K.delay
    BY <2>1 DEF Kernel
  <2>3. Clean(r) /\ \A x : StateLinked(r, x) <=> StateLinked(K, x)
    BY <2>2, SameClean
  <2>4. QED  BY <1>1, <2>2, <2>3 DEF Joined, r
<1>2. CASE K.state[u] = "READY"
  <2> DEFINE o == remove_ready(K, u)
             d == [o EXCEPT !.priority[u] = p, !.base_priority[u] = p]
  <2>1. o \in Kernel
    BY RemoveReadyType
  <2>2. r = add_ready(d, u)
    BY <1>2 DEF set_priority
  <2> HIDE DEF o
  <2>3. /\ d \in Kernel /\ d.state = o.state /\ d.ready = o.ready /\ d.bitmap = o.bitmap
        /\ d.delay = o.delay /\ d.fault = o.fault
    BY <2>1 DEF Kernel
  <2> HIDE DEF d, r
  <2>4. d.fault = {} /\ ~StateLinked(d, u) /\ r.state = [d.state EXCEPT ![u] = "READY"]
    <3>1. add_ready(d, u).fault = {}
      BY <2>2 DEF r
    <3>2. QED  BY <2>2, <2>3, <3>1, CleanAdd
  <2>5. Clean(o) /\ Joined(K, o, {}) /\ o.state = K.state
    BY <2>3, <2>4, CleanRemove DEF o
  <2>6. Clean(d) /\ \A x : StateLinked(d, x) <=> StateLinked(o, x)
    BY <2>3, <2>5, SameClean
  <2>7. Clean(r) /\ Joined(d, r, {u})
    BY <2>2, <2>3, <2>6, CleanAdd DEF r
  <2>8. r.state = K.state
    BY <1>2, <2>3, <2>4, <2>5, FieldTypes
  <2>9. QED  BY <1>2, <2>5, <2>6, <2>7, <2>8 DEF Joined, r
<1>3. QED  BY <1>1, <1>2

LEMMA CleanCreate ==
  ASSUME NEW K \in Kernel, NEW u \in Task, NEW p \in Priority, create_static(K, u, p).fault = {}
  PROVE  /\ K.fault = {}
         /\ Clean(K) => Clean(create_static(K, u, p)) /\ Joined(K, create_static(K, u, p), {u})
         /\ \A x \in Task \ {u} : create_static(K, u, p).state[x] = K.state[x]
<1> DEFINE i == [K EXCEPT !.priority[u] = p, !.base_priority[u] = p,
                          !.delay_ticks[u] = 0, !.wait_list[u] = None]
           o == add_ready(i, u)
           r == create_static(K, u, p)
<1>1. 0 \in 0 .. MaxDelay
  BY KernelAssumption
<1>2. /\ i \in Kernel /\ i.state = K.state /\ i.ready = K.ready /\ i.bitmap = K.bitmap
      /\ i.delay = K.delay /\ i.fault = K.fault
  BY <1>1 DEF Kernel
<1>3. r = [o EXCEPT !.registry = @ \cup {u}]
  BY DEF create_static
<1> HIDE DEF i
<1>4. o \in Kernel
  BY <1>2, AddReadyType
<1> HIDE DEF o
<1>5. r.state = o.state /\ r.ready = o.ready /\ r.bitmap = o.bitmap /\ r.delay = o.delay
      /\ r.fault = o.fault
  BY <1>3, <1>4 DEF Kernel
<1> HIDE DEF r
<1>6. /\ i.fault = {} /\ o.state = [i.state EXCEPT ![u] = "READY"]
      /\ Clean(i) => Clean(o) /\ Joined(i, o, {u})
  BY <1>2, <1>5, CleanAdd DEF o, r
<1>7. Clean(K) => Clean(r) /\ Joined(K, r, {u})
  BY <1>2, <1>5, <1>6, SameClean DEF Joined
<1>8. QED  BY <1>2, <1>5, <1>6, <1>7, FieldTypes DEF r

LEMMA CleanInit == Clean(InitKernel) /\ InitKernel.fault = {}
<1>1. KernelConsistent(InitKernel) /\ InitKernel.fault = {} /\ InitKernel \in Kernel
      /\ InitKernel.state[Idle] = "READY"
  BY InitKernelEffect, InitKernelType, KernelAssumption
<1>2. \A x \in Task : InitKernel.delay_ticks[x] > 0 => InitKernel.state[x] = "BLOCKED"
  BY <1>1 DEF KernelConsistent, DelayListConsistent
<1>3. \A x \in Task, p \in Priority : Contains(InitKernel.ready[p], x) =>
        p = InitKernel.priority[x] /\ InitKernel.state[x] \in Runnable
  BY <1>1 DEF KernelConsistent, ReadyQueuesConsistent
<1>4. Contains(InitKernel.ready[0], Idle)
  BY <1>1, KernelAssumption, PriorityType, InitKernelEffect DEF KernelConsistent, ReadyQueuesConsistent, Runnable
<1>5. QED
  BY <1>1, <1>2, <1>3, <1>4 DEF Clean, KernelConsistent, DelayListConsistent, ListsInjective, Runnable

-----------------------------------------------------------------------------
\* What holds of the calls of tasks whatever happened to the lists.
CallsInv ==
    /\ TypeOK
    /\ pending \in [Task -> PendingCall]
    /\ PendingInv
    /\ NoWaits
    /\ suspended \in SUBSET Task
    /\ is_running => current \in Task
    /\ ~is_running => ~pendsv /\ isr = "none"
    /\ pendsv => lock_nesting = 0

\* A suspended task is on no list, and its control block says so.
Parked == \A t \in suspended : ~StateLinked(k, t) /\ k.state[t] = "SUSPENDED"

\* A task that suspended itself is about to lose the CPU, or holds the lock and
\* has asked for the switch.
LeavesInv ==
    current \in suspended =>
        \/ pendsv
        \/ pc[current] = "switch"
        \/ pending[current].call = "yield"
        \/ lock_nesting > 0 /\ reschedule_pending

SuspensionInv ==
    /\ CallsInv
    /\ k.fault = {} => Clean(k) /\ ScanInv /\ Parked /\ LeavesInv

LEMMA CallsType ==
  ASSUME CallsInv, NEW t \in Task,
         Suspend(t) \/ Resume(t) \/ Delete(t) \/ CallYields(t)
           \/ \E u \in Task : \/ \E call \in {"suspend", "resume", "delete"} : Check(t, u, call)
                              \/ \E p \in Priority : SetPriority(t, u, p)
  PROVE  TypeOK' /\ pending' \in [Task -> PendingCall] /\ suspended' \in SUBSET Task
<1>1. /\ k \in Kernel /\ pc \in [Task -> TaskPc] /\ pending \in [Task -> PendingCall]
      /\ suspended \in SUBSET Task
  BY DEF CallsInv, TypeOK
<1>2. NoCall \in PendingCall /\ [call |-> "yield", target |-> None] \in PendingCall
  BY DEF PendingCall, NoCall
<1>3. {"reschedule", "switch", "user"} \subseteq TaskPc
  BY DEF TaskPc
<1>4. ASSUME NEW call \in {"suspend", "resume", "delete"}, Commits(t, call)
      PROVE  pending[t].target \in Task
  <2>1. pending[t] # NoCall /\ pending[t].call # "yield"
    BY <1>4 DEF Commits, NoCall
  <2>2. QED  BY <2>1 DEF CallsInv, PendingInv
<1>5. CASE Suspend(t)
  <2>1. PICK u \in Task : u = pending[t].target
    BY <1>4, <1>5 DEF Suspend
  <2>2. unqueue(u) \in Kernel
    BY <1>1, RemoveReadyType DEF unqueue
  <2>3. k' \in Kernel
    BY <1>5, <2>1, <2>2 DEF Suspend, Kernel, TaskState
  <2>4. pending' \in [Task -> PendingCall] /\ suspended' \in SUBSET Task
    BY <1>1, <1>2, <1>5, <2>1 DEF Suspend, YieldIfCurrent
  <2>5. QED  BY <1>5, <2>3, <2>4 DEF Suspend, CallsInv, TypeOK, lock_vars, tick_vars, wait_vars
<1>6. CASE Delete(t)
  <2>1. PICK u \in Task : u = pending[t].target
    BY <1>4, <1>6 DEF Delete
  <2>2. unqueue(u) \in Kernel
    BY <1>1, RemoveReadyType DEF unqueue
  <2>3. k' \in Kernel
    BY <1>6, <2>1, <2>2 DEF Delete, Kernel, TaskState
  <2>4. pending' \in [Task -> PendingCall] /\ suspended' \in SUBSET Task
    BY <1>1, <1>2, <1>6, <2>1 DEF Delete, YieldIfCurrent
  <2>5. QED  BY <1>6, <2>3, <2>4 DEF Delete, CallsInv, TypeOK, lock_vars, tick_vars, wait_vars
<1>7. CASE Resume(t)
  <2>1. PICK u \in Task : u = pending[t].target
    BY <1>4, <1>7 DEF Resume
  <2>2. k' \in Kernel
    BY <1>1, <1>7, <2>1, AddReadyType DEF Resume
  <2>3. pending' \in [Task -> PendingCall] /\ suspended' \in SUBSET Task /\ pc' \in [Task -> TaskPc]
    BY <1>1, <1>2, <1>3, <1>7, <2>1 DEF Resume, Goto
  <2>4. QED  BY <1>7, <2>2, <2>3 DEF Resume, CallsInv, TypeOK, lock_vars, tick_vars, wait_vars
<1>8. CASE CallYields(t)
  <2>1. current = t
    BY <1>8 DEF CallYields, Commits, Executing
  <2>2. k' \in Kernel
    BY <1>1, <1>8, <2>1, RotateType DEF CallYields, process_time_slicing
  <2>3. pending' \in [Task -> PendingCall] /\ suspended' \in SUBSET Task /\ pc' \in [Task -> TaskPc]
    BY <1>1, <1>2, <1>3, <1>8 DEF CallYields, Goto
  <2>4. QED  BY <1>8, <2>2, <2>3 DEF CallYields, CallsInv, TypeOK, lock_vars, tick_vars, wait_vars
<1>9. ASSUME NEW u \in Task, NEW call \in {"suspend", "resume", "delete"}, Check(t, u, call)
      PROVE  TypeOK' /\ pending' \in [Task -> PendingCall] /\ suspended' \in SUBSET Task
  <2>1. [call |-> call, target |-> u] \in PendingCall
    BY DEF PendingCall, TaskApi
  <2>2. pending' \in [Task -> PendingCall]
    BY <1>1, <1>9, <2>1 DEF Check
  <2>3. UNCHANGED vars /\ UNCHANGED suspended
    BY <1>9 DEF Check
  <2>4. QED  BY <1>1, <2>2, <2>3 DEF CallsInv, TypeOK, vars, lock_vars, tick_vars, wait_vars
<1>10. ASSUME NEW u \in Task, NEW p \in Priority, SetPriority(t, u, p)
       PROVE  TypeOK' /\ pending' \in [Task -> PendingCall] /\ suspended' \in SUBSET Task
  <2>1. k' \in Kernel
    <3> DEFINE o == remove_ready(k, u)
               d == [o EXCEPT !.priority[u] = p, !.base_priority[u] = p]
               e == [k EXCEPT !.priority[u] = p, !.base_priority[u] = p]
    <3>1. o \in Kernel
      BY <1>1, RemoveReadyType
    <3>2. k' = IF k.state[u] = "READY" THEN add_ready(d, u) ELSE e
      BY <1>10 DEF SetPriority, set_priority
    <3> HIDE DEF o
    <3>3. d \in Kernel /\ e \in Kernel
      BY <1>1, <3>1 DEF Kernel
    <3> HIDE DEF d, e
    <3>4. QED  BY <3>2, <3>3, AddReadyType
  <2>2. pc' \in [Task -> TaskPc]
    BY <1>1, <1>3, <1>10 DEF SetPriority, Goto
  <2>3. UNCHANGED <<pending, suspended>>
    BY <1>10 DEF SetPriority
  <2>4. QED  BY <1>1, <1>10, <2>1, <2>2, <2>3 DEF SetPriority, CallsInv, TypeOK, lock_vars, tick_vars, wait_vars
<1>11. QED  BY <1>5, <1>6, <1>7, <1>8, <1>9, <1>10

\* switch_context forgets no switch and asks for none under the lock.
LEMMA SwitchContextPends ==
  ASSUME CallsInv, switch_context(k), UNCHANGED lock_nesting
  PROVE  /\ pendsv' => lock_nesting' = 0
         /\ pendsv => pendsv'
         /\ reschedule_pending => reschedule_pending'
         /\ lock_nesting > 0 => reschedule_pending'
         /\ lock_nesting = 0 /\ select_next_task(k) \notin {None, current} => pendsv'
<1>1. lock_nesting \in Nat /\ (pendsv => lock_nesting = 0)
  BY SchedulerAssumption DEF CallsInv, TypeOK
<1>2. CASE lock_nesting > 0
  BY <1>1, <1>2 DEF switch_context
<1>3. CASE ~(lock_nesting > 0)
  <2>1. lock_nesting = 0
    BY <1>1, <1>3
  <2>2. pendsv' <=> (pendsv \/ select_next_task(k) \notin {None, current})
    BY <1>3 DEF switch_context
  <2>3. UNCHANGED reschedule_pending
    BY <1>3 DEF switch_context
  <2>4. QED  BY <1>3, <2>1, <2>2, <2>3
<1>4. QED  BY <1>2, <1>3

LEMMA CallsStep ==
  ASSUME CallsInv, [TaskNext]_task_vars
  PROVE  CallsInv'
<1>1. pc \in [Task -> TaskPc] /\ k \in Kernel /\ pending \in [Task -> PendingCall]
  BY DEF CallsInv, TypeOK
<1>2. NoCall.call # "yield"
  BY DEF NoCall
<1>3. CASE UNCHANGED task_vars
  BY <1>3 DEF CallsInv, TypeOK, PendingInv, NoWaits, task_vars, life_vars, vars, lock_vars, tick_vars, wait_vars
<1>4. CASE SystemStep /\ UNCHANGED life_vars
  <2>1. TypeOK'
    BY <1>4, NextType DEF Next, CallsInv
  <2>2. UNCHANGED <<pc, lock_nesting, pending, suspended>>
    BY <1>4 DEF SystemStep, CreateFromMain, Start, PendSV, TickEnter, TickScan, TickSlice, TickSwitch,
                lock_vars, life_vars
  <2>3. PendingInv' /\ NoWaits'
    BY <2>2 DEF CallsInv, PendingInv, NoWaits
  <2>4. select_next_task(k) \in Task \cup {None}
    BY <1>1, SelectType
  <2>5. (is_running => current \in Task)'
    BY <1>4, <2>4 DEF SystemStep, CreateFromMain, Start, PendSV, TickEnter, TickScan, TickSlice, TickSwitch,
                      CallsInv
  <2>6. (~is_running => ~pendsv /\ isr = "none")'
    BY <1>4 DEF SystemStep, CreateFromMain, Start, PendSV, TickEnter, TickScan, TickSlice, TickSwitch,
                CallsInv, tick_vars
  <2>7. (pendsv => lock_nesting = 0)'
    <3>1. CASE TickSwitch /\ switch_context(k)
      BY <2>2, <3>1, SwitchContextPends
    <3>2. CASE ~(TickSwitch /\ switch_context(k))
      <4>1. pendsv' => pendsv
        BY <1>4, <3>2 DEF SystemStep, CreateFromMain, Start, PendSV, TickEnter, TickScan, TickSlice, TickSwitch
      <4>2. QED  BY <2>2, <4>1 DEF CallsInv
    <3>3. QED  BY <3>1, <3>2
  <2>8. QED  BY <2>1, <2>2, <2>3, <2>5, <2>6, <2>7 DEF CallsInv
<1>5. ASSUME NEW t \in Task, KernelStep(t), UNCHANGED life_vars PROVE CallsInv'
  <2>1. TypeOK'
    BY <1>5, NextType DEF Next, CallsInv
  <2>2. /\ pc[t] # "user" /\ UNCHANGED <<current, is_running, isr, lock_nesting, pending, suspended>> /\ is_running
        /\ \E l \in {"user", "switch"} : pc' = [pc EXCEPT ![t] = l]
    BY <1>5 DEF KernelStep, SwitchContext, Reschedule, Goto, Executing, lock_vars, life_vars, tick_vars,
                CallsInv, NoWaits
  <2>3. pending[t] = NoCall
    BY <2>2 DEF CallsInv, PendingInv
  <2>4. PendingInv' /\ NoWaits'
    BY <1>1, <2>2, <2>3, PendingStep DEF CallsInv, NoWaits
  <2>5. (pendsv => lock_nesting = 0)'
    <3>1. CASE SwitchContext(t)
      BY <2>2, <3>1, SwitchContextPends DEF SwitchContext
    <3>2. CASE Reschedule(t)
      BY <3>2 DEF Reschedule, CallsInv, lock_vars
    <3>3. QED  BY <1>5, <3>1, <3>2 DEF KernelStep
  <2>6. QED  BY <2>1, <2>2, <2>4, <2>5 DEF CallsInv
<1>6. ASSUME NEW t \in Task, pending[t] = NoCall, CallStep(t), UNCHANGED life_vars PROVE CallsInv'
  <2>1. TypeOK'
    BY <1>6, NextType DEF Next, CallsInv
  <2>2. /\ is_running /\ ~pendsv /\ UNCHANGED <<current, is_running, isr, pendsv, pending, suspended>>
    BY <1>6 DEF CallStep, Create, Yield, Delay, Lock, Unlock, InUser, AtUser, Executing, tick_vars, life_vars
  <2>3. \E l \in {"user", "switch", "reschedule"} : pc' = [pc EXCEPT ![t] = l]
    <3>1. pc[t] = "user" /\ (UNCHANGED pc \/ \E l \in {"switch", "reschedule"} : pc' = [pc EXCEPT ![t] = l])
      BY <1>6 DEF CallStep, Create, Yield, Delay, Lock, Unlock, InUser, AtUser, Goto
    <3>2. [pc EXCEPT ![t] = pc[t]] = pc
      BY <1>1
    <3>3. QED  BY <3>1, <3>2
  <2>4. PendingInv' /\ NoWaits'
    BY <1>1, <1>6, <2>2, <2>3, PendingStep DEF CallsInv, NoWaits
  <2>5. QED  BY <2>1, <2>2, <2>4 DEF CallsInv
<1>7. ASSUME NEW t \in Task,
             Suspend(t) \/ Resume(t) \/ Delete(t) \/ CallYields(t)
               \/ \E u \in Task : \/ \E call \in {"suspend", "resume", "delete"} : Check(t, u, call)
                                  \/ \E p \in Priority : SetPriority(t, u, p)
      PROVE  CallsInv'
  <2>1. TypeOK' /\ pending' \in [Task -> PendingCall] /\ suspended' \in SUBSET Task
    BY <1>7, CallsType
  <2>2. /\ is_running /\ ~pendsv /\ UNCHANGED <<current, is_running, isr, pendsv>> /\ pc[t] = "user"
    BY <1>7 DEF Suspend, Resume, Delete, CallYields, Check, SetPriority, AtTask, AtUser, Commits, Executing,
                vars, tick_vars
  <2>3. \A x \in Task \ {t} : pending'[x] = pending[x] /\ pc'[x] = pc[x]
    BY <1>1, <1>7 DEF Suspend, Resume, Delete, CallYields, Check, SetPriority, YieldIfCurrent, Goto, vars
  <2>4. /\ pc'[t] \in {"user", "switch", "reschedule"}
        /\ pc'[t] # "user" => pending'[t] = NoCall
        /\ pending'[t] # NoCall =>
             pending'[t].call = "yield" \/ pending'[t].target \in Task \ {Idle}
    <3>1. CASE Suspend(t) \/ Delete(t)
      BY <1>1, <2>2, <3>1 DEF Suspend, Delete, YieldIfCurrent
    <3>2. CASE Resume(t) \/ CallYields(t)
      BY <1>1, <3>2 DEF Resume, CallYields, Goto
    <3>3. ASSUME NEW u \in Task, NEW p \in Priority, SetPriority(t, u, p)
          PROVE  pending'[t] = NoCall /\ pc'[t] = "reschedule"
      BY <1>1, <3>3 DEF SetPriority, AtTask, Goto
    <3>4. ASSUME NEW u \in Task, NEW call \in {"suspend", "resume", "delete"}, Check(t, u, call)
          PROVE  pending'[t].target = u /\ u # Idle /\ pc'[t] = "user"
      BY <1>1, <2>2, <3>4 DEF Check, AtTask, vars
    <3>5. QED  BY <1>7, <3>1, <3>2, <3>3, <3>4
  <2>5. PendingInv' /\ NoWaits'
    BY <2>3, <2>4 DEF CallsInv, PendingInv, NoWaits
  <2>6. QED  BY <2>1, <2>2, <2>5 DEF CallsInv
<1>8. QED  BY <1>3, <1>4, <1>5, <1>6, <1>7 DEF TaskNext

-----------------------------------------------------------------------------
\* The tasks of T, none of which is suspended, may join a list.
LEMMA ParkedStep ==
  ASSUME Parked, suspended \in SUBSET Task, NEW T, suspended' \subseteq suspended,
         suspended' \cap T = {}, Joined(k, k', T), \A x \in Task \ T : k'.state[x] = k.state[x]
  PROVE  Parked'
BY DEF Parked, Joined

\* Outside the tick's walk there is nothing to scan.
LEMMA NothingToScan ==
  ASSUME ScanInv, isr # "scan", UNCHANGED <<isr, scan>>
  PROVE  ScanInv'
BY DEF ScanInv, IsInjective, Contains

\* What is known while a task executes.
LEMMA SuspensionExecuting ==
  ASSUME SuspensionInv, NEW t \in Task, Executing(t)
  PROVE  /\ current = t /\ is_running /\ ~pendsv /\ isr = "none" /\ k.fault = {}
         /\ k \in Kernel /\ pc \in [Task -> TaskPc] /\ lock_nesting \in Nat
         /\ pending \in [Task -> PendingCall] /\ suspended \in SUBSET Task
         /\ Clean(k) /\ ScanInv /\ Parked /\ LeavesInv
         /\ pc[t] # "user" => pending[t] = NoCall
         /\ t \in suspended /\ pc[t] # "switch" /\ pending[t].call # "yield" =>
              lock_nesting > 0 /\ reschedule_pending
<1>1. /\ current = t /\ is_running /\ ~pendsv /\ isr = "none" /\ k.fault = {}
  BY DEF Executing
<1>2. /\ k \in Kernel /\ pc \in [Task -> TaskPc] /\ lock_nesting \in Nat
      /\ pending \in [Task -> PendingCall] /\ suspended \in SUBSET Task
      /\ pc[t] # "user" => pending[t] = NoCall
  BY SchedulerAssumption DEF SuspensionInv, CallsInv, TypeOK, PendingInv
<1>3. Clean(k) /\ ScanInv /\ Parked /\ LeavesInv
  BY <1>1 DEF SuspensionInv
<1>4. QED  BY <1>1, <1>2, <1>3 DEF LeavesInv

LEMMA SystemSuspension ==
  ASSUME SuspensionInv, SystemStep, UNCHANGED life_vars, k'.fault = {}
  PROVE  Clean(k') /\ ScanInv' /\ Parked' /\ LeavesInv'
<1>1. UNCHANGED <<pending, suspended>> /\ k \in Kernel /\ suspended \in SUBSET Task
  BY DEF life_vars, SuspensionInv, CallsInv, TypeOK
<1>2. ASSUME NEW u \in Task, CreateFromMain(u) PROVE Clean(k') /\ ScanInv' /\ Parked' /\ LeavesInv'
  <2>1. /\ k.state[u] = "ABSENT" /\ k' = create_static(k, u, Prio[u]) /\ Prio[u] \in Priority
        /\ UNCHANGED <<current, isr, scan, lock_nesting, reschedule_pending, pendsv, pc>> /\ ~is_running
    BY <1>2, ConstantTypes DEF CreateFromMain, lock_vars, tick_vars
  <2>2. /\ k.fault = {} /\ (Clean(k) => Clean(k') /\ Joined(k, k', {u}))
        /\ \A x \in Task \ {u} : k'.state[x] = k.state[x]
    BY <1>1, <2>1, CleanCreate
  <2>3. Clean(k) /\ ScanInv /\ Parked /\ LeavesInv /\ isr = "none"
    BY <2>1, <2>2 DEF SuspensionInv, CallsInv
  <2>4. suspended' \cap {u} = {}
    BY <1>1, <2>1, <2>3 DEF Parked
  <2>5. Parked'
    BY <1>1, <2>2, <2>3, <2>4, ParkedStep
  <2>6. ScanInv'
    BY <2>1, <2>3, NothingToScan
  <2>7. LeavesInv'
    BY <1>1, <2>1, <2>3 DEF LeavesInv
  <2>8. QED  BY <2>2, <2>3, <2>5, <2>6, <2>7
<1>3. ASSUME current' = select_next_task(k), k' = perform_switch(k, current, select_next_task(k)),
             isr = "none", UNCHANGED tick_vars
      PROVE  Clean(k') /\ ScanInv' /\ Parked' /\ LeavesInv'
  <2>1. /\ k'.fault = k.fault /\ k'.ready = k.ready /\ k'.bitmap = k.bitmap /\ k'.delay = k.delay
        /\ \A x \in Task : k'.state[x] = IF x = select_next_task(k) THEN "RUNNING"
                                         ELSE IF x = current /\ k.state[x] = "RUNNING" THEN "READY"
                                         ELSE k.state[x]
    BY <1>1, <1>3 DEF perform_switch, Kernel
  <2>2. Clean(k) /\ ScanInv /\ Parked
    BY <2>1 DEF SuspensionInv
  <2>3. select_next_task(k) \in Task /\ StateLinked(k, select_next_task(k))
    BY <1>1, <2>2, CleanSelect
  <2>4. current' \notin suspended
    BY <1>3, <2>2, <2>3 DEF Parked
  <2>5. Clean(k') /\ \A x : StateLinked(k', x) <=> StateLinked(k, x)
    BY <2>1, <2>2, SameClean
  <2>6. Parked'
    BY <1>1, <1>3, <2>1, <2>2, <2>4, <2>5 DEF Parked
  <2>7. ScanInv'
    BY <1>3, <2>2, NothingToScan DEF tick_vars
  <2>8. QED  BY <1>1, <2>4, <2>5, <2>6, <2>7 DEF LeavesInv
<1>4. CASE Start
  BY <1>3, <1>4 DEF Start, SuspensionInv, CallsInv
<1>5. CASE PendSV
  <2>1. Clean(k)
    BY <1>5 DEF PendSV, SuspensionInv
  <2>2. select_next_task(k) # None
    BY <1>1, <2>1, CleanSelect, KernelAssumption
  <2>3. QED  BY <1>3, <1>5, <2>2 DEF PendSV
<1>6. CASE TickEnter
  <2>1. /\ k.fault = {} /\ scan' = k.delay /\ isr' = "scan"
        /\ UNCHANGED <<k, current, lock_nesting, reschedule_pending, pendsv, pc>>
    BY <1>6 DEF TickEnter, lock_vars
  <2>2. Clean(k) /\ Parked /\ LeavesInv
    BY <2>1 DEF SuspensionInv
  <2>3. QED  BY <1>1, <2>1, <2>2 DEF Parked, LeavesInv, ScanInv, Clean
<1>7. CASE TickScan
  <2> DEFINE t == Head(scan)
  <2>1. /\ k.fault = {} /\ isr = "scan" /\ scan # <<>> /\ k' = delayed_task_tick(k, t) /\ scan' = Tail(scan)
        /\ UNCHANGED <<current, lock_nesting, reschedule_pending, pendsv, pc, isr>>
    BY <1>7 DEF TickScan, lock_vars
  <2>2. Clean(k) /\ ScanInv /\ Parked /\ LeavesInv /\ scan \in Seq(Task)
    BY <2>1 DEF SuspensionInv, CallsInv, TypeOK
  <2>3. t \in Task /\ Contains(scan, t)
    BY <2>1, <2>2, HeadElement
  <2>4. Contains(k.delay, t)
    BY <2>2, <2>3 DEF ScanInv
  <2>5. IsInjective(Tail(scan)) /\ \A u : Contains(Tail(scan), u) => Contains(scan, u) /\ u # t
    BY <2>1, <2>2, TailElements DEF ScanInv
  <2> HIDE DEF t
  <2>6. /\ Clean(k') /\ Joined(k, k', {t}) /\ \A x \in Task \ {t} : k'.state[x] = k.state[x]
        /\ \A x \in Task \ {t} : Contains(k.delay, x) => Contains(k'.delay, x)
    BY <1>1, <2>1, <2>2, <2>3, <2>4, CleanExpire
  <2>7. suspended' \cap {t} = {}
    BY <1>1, <2>2, <2>4 DEF Parked, StateLinked
  <2>8. Parked'
    BY <1>1, <2>2, <2>6, <2>7, ParkedStep
  <2>9. ScanInv'
    BY <2>1, <2>2, <2>5, <2>6 DEF ScanInv
  <2>10. QED  BY <1>1, <2>1, <2>2, <2>6, <2>8, <2>9 DEF LeavesInv
<1>8. CASE TickSlice
  <2>1. /\ k.fault = {} /\ scan = <<>> /\ k' = process_time_slicing /\ UNCHANGED scan
        /\ UNCHANGED <<current, lock_nesting, reschedule_pending, pendsv, pc>>
    BY <1>8 DEF TickSlice, lock_vars
  <2>2. Clean(k) /\ ScanInv /\ Parked /\ LeavesInv /\ current \in Task \cup {None}
    BY <2>1 DEF SuspensionInv, CallsInv, TypeOK
  <2>3. Clean(k') /\ Joined(k, k', {}) /\ k'.state = k.state
    BY <1>1, <2>1, <2>2, CleanRotate DEF process_time_slicing, Joined
  <2>4. Parked'
    BY <1>1, <2>2, <2>3, ParkedStep
  <2>5. ScanInv'
    BY <2>1 DEF ScanInv, IsInjective, Contains
  <2>6. QED  BY <1>1, <2>1, <2>2, <2>3, <2>4, <2>5 DEF LeavesInv
<1>9. CASE TickSwitch
  <2>1. /\ k.fault = {} /\ isr = "switch" /\ isr' = "none"
        /\ UNCHANGED <<k, current, lock_nesting, scan, pc>>
        /\ switch_context(k) \/ UNCHANGED <<reschedule_pending, pendsv>>
    BY <1>9 DEF TickSwitch
  <2>2. Clean(k) /\ ScanInv /\ Parked /\ LeavesInv
    BY <2>1 DEF SuspensionInv
  <2>3. (pendsv => pendsv') /\ (reschedule_pending => reschedule_pending')
    BY <2>1, SwitchContextPends DEF SuspensionInv
  <2>4. QED  BY <1>1, <2>1, <2>2, <2>3 DEF Parked, LeavesInv, ScanInv
<1>10. QED  BY <1>2, <1>4, <1>5, <1>6, <1>7, <1>8, <1>9 DEF SystemStep

LEMMA KernelSuspension ==
  ASSUME SuspensionInv, NEW t \in Task, KernelStep(t), UNCHANGED life_vars
  PROVE  Clean(k') /\ ScanInv' /\ Parked' /\ LeavesInv'
<1>1. /\ Executing(t) /\ pc[t] # "user" /\ UNCHANGED <<k, current, isr, scan, lock_nesting, pending, suspended>>
  BY DEF KernelStep, SwitchContext, Reschedule, tick_vars, life_vars, lock_vars
<1>2. /\ current = t /\ isr = "none" /\ k \in Kernel /\ Clean(k) /\ ScanInv /\ Parked /\ LeavesInv
      /\ pc \in [Task -> TaskPc] /\ lock_nesting \in Nat /\ pending[t] = NoCall
      /\ t \in suspended /\ pc[t] # "switch" /\ pending[t].call # "yield" =>
           lock_nesting > 0 /\ reschedule_pending
  BY <1>1, SuspensionExecuting
<1>3. Clean(k') /\ ScanInv' /\ Parked'
  BY <1>1, <1>2, NothingToScan DEF Parked
<1>4. ASSUME t \in suspended, SwitchContext(t) PROVE pendsv' \/ (lock_nesting > 0 /\ reschedule_pending')
  <2>1. select_next_task(k) \in Task /\ StateLinked(k, select_next_task(k))
    BY <1>2, CleanSelect
  <2>2. select_next_task(k) \notin {None, current}
    BY <1>2, <1>4, <2>1, KernelAssumption DEF Parked
  <2>3. QED  BY <1>1, <1>2, <1>4, <2>2, SwitchContextPends DEF SwitchContext, SuspensionInv
<1>5. ASSUME t \in suspended, Reschedule(t) PROVE lock_nesting > 0 /\ reschedule_pending'
  BY <1>2, <1>5 DEF Reschedule, NoCall, lock_vars
<1>6. QED  BY <1>1, <1>2, <1>3, <1>4, <1>5 DEF KernelStep, LeavesInv

LEMMA CallSuspension ==
  ASSUME Disciplined, SuspensionInv, NEW t \in Task, pending[t] = NoCall, CallStep(t),
         UNCHANGED life_vars, k'.fault = {}
  PROVE  Clean(k') /\ ScanInv' /\ Parked' /\ LeavesInv'
<1>1. /\ Executing(t) /\ t # Idle /\ pc[t] = "user" /\ UNCHANGED <<current, isr, scan, pendsv, pending, suspended>>
  BY DEF CallStep, Create, Yield, Delay, Lock, Unlock, InUser, AtUser, tick_vars, life_vars
<1>2. /\ current = t /\ isr = "none" /\ k \in Kernel /\ Clean(k) /\ ScanInv /\ Parked /\ LeavesInv
      /\ pc \in [Task -> TaskPc] /\ lock_nesting \in Nat /\ suspended \in SUBSET Task
      /\ t \in suspended => lock_nesting > 0 /\ reschedule_pending
  BY <1>1, SuspensionExecuting DEF NoCall
<1>3. ScanInv'
  BY <1>1, <1>2, NothingToScan
<1>4. ASSUME NEW u \in Task, Create(t, u) PROVE Clean(k') /\ Parked' /\ LeavesInv'
  <2>1. /\ k.state[u] = "ABSENT" /\ k' = create_static(k, u, Prio[u]) /\ Prio[u] \in Priority
        /\ UNCHANGED lock_vars
    BY <1>4, ConstantTypes DEF Create
  <2>2. /\ Clean(k') /\ Joined(k, k', {u}) /\ \A x \in Task \ {u} : k'.state[x] = k.state[x]
    BY <1>2, <2>1, CleanCreate
  <2>3. suspended' \cap {u} = {}
    BY <1>1, <1>2, <2>1 DEF Parked
  <2>4. Parked'
    BY <1>1, <1>2, <2>2, <2>3, ParkedStep
  <2>5. QED  BY <1>1, <1>2, <2>1, <2>2, <2>4 DEF LeavesInv, lock_vars
<1>5. CASE Yield(t)
  <2>1. k' = process_time_slicing /\ pc' = [pc EXCEPT ![t] = "switch"]
    BY <1>5 DEF Yield, Goto
  <2>2. Clean(k') /\ Joined(k, k', {}) /\ k'.state = k.state
    BY <1>2, <2>1, CleanRotate DEF process_time_slicing, Joined
  <2>3. Parked'
    BY <1>1, <1>2, <2>2, ParkedStep
  <2>4. QED  BY <1>1, <1>2, <1>3, <2>1, <2>2, <2>3 DEF LeavesInv
<1>6. ASSUME NEW n \in 1 .. MaxDelay, Delay(t, n) PROVE Clean(k') /\ Parked' /\ LeavesInv'
  <2>1. k' = block_on_delay(k, t, n) /\ pc' = [pc EXCEPT ![t] = "switch"] /\ lock_nesting = 0
    BY <1>6 DEF Delay, Goto, MayBlock, Disciplined
  <2>2. /\ Clean(k') /\ Joined(k, k', {t}) /\ \A x \in Task \ {t} : k'.state[x] = k.state[x]
    BY <1>1, <1>2, <2>1, CleanBlock
  <2>3. suspended' \cap {t} = {}
    BY <1>1, <1>2, <2>1
  <2>4. Parked'
    BY <1>1, <1>2, <2>2, <2>3, ParkedStep
  <2>5. QED  BY <1>1, <1>2, <2>1, <2>2, <2>4 DEF LeavesInv
<1>7. CASE Lock(t)
  <2>1. lock_nesting' = lock_nesting + 1 /\ UNCHANGED <<k, reschedule_pending>>
    BY <1>7 DEF Lock
  <2>2. QED  BY <1>1, <1>2, <1>3, <2>1 DEF LeavesInv, Parked
<1>8. CASE Unlock(t)
  <2>1. /\ lock_nesting > 0 /\ lock_nesting' = lock_nesting - 1 /\ UNCHANGED k
        /\ IF lock_nesting = 1 /\ reschedule_pending
           THEN pc' = [pc EXCEPT ![t] = "switch"]
           ELSE UNCHANGED <<reschedule_pending, pc>>
    BY <1>8 DEF Unlock, Goto
  <2>2. t \in suspended => pc'[t] = "switch" \/ (lock_nesting' > 0 /\ reschedule_pending')
    <3>1. CASE lock_nesting = 1 /\ reschedule_pending
      BY <1>2, <2>1, <3>1
    <3>2. CASE ~(lock_nesting = 1 /\ reschedule_pending)
      <4>1. UNCHANGED reschedule_pending
        BY <2>1, <3>2
      <4>2. reschedule_pending => lock_nesting' > 0
        BY <1>2, <2>1, <3>2
      <4>3. QED  BY <1>2, <4>1, <4>2
    <3>3. QED  BY <3>1, <3>2
  <2>3. QED  BY <1>1, <1>2, <1>3, <2>1, <2>2 DEF LeavesInv, Parked
<1>9. QED  BY <1>3, <1>4, <1>5, <1>6, <1>7, <1>8 DEF CallStep

\* suspend and delete of task u: off its queue if it was READY, left where it
\* is otherwise.
LEMMA UnqueueSuspension ==
  ASSUME SuspensionInv, NEW t \in Task, NEW call \in {"suspend", "delete"}, Commits(t, call),
         NEW u \in Task, u = pending[t].target, NEW s \in {"SUSPENDED", "TERMINATED"},
         NEW r, r = unqueue(u), k'.fault = {}, k'.ready = r.ready, k'.bitmap = r.bitmap,
         k'.delay = r.delay, k'.fault = r.fault, k'.state = [r.state EXCEPT ![u] = s],
         NEW S, suspended' = S,
         s = "SUSPENDED" => S = IF k.state[u] = "READY" THEN suspended \cup {u} ELSE suspended,
         s = "TERMINATED" => S = suspended \ {u},
         YieldIfCurrent(t, u), UNCHANGED <<current, lock_vars, pendsv, tick_vars, pc>>
  PROVE  Clean(k') /\ ScanInv' /\ Parked' /\ LeavesInv'
<1>1. Executing(t) /\ pc[t] = "user" /\ pending[t].call = call
  BY DEF Commits
<1>2. /\ current = t /\ isr = "none" /\ k \in Kernel /\ Clean(k) /\ ScanInv /\ Parked
      /\ pending \in [Task -> PendingCall] /\ suspended \in SUBSET Task /\ k.fault = {}
      /\ t \in suspended => lock_nesting > 0 /\ reschedule_pending
  BY <1>1, SuspensionExecuting
<1>3. u # Idle
  BY <1>1 DEF SuspensionInv, CallsInv, PendingInv, NoCall
<1>4. /\ Clean(r) /\ Joined(k, r, {}) /\ r.state = k.state
      /\ k.state[u] = "READY" => ~StateLinked(r, u)
  <2>1. CASE k.state[u] = "READY"
    BY <1>2, <1>3, <2>1, CleanRemove DEF unqueue
  <2>2. CASE k.state[u] # "READY"
    BY <1>2, <2>2 DEF unqueue, Joined
  <2>3. QED  BY <2>1, <2>2
<1>5. Clean(k') /\ \A x : StateLinked(k', x) <=> StateLinked(r, x)
  BY <1>4, SameClean
<1>6. \A x \in Task : k'.state[x] = IF x = u THEN s ELSE k.state[x]
  BY <1>2, <1>4, FieldTypes
<1>7. Parked'
  <2>1. ASSUME NEW x \in suspended' PROVE ~StateLinked(k', x) /\ k'.state[x] = "SUSPENDED"
    <3>1. CASE x \in suspended
      BY <1>2, <1>4, <1>5, <1>6, <2>1, <3>1 DEF Parked, Joined
    <3>2. CASE x \notin suspended
      BY <1>4, <1>5, <1>6, <2>1, <3>2
    <3>3. QED  BY <3>1, <3>2
  <2>2. QED  BY <2>1 DEF Parked
<1>8. ScanInv'
  BY <1>2, NothingToScan DEF tick_vars
<1>9. LeavesInv'
  <2>1. u = t => pending'[t].call = "yield"
    BY <1>2 DEF YieldIfCurrent
  <2>2. u # t /\ t \in suspended' => lock_nesting > 0 /\ reschedule_pending
    BY <1>2
  <2>3. QED  BY <1>2, <2>1, <2>2 DEF LeavesInv, lock_vars
<1>10. QED  BY <1>5, <1>7, <1>8, <1>9

LEMMA TaskCallSuspension ==
  ASSUME SuspensionInv, NEW t \in Task, k'.fault = {},
         Suspend(t) \/ Resume(t) \/ Delete(t) \/ CallYields(t)
           \/ \E u \in Task : \/ \E call \in {"suspend", "resume", "delete"} : Check(t, u, call)
                              \/ \E p \in Priority : SetPriority(t, u, p)
  PROVE  Clean(k') /\ ScanInv' /\ Parked' /\ LeavesInv'
<1>1. Executing(t) /\ pc[t] = "user"
  BY DEF Suspend, Resume, Delete, CallYields, Check, SetPriority, Commits, AtTask, AtUser
<1>2. /\ current = t /\ isr = "none" /\ k \in Kernel /\ Clean(k) /\ ScanInv /\ Parked /\ k.fault = {}
      /\ pending \in [Task -> PendingCall] /\ suspended \in SUBSET Task /\ pc \in [Task -> TaskPc]
      /\ t \in suspended /\ pending[t].call # "yield" => lock_nesting > 0 /\ reschedule_pending
  BY <1>1, SuspensionExecuting
<1>3. ASSUME NEW call \in {"suspend", "resume", "delete"}, Commits(t, call)
      PROVE  pending[t].target \in Task /\ pending[t].call # "yield"
  <2>1. pending[t] # NoCall /\ pending[t].call # "yield"
    BY <1>3 DEF Commits, NoCall
  <2>2. QED  BY <2>1 DEF SuspensionInv, CallsInv, PendingInv
<1>4. CASE Suspend(t)
  <2>1. PICK u \in Task : u = pending[t].target
    BY <1>3, <1>4 DEF Suspend
  <2>2. PICK r : r = unqueue(u)
    OBVIOUS
  <2>3. r \in Kernel
    BY <1>2, <2>2, RemoveReadyType DEF unqueue
  <2>4. k' = [r EXCEPT !.state[u] = "SUSPENDED"]
    BY <1>4, <2>1, <2>2 DEF Suspend
  <2>5. /\ k'.ready = r.ready /\ k'.bitmap = r.bitmap /\ k'.delay = r.delay /\ k'.fault = r.fault
        /\ k'.state = [r.state EXCEPT ![u] = "SUSPENDED"]
    BY <2>3, <2>4 DEF Kernel
  <2>6. /\ Commits(t, "suspend") /\ YieldIfCurrent(t, u)
        /\ suspended' = IF k.state[u] = "READY" THEN suspended \cup {u} ELSE suspended
        /\ UNCHANGED <<current, lock_vars, pendsv, tick_vars, pc>>
    BY <1>4, <2>1 DEF Suspend
  <2>7. QED  BY <2>1, <2>2, <2>5, <2>6, UnqueueSuspension
<1>5. CASE Delete(t)
  <2>1. PICK u \in Task : u = pending[t].target
    BY <1>3, <1>5 DEF Delete
  <2>2. PICK r : r = unqueue(u)
    OBVIOUS
  <2>3. r \in Kernel
    BY <1>2, <2>2, RemoveReadyType DEF unqueue
  <2>4. k' = [r EXCEPT !.state[u] = "TERMINATED", !.registry = @ \ {u}]
    BY <1>5, <2>1, <2>2 DEF Delete
  <2>5. /\ k'.ready = r.ready /\ k'.bitmap = r.bitmap /\ k'.delay = r.delay /\ k'.fault = r.fault
        /\ k'.state = [r.state EXCEPT ![u] = "TERMINATED"]
    BY <2>3, <2>4 DEF Kernel
  <2>6. /\ Commits(t, "delete") /\ YieldIfCurrent(t, u) /\ suspended' = suspended \ {u}
        /\ UNCHANGED <<current, lock_vars, pendsv, tick_vars, pc>>
    BY <1>5, <2>1 DEF Delete
  <2>7. QED  BY <2>1, <2>2, <2>5, <2>6, UnqueueSuspension
<1>6. CASE Resume(t)
  <2>1. PICK u \in Task : u = pending[t].target /\ pending[t].call # "yield"
    BY <1>3, <1>6 DEF Resume
  <2>2. /\ k' = add_ready(k, u) /\ suspended' = suspended \ {u}
        /\ pending' = [pending EXCEPT ![t] = NoCall] /\ pc' = [pc EXCEPT ![t] = "reschedule"]
        /\ UNCHANGED <<current, lock_vars, isr, scan>>
    BY <1>6, <2>1 DEF Resume, Goto, tick_vars
  <2>3. Clean(k') /\ Joined(k, k', {u}) /\ k'.state = [k.state EXCEPT ![u] = "READY"]
    BY <1>2, <2>2, CleanAdd
  <2>4. \A x \in Task \ {u} : k'.state[x] = k.state[x]
    BY <1>2, <2>3, FieldTypes
  <2>5. Parked'
    BY <1>2, <2>2, <2>3, <2>4, ParkedStep
  <2>6. ScanInv'
    BY <1>2, <2>2, NothingToScan
  <2>7. LeavesInv'
    BY <1>2, <2>1, <2>2 DEF LeavesInv, lock_vars
  <2>8. QED  BY <2>3, <2>5, <2>6, <2>7
<1>7. CASE CallYields(t)
  <2>1. /\ k' = process_time_slicing /\ pc' = [pc EXCEPT ![t] = "switch"]
        /\ UNCHANGED <<current, suspended, isr, scan>>
    BY <1>7 DEF CallYields, Goto, tick_vars
  <2>2. Clean(k') /\ Joined(k, k', {}) /\ k'.state = k.state
    BY <1>2, <2>1, CleanRotate DEF process_time_slicing, Joined
  <2>3. Parked'
    BY <1>2, <2>1, <2>2, ParkedStep
  <2>4. ScanInv'
    BY <1>2, <2>1, NothingToScan
  <2>5. QED  BY <1>2, <2>1, <2>2, <2>3, <2>4 DEF LeavesInv
<1>8. ASSUME NEW u \in Task, NEW call \in {"suspend", "resume", "delete"}, Check(t, u, call)
      PROVE  Clean(k') /\ ScanInv' /\ Parked' /\ LeavesInv'
  <2>1. /\ pending[t].call # "yield" /\ UNCHANGED <<k, current, isr, scan, lock_nesting, reschedule_pending>>
        /\ UNCHANGED suspended
    BY <1>8 DEF Check, AtTask, NoCall, vars, tick_vars, lock_vars
  <2>2. ScanInv' /\ Parked'
    BY <1>2, <2>1, NothingToScan DEF Parked
  <2>3. QED  BY <1>2, <2>1, <2>2 DEF LeavesInv
<1>9. ASSUME NEW u \in Task, NEW p \in Priority, SetPriority(t, u, p)
      PROVE  Clean(k') /\ ScanInv' /\ Parked' /\ LeavesInv'
  <2>1. /\ pending[t].call # "yield" /\ u # Idle /\ k' = set_priority(k, u, p)
        /\ UNCHANGED <<current, isr, scan, lock_nesting, reschedule_pending, suspended>>
    BY <1>9 DEF SetPriority, AtTask, NoCall, tick_vars, lock_vars
  <2> DEFINE T == IF k.state[u] = "READY" THEN {u} ELSE {}
  <2>2. Clean(k') /\ Joined(k, k', T) /\ k'.state = k.state
    BY <1>2, <2>1, CleanSetPriority
  <2>3. suspended' \cap T = {}
    BY <1>2, <2>1 DEF Parked
  <2> HIDE DEF T
  <2>4. Parked'
    BY <1>2, <2>1, <2>2, <2>3, ParkedStep
  <2>5. ScanInv'
    BY <1>2, <2>1, NothingToScan
  <2>6. QED  BY <1>2, <2>1, <2>2, <2>4, <2>5 DEF LeavesInv
<1>10. QED  BY <1>4, <1>5, <1>6, <1>7, <1>8, <1>9

LEMMA SuspensionInit == TaskInit => SuspensionInv
<1> SUFFICES ASSUME TaskInit PROVE SuspensionInv
  OBVIOUS
<1>1. TypeOK /\ pending \in [Task -> PendingCall] /\ PendingInv /\ NoWaits /\ ScanInv
  BY TaskInit_Inv DEF TaskInv, SchedCore
<1>2. k = InitKernel /\ suspended = {} /\ ~is_running /\ ~pendsv /\ isr = "none"
  BY DEF TaskInit, Init
<1>3. Clean(k)
  BY <1>2, CleanInit
<1>4. QED  BY <1>1, <1>2, <1>3 DEF SuspensionInv, CallsInv, Parked, LeavesInv

LEMMA SuspensionNext ==
  ASSUME Disciplined, SuspensionInv, [TaskNext]_task_vars
  PROVE  SuspensionInv'
<1>1. CallsInv'
  BY CallsStep DEF SuspensionInv
<1>2. ASSUME k'.fault = {} PROVE Clean(k') /\ ScanInv' /\ Parked' /\ LeavesInv'
  <2>1. CASE UNCHANGED task_vars
    BY <1>2, <2>1 DEF SuspensionInv, ScanInv, Parked, LeavesInv, task_vars, vars, life_vars, lock_vars, tick_vars
  <2>2. CASE TaskNext
    BY <1>2, <2>2, SystemSuspension, KernelSuspension, CallSuspension, TaskCallSuspension DEF TaskNext
  <2>3. QED  BY <2>1, <2>2
<1>3. QED  BY <1>1, <1>2 DEF SuspensionInv

\* A task that was READY when it was suspended is on no ready queue until it is
\* resumed or deleted: no tick, no switch and no call for another task makes it
\* eligible, whatever calls the application makes for tasks in whatever state,
\* as long as no list has been misused.  The application must not block under
\* the lock.
THEOREM SuspensionHolds ==
  ASSUME Disciplined
  PROVE  TaskSpec => []SuspendedStays
<1>1. SuspensionInv /\ [TaskNext]_task_vars => SuspensionInv'
  BY SuspensionNext
<1>2. SuspensionInv => SuspendedStays
  BY DEF SuspensionInv, Parked, SuspendedStays, StateLinked
<1>3. QED  BY <1>1, <1>2, SuspensionInit, PTL DEF TaskSpec
=============================================================================
