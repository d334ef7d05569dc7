------------------------- MODULE SertosSafetyProofs -------------------------
(***************************************************************************)
(* The safety of the kernel and of its scheduler, for every number of      *)
(* tasks, priorities, wait lists and ticks.                                *)
(*                                                                         *)
(* First, what the kernel routines of SertosKernel return and preserve.    *)
(* They change the kernel in three ways: a task that is not runnable is    *)
(* made ready, a runnable task is blocked, and a ready queue is rotated;   *)
(* each keeps the lists, the bitmap and the control blocks consistent.     *)
(*                                                                         *)
(* Then the scheduler.  Its types are kept whatever the application does;  *)
(* the rest holds in an application that never blocks while the scheduler  *)
(* is locked and, with time slicing, has at most two tasks of a priority   *)
(* (Disciplined).  SchedInv is the inductive invariant.                    *)
(***************************************************************************)
EXTENDS SertosScheduler, SertosDataProofs

-----------------------------------------------------------------------------
(* Every routine takes a kernel to a kernel.                               *)

LEMMA PriorityType ==
  /\ Priority \in SUBSET Nat
  /\ 0 \in Priority
  /\ Forever \in Nat /\ Forever > MaxDelay
BY KernelAssumption DEF Priority, Forever

\* The fields of a kernel.
LEMMA FieldTypes ==
  ASSUME NEW K \in Kernel
  PROVE  /\ K.state \in [Task -> TaskState]
         /\ K.priority \in [Task -> Priority]
         /\ K.base_priority \in [Task -> Priority]
         /\ K.delay_ticks \in [Task -> 0 .. MaxDelay]
         /\ K.wait_list \in [Task -> WaitList \cup {None}]
         /\ K.registry \in SUBSET Task
         /\ K.ready \in [Priority -> Seq(Task)]
         /\ K.bitmap \in SUBSET Priority
         /\ K.delay \in Seq(Task)
         /\ K.waiters \in [WaitList -> Seq(Task)]
         /\ K.fault \in SUBSET Task
BY DEF Kernel

LEMMA UnlinkedType ==
  ASSUME NEW K \in Kernel, NEW t \in Task
  PROVE  Unlinked(K, t) \in Kernel
<1>1. [p \in Priority |-> RemoveFirst(K.ready[p], t)] \in [Priority -> Seq(Task)]
  BY FieldTypes, RemoveType
<1>2. RemoveFirst(K.delay, t) \in Seq(Task)
  BY FieldTypes, RemoveType
<1>3. QED  BY <1>1, <1>2 DEF Kernel, Unlinked

LEMMA FaultType ==
  ASSUME NEW K \in Kernel, NEW F \in SUBSET Task
  PROVE  [K EXCEPT !.fault = F] \in Kernel
BY DEF Kernel

LEMMA QueueType ==
  ASSUME NEW K \in Kernel, NEW p \in Priority, NEW q \in Seq(Task), NEW B \in SUBSET Priority
  PROVE  [K EXCEPT !.ready[p] = q, !.bitmap = B] \in Kernel
BY DEF Kernel

LEMMA CountdownType ==
  ASSUME NEW K \in Kernel, NEW t \in Task, NEW n \in 0 .. MaxDelay, NEW d \in Seq(Task),
         NEW s \in TaskState
  PROVE  [K EXCEPT !.state[t] = s, !.delay_ticks[t] = n, !.delay = d] \in Kernel
BY DEF Kernel

LEMMA AddReadyType ==
  ASSUME NEW K \in Kernel, NEW t \in Task
  PROVE  add_ready(K, t) \in Kernel
<1>1. K.priority[t] \in Priority
  BY FieldTypes
<1>2. Append(K.ready[K.priority[t]], t) \in Seq(Task)
  BY <1>1, FieldTypes
<1>3. QED  BY <1>1, <1>2 DEF Kernel, add_ready, TaskState

LEMMA RemoveReadyType ==
  ASSUME NEW K \in Kernel, NEW t \in Task
  PROVE  remove_ready(K, t) \in Kernel
<1> DEFINE p == K.priority[t]
           q == RemoveFirst(K.ready[p], t)
           B == IF q = <<>> THEN K.bitmap \ {p} ELSE K.bitmap
           F == IF StateLinked(K, t) THEN K.fault \cup {t} ELSE K.fault
<1>1. p \in Priority /\ q \in Seq(Task) /\ B \in SUBSET Priority /\ F \in SUBSET Task
  BY FieldTypes, RemoveType
<1>2. CASE Contains(K.ready[p], t)
  <2>1. remove_ready(K, t) = [K EXCEPT !.ready[p] = q, !.bitmap = B]
    BY <1>2 DEF remove_ready
  <2> HIDE DEF p, q, B
  <2>2. [K EXCEPT !.ready[p] = q, !.bitmap = B] \in Kernel
    BY <1>1, QueueType
  <2>3. QED  BY <2>1, <2>2
<1>3. CASE ~Contains(K.ready[p], t)
  <2>1. Unlinked(K, t).fault = K.fault
    BY DEF Unlinked, Kernel
  <2>2. remove_ready(K, t) = [Unlinked(K, t) EXCEPT !.fault = F]
    BY <1>3, <2>1 DEF remove_ready
  <2> HIDE DEF p, q, B, F
  <2>3. Unlinked(K, t) \in Kernel
    BY UnlinkedType
  <2>4. [Unlinked(K, t) EXCEPT !.fault = F] \in Kernel
    BY <1>1, <2>3, FaultType
  <2>5. QED  BY <2>2, <2>4
<1>4. QED  BY <1>2, <1>3

LEMMA RotateType ==
  ASSUME NEW K \in Kernel, NEW t \in Task
  PROVE  rotate(K, t) \in Kernel
<1> DEFINE p == K.priority[t]
           u == Unlinked(K, t)
           F == IF Contains(K.ready[p], t) THEN u.fault ELSE u.fault \cup {t}
<1>1. u \in Kernel
  BY UnlinkedType
<1>2. p \in Priority
  BY FieldTypes
<1>3. Append(u.ready[p], t) \in Seq(Task) /\ F \in SUBSET Task
  BY <1>1, <1>2, FieldTypes
<1>4. rotate(K, t) = IF Len(K.ready[p]) > 1
                     THEN [u EXCEPT !.ready[p] = Append(@, t), !.fault = F]
                     ELSE K
  BY DEF rotate
<1> HIDE DEF p, u, F
<1>5. [u EXCEPT !.ready[p] = Append(@, t), !.fault = F] \in Kernel
  BY <1>1, <1>2, <1>3 DEF Kernel
<1>6. QED  BY <1>4, <1>5

LEMMA CreateType ==
  ASSUME NEW K \in Kernel, NEW t \in Task, NEW p \in Priority
  PROVE  create_static(K, t, p) \in Kernel
<1> DEFINE i == [K EXCEPT !.priority[t] = p, !.base_priority[t] = p,
                          !.delay_ticks[t] = 0, !.wait_list[t] = None]
<1>1. 0 \in 0 .. MaxDelay
  BY KernelAssumption
<1>2. i \in Kernel
  BY <1>1 DEF Kernel
<1>3. create_static(K, t, p) = [add_ready(i, t) EXCEPT !.registry = @ \cup {t}]
  BY DEF create_static
<1> HIDE DEF i
<1>4. add_ready(i, t) \in Kernel
  BY <1>2, AddReadyType
<1> DEFINE r == add_ready(i, t)
<1> HIDE DEF r
<1>5. ASSUME r \in Kernel PROVE [r EXCEPT !.registry = @ \cup {t}] \in Kernel
  BY <1>5 DEF Kernel
<1>6. QED  BY <1>3, <1>4, <1>5 DEF r

LEMMA BlockOnDelayType ==
  ASSUME NEW K \in Kernel, NEW t \in Task, NEW n \in 1 .. MaxDelay
  PROVE  block_on_delay(K, t, n) \in Kernel
<1> DEFINE r == remove_ready(K, t)
<1>1. r \in Kernel
  BY RemoveReadyType
<1>2. block_on_delay(K, t, n) =
        [r EXCEPT !.state[t] = "BLOCKED", !.delay_ticks[t] = n, !.delay = Append(r.delay, t)]
  BY <1>1, FieldTypes DEF block_on_delay
<1> HIDE DEF r
<1>3. Append(r.delay, t) \in Seq(Task) /\ n \in 0 .. MaxDelay
  BY <1>1, FieldTypes, KernelAssumption
<1>4. "BLOCKED" \in TaskState
  BY DEF TaskState
<1>5. [r EXCEPT !.state[t] = "BLOCKED", !.delay_ticks[t] = n, !.delay = Append(r.delay, t)]
        \in Kernel
  BY <1>1, <1>3, <1>4, CountdownType
<1>6. QED  BY <1>2, <1>5

\* The wait list after an insertion by priority.
LEMMA InsertWaitElements ==
  ASSUME NEW K \in Kernel, NEW w \in WaitList, NEW t \in Task
  PROVE  \E l \in Seq(Task) :
            /\ insert_wait_list_priority(K, w, t) =
                 [K EXCEPT !.waiters[w] = l,
                           !.fault = IF EventLinked(K, t) THEN @ \cup {t} ELSE @]
            /\ \A u : Contains(l, u) <=> (Contains(K.waiters[w], u) \/ u = t)
            /\ IsInjective(K.waiters[w]) /\ ~Contains(K.waiters[w], t) => IsInjective(l)
<1> DEFINE q == K.waiters[w]
           I == {j \in 1 .. Len(q) : K.priority[t] > K.priority[q[j]]}
           i == SelectInSeq(q, LAMBDA u : K.priority[t] > K.priority[u])
           l == IF i = 0 THEN Append(q, t) ELSE InsertAt(q, i, t)
<1>1. q \in Seq(Task)
  BY FieldTypes
<1>2. i = IF I # {} THEN Min(I) ELSE 0
  BY DEF SelectInSeq
<1>3. i = 0 \/ i \in 1 .. Len(q)
  <2>1. I \in SUBSET Nat
    OBVIOUS
  <2> HIDE DEF i
  <2>2. CASE I # {}
    <3> HIDE DEF I
    <3>1. Min(I) \in I
      BY <2>1, <2>2, MinExists
    <3>2. QED  BY <3>1, <1>2 DEF I
  <2>3. QED  BY <2>2, <1>2
<1>4. insert_wait_list_priority(K, w, t) =
        [K EXCEPT !.waiters[w] = l,
                  !.fault = IF EventLinked(K, t) THEN @ \cup {t} ELSE @]
  BY DEF insert_wait_list_priority
<1> HIDE DEF q, i
<1>5. CASE i = 0
  <2>1. l = Append(q, t)
    BY <1>5
  <2>2. /\ l \in Seq(Task)
        /\ \A u : Contains(l, u) <=> (Contains(q, u) \/ u = t)
        /\ IsInjective(q) /\ ~Contains(q, t) => IsInjective(l)
    <3> HIDE DEF l
    <3> QED  BY <1>1, <2>1, AppendElements
  <2> HIDE DEF l
  <2>3. QED  BY <1>4, <2>2 DEF q
<1>6. CASE i \in 1 .. Len(q)
  <2>1. l = InsertAt(q, i, t)
    BY <1>6
  <2>2. /\ l \in Seq(Task)
        /\ \A u : Contains(l, u) <=> (Contains(q, u) \/ u = t)
        /\ IsInjective(q) /\ ~Contains(q, t) => IsInjective(l)
    <3> HIDE DEF l
    <3> QED  BY <1>1, <1>6, <2>1, InsertElements
  <2> HIDE DEF l
  <2>3. QED  BY <1>4, <2>2 DEF q
<1>7. QED  BY <1>3, <1>5, <1>6

LEMMA InsertWaitType ==
  ASSUME NEW K \in Kernel, NEW w \in WaitList, NEW t \in Task
  PROVE  insert_wait_list_priority(K, w, t) \in Kernel
<1> DEFINE F == IF EventLinked(K, t) THEN K.fault \cup {t} ELSE K.fault
<1>1. PICK l \in Seq(Task) :
            /\ insert_wait_list_priority(K, w, t) =
                 [K EXCEPT !.waiters[w] = l,
                           !.fault = IF EventLinked(K, t) THEN @ \cup {t} ELSE @]
            /\ \A u : Contains(l, u) <=> (Contains(K.waiters[w], u) \/ u = t)
            /\ IsInjective(K.waiters[w]) /\ ~Contains(K.waiters[w], t) => IsInjective(l)
  BY InsertWaitElements
<1>2. F \in SUBSET Task
  BY FieldTypes
<1>3. insert_wait_list_priority(K, w, t) = [K EXCEPT !.waiters[w] = l, !.fault = F]
  BY <1>1 DEF Kernel
<1> HIDE DEF F
<1>4. [K EXCEPT !.waiters[w] = l, !.fault = F] \in Kernel
  BY <1>2 DEF Kernel
<1>5. QED  BY <1>3, <1>4

LEMMA BlockOnWaitListType ==
  ASSUME NEW K \in Kernel, NEW t \in Task, NEW w \in WaitList, NEW n \in 1 .. Forever
  PROVE  block_on_wait_list(K, t, w, n) \in Kernel
<1> DEFINE m == remove_ready(K, t)
           b == [m EXCEPT !.state[t] = "BLOCKED", !.wait_list[t] = w]
           r == insert_wait_list_priority(b, w, t)
<1>1. m \in Kernel
  BY RemoveReadyType
<1>2. b \in Kernel
  <2> HIDE DEF m
  <2> QED  BY <1>1 DEF Kernel, TaskState
<1>3. r \in Kernel
  <2> HIDE DEF b
  <2> QED  BY <1>2, InsertWaitType
<1>4. block_on_wait_list(K, t, w, n) =
        IF n # Forever
        THEN [r EXCEPT !.delay_ticks[t] = n, !.delay = Append(r.delay, t)]
        ELSE [r EXCEPT !.delay_ticks[t] = 0]
  <2>1. block_on_wait_list(K, t, w, n) =
          IF n # Forever
          THEN [r EXCEPT !.delay_ticks[t] = n, !.delay = Append(@, t)]
          ELSE [r EXCEPT !.delay_ticks[t] = 0]
    BY DEF block_on_wait_list
  <2> HIDE DEF r
  <2>2. QED  BY <2>1, <1>3 DEF Kernel
<1> HIDE DEF r
<1>5. Append(r.delay, t) \in Seq(Task) /\ 0 \in 0 .. MaxDelay
  BY <1>3, FieldTypes, KernelAssumption
<1>6. CASE n # Forever
  <2>1. n \in 0 .. MaxDelay
    BY <1>6, KernelAssumption DEF Forever
  <2>2. [r EXCEPT !.delay_ticks[t] = n, !.delay = Append(r.delay, t)] \in Kernel
    BY <1>3, <1>5, <2>1 DEF Kernel
  <2>3. QED  BY <1>4, <1>6, <2>2
<1>7. CASE n = Forever
  <2>1. [r EXCEPT !.delay_ticks[t] = 0] \in Kernel
    BY <1>3, <1>5 DEF Kernel
  <2>2. QED  BY <1>4, <1>7, <2>1
<1>8. QED  BY <1>6, <1>7

\* The kernel unblock_highest and the tick leave before they call add_ready.
LEMMA OffWaitListType ==
  ASSUME NEW K \in Kernel, NEW w \in WaitList, NEW t \in Task
  PROVE  [wait_list_remove(K, w, t) EXCEPT !.wait_list[t] = None] \in Kernel
<1> DEFINE l == RemoveFirst(K.waiters[w], t)
<1>1. l \in Seq(Task)
  BY FieldTypes, RemoveType
<1>2. wait_list_remove(K, w, t) = [K EXCEPT !.waiters[w] = l]
  BY DEF wait_list_remove
<1> HIDE DEF l
<1>3. [[K EXCEPT !.waiters[w] = l] EXCEPT !.wait_list[t] = None] \in Kernel
  BY <1>1 DEF Kernel
<1>4. QED  BY <1>2, <1>3

LEMMA UnblockHighestType ==
  ASSUME NEW K \in Kernel, NEW w \in WaitList
  PROVE  unblock_highest(K, w) \in Kernel
<1>1. CASE K.waiters[w] = <<>>
  BY <1>1 DEF unblock_highest
<1>2. CASE K.waiters[w] # <<>>
  <2> DEFINE t == Head(K.waiters[w])
             r == [wait_list_remove(K, w, t) EXCEPT !.wait_list[t] = None]
             u == Unlinked(r, t)
             F == IF Contains(K.delay, t) THEN u.fault ELSE u.fault \cup {t}
             d == [u EXCEPT !.delay_ticks[t] = 0,
                            !.fault = IF Contains(K.delay, t) THEN @ ELSE @ \cup {t}]
  <2>1. t \in Task
    BY <1>2, FieldTypes, HeadElement
  <2>2. unblock_highest(K, w) =
            IF K.delay_ticks[t] > 0 THEN add_ready(d, t) ELSE add_ready(r, t)
    BY <1>2 DEF unblock_highest
  <2> HIDE DEF t
  <2>3. r \in Kernel
    BY <2>1, OffWaitListType
  <2> HIDE DEF r
  <2>4. u \in Kernel
    BY <2>1, <2>3, UnlinkedType
  <2> HIDE DEF u
  <2>5. d \in Kernel
    <3>1. F \in SUBSET Task /\ 0 \in 0 .. MaxDelay
      BY <2>1, <2>4, FieldTypes, KernelAssumption
    <3>2. d = [u EXCEPT !.delay_ticks[t] = 0, !.fault = F]
      BY <2>4 DEF Kernel
    <3> HIDE DEF F, d
    <3>3. [u EXCEPT !.delay_ticks[t] = 0, !.fault = F] \in Kernel
      BY <2>1, <2>4, <3>1 DEF Kernel
    <3>4. QED  BY <3>2, <3>3
  <2> HIDE DEF d
  <2>6. add_ready(d, t) \in Kernel /\ add_ready(r, t) \in Kernel
    BY <2>1, <2>3, <2>5, AddReadyType
  <2>7. QED  BY <2>2, <2>6
<1>3. QED  BY <1>1, <1>2

LEMMA DelayedTaskTickType ==
  ASSUME NEW K \in Kernel, NEW t \in Task
  PROVE  delayed_task_tick(K, t) \in Kernel
<1> DEFINE w == K.wait_list[t]
           l == RemoveFirst(K.delay, t)
           r == [K EXCEPT !.delay_ticks[t] = 0, !.delay = l]
           o == [wait_list_remove(r, w, t) EXCEPT !.wait_list[t] = None]
<1>1. K.delay_ticks[t] \in 0 .. MaxDelay /\ w \in WaitList \cup {None} /\ l \in Seq(Task)
  BY FieldTypes, RemoveType
<1>2. delayed_task_tick(K, t) =
        IF K.delay_ticks[t] > 1
        THEN [K EXCEPT !.delay_ticks[t] = K.delay_ticks[t] - 1]
        ELSE IF w = None THEN add_ready(r, t) ELSE add_ready(o, t)
  BY DEF delayed_task_tick, Kernel
<1> HIDE DEF l
<1>3. r \in Kernel
  <2>1. 0 \in 0 .. MaxDelay
    BY KernelAssumption
  <2>2. QED  BY <1>1, <2>1 DEF Kernel
<1> HIDE DEF r
<1>4. w # None => o \in Kernel
  BY <1>1, <1>3, OffWaitListType
<1> HIDE DEF o
<1>5. add_ready(r, t) \in Kernel /\ (w # None => add_ready(o, t) \in Kernel)
  BY <1>3, <1>4, AddReadyType
<1>6. K.delay_ticks[t] > 1 => [K EXCEPT !.delay_ticks[t] = K.delay_ticks[t] - 1] \in Kernel
  <2>1. K.delay_ticks[t] > 1 => K.delay_ticks[t] - 1 \in 0 .. MaxDelay
    BY <1>1, KernelAssumption
  <2>2. ASSUME NEW n \in 0 .. MaxDelay PROVE [K EXCEPT !.delay_ticks[t] = n] \in Kernel
    BY DEF Kernel
  <2>3. QED  BY <2>1, <2>2
<1>7. QED  BY <1>2, <1>5, <1>6

LEMMA PerformSwitchType ==
  ASSUME NEW K \in Kernel, NEW prev, NEW next
  PROVE  perform_switch(K, prev, next) \in Kernel
<1> DEFINE f == [t \in Task |->
                    IF t = next THEN "RUNNING"
                    ELSE IF t = prev /\ K.state[t] = "RUNNING" THEN "READY"
                    ELSE K.state[t]]
<1>1. f \in [Task -> TaskState]
  BY FieldTypes DEF TaskState
<1>2. perform_switch(K, prev, next) = [K EXCEPT !.state = f]
  BY DEF perform_switch
<1> HIDE DEF f
<1>3. [K EXCEPT !.state = f] \in Kernel
  BY <1>1 DEF Kernel
<1>4. QED  BY <1>2, <1>3

LEMMA InitKernelType ==
  InitKernel \in Kernel
<1> DEFINE e == [ state         |-> [t \in Task |-> "ABSENT"],
                  priority      |-> [t \in Task |-> 0],
                  base_priority |-> [t \in Task |-> 0],
                  delay_ticks   |-> [t \in Task |-> 0],
                  wait_list     |-> [t \in Task |-> None],
                  registry      |-> {},
                  ready         |-> [p \in Priority |-> <<>>],
                  bitmap        |-> {},
                  delay         |-> <<>>,
                  waiters       |-> [w \in WaitList |-> <<>>],
                  fault         |-> {} ]
<1>1. e \in Kernel
  BY PriorityType, KernelAssumption DEF Kernel, TaskState
<1>2. InitKernel = create_static(e, Idle, 0)
  BY DEF InitKernel
<1> HIDE DEF e
<1>3. QED  BY <1>1, <1>2, CreateType, PriorityType, KernelAssumption

\* select_next_task returns a task or NULL.
LEMMA SelectType ==
  ASSUME NEW K \in Kernel
  PROVE  select_next_task(K) \in Task \cup {None}
<1>1. CASE K.bitmap = {}
  BY <1>1 DEF select_next_task
<1>2. CASE K.bitmap # {}
  <2>1. K.bitmap \in SUBSET (0 .. MaxPriorities - 1) /\ MaxPriorities - 1 \in Nat
    BY FieldTypes, KernelAssumption DEF Priority
  <2>2. Max(K.bitmap) \in Priority
    BY <1>2, <2>1, MaxExists DEF Priority
  <2>3. K.ready[Max(K.bitmap)] \in Seq(Task)
    BY <2>2, FieldTypes
  <2>4. QED  BY <2>3, HeadElement DEF select_next_task
<1>3. QED  BY <1>1, <1>2

\* The task unblock_highest wakes.
LEMMA HighestWaiterType ==
  ASSUME NEW K \in Kernel, NEW w \in WaitList
  PROVE  highest_waiter(K, w) \in Task \cup {None}
BY FieldTypes, HeadElement DEF highest_waiter

-----------------------------------------------------------------------------
(* Every routine keeps the lists consistent.                               *)


\* r is K after task t was taken off every list and made ready with priority p.
MadeReady(K, r, t, p) ==
    /\ r.state = [K.state EXCEPT ![t] = "READY"]
    /\ r.priority = [K.priority EXCEPT ![t] = p]
    /\ r.delay_ticks = [K.delay_ticks EXCEPT ![t] = 0]
    /\ r.wait_list = [K.wait_list EXCEPT ![t] = None]
    /\ r.ready = [K.ready EXCEPT ![p] = Append(@, t)]
    /\ r.bitmap = K.bitmap \cup {p}
    /\ r.delay = RemoveFirst(K.delay, t)
    /\ r.waiters = [w \in WaitList |-> RemoveFirst(K.waiters[w], t)]
    /\ r.fault = K.fault

\* r is K after the runnable task t was blocked with a countdown of n ticks
\* (none if n = 0) on the wait list w (none if w is NULL).
MadeBlocked(K, r, t, w, n) ==
    /\ r.state = [K.state EXCEPT ![t] = "BLOCKED"]
    /\ r.priority = K.priority
    /\ r.delay_ticks = [K.delay_ticks EXCEPT ![t] = n]
    /\ r.wait_list = [K.wait_list EXCEPT ![t] = w]
    /\ r.ready = [K.ready EXCEPT ![K.priority[t]] = RemoveFirst(@, t)]
    /\ r.bitmap = IF RemoveFirst(K.ready[K.priority[t]], t) = <<>>
                  THEN K.bitmap \ {K.priority[t]} ELSE K.bitmap
    /\ r.delay = IF n = 0 THEN K.delay ELSE Append(K.delay, t)
    /\ r.fault = K.fault
    /\ IF w = None
       THEN r.waiters = K.waiters
       ELSE \E l \in Seq(Task) :
              /\ r.waiters = [K.waiters EXCEPT ![w] = l]
              /\ \A u : Contains(l, u) <=> (Contains(K.waiters[w], u) \/ u = t)
              /\ IsInjective(K.waiters[w]) /\ ~Contains(K.waiters[w], t) => IsInjective(l)

\* A list without the task is not changed by its removal.
LEMMA RemoveAbsent ==
  ASSUME NEW S, NEW s \in Seq(S), NEW e, ~Contains(s, e)
  PROVE  RemoveFirst(s, e) = s
BY DEF RemoveFirst, Contains

\* A task that is not runnable can be made ready.
LEMMA MadeReadyConsistent ==
  ASSUME NEW K \in Kernel, NEW r \in Kernel, NEW t \in Task, NEW p \in Priority,
         KernelConsistent(K), K.state[t] \notin Runnable, MadeReady(K, r, t, p)
  PROVE  KernelConsistent(r)
<1>1. \A u \in Task :
        /\ K.state[u] \in TaskState /\ r.state[u] = IF u = t THEN "READY" ELSE K.state[u]
        /\ K.priority[u] \in Priority /\ r.priority[u] = IF u = t THEN p ELSE K.priority[u]
        /\ K.delay_ticks[u] \in 0 .. MaxDelay
        /\ r.delay_ticks[u] = IF u = t THEN 0 ELSE K.delay_ticks[u]
        /\ r.wait_list[u] = IF u = t THEN None ELSE K.wait_list[u]
  <2>1. /\ K.state \in [Task -> TaskState] /\ K.priority \in [Task -> Priority]
        /\ K.delay_ticks \in [Task -> 0 .. MaxDelay]
        /\ K.wait_list \in [Task -> WaitList \cup {None}]
    BY FieldTypes
  <2>2. /\ r.state = [K.state EXCEPT ![t] = "READY"]
        /\ r.priority = [K.priority EXCEPT ![t] = p]
        /\ r.delay_ticks = [K.delay_ticks EXCEPT ![t] = 0]
        /\ r.wait_list = [K.wait_list EXCEPT ![t] = None]
    BY DEF MadeReady
  <2>3. QED  BY <2>1, <2>2
<1>2. /\ \A q \in Priority : K.ready[q] \in Seq(Task)
      /\ \A q \in Priority : r.ready[q] = IF q = p THEN Append(K.ready[q], t) ELSE K.ready[q]
      /\ r.bitmap = K.bitmap \cup {p}
  BY FieldTypes DEF MadeReady
<1>3. /\ K.delay \in Seq(Task) /\ r.delay = RemoveFirst(K.delay, t)
      /\ \A w \in WaitList : K.waiters[w] \in Seq(Task) /\ r.waiters[w] = RemoveFirst(K.waiters[w], t)
  BY FieldTypes DEF MadeReady
<1>4. ListsInjective(K) /\ ReadyQueuesConsistent(K) /\ BitmapConsistent(K)
      /\ DelayListConsistent(K) /\ WaitListsConsistent(K) /\ BlockedCanWake(K)
  BY DEF KernelConsistent
<1>5. \A q \in Priority : ~Contains(K.ready[q], t)
  BY <1>4 DEF ReadyQueuesConsistent
<1>6. \A q \in Priority : /\ IsInjective(r.ready[q])
                          /\ \A u : Contains(r.ready[q], u) <=> (Contains(K.ready[q], u) \/ (q = p /\ u = t))
  BY <1>2, <1>4, <1>5, AppendElements DEF ListsInjective
<1>7. /\ IsInjective(r.delay)
      /\ \A u : Contains(r.delay, u) <=> (Contains(K.delay, u) /\ u # t)
  BY <1>3, <1>4, RemoveElements DEF ListsInjective
<1>8. \A w \in WaitList : /\ IsInjective(r.waiters[w])
                          /\ \A u : Contains(r.waiters[w], u) <=> (Contains(K.waiters[w], u) /\ u # t)
  BY <1>3, <1>4, RemoveElements DEF ListsInjective
<1>9. ListsInjective(r)
  BY <1>6, <1>7, <1>8 DEF ListsInjective
<1>10. ReadyQueuesConsistent(r)
  BY <1>1, <1>4, <1>5, <1>6 DEF ReadyQueuesConsistent, Runnable
<1>11. BitmapConsistent(r)
  <2>1. K.ready[p] \in Seq(Task) /\ r.ready[p] = Append(K.ready[p], t)
    BY <1>2
  <2>2. r.ready[p] # <<>>
    BY <2>1, AppendElements
  <2>3. QED  BY <2>2, <1>2, <1>4 DEF BitmapConsistent
<1>12. DelayListConsistent(r)
  BY <1>1, <1>4, <1>7 DEF DelayListConsistent
<1>13. WaitListsConsistent(r)
  BY <1>1, <1>4, <1>8, KernelAssumption DEF WaitListsConsistent
<1>14. BlockedCanWake(r)
  BY <1>1, <1>4 DEF BlockedCanWake
<1>15. QED  BY <1>9, <1>10, <1>11, <1>12, <1>13, <1>14 DEF KernelConsistent

\* A runnable task can be blocked, with a countdown, on a wait list or both.
LEMMA MadeBlockedConsistent ==
  ASSUME NEW K \in Kernel, NEW r \in Kernel, NEW t \in Task,
         NEW w \in WaitList \cup {None}, NEW n \in 0 .. MaxDelay,
         n > 0 \/ w # None,
         KernelConsistent(K), K.state[t] \in Runnable, MadeBlocked(K, r, t, w, n)
  PROVE  KernelConsistent(r)
<1> DEFINE p == K.priority[t]
           q == RemoveFirst(K.ready[p], t)
<1>1. \A u \in Task :
        /\ K.state[u] \in TaskState /\ r.state[u] = IF u = t THEN "BLOCKED" ELSE K.state[u]
        /\ K.priority[u] \in Priority /\ r.priority[u] = K.priority[u]
        /\ K.delay_ticks[u] \in 0 .. MaxDelay
        /\ r.delay_ticks[u] = IF u = t THEN n ELSE K.delay_ticks[u]
        /\ r.wait_list[u] = IF u = t THEN w ELSE K.wait_list[u]
  BY FieldTypes DEF MadeBlocked
<1>2. /\ p \in Priority
      /\ \A v \in Priority : K.ready[v] \in Seq(Task)
      /\ \A v \in Priority : r.ready[v] = IF v = p THEN q ELSE K.ready[v]
      /\ r.bitmap = IF q = <<>> THEN K.bitmap \ {p} ELSE K.bitmap
  BY FieldTypes DEF MadeBlocked
<1>3. /\ K.delay \in Seq(Task) /\ r.delay = IF n = 0 THEN K.delay ELSE Append(K.delay, t)
      /\ \A v \in WaitList : K.waiters[v] \in Seq(Task)
      /\ n \in Nat
  BY FieldTypes, KernelAssumption DEF MadeBlocked
<1>4. ListsInjective(K) /\ ReadyQueuesConsistent(K) /\ BitmapConsistent(K)
      /\ DelayListConsistent(K) /\ WaitListsConsistent(K) /\ BlockedCanWake(K)
  BY DEF KernelConsistent
<1>5. /\ K.delay_ticks[t] = 0 /\ K.wait_list[t] = None
      /\ ~Contains(K.delay, t)
      /\ \A v \in WaitList : ~Contains(K.waiters[v], t)
  BY <1>1, <1>4, KernelAssumption DEF DelayListConsistent, WaitListsConsistent, Runnable
<1>6. /\ IsInjective(q)
      /\ \A u : Contains(q, u) <=> (Contains(K.ready[p], u) /\ u # t)
  <2>1. K.ready[p] \in Seq(Task) /\ IsInjective(K.ready[p])
    BY <1>2, <1>4 DEF ListsInjective
  <2>2. QED  BY <2>1, RemoveElements
<1>7. /\ IsInjective(r.delay)
      /\ \A u : Contains(r.delay, u) <=> (Contains(K.delay, u) \/ (u = t /\ n > 0))
  <2>1. IsInjective(K.delay)
    BY <1>4 DEF ListsInjective
  <2>2. /\ IsInjective(Append(K.delay, t))
        /\ \A u : Contains(Append(K.delay, t), u) <=> (Contains(K.delay, u) \/ u = t)
    BY <1>3, <1>5, <2>1, AppendElements
  <2>3. CASE n = 0
    BY <2>3, <2>1, <1>3
  <2>4. CASE n # 0
    BY <2>4, <2>2, <1>3
  <2>5. QED  BY <2>3, <2>4
<1>8. \A v \in WaitList :
         /\ IsInjective(r.waiters[v])
         /\ \A u : Contains(r.waiters[v], u) <=> (Contains(K.waiters[v], u) \/ (u = t /\ v = w))
  <2> SUFFICES ASSUME NEW v \in WaitList
               PROVE  /\ IsInjective(r.waiters[v])
                      /\ \A u : Contains(r.waiters[v], u) <=> (Contains(K.waiters[v], u) \/ (u = t /\ v = w))
    OBVIOUS
  <2>1. IsInjective(K.waiters[v]) /\ K.waiters \in [WaitList -> Seq(Task)]
    BY <1>4, FieldTypes DEF ListsInjective
  <2>2. CASE w = None
    <3>1. r.waiters = K.waiters /\ v # w
      BY <2>2, KernelAssumption DEF MadeBlocked
    <3>2. QED  BY <2>1, <3>1
  <2>3. CASE w # None
    <3>1. PICK l \in Seq(Task) :
              /\ r.waiters = [K.waiters EXCEPT ![w] = l]
              /\ \A u : Contains(l, u) <=> (Contains(K.waiters[w], u) \/ u = t)
              /\ IsInjective(K.waiters[w]) /\ ~Contains(K.waiters[w], t) => IsInjective(l)
      BY <2>3 DEF MadeBlocked
    <3>2. CASE v = w
      <4>1. r.waiters[v] = l
        BY <3>1, <3>2, <2>1
      <4>2. QED  BY <4>1, <3>1, <3>2, <2>1, <1>5
    <3>3. CASE v # w
      <4>1. r.waiters[v] = K.waiters[v]
        BY <3>1, <3>3, <2>1
      <4>2. QED  BY <4>1, <3>3, <2>1
    <3>4. QED  BY <3>2, <3>3
  <2>4. QED  BY <2>2, <2>3
<1> HIDE DEF q
<1>9. ListsInjective(r)
  BY <1>2, <1>4, <1>6, <1>7, <1>8 DEF ListsInjective
<1>10. ReadyQueuesConsistent(r)
  BY <1>1, <1>2, <1>4, <1>6 DEF ReadyQueuesConsistent, Runnable
<1>11. BitmapConsistent(r)
  <2>1. K.ready[p] \in Seq(Task) /\ Contains(K.ready[p], t)
    BY <1>1, <1>2, <1>4 DEF ReadyQueuesConsistent
  <2>2. K.ready[p] # <<>>
    BY <2>1, HeadElement
  <2> HIDE DEF p
  <2>3. QED  BY <2>2, <1>2, <1>4 DEF BitmapConsistent
<1>12. DelayListConsistent(r)
  BY <1>1, <1>3, <1>4, <1>5, <1>7 DEF DelayListConsistent
<1>13. WaitListsConsistent(r)
  BY <1>1, <1>4, <1>5, <1>8, KernelAssumption DEF WaitListsConsistent
<1>14. BlockedCanWake(r)
  BY <1>1, <1>3, <1>4 DEF BlockedCanWake
<1>15. QED  BY <1>9, <1>10, <1>11, <1>12, <1>13, <1>14 DEF KernelConsistent

-----------------------------------------------------------------------------
(***************************************************************************)
(* Priorities that change.  A mutex changes the priority of a task that is *)
(* RUNNING and leaves it on the queue of its old priority.  Until the task *)
(* is next taken off its queue, which is then a misuse, the lists are in   *)
(* order but for that.                                                     *)
(***************************************************************************)

Placed(K, at) == [K EXCEPT !.priority = at]

\* The lists are in order if every task has the priority of its queue.
Linked(K) == \E at \in [Task -> Priority] : KernelConsistent(Placed(K, at))

LEMMA PlacedFields ==
  ASSUME NEW K \in Kernel, NEW at \in [Task -> Priority]
  PROVE  /\ Placed(K, at) \in Kernel
         /\ Placed(K, at).priority = at /\ Placed(K, at).state = K.state
         /\ Placed(K, at).delay_ticks = K.delay_ticks /\ Placed(K, at).wait_list = K.wait_list
         /\ Placed(K, at).ready = K.ready /\ Placed(K, at).bitmap = K.bitmap
         /\ Placed(K, at).delay = K.delay /\ Placed(K, at).waiters = K.waiters
         /\ Placed(K, at).fault = K.fault
BY DEF Kernel, Placed

\* What the lists are consistent with.
LEMMA ConsistentSame ==
  ASSUME NEW K, NEW r, KernelConsistent(K), r.state = K.state, r.priority = K.priority,
         r.delay_ticks = K.delay_ticks, r.wait_list = K.wait_list, r.ready = K.ready,
         r.bitmap = K.bitmap, r.delay = K.delay, r.waiters = K.waiters
  PROVE  KernelConsistent(r)
BY DEF KernelConsistent, ListsInjective, ReadyQueuesConsistent, BitmapConsistent,
       DelayListConsistent, WaitListsConsistent, BlockedCanWake

LEMMA KernelLinked ==
  ASSUME NEW K \in Kernel, KernelConsistent(K)
  PROVE  Linked(K)
<1>1. K.priority \in [Task -> Priority]
  BY FieldTypes
<1>2. KernelConsistent(Placed(K, K.priority))
  <2> DEFINE r == Placed(K, K.priority)
  <2>1. /\ r.state = K.state /\ r.priority = K.priority
        /\ r.delay_ticks = K.delay_ticks /\ r.wait_list = K.wait_list /\ r.ready = K.ready
        /\ r.bitmap = K.bitmap /\ r.delay = K.delay /\ r.waiters = K.waiters
    BY <1>1, PlacedFields
  <2> HIDE DEF r
  <2>2. KernelConsistent(r)
    BY <2>1, ConsistentSame
  <2>3. QED  BY <2>2 DEF r
<1>3. QED  BY <1>1, <1>2 DEF Linked

\* All but the queue of a runnable task is as in a consistent kernel.
LEMMA LinkedFacts ==
  ASSUME NEW K \in Kernel, Linked(K)
  PROVE  /\ ListsInjective(K) /\ BitmapConsistent(K) /\ DelayListConsistent(K)
         /\ WaitListsConsistent(K) /\ BlockedCanWake(K)
         /\ \A t \in Task : (\E q \in Priority : Contains(K.ready[q], t)) <=> K.state[t] \in Runnable
<1>1. PICK at \in [Task -> Priority] : KernelConsistent(Placed(K, at))
  BY DEF Linked
<1> DEFINE r == Placed(K, at)
<1>2. /\ r.priority = at /\ r.state = K.state
      /\ r.delay_ticks = K.delay_ticks /\ r.wait_list = K.wait_list /\ r.ready = K.ready
      /\ r.bitmap = K.bitmap /\ r.delay = K.delay /\ r.waiters = K.waiters
  BY PlacedFields
<1>3. KernelConsistent(r)
  BY <1>1
<1> HIDE DEF r
<1>4. ListsInjective(K) /\ BitmapConsistent(K)
  BY <1>2, <1>3 DEF KernelConsistent, ListsInjective, BitmapConsistent
<1>5. DelayListConsistent(K) /\ WaitListsConsistent(K) /\ BlockedCanWake(K)
  BY <1>2, <1>3 DEF KernelConsistent, DelayListConsistent, WaitListsConsistent, BlockedCanWake
<1>6. \A t \in Task : (\E q \in Priority : Contains(K.ready[q], t)) <=> K.state[t] \in Runnable
  BY <1>2, <1>3 DEF KernelConsistent, ReadyQueuesConsistent
<1>7. QED  BY <1>4, <1>5, <1>6

\* A task that is not runnable can be made ready.
LEMMA MadeReadyLinked ==
  ASSUME NEW K \in Kernel, NEW r \in Kernel, NEW t \in Task, NEW p \in Priority,
         Linked(K), K.state[t] \notin Runnable, MadeReady(K, r, t, p)
  PROVE  Linked(r)
<1>1. PICK at \in [Task -> Priority] : KernelConsistent(Placed(K, at))
  BY DEF Linked
<1> DEFINE to == [at EXCEPT ![t] = p]
           a == Placed(K, at)
           b == Placed(r, to)
<1>2. to \in [Task -> Priority]
  OBVIOUS
<1> HIDE DEF to
<1>3. /\ a \in Kernel /\ a.priority = at /\ a.state = K.state
      /\ a.delay_ticks = K.delay_ticks /\ a.wait_list = K.wait_list /\ a.ready = K.ready
      /\ a.bitmap = K.bitmap /\ a.delay = K.delay /\ a.waiters = K.waiters /\ a.fault = K.fault
  BY PlacedFields
<1>4. /\ b \in Kernel /\ b.priority = to /\ b.state = r.state
      /\ b.delay_ticks = r.delay_ticks /\ b.wait_list = r.wait_list /\ b.ready = r.ready
      /\ b.bitmap = r.bitmap /\ b.delay = r.delay /\ b.waiters = r.waiters /\ b.fault = r.fault
  BY <1>2, PlacedFields
<1>5. KernelConsistent(a)
  BY <1>1
<1> HIDE DEF a, b
<1>6. MadeReady(a, b, t, p)
  BY <1>3, <1>4, Zenon DEF MadeReady, to
<1>7. a.state[t] \notin Runnable
  BY <1>3
<1>8. KernelConsistent(b)
  BY <1>3, <1>4, <1>5, <1>6, <1>7, MadeReadyConsistent
<1>9. QED  BY <1>2, <1>8 DEF Linked, b

\* A runnable task that is on the queue of its priority can be blocked.
LEMMA MadeBlockedLinked ==
  ASSUME NEW K \in Kernel, NEW r \in Kernel, NEW t \in Task,
         NEW w \in WaitList \cup {None}, NEW n \in 0 .. MaxDelay, n > 0 \/ w # None,
         Linked(K), Contains(K.ready[K.priority[t]], t), MadeBlocked(K, r, t, w, n)
  PROVE  Linked(r)
<1>1. PICK at \in [Task -> Priority] : KernelConsistent(Placed(K, at))
  BY DEF Linked
<1> DEFINE a == Placed(K, at)
           b == Placed(r, at)
<1>2. /\ a \in Kernel /\ a.priority = at /\ a.state = K.state
      /\ a.delay_ticks = K.delay_ticks /\ a.wait_list = K.wait_list /\ a.ready = K.ready
      /\ a.bitmap = K.bitmap /\ a.delay = K.delay /\ a.waiters = K.waiters /\ a.fault = K.fault
  BY PlacedFields
<1>3. /\ b \in Kernel /\ b.priority = at /\ b.state = r.state
      /\ b.delay_ticks = r.delay_ticks /\ b.wait_list = r.wait_list /\ b.ready = r.ready
      /\ b.bitmap = r.bitmap /\ b.delay = r.delay /\ b.waiters = r.waiters /\ b.fault = r.fault
  BY PlacedFields
<1>4. KernelConsistent(a)
  BY <1>1
<1> HIDE DEF a, b
<1>5. at[t] = K.priority[t] /\ a.state[t] \in Runnable
  BY <1>2, <1>4, FieldTypes DEF KernelConsistent, ReadyQueuesConsistent
<1>6. MadeBlocked(a, b, t, w, n)
  BY <1>2, <1>3, <1>5, Zenon DEF MadeBlocked
<1>7. KernelConsistent(b)
  BY <1>2, <1>3, <1>4, <1>5, <1>6, MadeBlockedConsistent
<1>8. QED  BY <1>7 DEF Linked, b

-----------------------------------------------------------------------------
(* What the routines do to a consistent kernel.                            *)

LEMMA AddReadyFields ==
  ASSUME NEW K \in Kernel, NEW t \in Task
  PROVE  /\ add_ready(K, t).state = [K.state EXCEPT ![t] = "READY"]
         /\ add_ready(K, t).priority = K.priority
         /\ add_ready(K, t).delay_ticks = K.delay_ticks
         /\ add_ready(K, t).wait_list = K.wait_list
         /\ add_ready(K, t).ready = [K.ready EXCEPT ![K.priority[t]] = Append(@, t)]
         /\ add_ready(K, t).bitmap = K.bitmap \cup {K.priority[t]}
         /\ add_ready(K, t).delay = K.delay
         /\ add_ready(K, t).waiters = K.waiters
         /\ ~StateLinked(K, t) => add_ready(K, t).fault = K.fault
BY DEF Kernel, add_ready

\* add_ready after the task was taken off its lists.
LEMMA AddReadyEffect ==
  ASSUME NEW K, NEW d \in Kernel, NEW t \in Task, NEW p \in Priority,
         d.state = K.state,
         d.priority = [K.priority EXCEPT ![t] = p],
         d.priority[t] = p,
         d.delay_ticks = [K.delay_ticks EXCEPT ![t] = 0],
         d.wait_list = [K.wait_list EXCEPT ![t] = None],
         d.ready = K.ready,
         d.bitmap = K.bitmap,
         d.delay = RemoveFirst(K.delay, t),
         d.waiters = [w \in WaitList |-> RemoveFirst(K.waiters[w], t)],
         d.fault = K.fault,
         ~StateLinked(d, t)
  PROVE  MadeReady(K, add_ready(d, t), t, p)
<1>1. /\ add_ready(d, t).state = [d.state EXCEPT ![t] = "READY"]
      /\ add_ready(d, t).priority = d.priority
      /\ add_ready(d, t).delay_ticks = d.delay_ticks
      /\ add_ready(d, t).wait_list = d.wait_list
      /\ add_ready(d, t).ready = [d.ready EXCEPT ![d.priority[t]] = Append(@, t)]
      /\ add_ready(d, t).bitmap = d.bitmap \cup {d.priority[t]}
      /\ add_ready(d, t).delay = d.delay
      /\ add_ready(d, t).waiters = d.waiters
      /\ add_ready(d, t).fault = d.fault
  BY AddReadyFields
<1>2. QED  BY <1>1, Zenon DEF MadeReady

\* A task that is not runnable is on no ready queue, and on no list at all
\* if it is not blocked.
LEMMA OffLinked ==
  ASSUME NEW K \in Kernel, NEW t \in Task, Linked(K), K.state[t] \notin Runnable
  PROVE  /\ \A q \in Priority : ~Contains(K.ready[q], t)
         /\ [q \in Priority |-> RemoveFirst(K.ready[q], t)] = K.ready
         /\ StateLinked(K, t) => Contains(K.delay, t)
         /\ K.delay_ticks[t] = 0 => RemoveFirst(K.delay, t) = K.delay /\ ~StateLinked(K, t)
         /\ K.wait_list[t] = None => [w \in WaitList |-> RemoveFirst(K.waiters[w], t)] = K.waiters
         /\ K.state[t] # "BLOCKED" => K.delay_ticks[t] = 0 /\ K.wait_list[t] = None
<1>1. /\ K.ready \in [Priority -> Seq(Task)] /\ K.delay \in Seq(Task)
      /\ K.waiters \in [WaitList -> Seq(Task)]
      /\ K.delay_ticks[t] \in 0 .. MaxDelay
  BY FieldTypes
<1>2. DelayListConsistent(K) /\ WaitListsConsistent(K)
  BY LinkedFacts
<1>3. \A q \in Priority : ~Contains(K.ready[q], t)
  BY LinkedFacts
<1>4. \A q \in Priority : RemoveFirst(K.ready[q], t) = K.ready[q]
  BY <1>1, <1>3, RemoveAbsent
<1>5. K.delay_ticks[t] = 0 => ~Contains(K.delay, t)
  BY <1>2 DEF DelayListConsistent
<1>6. K.delay_ticks[t] = 0 => RemoveFirst(K.delay, t) = K.delay
  BY <1>1, <1>5, RemoveAbsent
<1>7. K.wait_list[t] = None => \A w \in WaitList : ~Contains(K.waiters[w], t)
  BY <1>2, KernelAssumption DEF WaitListsConsistent
<1>8. K.wait_list[t] = None => \A w \in WaitList : RemoveFirst(K.waiters[w], t) = K.waiters[w]
  BY <1>1, <1>7, RemoveAbsent
<1>9. K.state[t] # "BLOCKED" => K.delay_ticks[t] = 0 /\ K.wait_list[t] = None
  BY <1>1, <1>2, KernelAssumption DEF DelayListConsistent, WaitListsConsistent
<1>10. QED
  BY <1>1, <1>3, <1>4, <1>5, <1>6, <1>8, <1>9 DEF StateLinked

LEMMA OffLists ==
  ASSUME NEW K \in Kernel, NEW t \in Task, KernelConsistent(K), K.state[t] \notin Runnable
  PROVE  /\ \A q \in Priority : ~Contains(K.ready[q], t)
         /\ [q \in Priority |-> RemoveFirst(K.ready[q], t)] = K.ready
         /\ StateLinked(K, t) => Contains(K.delay, t)
         /\ K.delay_ticks[t] = 0 => RemoveFirst(K.delay, t) = K.delay /\ ~StateLinked(K, t)
         /\ K.wait_list[t] = None => [w \in WaitList |-> RemoveFirst(K.waiters[w], t)] = K.waiters
         /\ K.state[t] # "BLOCKED" => K.delay_ticks[t] = 0 /\ K.wait_list[t] = None
BY KernelLinked, OffLinked

\* sertos_task_create_static makes the new task ready.
LEMMA CreateLinked ==
  ASSUME NEW K \in Kernel, NEW t \in Task, NEW p \in Priority,
         Linked(K), K.state[t] = "ABSENT"
  PROVE  MadeReady(K, create_static(K, t, p), t, p)
<1> DEFINE d == [K EXCEPT !.priority[t] = p, !.base_priority[t] = p,
                          !.delay_ticks[t] = 0, !.wait_list[t] = None]
           a == add_ready(d, t)
<1>1. /\ d.priority = [K.priority EXCEPT ![t] = p]
      /\ d.delay_ticks = [K.delay_ticks EXCEPT ![t] = 0]
      /\ d.wait_list = [K.wait_list EXCEPT ![t] = None]
      /\ d.state = K.state /\ d.ready = K.ready /\ d.bitmap = K.bitmap
      /\ d.delay = K.delay /\ d.waiters = K.waiters /\ d.fault = K.fault
  BY DEF Kernel
<1>2. d \in Kernel
  <2>1. 0 \in 0 .. MaxDelay
    BY KernelAssumption
  <2>2. QED  BY <2>1 DEF Kernel
<1>3. d.priority[t] = p
  BY <1>1, FieldTypes
<1>4. create_static(K, t, p) = [a EXCEPT !.registry = @ \cup {t}]
  BY DEF create_static
<1> HIDE DEF d
<1>5. ~StateLinked(d, t)
  BY <1>1, OffLinked DEF StateLinked, Runnable
<1>6. a \in Kernel
  BY <1>2, AddReadyType
<1>7. /\ K.delay = RemoveFirst(K.delay, t)
      /\ K.waiters = [w \in WaitList |-> RemoveFirst(K.waiters[w], t)]
  BY OffLinked DEF Runnable
<1>8. MadeReady(K, a, t, p)
  BY <1>1, <1>2, <1>3, <1>5, <1>7, AddReadyEffect
<1> HIDE DEF a
<1>9. QED  BY <1>4, <1>6, <1>8 DEF MadeReady, Kernel

LEMMA CreateEffect ==
  ASSUME NEW K \in Kernel, NEW t \in Task, NEW p \in Priority,
         KernelConsistent(K), K.state[t] = "ABSENT"
  PROVE  MadeReady(K, create_static(K, t, p), t, p)
BY KernelLinked, CreateLinked

\* unblock_highest makes the first waiter ready and disarms its timeout.
LEMMA UnblockLinked ==
  ASSUME NEW K \in Kernel, NEW w \in WaitList, Linked(K), K.waiters[w] # <<>>
  PROVE  /\ Head(K.waiters[w]) \in Task
         /\ K.state[Head(K.waiters[w])] = "BLOCKED"
         /\ MadeReady(K, unblock_highest(K, w), Head(K.waiters[w]), K.priority[Head(K.waiters[w])])
<1> DEFINE t == Head(K.waiters[w])
           p == K.priority[t]
           r == [wait_list_remove(K, w, t) EXCEPT !.wait_list[t] = None]
           u == [Unlinked(r, t) EXCEPT !.delay_ticks[t] = 0,
                    !.fault = IF Contains(K.delay, t) THEN @ ELSE @ \cup {t}]
           L == [v \in WaitList |-> RemoveFirst(K.waiters[v], t)]
<1>1. /\ K.waiters \in [WaitList -> Seq(Task)] /\ K.delay_ticks \in [Task -> 0 .. MaxDelay]
      /\ K.wait_list \in [Task -> WaitList \cup {None}] /\ K.delay \in Seq(Task)
  BY FieldTypes
<1>2. t \in Task /\ Contains(K.waiters[w], t)
  BY <1>1, HeadElement
<1>3. DelayListConsistent(K) /\ WaitListsConsistent(K) /\ ListsInjective(K)
  BY LinkedFacts
<1>4. /\ K.wait_list[t] = w /\ K.state[t] = "BLOCKED"
      /\ \A v \in WaitList : v # w => ~Contains(K.waiters[v], t)
  BY <1>2, <1>3, KernelAssumption DEF WaitListsConsistent
<1>5. [K.waiters EXCEPT ![w] = RemoveFirst(@, t)] = L
  <2>1. \A v \in WaitList : v # w => RemoveFirst(K.waiters[v], t) = K.waiters[v]
    BY <1>1, <1>4, RemoveAbsent
  <2>2. QED  BY <1>1, <2>1
<1>6. unblock_highest(K, w) = IF K.delay_ticks[t] > 0 THEN add_ready(u, t) ELSE add_ready(r, t)
  BY DEF unblock_highest
<1> HIDE DEF t
<1>7. r \in Kernel
  BY <1>2, OffWaitListType
<1>8. /\ r.waiters = L /\ r.wait_list = [K.wait_list EXCEPT ![t] = None]
      /\ r.state = K.state /\ r.priority = K.priority /\ r.delay_ticks = K.delay_ticks
      /\ r.ready = K.ready /\ r.bitmap = K.bitmap /\ r.delay = K.delay /\ r.fault = K.fault
  <2> HIDE DEF L
  <2> QED  BY <1>5 DEF wait_list_remove, Kernel
<1>9. p \in Priority /\ K.priority = [K.priority EXCEPT ![t] = p]
  BY <1>2, FieldTypes
<1> HIDE DEF r, L
<1>10. CASE K.delay_ticks[t] > 0
  <2>1. Contains(K.delay, t)
    BY <1>2, <1>3, <1>10 DEF DelayListConsistent
  <2>2. [q \in Priority |-> RemoveFirst(r.ready[q], t)] = K.ready
    <3>1. [q \in Priority |-> RemoveFirst(K.ready[q], t)] = K.ready
      BY <1>2, <1>4, OffLinked DEF Runnable
    <3>2. QED  BY <3>1, <1>8, Zenon
  <2>3. /\ u.delay_ticks = [K.delay_ticks EXCEPT ![t] = 0]
        /\ u.ready = K.ready
        /\ u.delay = RemoveFirst(K.delay, t)
        /\ u.fault = K.fault
        /\ u.state = K.state /\ u.priority = K.priority /\ u.wait_list = r.wait_list
        /\ u.bitmap = K.bitmap /\ u.waiters = L
    BY <1>7, <1>8, <2>1, <2>2 DEF Unlinked, Kernel
  <2>4. u \in Kernel
    <3>1. Unlinked(r, t) \in Kernel
      BY <1>2, <1>7, UnlinkedType
    <3>2. u = [Unlinked(r, t) EXCEPT !.delay_ticks[t] = 0]
      <4> HIDE DEF u
      <4>1. u = [Unlinked(r, t) EXCEPT !.delay_ticks[t] = 0, !.fault = Unlinked(r, t).fault]
        BY <2>1 DEF u
      <4>2. QED  BY <4>1, <3>1 DEF Kernel
    <3>3. 0 \in 0 .. MaxDelay
      BY KernelAssumption
    <3> HIDE DEF u
    <3>4. QED  BY <3>1, <3>2, <3>3, <1>2 DEF Kernel
  <2> HIDE DEF u
  <2>5. ~StateLinked(u, t)
    <3>1. \A q \in Priority : ~Contains(K.ready[q], t)
      BY <1>2, <1>4, OffLinked DEF Runnable
    <3>2. IsInjective(K.delay)
      BY <1>3 DEF ListsInjective
    <3>3. ~Contains(RemoveFirst(K.delay, t), t)
      BY <1>1, <3>2, RemoveElements
    <3>4. QED  BY <2>3, <3>1, <3>3 DEF StateLinked
  <2>6. MadeReady(K, add_ready(u, t), t, p)
    BY <2>3, <2>4, <2>5, <1>2, <1>8, <1>9, AddReadyEffect DEF L
  <2>7. QED  BY <2>6, <1>2, <1>4, <1>6, <1>10 DEF t
<1>11. CASE ~(K.delay_ticks[t] > 0)
  <2>1. K.delay_ticks[t] = 0
    BY <1>1, <1>2, <1>11
  <2>2. K.delay_ticks = [K.delay_ticks EXCEPT ![t] = 0]
    BY <1>1, <1>2, <2>1
  <2>3. RemoveFirst(K.delay, t) = K.delay /\ ~StateLinked(K, t)
    BY <2>1, <1>2, <1>4, OffLinked DEF Runnable
  <2>4. ~StateLinked(r, t)
    BY <2>3, <1>8 DEF StateLinked
  <2>5. MadeReady(K, add_ready(r, t), t, p)
    BY <2>2, <2>3, <2>4, <1>2, <1>7, <1>8, <1>9, AddReadyEffect DEF L
  <2>6. QED  BY <2>5, <1>2, <1>4, <1>6, <1>11 DEF t
<1>12. QED  BY <1>10, <1>11

LEMMA UnblockEffect ==
  ASSUME NEW K \in Kernel, NEW w \in WaitList, KernelConsistent(K), K.waiters[w] # <<>>
  PROVE  /\ Head(K.waiters[w]) \in Task
         /\ K.state[Head(K.waiters[w])] = "BLOCKED"
         /\ MadeReady(K, unblock_highest(K, w), Head(K.waiters[w]), K.priority[Head(K.waiters[w])])
BY KernelLinked, UnblockLinked

\* process_delayed_tasks counts a delay down.
LEMMA CountdownConsistent ==
  ASSUME NEW K \in Kernel, NEW t \in Task, KernelConsistent(K), K.delay_ticks[t] > 1
  PROVE  /\ delayed_task_tick(K, t) = [K EXCEPT !.delay_ticks[t] = @ - 1]
         /\ KernelConsistent(delayed_task_tick(K, t))
<1> DEFINE r == delayed_task_tick(K, t)
<1>1. r = [K EXCEPT !.delay_ticks[t] = @ - 1]
  BY DEF delayed_task_tick
<1>2. /\ r.state = K.state /\ r.priority = K.priority /\ r.ready = K.ready /\ r.bitmap = K.bitmap
      /\ r.delay = K.delay /\ r.waiters = K.waiters /\ r.wait_list = K.wait_list
      /\ r.delay_ticks = [K.delay_ticks EXCEPT ![t] = @ - 1]
  BY <1>1 DEF Kernel
<1>3. \A u \in Task : /\ K.delay_ticks[u] \in 0 .. MaxDelay
                      /\ r.delay_ticks[u] = IF u = t THEN K.delay_ticks[u] - 1 ELSE K.delay_ticks[u]
  BY <1>2, FieldTypes
<1>4. \A u \in Task : r.delay_ticks[u] > 0 <=> K.delay_ticks[u] > 0
  BY <1>3, KernelAssumption
<1> HIDE DEF r
<1>5. KernelConsistent(r)
  BY <1>2, <1>4 DEF KernelConsistent, ListsInjective, ReadyQueuesConsistent, BitmapConsistent,
                    DelayListConsistent, WaitListsConsistent, BlockedCanWake
<1>6. QED  BY <1>1, <1>5 DEF r

\* process_delayed_tasks makes a task whose countdown ends ready, and takes
\* it off the wait list it waits on.
LEMMA ExpireLinked ==
  ASSUME NEW K \in Kernel, NEW t \in Task, Linked(K),
         Contains(K.delay, t), ~(K.delay_ticks[t] > 1)
  PROVE  /\ K.state[t] = "BLOCKED"
         /\ MadeReady(K, delayed_task_tick(K, t), t, K.priority[t])
<1> DEFINE w == K.wait_list[t]
           p == K.priority[t]
           r == [K EXCEPT !.delay_ticks[t] = 0, !.delay = RemoveFirst(@, t)]
           o == [wait_list_remove(r, w, t) EXCEPT !.wait_list[t] = None]
           L == [v \in WaitList |-> RemoveFirst(K.waiters[v], t)]
<1>1. /\ K.waiters \in [WaitList -> Seq(Task)] /\ K.delay \in Seq(Task)
      /\ w \in WaitList \cup {None} /\ K.wait_list \in [Task -> WaitList \cup {None}]
      /\ p \in Priority /\ K.priority = [K.priority EXCEPT ![t] = p]
  BY FieldTypes
<1>2. DelayListConsistent(K) /\ WaitListsConsistent(K) /\ IsInjective(K.delay)
  BY LinkedFacts DEF ListsInjective
<1>3. K.state[t] = "BLOCKED"
  BY <1>2 DEF DelayListConsistent
<1>4. delayed_task_tick(K, t) = IF w = None THEN add_ready(r, t) ELSE add_ready(o, t)
  BY DEF delayed_task_tick
<1>5. r \in Kernel
  <2>1. 0 \in 0 .. MaxDelay /\ RemoveFirst(K.delay, t) \in Seq(Task)
    BY <1>1, KernelAssumption, RemoveType
  <2>2. QED  BY <2>1 DEF Kernel
<1>6. /\ r.delay_ticks = [K.delay_ticks EXCEPT ![t] = 0] /\ r.delay = RemoveFirst(K.delay, t)
      /\ r.state = K.state /\ r.priority = K.priority /\ r.wait_list = K.wait_list
      /\ r.ready = K.ready /\ r.bitmap = K.bitmap /\ r.waiters = K.waiters /\ r.fault = K.fault
  BY DEF Kernel
<1> HIDE DEF r
<1>7. ASSUME NEW d, d.ready = K.ready, d.delay = RemoveFirst(K.delay, t)
      PROVE  ~StateLinked(d, t)
  <2>1. \A q \in Priority : ~Contains(K.ready[q], t)
    BY <1>3, OffLinked DEF Runnable
  <2>2. ~Contains(RemoveFirst(K.delay, t), t)
    BY <1>1, <1>2, RemoveElements
  <2>3. QED  BY <1>7, <2>1, <2>2 DEF StateLinked
<1>8. CASE w = None
  <2>1. L = K.waiters /\ K.wait_list = [K.wait_list EXCEPT ![t] = None]
    BY <1>1, <1>3, <1>8, OffLinked DEF Runnable
  <2>2. MadeReady(K, add_ready(r, t), t, p)
    BY <1>1, <1>5, <1>6, <1>7, <2>1, AddReadyEffect
  <2>3. QED  BY <1>3, <1>4, <1>8, <2>2
<1>9. CASE w # None
  <2>1. w \in WaitList
    BY <1>1, <1>9
  <2>2. [K.waiters EXCEPT ![w] = RemoveFirst(@, t)] = L
    <3>1. \A v \in WaitList : v # w => ~Contains(K.waiters[v], t)
      BY <1>2 DEF WaitListsConsistent
    <3>2. \A v \in WaitList : v # w => RemoveFirst(K.waiters[v], t) = K.waiters[v]
      BY <1>1, <3>1, RemoveAbsent
    <3>3. QED  BY <1>1, <2>1, <3>2
  <2> HIDE DEF L
  <2>3. o \in Kernel
    BY <1>5, <2>1, OffWaitListType
  <2>4. /\ o.delay_ticks = [K.delay_ticks EXCEPT ![t] = 0] /\ o.delay = RemoveFirst(K.delay, t)
        /\ o.state = K.state /\ o.priority = K.priority
        /\ o.wait_list = [K.wait_list EXCEPT ![t] = None]
        /\ o.ready = K.ready /\ o.bitmap = K.bitmap /\ o.waiters = L /\ o.fault = K.fault
    BY <1>5, <1>6, <2>2 DEF wait_list_remove, Kernel
  <2> HIDE DEF o
  <2>5. MadeReady(K, add_ready(o, t), t, p)
    BY <1>1, <1>7, <2>3, <2>4, AddReadyEffect DEF L
  <2>6. QED  BY <1>3, <1>4, <1>9, <2>5
<1>10. QED  BY <1>8, <1>9

LEMMA ExpireEffect ==
  ASSUME NEW K \in Kernel, NEW t \in Task, KernelConsistent(K),
         Contains(K.delay, t), ~(K.delay_ticks[t] > 1)
  PROVE  /\ K.state[t] = "BLOCKED"
         /\ MadeReady(K, delayed_task_tick(K, t), t, K.priority[t])
BY KernelLinked, ExpireLinked

\* A runnable task is on the queue of its priority.
LEMMA QueuedFor ==
  ASSUME NEW K \in Kernel, NEW t \in Task, KernelConsistent(K), K.state[t] \in Runnable
  PROVE  Contains(K.ready[K.priority[t]], t)
BY FieldTypes DEF KernelConsistent, ReadyQueuesConsistent

\* remove_ready of a runnable task.
LEMMA RemoveQueuedFields ==
  ASSUME NEW K \in Kernel, NEW t \in Task, Contains(K.ready[K.priority[t]], t)
  PROVE  remove_ready(K, t) =
           [K EXCEPT !.ready[K.priority[t]] = RemoveFirst(K.ready[K.priority[t]], t),
                     !.bitmap = IF RemoveFirst(K.ready[K.priority[t]], t) = <<>>
                                THEN K.bitmap \ {K.priority[t]} ELSE K.bitmap]
BY DEF remove_ready, Kernel

LEMMA RemoveReadyFields ==
  ASSUME NEW K \in Kernel, NEW t \in Task, KernelConsistent(K), K.state[t] \in Runnable
  PROVE  remove_ready(K, t) =
           [K EXCEPT !.ready[K.priority[t]] = RemoveFirst(K.ready[K.priority[t]], t),
                     !.bitmap = IF RemoveFirst(K.ready[K.priority[t]], t) = <<>>
                                THEN K.bitmap \ {K.priority[t]} ELSE K.bitmap]
BY QueuedFor, RemoveQueuedFields

\* r is K after the runnable task u was taken off its queue and given state s.
TakenOff(K, r, u, s) ==
    /\ r.state = [K.state EXCEPT ![u] = s]
    /\ r.priority = K.priority
    /\ r.delay_ticks = K.delay_ticks
    /\ r.wait_list = K.wait_list
    /\ r.ready = [K.ready EXCEPT ![K.priority[u]] = RemoveFirst(K.ready[K.priority[u]], u)]
    /\ r.bitmap = IF RemoveFirst(K.ready[K.priority[u]], u) = <<>>
                  THEN K.bitmap \ {K.priority[u]} ELSE K.bitmap
    /\ r.delay = K.delay
    /\ r.waiters = K.waiters
    /\ r.fault = K.fault

\* A runnable task can be suspended or terminated.
LEMMA TakenOffConsistent ==
  ASSUME NEW K \in Kernel, NEW r, NEW u \in Task, NEW s \in {"SUSPENDED", "TERMINATED"},
         KernelConsistent(K), K.state[u] \in Runnable, TakenOff(K, r, u, s)
  PROVE  KernelConsistent(r)
<1> DEFINE p == K.priority[u]
           q == RemoveFirst(K.ready[p], u)
<1>1. /\ \A t \in Task : r.state[t] = IF t = u THEN s ELSE K.state[t]
      /\ r.priority = K.priority /\ r.delay_ticks = K.delay_ticks
      /\ r.wait_list = K.wait_list /\ r.delay = K.delay /\ r.waiters = K.waiters
  BY FieldTypes DEF TakenOff
<1>2. /\ p \in Priority
      /\ \A v \in Priority : K.ready[v] \in Seq(Task)
      /\ \A v \in Priority : r.ready[v] = IF v = p THEN q ELSE K.ready[v]
      /\ r.bitmap = IF q = <<>> THEN K.bitmap \ {p} ELSE K.bitmap
  BY FieldTypes DEF TakenOff
<1>3. ListsInjective(K) /\ ReadyQueuesConsistent(K) /\ BitmapConsistent(K)
      /\ DelayListConsistent(K) /\ WaitListsConsistent(K) /\ BlockedCanWake(K)
  BY DEF KernelConsistent
<1>4. ~(K.delay_ticks[u] > 0) /\ K.wait_list[u] = None
  BY <1>3, KernelAssumption DEF DelayListConsistent, WaitListsConsistent, Runnable
<1>5. /\ IsInjective(q)
      /\ \A t : Contains(q, t) <=> (Contains(K.ready[p], t) /\ t # u)
  <2>1. K.ready[p] \in Seq(Task) /\ IsInjective(K.ready[p])
    BY <1>2, <1>3 DEF ListsInjective
  <2>2. QED  BY <2>1, RemoveElements
<1>6. K.ready[p] # <<>>
  <2>1. K.ready[p] \in Seq(Task) /\ Contains(K.ready[p], u)
    BY <1>2, <1>3 DEF ReadyQueuesConsistent
  <2>2. QED  BY <2>1, HeadElement
<1> HIDE DEF q
<1>7. ListsInjective(r)
  BY <1>1, <1>2, <1>3, <1>5 DEF ListsInjective
<1>8. ReadyQueuesConsistent(r)
  BY <1>1, <1>2, <1>3, <1>5 DEF ReadyQueuesConsistent, Runnable
<1>9. BitmapConsistent(r)
  <2> HIDE DEF p
  <2> QED  BY <1>2, <1>3, <1>6 DEF BitmapConsistent
<1>10. DelayListConsistent(r) /\ WaitListsConsistent(r) /\ BlockedCanWake(r)
  BY <1>1, <1>3, <1>4 DEF DelayListConsistent, WaitListsConsistent, BlockedCanWake
<1>11. QED  BY <1>7, <1>8, <1>9, <1>10 DEF KernelConsistent

\* r is K after the ready task u moved to the queue of priority p.
Requeued(K, r, u, p) ==
    /\ r \in Kernel /\ r.state = K.state
    /\ r.priority = [K.priority EXCEPT ![u] = p]
    /\ r.delay_ticks = K.delay_ticks /\ r.wait_list = K.wait_list
    /\ r.delay = K.delay /\ r.waiters = K.waiters /\ r.fault = K.fault

\* remove_ready, the change of the priority, add_ready.
LEMMA RequeueEffect ==
  ASSUME NEW K \in Kernel, KernelConsistent(K), NEW u \in Task, NEW p \in Priority,
         K.state[u] = "READY", NEW o, o = remove_ready(K, u),
         NEW d \in Kernel, d.state = o.state, d.priority = [o.priority EXCEPT ![u] = p],
         d.delay_ticks = o.delay_ticks, d.wait_list = o.wait_list, d.ready = o.ready,
         d.bitmap = o.bitmap, d.delay = o.delay, d.waiters = o.waiters, d.fault = o.fault
  PROVE  KernelConsistent(add_ready(d, u)) /\ Requeued(K, add_ready(d, u), u, p)
<1> DEFINE s == [o EXCEPT !.state[u] = "SUSPENDED"]
           v == K.priority[u]
           q == RemoveFirst(K.ready[v], u)
           B == IF q = <<>> THEN K.bitmap \ {v} ELSE K.bitmap
           r == add_ready(d, u)
<1>1. K.state[u] \in Runnable /\ o \in Kernel
  BY RemoveReadyType DEF Runnable
<1>2. o = [K EXCEPT !.ready[v] = q, !.bitmap = B]
  BY <1>1, RemoveReadyFields
<1> HIDE DEF q, B, r
<1>3. /\ o.state = K.state /\ o.priority = K.priority /\ o.delay_ticks = K.delay_ticks
      /\ o.wait_list = K.wait_list /\ o.ready = [K.ready EXCEPT ![v] = q] /\ o.bitmap = B
      /\ o.delay = K.delay /\ o.waiters = K.waiters /\ o.fault = K.fault
  BY <1>2 DEF Kernel
<1>4. /\ s \in Kernel /\ s.state = [o.state EXCEPT ![u] = "SUSPENDED"]
      /\ s.priority = o.priority /\ s.delay_ticks = o.delay_ticks /\ s.wait_list = o.wait_list
      /\ s.ready = o.ready /\ s.bitmap = o.bitmap /\ s.delay = o.delay
      /\ s.waiters = o.waiters /\ s.fault = o.fault
  BY <1>1 DEF Kernel, TaskState
<1> HIDE DEF s
<1>5. TakenOff(K, s, u, "SUSPENDED")
  BY <1>3, <1>4, Zenon DEF TakenOff, q, B
<1>6. KernelConsistent(s)
  BY <1>1, <1>5, TakenOffConsistent
<1>7. s.state[u] = "SUSPENDED"
  BY <1>1, <1>4, FieldTypes
<1>8. /\ ~StateLinked(s, u) /\ RemoveFirst(s.delay, u) = s.delay
      /\ [w \in WaitList |-> RemoveFirst(s.waiters[w], u)] = s.waiters
      /\ s.delay_ticks[u] = 0 /\ s.wait_list[u] = None
  BY <1>4, <1>6, <1>7, OffLists DEF Runnable
<1>9. ~StateLinked(d, u)
  BY <1>4, <1>8 DEF StateLinked
<1>10. d.priority[u] = p
  BY <1>1, FieldTypes
<1>11. /\ r.state = [d.state EXCEPT ![u] = "READY"]
       /\ r.priority = d.priority /\ r.delay_ticks = d.delay_ticks
       /\ r.wait_list = d.wait_list
       /\ r.ready = [d.ready EXCEPT ![d.priority[u]] = Append(@, u)]
       /\ r.bitmap = d.bitmap \cup {d.priority[u]}
       /\ r.delay = d.delay /\ r.waiters = d.waiters /\ r.fault = d.fault
  BY <1>9, AddReadyFields DEF r
<1>12. r \in Kernel
  BY AddReadyType DEF r
<1>13. [s.state EXCEPT ![u] = "READY"] = r.state /\ r.state = K.state
  <2>1. K.state \in [Task -> TaskState]
    BY FieldTypes
  <2>2. s.state = [K.state EXCEPT ![u] = "SUSPENDED"] /\ r.state = [K.state EXCEPT ![u] = "READY"]
    BY <1>3, <1>4, <1>11
  <2>3. QED  BY <2>1, <2>2
<1>14. /\ s.delay_ticks = [s.delay_ticks EXCEPT ![u] = 0]
       /\ s.wait_list = [s.wait_list EXCEPT ![u] = None]
  BY <1>4, <1>8, FieldTypes
<1>15. /\ r.priority = [s.priority EXCEPT ![u] = p]
       /\ r.delay_ticks = s.delay_ticks /\ r.wait_list = s.wait_list
       /\ r.ready = [s.ready EXCEPT ![p] = Append(@, u)]
       /\ r.bitmap = s.bitmap \cup {p}
       /\ r.delay = s.delay /\ r.waiters = s.waiters /\ r.fault = s.fault
  BY <1>4, <1>10, <1>11, Zenon
<1>16. MadeReady(s, r, u, p)
  BY <1>8, <1>13, <1>14, <1>15, Zenon DEF MadeReady
<1>17. s.state[u] \notin Runnable
  BY <1>7 DEF Runnable
<1>18. KernelConsistent(r)
  BY <1>4, <1>6, <1>12, <1>16, <1>17, MadeReadyConsistent
<1>19. Requeued(K, r, u, p)
  BY <1>3, <1>11, <1>12, <1>13 DEF Requeued
<1>20. QED  BY <1>18, <1>19 DEF r

\* sertos_scheduler_delay blocks its caller.
LEMMA BlockOnDelayLinked ==
  ASSUME NEW K \in Kernel, NEW t \in Task, NEW n \in 1 .. MaxDelay,
         Linked(K), Contains(K.ready[K.priority[t]], t)
  PROVE  MadeBlocked(K, block_on_delay(K, t, n), t, None, n)
<1> DEFINE p == K.priority[t]
           q == RemoveFirst(K.ready[p], t)
           B == IF q = <<>> THEN K.bitmap \ {p} ELSE K.bitmap
           r == remove_ready(K, t)
<1>1. r = [K EXCEPT !.ready[p] = q, !.bitmap = B]
  BY RemoveQueuedFields
<1>2. K.wait_list = [K.wait_list EXCEPT ![t] = None]
  <2>1. K.state[t] \in Runnable /\ WaitListsConsistent(K)
    BY LinkedFacts, FieldTypes
  <2>2. K.wait_list[t] = None
    BY <2>1 DEF WaitListsConsistent, Runnable
  <2>3. QED  BY <2>2, FieldTypes
<1>3. n # 0
  BY KernelAssumption
<1> HIDE DEF q, B
<1>4. /\ r.state = K.state /\ r.priority = K.priority /\ r.delay_ticks = K.delay_ticks
      /\ r.wait_list = K.wait_list /\ r.ready = [K.ready EXCEPT ![p] = q] /\ r.bitmap = B
      /\ r.delay = K.delay /\ r.waiters = K.waiters /\ r.fault = K.fault
  BY <1>1 DEF Kernel
<1>5. r \in Kernel
  BY RemoveReadyType
<1>6. block_on_delay(K, t, n) =
        [r EXCEPT !.state[t] = "BLOCKED", !.delay_ticks[t] = n, !.delay = Append(@, t)]
  BY DEF block_on_delay
<1> HIDE DEF r
<1> DEFINE b == block_on_delay(K, t, n)
<1>7. /\ b.state = [r.state EXCEPT ![t] = "BLOCKED"] /\ b.priority = r.priority
      /\ b.delay_ticks = [r.delay_ticks EXCEPT ![t] = n] /\ b.wait_list = r.wait_list
      /\ b.ready = r.ready /\ b.bitmap = r.bitmap /\ b.delay = Append(r.delay, t)
      /\ b.waiters = r.waiters /\ b.fault = r.fault
  BY <1>5, <1>6 DEF Kernel
<1> HIDE DEF b
<1>8. MadeBlocked(K, b, t, None, n)
  BY <1>2, <1>3, <1>4, <1>7, Zenon DEF MadeBlocked, q, B
<1>9. QED  BY <1>8 DEF b

LEMMA BlockOnDelayEffect ==
  ASSUME NEW K \in Kernel, NEW t \in Task, NEW n \in 1 .. MaxDelay,
         KernelConsistent(K), K.state[t] \in Runnable
  PROVE  MadeBlocked(K, block_on_delay(K, t, n), t, None, n)
BY KernelLinked, QueuedFor, BlockOnDelayLinked

\* wait_list_block blocks its caller, with a countdown unless it waits forever.
LEMMA BlockOnWaitListLinked ==
  ASSUME NEW K \in Kernel, NEW t \in Task, NEW w \in WaitList, NEW n \in 1 .. Forever,
         Linked(K), Contains(K.ready[K.priority[t]], t)
  PROVE  MadeBlocked(K, block_on_wait_list(K, t, w, n), t, w, IF n = Forever THEN 0 ELSE n)
<1> DEFINE p == K.priority[t]
           q == RemoveFirst(K.ready[p], t)
           B == IF q = <<>> THEN K.bitmap \ {p} ELSE K.bitmap
           m == remove_ready(K, t)
           d == [m EXCEPT !.state[t] = "BLOCKED", !.wait_list[t] = w]
           r == insert_wait_list_priority(d, w, t)
           b == block_on_wait_list(K, t, w, n)
           c == IF n = Forever THEN 0 ELSE n
<1>1. m = [K EXCEPT !.ready[p] = q, !.bitmap = B]
  BY RemoveQueuedFields
<1>2. K.delay_ticks[t] = 0 /\ \A v \in WaitList : ~Contains(K.waiters[v], t)
  <2>1. K.delay_ticks[t] \in 0 .. MaxDelay
    BY FieldTypes
  <2>2. K.state[t] \in Runnable /\ WaitListsConsistent(K) /\ DelayListConsistent(K)
    BY LinkedFacts, FieldTypes
  <2>3. QED
    BY <2>1, <2>2, KernelAssumption DEF WaitListsConsistent, DelayListConsistent, Runnable
<1>3. m \in Kernel
  BY RemoveReadyType
<1> HIDE DEF q, B
<1>4. /\ m.state = K.state /\ m.priority = K.priority /\ m.delay_ticks = K.delay_ticks
      /\ m.wait_list = K.wait_list /\ m.ready = [K.ready EXCEPT ![p] = q] /\ m.bitmap = B
      /\ m.delay = K.delay /\ m.waiters = K.waiters /\ m.fault = K.fault
  BY <1>1 DEF Kernel
<1> HIDE DEF m
<1>5. d \in Kernel
  BY <1>3 DEF Kernel, TaskState
<1>6. /\ d.state = [K.state EXCEPT ![t] = "BLOCKED"] /\ d.priority = K.priority
      /\ d.delay_ticks = K.delay_ticks /\ d.wait_list = [K.wait_list EXCEPT ![t] = w]
      /\ d.ready = [K.ready EXCEPT ![p] = q] /\ d.bitmap = B
      /\ d.delay = K.delay /\ d.waiters = K.waiters /\ d.fault = K.fault
  <2>1. /\ d.state = [m.state EXCEPT ![t] = "BLOCKED"] /\ d.priority = m.priority
        /\ d.delay_ticks = m.delay_ticks /\ d.wait_list = [m.wait_list EXCEPT ![t] = w]
        /\ d.ready = m.ready /\ d.bitmap = m.bitmap
        /\ d.delay = m.delay /\ d.waiters = m.waiters /\ d.fault = m.fault
    BY <1>3 DEF Kernel
  <2> HIDE DEF d
  <2>2. QED  BY <2>1, <1>4
<1>7. b = IF n # Forever THEN [r EXCEPT !.delay_ticks[t] = n, !.delay = Append(@, t)]
          ELSE [r EXCEPT !.delay_ticks[t] = 0]
  BY DEF block_on_wait_list, m
<1> HIDE DEF d
<1>8. PICK l \in Seq(Task) :
        /\ insert_wait_list_priority(d, w, t) =
             [d EXCEPT !.waiters[w] = l,
                       !.fault = IF EventLinked(d, t) THEN @ \cup {t} ELSE @]
        /\ \A u : Contains(l, u) <=> (Contains(d.waiters[w], u) \/ u = t)
        /\ IsInjective(d.waiters[w]) /\ ~Contains(d.waiters[w], t) => IsInjective(l)
  BY <1>5, InsertWaitElements
<1>9. ~EventLinked(d, t)
  BY <1>2, <1>6 DEF EventLinked
<1>10. /\ r.state = d.state /\ r.priority = d.priority
       /\ r.delay_ticks = d.delay_ticks /\ r.wait_list = d.wait_list
       /\ r.ready = d.ready /\ r.bitmap = d.bitmap
       /\ r.delay = d.delay /\ r.waiters = [d.waiters EXCEPT ![w] = l] /\ r.fault = d.fault
  BY <1>5, <1>8, <1>9 DEF Kernel
<1>11. r \in Kernel
  BY <1>5, InsertWaitType
<1> HIDE DEF r, b
<1>12. /\ b.state = r.state /\ b.priority = r.priority /\ b.delay_ticks = [r.delay_ticks EXCEPT ![t] = c]
       /\ b.wait_list = r.wait_list /\ b.ready = r.ready /\ b.bitmap = r.bitmap
       /\ b.delay = IF c = 0 THEN r.delay ELSE Append(r.delay, t)
       /\ b.waiters = r.waiters /\ b.fault = r.fault
  <2>1. CASE n = Forever
    BY <2>1, <1>7, <1>11 DEF Kernel
  <2>2. CASE n # Forever
    <3>1. c # 0
      BY <2>2, PriorityType
    <3>2. QED  BY <2>2, <3>1, <1>7, <1>11 DEF Kernel
  <2>3. QED  BY <2>1, <2>2
<1> HIDE DEF c
<1>13. w # None
  BY KernelAssumption
<1>14. MadeBlocked(K, b, t, w, c)
  <2>1. /\ b.waiters = [K.waiters EXCEPT ![w] = l]
        /\ \A u : Contains(l, u) <=> (Contains(K.waiters[w], u) \/ u = t)
        /\ IsInjective(K.waiters[w]) /\ ~Contains(K.waiters[w], t) => IsInjective(l)
    BY <1>6, <1>8, <1>10, <1>12, Zenon
  <2>2. QED  BY <1>6, <1>10, <1>12, <1>13, <2>1, Zenon DEF MadeBlocked, q, B
<1>15. QED  BY <1>14 DEF b, c

LEMMA BlockOnWaitListEffect ==
  ASSUME NEW K \in Kernel, NEW t \in Task, NEW w \in WaitList, NEW n \in 1 .. Forever,
         KernelConsistent(K), K.state[t] \in Runnable
  PROVE  MadeBlocked(K, block_on_wait_list(K, t, w, n), t, w, IF n = Forever THEN 0 ELSE n)
BY KernelLinked, QueuedFor, BlockOnWaitListLinked

\* The rotation keeps the lists consistent if the task is on the queue, or
\* the queue is too short to be rotated.
LEMMA RotateEffect ==
  ASSUME NEW K \in Kernel, NEW t \in Task, KernelConsistent(K),
         K.state[t] \in Runnable \/ ~(Len(K.ready[K.priority[t]]) > 1)
  PROVE  /\ KernelConsistent(rotate(K, t))
         /\ rotate(K, t).state = K.state /\ rotate(K, t).priority = K.priority
         /\ rotate(K, t).delay = K.delay /\ rotate(K, t).bitmap = K.bitmap
         /\ rotate(K, t).fault = K.fault
<1> DEFINE p == K.priority[t]
           q == Append(RemoveFirst(K.ready[p], t), t)
<1>1. CASE ~(Len(K.ready[p]) > 1)
  BY <1>1 DEF rotate
<1>2. CASE Len(K.ready[p]) > 1
  <2>1. /\ K.ready \in [Priority -> Seq(Task)] /\ K.delay \in Seq(Task) /\ p \in Priority
        /\ K.delay_ticks[t] \in 0 .. MaxDelay /\ K.bitmap \in SUBSET Priority
    BY FieldTypes
  <2>2. ListsInjective(K) /\ ReadyQueuesConsistent(K) /\ BitmapConsistent(K)
        /\ DelayListConsistent(K) /\ WaitListsConsistent(K) /\ BlockedCanWake(K)
    BY DEF KernelConsistent
  <2>3. K.state[t] \in Runnable /\ Contains(K.ready[p], t)
    BY <1>2, <2>1, <2>2 DEF ReadyQueuesConsistent
  <2>4. ~Contains(K.delay, t)
    BY <2>1, <2>2, <2>3 DEF DelayListConsistent, Runnable
  <2>5. RemoveFirst(K.delay, t) = K.delay
    BY <2>1, <2>4, RemoveAbsent
  <2>6. \A v \in Priority : v # p => RemoveFirst(K.ready[v], t) = K.ready[v]
    <3>1. \A v \in Priority : v # p => ~Contains(K.ready[v], t)
      BY <2>2 DEF ReadyQueuesConsistent
    <3>2. QED  BY <2>1, <3>1, RemoveAbsent
  <2> DEFINE U == Unlinked(K, t)
             r == rotate(K, t)
  <2>7. U \in Kernel
    BY UnlinkedType
  <2>8. /\ U.ready = [v \in Priority |-> RemoveFirst(K.ready[v], t)]
        /\ U.state = K.state /\ U.priority = K.priority /\ U.delay_ticks = K.delay_ticks
        /\ U.wait_list = K.wait_list /\ U.bitmap = K.bitmap /\ U.delay = K.delay
        /\ U.waiters = K.waiters /\ U.fault = K.fault
    BY <2>5 DEF Unlinked, Kernel
  <2>9. r = [U EXCEPT !.ready[p] = Append(@, t), !.fault = @]
    BY <1>2, <2>3 DEF rotate
  <2> HIDE DEF U, r
  <2>10. /\ r.ready = [U.ready EXCEPT ![p] = Append(@, t)]
         /\ r.state = K.state /\ r.priority = K.priority /\ r.delay_ticks = K.delay_ticks
         /\ r.wait_list = K.wait_list /\ r.bitmap = K.bitmap /\ r.delay = K.delay
         /\ r.waiters = K.waiters /\ r.fault = K.fault
    BY <2>7, <2>8, <2>9 DEF Kernel
  <2>11. \A v \in Priority : r.ready[v] = IF v = p THEN q ELSE K.ready[v]
    BY <2>1, <2>6, <2>8, <2>10
  <2>12. /\ IsInjective(q) /\ q # <<>>
         /\ \A u : Contains(q, u) <=> Contains(K.ready[p], u)
    <3> DEFINE s == RemoveFirst(K.ready[p], t)
    <3>1. K.ready[p] \in Seq(Task) /\ IsInjective(K.ready[p])
      BY <2>1, <2>2 DEF ListsInjective
    <3>2. /\ s \in Seq(Task) /\ IsInjective(s)
          /\ \A u : Contains(s, u) <=> (Contains(K.ready[p], u) /\ u # t)
      BY <3>1, RemoveElements, RemoveType
    <3> HIDE DEF s
    <3>3. /\ IsInjective(Append(s, t)) /\ Append(s, t) # <<>>
          /\ \A u : Contains(Append(s, t), u) <=> (Contains(s, u) \/ u = t)
      BY <3>2, AppendElements
    <3>4. QED  BY <2>3, <3>2, <3>3 DEF s
  <2>13. K.ready[p] # <<>>
    BY <2>1, <2>3, HeadElement
  <2> HIDE DEF q
  <2>14. ListsInjective(r)
    BY <2>2, <2>10, <2>11, <2>12 DEF ListsInjective
  <2>15. ReadyQueuesConsistent(r)
    BY <2>2, <2>10, <2>11, <2>12 DEF ReadyQueuesConsistent
  <2>16. BitmapConsistent(r)
    <3> HIDE DEF p
    <3> QED  BY <2>2, <2>10, <2>11, <2>12, <2>13 DEF BitmapConsistent
  <2>17. DelayListConsistent(r) /\ WaitListsConsistent(r) /\ BlockedCanWake(r)
    BY <2>2, <2>10 DEF DelayListConsistent, WaitListsConsistent, BlockedCanWake
  <2>18. QED  BY <2>10, <2>14, <2>15, <2>16, <2>17 DEF KernelConsistent, r
<1>3. QED  BY <1>1, <1>2

\* perform_switch to a runnable task only moves RUNNING.
LEMMA PerformSwitchEffect ==
  ASSUME NEW K \in Kernel, NEW prev, NEW next \in Task,
         KernelConsistent(K), K.state[next] \in Runnable
  PROVE  /\ KernelConsistent(perform_switch(K, prev, next))
         /\ perform_switch(K, prev, next).priority = K.priority
         /\ perform_switch(K, prev, next).ready = K.ready
         /\ perform_switch(K, prev, next).bitmap = K.bitmap
         /\ perform_switch(K, prev, next).delay = K.delay
         /\ perform_switch(K, prev, next).fault = K.fault
         /\ \A t \in Task : perform_switch(K, prev, next).state[t] =
                IF t = next THEN "RUNNING"
                ELSE IF t = prev /\ K.state[t] = "RUNNING" THEN "READY"
                ELSE K.state[t]
<1> DEFINE f == [t \in Task |->
                    IF t = next THEN "RUNNING"
                    ELSE IF t = prev /\ K.state[t] = "RUNNING" THEN "READY"
                    ELSE K.state[t]]
           r == perform_switch(K, prev, next)
<1>1. r = [K EXCEPT !.state = f]
  BY DEF perform_switch
<1>2. \A t \in Task : f[t] = IF t = next THEN "RUNNING"
                              ELSE IF t = prev /\ K.state[t] = "RUNNING" THEN "READY"
                              ELSE K.state[t]
  OBVIOUS
<1> HIDE DEF f, r
<1>3. \A t \in Task : /\ f[t] \in Runnable <=> K.state[t] \in Runnable
                      /\ f[t] = "BLOCKED" <=> K.state[t] = "BLOCKED"
  <2> SUFFICES ASSUME NEW t \in Task
               PROVE  /\ f[t] \in Runnable <=> K.state[t] \in Runnable
                      /\ f[t] = "BLOCKED" <=> K.state[t] = "BLOCKED"
    OBVIOUS
  <2>1. K.state[next] # "BLOCKED"
    BY DEF Runnable
  <2>2. CASE t = next
    BY <1>2, <2>1, <2>2 DEF Runnable
  <2>3. CASE t # next
    BY <1>2, <2>3 DEF Runnable
  <2>4. QED  BY <2>2, <2>3
<1>4. /\ r.state = f /\ r.priority = K.priority /\ r.delay_ticks = K.delay_ticks
      /\ r.wait_list = K.wait_list /\ r.ready = K.ready /\ r.bitmap = K.bitmap
      /\ r.delay = K.delay /\ r.waiters = K.waiters /\ r.fault = K.fault
  BY <1>1 DEF Kernel
<1>5. KernelConsistent(r)
  <2>1. ListsInjective(r) /\ BitmapConsistent(r)
    BY <1>4 DEF KernelConsistent, ListsInjective, BitmapConsistent
  <2>2. ReadyQueuesConsistent(r)
    BY <1>3, <1>4 DEF KernelConsistent, ReadyQueuesConsistent
  <2>3. DelayListConsistent(r) /\ WaitListsConsistent(r) /\ BlockedCanWake(r)
    BY <1>3, <1>4 DEF KernelConsistent, DelayListConsistent, WaitListsConsistent, BlockedCanWake
  <2>4. QED  BY <2>1, <2>2, <2>3 DEF KernelConsistent
<1>6. QED  BY <1>2, <1>4, <1>5 DEF r

\* sertos_scheduler_init leaves consistent lists, the idle task ready.
LEMMA InitKernelEffect ==
  /\ KernelConsistent(InitKernel)
  /\ InitKernel.fault = {}
  /\ InitKernel.delay = <<>>
  /\ \A t \in Task : InitKernel.state[t] = IF t = Idle THEN "READY" ELSE "ABSENT"
  /\ InitKernel.priority[Idle] = 0
<1> DEFINE e == [ state         |-> [t \in Task |-> "ABSENT"],
                  priority      |-> [t \in Task |-> 0],
                  base_priority |-> [t \in Task |-> 0],
                  delay_ticks   |-> [t \in Task |-> 0],
                  wait_list     |-> [t \in Task |-> None],
                  registry      |-> {},
                  ready         |-> [p \in Priority |-> <<>>],
                  bitmap        |-> {},
                  delay         |-> <<>>,
                  waiters       |-> [w \in WaitList |-> <<>>],
                  fault         |-> {} ]
<1>1. e \in Kernel
  BY PriorityType, KernelAssumption DEF Kernel, TaskState
<1>2. InitKernel = create_static(e, Idle, 0)
  BY DEF InitKernel
<1>3. /\ e.state = [t \in Task |-> "ABSENT"] /\ e.priority = [t \in Task |-> 0]
      /\ e.delay_ticks = [t \in Task |-> 0] /\ e.wait_list = [t \in Task |-> None]
      /\ e.ready = [p \in Priority |-> <<>>] /\ e.bitmap = {} /\ e.delay = <<>>
      /\ e.waiters = [w \in WaitList |-> <<>>] /\ e.fault = {}
  OBVIOUS
<1> HIDE DEF e
<1>4. IsInjective(<<>>) /\ \A u : ~Contains(<<>>, u)
  BY DEF IsInjective, Contains
<1>5. KernelConsistent(e)
  BY <1>3, <1>4, KernelAssumption
  DEF KernelConsistent, ListsInjective, ReadyQueuesConsistent, BitmapConsistent,
      DelayListConsistent, WaitListsConsistent, BlockedCanWake, Runnable
<1>6. e.state[Idle] = "ABSENT" /\ Idle \in Task /\ 0 \in Priority
  BY <1>3, KernelAssumption, PriorityType
<1>7. MadeReady(e, InitKernel, Idle, 0)
  BY <1>1, <1>2, <1>5, <1>6, CreateEffect
<1>8. KernelConsistent(InitKernel)
  BY <1>1, <1>5, <1>6, <1>7, InitKernelType, MadeReadyConsistent DEF Runnable
<1>9. /\ InitKernel.fault = {}
      /\ \A t \in Task : InitKernel.state[t] = IF t = Idle THEN "READY" ELSE "ABSENT"
      /\ InitKernel.priority[Idle] = 0
  BY <1>3, <1>6, <1>7 DEF MadeReady
<1>10. InitKernel.delay = <<>>
  <2>1. InitKernel.delay = RemoveFirst(<<>>, Idle)
    BY <1>3, <1>7 DEF MadeReady
  <2>2. QED  BY <2>1, <1>4, RemoveAbsent, EmptySeq
<1>11. QED  BY <1>8, <1>9, <1>10

-----------------------------------------------------------------------------
(* Selection.                                                              *)

\* With a runnable task there is, select_next_task returns a runnable task
\* that no runnable task exceeds in priority.
LEMMA SelectHighest ==
  ASSUME NEW K \in Kernel, KernelConsistent(K), NEW i \in Task, K.state[i] \in Runnable
  PROVE  /\ K.bitmap # {}
         /\ Max(K.bitmap) \in K.bitmap /\ \A p \in K.bitmap : p <= Max(K.bitmap)
         /\ K.ready[Max(K.bitmap)] # <<>>
         /\ select_next_task(K) = Head(K.ready[Max(K.bitmap)])
         /\ select_next_task(K) \in Task
         /\ K.state[select_next_task(K)] \in Runnable
         /\ K.priority[select_next_task(K)] = Max(K.bitmap)
         /\ \A t \in Task : K.state[t] \in Runnable => K.priority[t] <= Max(K.bitmap)
<1> DEFINE m == Max(K.bitmap)
<1>1. ReadyQueuesConsistent(K) /\ BitmapConsistent(K)
  BY DEF KernelConsistent
<1>2. /\ K.ready \in [Priority -> Seq(Task)] /\ K.priority \in [Task -> Priority]
      /\ K.bitmap \in SUBSET (0 .. MaxPriorities - 1) /\ MaxPriorities - 1 \in Nat
      /\ K.bitmap \in SUBSET Priority
  BY FieldTypes, KernelAssumption DEF Priority
<1>3. ASSUME NEW t \in Task, K.state[t] \in Runnable
      PROVE  K.priority[t] \in K.bitmap
  <2>1. K.priority[t] \in Priority /\ Contains(K.ready[K.priority[t]], t)
    BY <1>1, <1>2, <1>3 DEF ReadyQueuesConsistent
  <2>2. K.ready[K.priority[t]] # <<>>
    BY <1>2, <2>1, HeadElement
  <2>3. QED  BY <1>1, <2>1, <2>2 DEF BitmapConsistent
<1>4. K.bitmap # {}
  BY <1>3
<1>5. m \in K.bitmap /\ \A p \in K.bitmap : p <= m
  BY <1>2, <1>4, MaxExists
<1> HIDE DEF m
<1>6. m \in Priority /\ K.ready[m] # <<>>
  BY <1>1, <1>2, <1>5 DEF BitmapConsistent
<1>7. select_next_task(K) = Head(K.ready[m])
  BY <1>4, <1>6 DEF select_next_task, m
<1>8. Head(K.ready[m]) \in Task /\ Contains(K.ready[m], Head(K.ready[m]))
  BY <1>2, <1>6, HeadElement
<1>9. K.priority[Head(K.ready[m])] = m /\ K.state[Head(K.ready[m])] \in Runnable
  BY <1>1, <1>6, <1>8 DEF ReadyQueuesConsistent
<1>10. QED  BY <1>3, <1>4, <1>5, <1>6, <1>7, <1>8, <1>9 DEF m

\* A task made ready is selected iff its priority exceeds that of the task
\* selected before.
LEMMA SelectAfterReady ==
  ASSUME NEW K \in Kernel, NEW r \in Kernel, NEW t \in Task, NEW p \in Priority,
         KernelConsistent(K), K.state[t] \notin Runnable, MadeReady(K, r, t, p),
         NEW i \in Task, K.state[i] \in Runnable
  PROVE  /\ select_next_task(r) = IF p > K.priority[select_next_task(K)]
                                  THEN t ELSE select_next_task(K)
         /\ p > K.priority[select_next_task(K)] =>
              r.priority[select_next_task(r)] = p
<1> DEFINE m == Max(K.bitmap)
           h == Max(r.bitmap)
<1>1. /\ m \in K.bitmap /\ \A x \in K.bitmap : x <= m
      /\ K.ready[m] # <<>> /\ select_next_task(K) = Head(K.ready[m])
      /\ K.priority[select_next_task(K)] = m
  BY SelectHighest
<1>2. /\ r.ready = [K.ready EXCEPT ![p] = Append(@, t)] /\ r.bitmap = K.bitmap \cup {p}
      /\ r.state = [K.state EXCEPT ![t] = "READY"] /\ r.priority = [K.priority EXCEPT ![t] = p]
  BY DEF MadeReady
<1>3. KernelConsistent(r)
  BY MadeReadyConsistent
<1>4. r.state[t] \in Runnable
  BY <1>2, FieldTypes DEF Runnable
<1>5. /\ h \in r.bitmap /\ \A x \in r.bitmap : x <= h
      /\ r.ready[h] # <<>> /\ select_next_task(r) = Head(r.ready[h])
  BY <1>3, <1>4, SelectHighest
<1>6. /\ K.ready \in [Priority -> Seq(Task)] /\ K.bitmap \in SUBSET Priority
      /\ K.priority \in [Task -> Priority] /\ Priority \in SUBSET Nat
  BY FieldTypes, PriorityType
<1> HIDE DEF m, h
<1>7. m \in Nat /\ h \in Nat /\ p \in Nat /\ m \in Priority
  BY <1>1, <1>2, <1>5, <1>6
<1>8. CASE p > m
  <2>1. h = p
    BY <1>1, <1>2, <1>5, <1>7, <1>8
  <2>2. p \notin K.bitmap
    BY <1>1, <1>7, <1>8
  <2>3. K.ready[p] = <<>>
    BY <2>2 DEF KernelConsistent, BitmapConsistent
  <2>4. r.ready[p] = Append(<<>>, t)
    BY <2>3, <1>2, <1>6
  <2>5. Head(Append(<<>>, t)) = t
    OBVIOUS
  <2>6. select_next_task(r) = t /\ r.priority[t] = p
    BY <2>1, <2>4, <2>5, <1>2, <1>5, <1>6
  <2>7. QED  BY <2>6, <1>1, <1>8
<1>9. CASE ~(p > m)
  <2>1. h = m
    BY <1>1, <1>2, <1>5, <1>7, <1>9
  <2>2. K.ready[m] \in Seq(Task)
    BY <1>6, <1>7
  <2>3. Head(Append(K.ready[m], t)) = Head(K.ready[m])
    BY <2>2, <1>1
  <2>4. r.ready[m] = K.ready[m] \/ r.ready[m] = Append(K.ready[m], t)
    BY <1>2, <1>6, <1>7
  <2>5. select_next_task(r) = select_next_task(K)
    BY <2>1, <2>3, <2>4, <1>1, <1>5
  <2>6. QED  BY <2>5, <1>1, <1>9
<1>10. QED  BY <1>8, <1>9

-----------------------------------------------------------------------------
(* Waking a whole list.                                                    *)

\* f is the loop of unblock_all after each of its first n rounds.
Rounds(f, K, w, n) ==
    f = [i \in 0 .. n |-> IF i = 0 THEN K ELSE unblock_highest(f[i - 1], w)]

\* The loop is well defined.
LEMMA RoundsExist ==
  ASSUME NEW K, NEW w, NEW n \in Nat
  PROVE  \E f : Rounds(f, K, w, n)
<1> DEFINE B == {m \in Nat : ~\E f : Rounds(f, K, w, m)}
<1> SUFFICES ASSUME B # {} PROVE FALSE
  OBVIOUS
<1> DEFINE m == Min(B)
<1>1. B \in SUBSET Nat
  OBVIOUS
<1>2. m \in B /\ \A x \in B : m <= x
  <2> HIDE DEF B
  <2>1. QED  BY <1>1, MinExists
<1>3. m \in Nat /\ ~\E f : Rounds(f, K, w, m)
  BY <1>2
<1>4. \A x \in Nat : x < m => \E f : Rounds(f, K, w, x)
  BY <1>2, <1>3
<1> HIDE DEF B, m
<1>5. CASE m = 0
  <2> DEFINE f == [i \in 0 .. 0 |-> K]
  <2>1. \A i \in 0 .. 0 : i = 0
    OBVIOUS
  <2>2. f = [i \in 0 .. 0 |-> IF i = 0 THEN K ELSE unblock_highest(f[i - 1], w)]
    BY <2>1, Zenon
  <2>3. Rounds(f, K, w, m)
    BY <1>5, <2>2 DEF Rounds
  <2>4. QED  BY <1>3, <2>3
<1>6. CASE m # 0
  <2>1. m - 1 \in Nat /\ m - 1 < m
    BY <1>3, <1>6
  <2>2. PICK f : Rounds(f, K, w, m - 1)
    BY <1>4, <2>1
  <2> DEFINE g == [i \in 0 .. m |-> IF i = m THEN unblock_highest(f[m - 1], w) ELSE f[i]]
             h == [i \in 0 .. m |-> IF i = 0 THEN K ELSE unblock_highest(g[i - 1], w)]
  <2>3. \A i \in 0 .. m - 1 : f[i] = IF i = 0 THEN K ELSE unblock_highest(f[i - 1], w)
    BY <2>2 DEF Rounds
  <2>4. \A i \in 0 .. m : g[i] = h[i]
    <3> TAKE i \in 0 .. m
    <3>1. CASE i = m
      <4>1. g[m] = unblock_highest(f[m - 1], w) /\ g[m - 1] = f[m - 1]
        BY <1>3, <1>6
      <4>2. h[m] = unblock_highest(g[m - 1], w)
        BY <1>3, <1>6
      <4>3. QED  BY <3>1, <4>1, <4>2
    <3>2. CASE i # m /\ i # 0
      <4>1. i \in 0 .. m - 1 /\ i - 1 \in 0 .. m /\ i - 1 # m
        BY <1>3, <3>2
      <4>2. g[i] = f[i] /\ g[i - 1] = f[i - 1] /\ f[i] = unblock_highest(f[i - 1], w)
        BY <2>3, <3>2, <4>1
      <4>3. h[i] = unblock_highest(g[i - 1], w)
        BY <3>2
      <4>4. QED  BY <4>2, <4>3
    <3>3. CASE i = 0
      <4>1. 0 \in 0 .. m - 1 /\ 0 \in 0 .. m
        BY <1>3, <1>6
      <4>2. f[0] = K
        BY <2>3, <4>1
      <4>3. g[0] = f[0] /\ h[0] = K
        BY <1>6, <4>1
      <4>4. QED  BY <3>3, <4>2, <4>3
    <3>4. QED  BY <3>1, <3>2, <3>3
  <2>5. g = h
    <3>1. g = [i \in 0 .. m |-> g[i]] /\ h = [i \in 0 .. m |-> h[i]]
      OBVIOUS
    <3> HIDE DEF g, h
    <3>2. QED  BY <2>4, <3>1, Zenon
  <2>6. Rounds(g, K, w, m)
    BY <2>5 DEF Rounds
  <2>7. QED  BY <1>3, <2>6
<1>7. QED  BY <1>5, <1>6

LEMMA UnblockAllRounds ==
  ASSUME NEW K, NEW w, Len(K.waiters[w]) \in Nat
  PROVE  \E f : Rounds(f, K, w, Len(K.waiters[w])) /\ unblock_all(K, w) = f[Len(K.waiters[w])]
<1> DEFINE n == Len(K.waiters[w])
           f == CHOOSE f : Rounds(f, K, w, n)
<1>1. Rounds(f, K, w, n)
  BY RoundsExist
<1>2. unblock_all(K, w) = f[n]
  BY DEF unblock_all, Rounds
<1>3. QED  BY <1>1, <1>2


\* Without its head an injective list is its tail.
LEMMA RemoveHead ==
  ASSUME NEW S, NEW s \in Seq(S), s # <<>>, IsInjective(s)
  PROVE  RemoveFirst(s, Head(s)) = Tail(s)
<1> DEFINE r == RemoveFirst(s, Head(s))
<1>1. Contains(s, Head(s)) /\ Head(s) = s[1] /\ 1 \in 1 .. Len(s)
  BY HeadElement
<1>2. PICK i \in 1 .. Len(s) : s[i] = Head(s) /\ r = RemoveAt(s, i)
  BY <1>1, RemoveFirstIndex
<1>3. i = 1
  BY <1>1, <1>2 DEF IsInjective
<1>4. /\ r \in Seq(S) /\ Len(r) = Len(s) - 1
      /\ \A j \in 1 .. Len(s) - 1 : r[j] = IF j < 1 THEN s[j] ELSE s[j + 1]
  BY <1>2, <1>3, RemoveAtProperties
<1>5. /\ Tail(s) \in Seq(S) /\ Len(Tail(s)) = Len(s) - 1
      /\ \A j \in 1 .. Len(Tail(s)) : Tail(s)[j] = s[j + 1]
  BY HeadTailProperties
<1> HIDE DEF r
<1>6. \A j \in 1 .. Len(r) : r[j] = Tail(s)[j]
  BY <1>4, <1>5
<1>7. r = Tail(s)
  BY <1>4, <1>5, <1>6, SeqEqual
<1>8. QED  BY <1>7 DEF r

\* r is K after the first j waiters of w were woken: they are ready, the
\* others wait on, and the task to run is the same or one of higher priority.
WokenUpTo(K, r, w, j) ==
    /\ r \in Kernel /\ KernelConsistent(r)
    /\ r.fault = K.fault /\ r.priority = K.priority
    /\ r.waiters[w] = SubSeq(K.waiters[w], j + 1, Len(K.waiters[w]))
    /\ \A t \in Task :
        IF \E i \in 1 .. j : K.waiters[w][i] = t
        THEN r.state[t] = "READY" /\ r.wait_list[t] = None
        ELSE r.state[t] = K.state[t] /\ r.wait_list[t] = K.wait_list[t]
    /\ \/ select_next_task(r) = select_next_task(K)
       \/ K.priority[select_next_task(r)] > K.priority[select_next_task(K)]

\* One round of the loop.
LEMMA UnblockNext ==
  ASSUME NEW K \in Kernel, NEW r, NEW w \in WaitList, KernelConsistent(K),
         NEW idle \in Task, K.state[idle] \in Runnable,
         NEW j \in 0 .. Len(K.waiters[w]) - 1, WokenUpTo(K, r, w, j)
  PROVE  WokenUpTo(K, unblock_highest(r, w), w, j + 1)
<1> DEFINE q == K.waiters[w]
           s == unblock_highest(r, w)
           u == Head(r.waiters[w])
<1>1. q \in Seq(Task) /\ Len(q) \in Nat /\ j + 1 \in 1 .. Len(q) /\ j \in Nat
  BY FieldTypes
<1>2. /\ r \in Kernel /\ KernelConsistent(r) /\ r.priority = K.priority /\ r.fault = K.fault
      /\ r.waiters[w] = SubSeq(q, j + 1, Len(q))
      /\ \A t \in Task :
           IF \E i \in 1 .. j : q[i] = t
           THEN r.state[t] = "READY" /\ r.wait_list[t] = None
           ELSE r.state[t] = K.state[t] /\ r.wait_list[t] = K.wait_list[t]
      /\ \/ select_next_task(r) = select_next_task(K)
         \/ K.priority[select_next_task(r)] > K.priority[select_next_task(K)]
  BY DEF WokenUpTo
<1> HIDE DEF q
<1>3. u = q[j + 1] /\ Tail(r.waiters[w]) = SubSeq(q, j + 2, Len(q))
  <2>1. Len(q) \in (j + 1) .. Len(q) /\ j + 1 + 1 = j + 2
    BY <1>1
  <2>2. QED  BY <1>1, <1>2, <2>1, HeadTailOfSubSeq
<1>4. r.waiters[w] # <<>> /\ r.waiters[w] \in Seq(Task) /\ IsInjective(r.waiters[w])
  <2>1. r.waiters[w] \in Seq(Task) /\ IsInjective(r.waiters[w])
    BY <1>2, FieldTypes DEF KernelConsistent, ListsInjective
  <2>2. \A i \in j + 1 .. Len(q) : q[i] \in Task
    BY <1>1
  <2>3. Len(SubSeq(q, j + 1, Len(q))) = Len(q) - (j + 1) + 1
    BY <1>1, <2>2, SubSeqProperties
  <2>4. Len(r.waiters[w]) > 0
    BY <1>1, <1>2, <2>3
  <2>5. QED  BY <2>1, <2>4
<1>5. u \in Task /\ r.state[u] = "BLOCKED" /\ MadeReady(r, s, u, r.priority[u]) /\ s \in Kernel
  BY <1>2, <1>4, UnblockEffect, UnblockHighestType
<1>6. RemoveFirst(r.waiters[w], u) = Tail(r.waiters[w])
  BY <1>4, RemoveHead
<1> HIDE DEF u, s
<1>7. r.state[u] \notin Runnable /\ r.priority[u] \in Priority
  BY <1>2, <1>5, FieldTypes DEF Runnable
<1>8. KernelConsistent(s)
  BY <1>2, <1>5, <1>7, MadeReadyConsistent
<1>9. s.priority = K.priority /\ s.fault = K.fault
  <2>1. r.priority \in [Task -> Priority]
    BY <1>2, FieldTypes
  <2>2. QED  BY <1>2, <1>5, <2>1 DEF MadeReady
<1>10. s.waiters[w] = SubSeq(q, (j + 1) + 1, Len(q))
  <2>1. j + 1 + 1 = j + 2
    BY <1>1
  <2>2. QED  BY <1>3, <1>5, <1>6, <2>1 DEF MadeReady
<1>11. \A t \in Task : /\ s.state[t] = IF t = u THEN "READY" ELSE r.state[t]
                       /\ s.wait_list[t] = IF t = u THEN None ELSE r.wait_list[t]
  <2>1. r.state \in [Task -> TaskState] /\ r.wait_list \in [Task -> WaitList \cup {None}]
    BY <1>2, FieldTypes
  <2>2. QED  BY <1>5, <2>1 DEF MadeReady
<1>12. \A t \in Task :
          IF \E i \in 1 .. j + 1 : q[i] = t
          THEN s.state[t] = "READY" /\ s.wait_list[t] = None
          ELSE s.state[t] = K.state[t] /\ s.wait_list[t] = K.wait_list[t]
  <2> TAKE t \in Task
  <2>1. (\E i \in 1 .. j + 1 : q[i] = t) <=> (\E i \in 1 .. j : q[i] = t) \/ q[j + 1] = t
    BY <1>1
  <2>2. QED  BY <1>2, <1>3, <1>11, <2>1
<1>13. \/ select_next_task(s) = select_next_task(K)
       \/ K.priority[select_next_task(s)] > K.priority[select_next_task(K)]
  <2>1. r.state[idle] \in Runnable
    BY <1>2 DEF Runnable
  <2>2. select_next_task(s) = IF r.priority[u] > r.priority[select_next_task(r)]
                              THEN u ELSE select_next_task(r)
    BY <1>2, <1>5, <1>7, <2>1, SelectAfterReady
  <2>3. select_next_task(K) \in Task /\ select_next_task(r) \in Task
    BY <1>2, <2>1, SelectHighest
  <2>4. \A t \in Task : K.priority[t] \in Nat
    BY FieldTypes, PriorityType
  <2>5. K.priority[u] \in Nat /\ K.priority[select_next_task(K)] \in Nat
        /\ K.priority[select_next_task(r)] \in Nat
    BY <1>5, <2>3, <2>4
  <2>6. QED  BY <1>2, <2>2, <2>5
<1>14. WokenUpTo(K, s, w, j + 1)
  BY <1>5, <1>8, <1>9, <1>10, <1>12, <1>13 DEF WokenUpTo, q
<1>15. QED  BY <1>14 DEF s

\* unblock_all empties the list and makes all its waiters ready.
LEMMA UnblockAllEffect ==
  ASSUME NEW K \in Kernel, NEW w \in WaitList, KernelConsistent(K),
         NEW idle \in Task, K.state[idle] \in Runnable
  PROVE  LET r == unblock_all(K, w)
         IN  /\ r \in Kernel /\ KernelConsistent(r)
             /\ r.fault = K.fault /\ r.priority = K.priority
             /\ \A t \in Task :
                  IF Contains(K.waiters[w], t)
                  THEN r.state[t] = "READY" /\ r.wait_list[t] = None
                  ELSE r.state[t] = K.state[t] /\ r.wait_list[t] = K.wait_list[t]
             /\ \/ select_next_task(r) = select_next_task(K)
                \/ K.priority[select_next_task(r)] > K.priority[select_next_task(K)]
<1> DEFINE q == K.waiters[w]
           n == Len(q)
<1>1. q \in Seq(Task) /\ n \in Nat
  BY FieldTypes
<1>2. PICK f : Rounds(f, K, w, n) /\ unblock_all(K, w) = f[n]
  BY <1>1, UnblockAllRounds
<1>3. f[0] = K /\ \A i \in 1 .. n : f[i] = unblock_highest(f[i - 1], w)
  <2> HIDE DEF n, q
  <2>1. 0 \in 0 .. n /\ \A i \in 1 .. n : i \in 0 .. n /\ i # 0
    BY <1>1
  <2>2. QED  BY <1>2, <2>1 DEF Rounds
<1>4. WokenUpTo(K, f[0], w, 0)
  <2>1. SubSeq(q, 0 + 1, Len(q)) = q
    BY <1>1, SubSeqFull
  <2>2. \A t : ~\E i \in 1 .. 0 : q[i] = t
    OBVIOUS
  <2>3. QED  BY <1>3, <2>1, <2>2 DEF WokenUpTo
<1> DEFINE B == {i \in 0 .. n : ~WokenUpTo(K, f[i], w, i)}
<1>5. B = {}
  <2> SUFFICES ASSUME B # {} PROVE FALSE
    OBVIOUS
  <2> DEFINE m == Min(B)
  <2>1. B \in SUBSET Nat
    BY <1>1
  <2>2. m \in B /\ \A x \in B : m <= x
    <3> HIDE DEF B
    <3>1. QED  BY <2>1, MinExists
  <2>3. m \in 0 .. n /\ ~WokenUpTo(K, f[m], w, m) /\ m # 0
    BY <1>4, <2>2
  <2>4. m - 1 \in 0 .. n - 1 /\ m \in 1 .. n /\ m - 1 + 1 = m
    BY <1>1, <2>3
  <2>5. WokenUpTo(K, f[m - 1], w, m - 1)
    BY <1>1, <2>2, <2>4
  <2> HIDE DEF m, B
  <2>6. WokenUpTo(K, unblock_highest(f[m - 1], w), w, m - 1 + 1)
    BY <2>4, <2>5, UnblockNext
  <2>7. QED  BY <1>3, <2>3, <2>4, <2>6
<1>6. WokenUpTo(K, f[n], w, n)
  BY <1>1, <1>5
<1>7. \A t : Contains(q, t) <=> \E i \in 1 .. n : q[i] = t
  BY <1>1 DEF Contains
<1> HIDE DEF n, q
<1>8. QED  BY <1>2, <1>6, <1>7 DEF WokenUpTo, q

-----------------------------------------------------------------------------
(* The order of the wait lists.                                            *)

\* The tasks of list q are in descending order of f.
SortedBy(q, f) == \A i, j \in 1 .. Len(q) : i < j => f[q[i]] >= f[q[j]]

LEMMA WaitersSortedBy ==
  ASSUME NEW kern
  PROVE  WaitersSorted(kern) <=> \A w \in WaitList : SortedBy(kern.waiters[w], kern.priority)
BY DEF WaitersSorted, IsSorted, SortedBy

\* Taking a waiter off leaves the others in order.
LEMMA RemoveSorted ==
  ASSUME NEW s \in Seq(Task), NEW e, NEW f \in [Task -> Priority], SortedBy(s, f)
  PROVE  SortedBy(RemoveFirst(s, e), f)
<1>1. CASE ~Contains(s, e)
  BY <1>1, RemoveAbsent
<1>2. CASE Contains(s, e)
  <2>1. PICK i \in 1 .. Len(s) : s[i] = e /\ RemoveFirst(s, e) = RemoveAt(s, i)
    BY <1>2, RemoveFirstIndex
  <2> DEFINE r == RemoveFirst(s, e)
  <2>2. /\ r \in Seq(Task) /\ Len(r) = Len(s) - 1
        /\ \A j \in 1 .. Len(s) - 1 : r[j] = IF j < i THEN s[j] ELSE s[j + 1]
    BY <2>1, RemoveAtProperties
  <2> HIDE DEF r
  <2> SUFFICES ASSUME NEW x \in 1 .. Len(r), NEW y \in 1 .. Len(r), x < y
               PROVE  f[r[x]] >= f[r[y]]
    BY DEF SortedBy, r
  <2> DEFINE X == IF x < i THEN x ELSE x + 1
             Y == IF y < i THEN y ELSE y + 1
  <2>3. Len(s) \in Nat
    OBVIOUS
  <2>4. X \in 1 .. Len(s) /\ Y \in 1 .. Len(s) /\ X < Y
    BY <2>2, <2>3
  <2>5. r[x] = s[X] /\ r[y] = s[Y]
    BY <2>2, <2>3
  <2> HIDE DEF X, Y
  <2>6. QED  BY <2>4, <2>5 DEF SortedBy
<1>3. QED  BY <1>1, <1>2

\* Only the priorities of the tasks on the list matter.
LEMMA SortedSame ==
  ASSUME NEW s \in Seq(Task), NEW f, NEW g, SortedBy(s, f),
         \A u \in Task : Contains(s, u) => f[u] = g[u]
  PROVE  SortedBy(s, g)
<1>1. \A i \in 1 .. Len(s) : s[i] \in Task /\ Contains(s, s[i])
  BY DEF Contains
<1>2. QED  BY <1>1 DEF SortedBy

\* Insertion before the first waiter of strictly lower priority keeps the order.
LEMMA InsertSorted ==
  ASSUME NEW kern \in Kernel, NEW w \in WaitList, NEW t \in Task,
         SortedBy(kern.waiters[w], kern.priority)
  PROVE  SortedBy(insert_wait_list_priority(kern, w, t).waiters[w], kern.priority)
<1> DEFINE q == kern.waiters[w]
           f == kern.priority
           I == {j \in 1 .. Len(q) : f[t] > f[q[j]]}
           i == SelectInSeq(q, LAMBDA u : kern.priority[t] > kern.priority[u])
           l == IF i = 0 THEN Append(q, t) ELSE InsertAt(q, i, t)
<1>1. q \in Seq(Task) /\ f \in [Task -> Priority] /\ kern.waiters \in [WaitList -> Seq(Task)]
  BY FieldTypes
<1>2. i = IF I # {} THEN Min(I) ELSE 0
  BY DEF SelectInSeq
<1>3. insert_wait_list_priority(kern, w, t).waiters[w] = l
  BY <1>1 DEF insert_wait_list_priority, Kernel
<1>4. \A u \in Task : f[u] \in Nat
  BY <1>1, PriorityType
<1>5. SortedBy(q, f)
  OBVIOUS
<1>6. I \in SUBSET Nat /\ \A j \in I : j \in 1 .. Len(q)
  OBVIOUS
<1>7. \A j \in 1 .. Len(q) : j \notin I => f[q[j]] >= f[t]
  BY <1>1, <1>4
<1>8. \A j \in 1 .. Len(q) : j \in I => f[t] > f[q[j]]
  OBVIOUS
<1>9. Len(q) \in Nat /\ \A j \in 1 .. Len(q) : q[j] \in Task
  BY <1>1
<1> HIDE DEF q, f, i, I
<1>10. CASE I = {}
  <2>1. l = Append(q, t)
    BY <1>2, <1>10
  <2>2. /\ Len(l) = Len(q) + 1 /\ l[Len(q) + 1] = t
        /\ \A j \in 1 .. Len(q) : l[j] = q[j]
    BY <1>1, <2>1
  <2> HIDE DEF l
  <2>3. SortedBy(l, f)
    BY <2>2, <1>5, <1>7, <1>9, <1>10 DEF SortedBy
  <2>4. QED  BY <1>3, <2>3 DEF f
<1>11. CASE I # {}
  <2>1. i \in I /\ \A j \in I : i <= j
    BY <1>2, <1>6, <1>11, MinExists
  <2>2. i \in 1 .. Len(q) /\ l = InsertAt(q, i, t)
    BY <2>1, <1>6
  <2> HIDE DEF l
  <2>3. /\ Len(l) = Len(q) + 1
        /\ \A j \in 1 .. Len(q) + 1 : l[j] = IF j < i THEN q[j] ELSE IF j = i THEN t ELSE q[j - 1]
    BY <2>2, <1>1, InsertAtProperties
  <2>4. \A j \in 1 .. i - 1 : f[q[j]] >= f[t]
    BY <2>1, <2>2, <1>6, <1>7
  <2>5. \A j \in i .. Len(q) : f[t] >= f[q[j]]
    <3> SUFFICES ASSUME NEW j \in i .. Len(q) PROVE f[t] >= f[q[j]]
      OBVIOUS
    <3>1. f[t] > f[q[i]] /\ i \in 1 .. Len(q) /\ j \in 1 .. Len(q)
      BY <2>1, <2>2, <1>8
    <3>2. f[q[i]] >= f[q[j]]
      BY <3>1, <1>4, <1>5, <1>9 DEF SortedBy
    <3>3. f[t] \in Nat /\ f[q[i]] \in Nat /\ f[q[j]] \in Nat
      BY <3>1, <1>4, <1>9
    <3>4. QED  BY <3>1, <3>2, <3>3
  <2>6. SortedBy(l, f)
    <3> SUFFICES ASSUME NEW x \in 1 .. Len(l), NEW y \in 1 .. Len(l), x < y
                 PROVE  f[l[x]] >= f[l[y]]
      BY DEF SortedBy
    <3>1. CASE x < i /\ y < i
      BY <3>1, <2>2, <2>3, <1>5, <1>9 DEF SortedBy
    <3>2. CASE x < i /\ y = i
      BY <3>2, <2>2, <2>3, <2>4, <1>9
    <3>3. CASE x < i /\ y > i
      <4>1. l[x] = q[x] /\ l[y] = q[y - 1] /\ x \in 1 .. Len(q) /\ y - 1 \in 1 .. Len(q) /\ x < y - 1
        BY <3>3, <2>2, <2>3, <1>9
      <4>2. QED  BY <4>1, <1>5 DEF SortedBy
    <3>4. CASE x = i
      <4>1. l[x] = t /\ l[y] = q[y - 1] /\ y - 1 \in i .. Len(q)
        BY <3>4, <2>2, <2>3, <1>9
      <4>2. QED  BY <4>1, <2>5
    <3>5. CASE x > i
      <4>1. l[x] = q[x - 1] /\ l[y] = q[y - 1] /\ x - 1 \in 1 .. Len(q) /\ y - 1 \in 1 .. Len(q)
            /\ x - 1 < y - 1
        BY <3>5, <2>2, <2>3, <1>9
      <4>2. QED  BY <4>1, <1>5 DEF SortedBy
    <3>6. x \in Nat /\ y \in Nat /\ i \in Nat
      BY <2>2, <2>3, <1>9
    <3>7. QED  BY <3>1, <3>2, <3>3, <3>4, <3>5, <3>6
  <2>7. QED  BY <1>3, <2>6 DEF f
<1>12. QED  BY <1>10, <1>11

\* wait_list_block keeps every wait list in order.
LEMMA BlockSorted ==
  ASSUME NEW kern \in Kernel, NEW t \in Task, NEW w \in WaitList, NEW n \in 1 .. Forever,
         WaitersSorted(kern)
  PROVE  WaitersSorted(block_on_wait_list(kern, t, w, n))
<1> DEFINE m == remove_ready(kern, t)
           d == [m EXCEPT !.state[t] = "BLOCKED", !.wait_list[t] = w]
           r == insert_wait_list_priority(d, w, t)
           b == block_on_wait_list(kern, t, w, n)
<1>1. m \in Kernel
  BY RemoveReadyType
<1>2. m.priority = kern.priority /\ m.waiters = kern.waiters
  BY DEF remove_ready, Unlinked, Kernel
<1>3. b = IF n # Forever THEN [r EXCEPT !.delay_ticks[t] = n, !.delay = Append(@, t)]
                         ELSE [r EXCEPT !.delay_ticks[t] = 0]
  BY DEF block_on_wait_list
<1> HIDE DEF m
<1>4. d \in Kernel /\ d.priority = m.priority /\ d.waiters = m.waiters
  BY <1>1 DEF Kernel, TaskState
<1> HIDE DEF d
<1>5. r \in Kernel
  BY <1>4, InsertWaitType
<1>6. r.priority = d.priority /\ \A v \in WaitList : v # w => r.waiters[v] = d.waiters[v]
  BY <1>4 DEF insert_wait_list_priority, Kernel
<1>7. SortedBy(d.waiters[w], d.priority) => SortedBy(r.waiters[w], d.priority)
  BY <1>4, InsertSorted
<1> HIDE DEF r
<1>8. b.waiters = r.waiters /\ b.priority = r.priority
  BY <1>3, <1>5 DEF Kernel
<1> HIDE DEF b
<1>9. \A v \in WaitList : SortedBy(kern.waiters[v], kern.priority)
  BY WaitersSortedBy
<1>10. \A v \in WaitList : SortedBy(b.waiters[v], b.priority)
  BY <1>2, <1>4, <1>6, <1>7, <1>8, <1>9
<1>11. QED  BY <1>10, WaitersSortedBy DEF b

\* A task made ready leaves the wait lists in order.
LEMMA ReadySorted ==
  ASSUME NEW kern \in Kernel, NEW r \in Kernel, NEW t \in Task, NEW p \in Priority,
         KernelConsistent(kern), MadeReady(kern, r, t, p), WaitersSorted(kern)
  PROVE  WaitersSorted(r)
<1>1. /\ kern.waiters \in [WaitList -> Seq(Task)] /\ kern.priority \in [Task -> Priority]
      /\ r.priority = [kern.priority EXCEPT ![t] = p]
      /\ r.waiters = [w \in WaitList |-> RemoveFirst(kern.waiters[w], t)]
  BY FieldTypes DEF MadeReady
<1> SUFFICES ASSUME NEW w \in WaitList PROVE SortedBy(r.waiters[w], r.priority)
  BY WaitersSortedBy
<1> DEFINE q == RemoveFirst(kern.waiters[w], t)
<1>2. kern.waiters[w] \in Seq(Task) /\ IsInjective(kern.waiters[w])
  BY <1>1 DEF KernelConsistent, ListsInjective
<1>3. q \in Seq(Task) /\ \A u : Contains(q, u) => u # t
  BY <1>2, RemoveType, RemoveElements
<1>4. SortedBy(q, kern.priority)
  BY <1>1, <1>2, RemoveSorted, WaitersSortedBy
<1> HIDE DEF q
<1>5. SortedBy(q, r.priority)
  BY <1>1, <1>3, <1>4, SortedSame
<1>6. QED  BY <1>1, <1>5 DEF q

-----------------------------------------------------------------------------
(* Types.                                                                  *)

LEMMA ConstantTypes ==
  /\ 0 \in 0 .. TickMod - 1
  /\ \A n \in Int : n % TickMod \in 0 .. TickMod - 1
  /\ \A t \in Task : Prio[t] \in Priority
  /\ 0 \in 0 .. MaxNesting
  /\ 0 \in 0 .. Forever
BY SchedulerAssumption, KernelAssumption, PriorityType

LEMMA InitType == Init => TypeOK
<1> SUFFICES ASSUME Init PROVE TypeOK
  OBVIOUS
<1>1. k \in Kernel
  BY InitKernelType DEF Init
<1>2. /\ current \in Task \cup {None}
      /\ lock_nesting \in 0 .. MaxNesting
      /\ ticks \in 0 .. TickMod - 1
      /\ isr \in {"none", "scan", "switch"} /\ scan \in Seq(Task)
      /\ is_running \in BOOLEAN /\ reschedule_pending \in BOOLEAN
      /\ pendsv \in BOOLEAN /\ need_reschedule \in BOOLEAN
  BY ConstantTypes, EmptySeq, Zenon DEF Init
<1>3. /\ pc \in [Task -> TaskPc]
      /\ timeout \in [Task -> 0 .. Forever]
      /\ deadline \in [Task -> 0 .. TickMod - 1]
      /\ woken \in [Task -> {"no", "event", "timeout", "deleted"}]
  BY ConstantTypes DEF Init, TaskPc
<1>4. QED  BY <1>1, <1>2, <1>3 DEF TypeOK

\* The first waiter of a list is woken.
LEMMA WakeType ==
  ASSUME TypeOK, NEW w \in WaitList,
         k' = unblock_highest(k, w), RecordEvent(highest_waiter(k, w))
  PROVE  /\ k' \in Kernel
         /\ woken' \in [Task -> {"no", "event", "timeout", "deleted"}]
         /\ deadline' \in [Task -> 0 .. TickMod - 1]
<1>1. k' \in Kernel /\ highest_waiter(k, w) \in Task \cup {None}
  BY UnblockHighestType, HighestWaiterType DEF TypeOK
<1>2. QED  BY <1>1, ConstantTypes DEF TypeOK, RecordEvent

\* A task blocks on a wait list.
LEMMA WaitListBlockType ==
  ASSUME TypeOK, NEW t \in Task, NEW w \in WaitList, NEW n \in 1 .. Forever,
         WaitListBlock(t, w, n),
         UNCHANGED <<current, is_running, lock_vars, pendsv, tick_vars>>
  PROVE  TypeOK'
<1>1. k' \in Kernel
  BY BlockOnWaitListType DEF WaitListBlock, TypeOK
<1>2. (IF n = Forever THEN 0 ELSE (ticks + n) % TickMod) \in 0 .. TickMod - 1
  <2>1. ticks + n \in Int
    BY SchedulerAssumption, PriorityType DEF TypeOK
  <2>2. QED  BY <2>1, ConstantTypes
<1>3. timeout' \in [Task -> 0 .. Forever] /\ deadline' \in [Task -> 0 .. TickMod - 1]
  BY <1>2, PriorityType DEF WaitListBlock, TypeOK
<1>4. QED  BY <1>1, <1>3 DEF WaitListBlock, Goto, TypeOK, tick_vars, lock_vars, TaskPc

\* Every action keeps the types: type correctness holds whatever the
\* application calls, misuse of the lists included.
LEMMA NextType == TypeOK /\ [Next]_vars => TypeOK'
<1> SUFFICES ASSUME TypeOK, [Next]_vars PROVE TypeOK'
  OBVIOUS
<1> USE DEF TypeOK, tick_vars, lock_vars, wait_vars, TaskPc
<1>1. ASSUME NEW u \in Task, CreateFromMain(u) PROVE TypeOK'
  BY <1>1, CreateType, ConstantTypes DEF CreateFromMain
<1>2. CASE Start
  BY <1>2, SelectType, PerformSwitchType DEF Start
<1>3. CASE PendSV
  <2>1. k' \in Kernel /\ current' \in Task \cup {None}
    BY <1>3, SelectType, PerformSwitchType DEF PendSV
  <2>2. QED  BY <1>3, <2>1 DEF PendSV
<1>4. CASE TickEnter
  <2>1. ticks' \in 0 .. TickMod - 1
    BY <1>4, ConstantTypes, SchedulerAssumption DEF TickEnter
  <2>2. scan' \in Seq(Task)
    BY <1>4, FieldTypes DEF TickEnter
  <2>3. QED  BY <1>4, <2>1, <2>2 DEF TickEnter
<1>5. CASE TickScan
  <2>1. Head(scan) \in Task /\ Tail(scan) \in Seq(Task)
    BY <1>5 DEF TickScan
  <2>2. k' \in Kernel
    BY <1>5, <2>1, DelayedTaskTickType DEF TickScan
  <2>3. /\ need_reschedule' \in BOOLEAN
        /\ woken' \in [Task -> {"no", "event", "timeout", "deleted"}]
        /\ deadline' \in [Task -> 0 .. TickMod - 1]
    BY <1>5, <2>1, ConstantTypes DEF TickScan
  <2>4. QED  BY <1>5, <2>1, <2>2, <2>3 DEF TickScan
<1>6. CASE TickSlice
  <2>1. k' \in Kernel
    BY <1>6, RotateType DEF TickSlice, process_time_slicing
  <2>2. QED  BY <1>6, <2>1 DEF TickSlice
<1>7. CASE TickSwitch
  BY <1>7 DEF TickSwitch, switch_context
<1>8. ASSUME NEW t \in Task, NEW u \in Task, Create(t, u) PROVE TypeOK'
  BY <1>8, CreateType, ConstantTypes DEF Create, Goto
<1>9. ASSUME NEW t \in Task, Stop(t) PROVE TypeOK'
  <2>1. k' \in Kernel
    BY <1>9, InitKernelType DEF Stop
  <2>2. /\ pc' \in [Task -> TaskPc]
        /\ timeout' \in [Task -> 0 .. Forever]
        /\ deadline' \in [Task -> 0 .. TickMod - 1]
        /\ woken' \in [Task -> {"no", "event", "timeout", "deleted"}]
    BY <1>9, ConstantTypes DEF Stop
  <2>3. /\ current' \in Task \cup {None} /\ is_running' \in BOOLEAN
        /\ lock_nesting' \in 0 .. MaxNesting /\ reschedule_pending' \in BOOLEAN
        /\ ticks' \in 0 .. TickMod - 1 /\ pendsv' \in BOOLEAN
        /\ isr' \in {"none", "scan", "switch"} /\ scan' \in Seq(Task)
        /\ need_reschedule' \in BOOLEAN
    BY <1>9, ConstantTypes, EmptySeq, Zenon DEF Stop
  <2>4. QED  BY <2>1, <2>2, <2>3
<1>10. ASSUME NEW t \in Task, SwitchContext(t) PROVE TypeOK'
  BY <1>10 DEF SwitchContext, switch_context, Goto
<1>11. ASSUME NEW t \in Task, Reschedule(t) PROVE TypeOK'
  BY <1>11 DEF Reschedule, Goto
<1>12. ASSUME NEW t \in Task, Yield(t) PROVE TypeOK'
  <2>1. k' \in Kernel
    BY <1>12, RotateType DEF Yield, process_time_slicing
  <2>2. QED  BY <1>12, <2>1 DEF Yield, Goto
<1>13. ASSUME NEW t \in Task, NEW n \in 1 .. MaxDelay, Delay(t, n) PROVE TypeOK'
  <2>1. k' \in Kernel
    BY <1>13, BlockOnDelayType DEF Delay
  <2>2. (ticks + n) % TickMod \in 0 .. TickMod - 1
    <3>1. ticks + n \in Int
      BY SchedulerAssumption
    <3>2. QED  BY <3>1, ConstantTypes
  <2>3. QED  BY <1>13, <2>1, <2>2 DEF Delay, Goto
<1>14. ASSUME NEW t \in Task, Lock(t) PROVE TypeOK'
  BY <1>14, SchedulerAssumption DEF Lock
<1>15. ASSUME NEW t \in Task, Unlock(t) PROVE TypeOK'
  <2>1. lock_nesting' \in 0 .. MaxNesting
    BY <1>15, SchedulerAssumption DEF Unlock
  <2>2. reschedule_pending' \in BOOLEAN /\ pc' \in [Task -> TaskPc]
    BY <1>15 DEF Unlock, Goto
  <2>3. QED  BY <1>15, <2>1, <2>2 DEF Unlock
<1>16. ASSUME NEW w \in WaitList, IsrSignal(w) PROVE TypeOK'
  <2>1. /\ k' \in Kernel
        /\ woken' \in [Task -> {"no", "event", "timeout", "deleted"}]
        /\ deadline' \in [Task -> 0 .. TickMod - 1]
    BY <1>16, WakeType DEF IsrSignal
  <2>2. QED  BY <1>16, <2>1 DEF IsrSignal, switch_context
<1>17. ASSUME NEW t \in Task, WaitReturn(t) PROVE TypeOK'
  BY <1>17, ConstantTypes DEF WaitReturn, Goto
<1>18. ASSUME NEW t \in Task, NEW w \in WaitList, Signal(t, w) PROVE TypeOK'
  <2>1. /\ k' \in Kernel
        /\ woken' \in [Task -> {"no", "event", "timeout", "deleted"}]
        /\ deadline' \in [Task -> 0 .. TickMod - 1]
    BY <1>18, WakeType DEF Signal
  <2>2. QED  BY <1>18, <2>1 DEF Signal, Goto
<1>19. ASSUME NEW t \in Task, NEW w \in WaitList, NEW n \in 1 .. Forever, Wait(t, w, n)
       PROVE  TypeOK'
  BY <1>19, WaitListBlockType DEF Wait
<1>20. CASE UNCHANGED vars
  BY <1>20 DEF vars
<1>21. QED
  BY <1>1, <1>2, <1>3, <1>4, <1>5, <1>6, <1>7, <1>8, <1>9, <1>10, <1>11, <1>12,
     <1>13, <1>14, <1>15, <1>16, <1>17, <1>18, <1>19, <1>20
  DEF Next, SystemStep, KernelStep, CallStep

\* Type correctness: every counter, list and program counter of the scheduler
\* stays in its range.
THEOREM TypeCorrect == Spec => []TypeOK
BY InitType, NextType, PTL DEF Spec

-----------------------------------------------------------------------------
(* The invariant.                                                          *)

\* What the parts of the invariant say of k.
TasksOf(kern, cur) ==
    /\ TimeSlicing => \A t \in Task : kern.state[t] # "ABSENT" => kern.priority[t] = Prio[t]
    /\ \A t \in Task : kern.state[t] = "RUNNING" => t = cur
    /\ kern.state[Idle] \in Runnable

\* The part of the invariant that asks nothing of the switches on their way.
SchedCore ==
    /\ TypeOK
    /\ k.fault = {}
    /\ KernelConsistent(k)
    /\ StartedInv
    /\ TasksInv
    /\ ScanInv

LEMMA CoreOfSched ==
  ASSUME SchedInv PROVE SchedCore
BY DEF SchedInv, SchedCore

\* The idle task is always there to be selected.
LEMMA SelectCore ==
  ASSUME SchedCore
  PROVE  /\ k \in Kernel /\ KernelConsistent(k) /\ Idle \in Task /\ k.state[Idle] \in Runnable
         /\ select_next_task(k) \in Task /\ select_next_task(k) # None
         /\ k.state[select_next_task(k)] \in Runnable
         /\ k.priority[select_next_task(k)] \in Nat
         /\ \A t \in Task : k.priority[t] \in Nat
         /\ \A t \in Task : k.state[t] \in Runnable => k.priority[t] <= k.priority[select_next_task(k)]
<1>1. k \in Kernel /\ KernelConsistent(k) /\ Idle \in Task /\ k.state[Idle] \in Runnable
  BY KernelAssumption DEF SchedCore, TypeOK, TasksInv
<1>2. /\ select_next_task(k) \in Task
      /\ k.state[select_next_task(k)] \in Runnable
      /\ k.priority[select_next_task(k)] = Max(k.bitmap)
      /\ \A t \in Task : k.state[t] \in Runnable => k.priority[t] <= Max(k.bitmap)
  BY <1>1, SelectHighest
<1>3. \A t \in Task : k.priority[t] \in Nat
  BY <1>1, FieldTypes, PriorityType
<1>4. QED  BY <1>1, <1>2, <1>3, KernelAssumption

LEMMA SelectFacts ==
  ASSUME SchedInv
  PROVE  /\ k \in Kernel /\ KernelConsistent(k) /\ Idle \in Task /\ k.state[Idle] \in Runnable
         /\ select_next_task(k) \in Task /\ select_next_task(k) # None
         /\ k.state[select_next_task(k)] \in Runnable
         /\ k.priority[select_next_task(k)] \in Nat
         /\ \A t \in Task : k.priority[t] \in Nat
         /\ \A t \in Task : k.state[t] \in Runnable => k.priority[t] <= k.priority[select_next_task(k)]
BY CoreOfSched, SelectCore

\* A task was made ready: what that does to the tasks.
LEMMA ReadyTasks ==
  ASSUME NEW kern \in Kernel, NEW r \in Kernel, NEW t \in Task, NEW p \in Priority, NEW cur,
         KernelConsistent(kern), TasksOf(kern, cur),
         kern.state[t] \notin Runnable, MadeReady(kern, r, t, p),
         TimeSlicing => p = Prio[t]
  PROVE  /\ KernelConsistent(r) /\ TasksOf(r, cur) /\ r.fault = kern.fault
         /\ \A u \in Task : kern.state[u] \in Runnable => r.state[u] \in Runnable
         /\ \A u \in Task : r.state[u] = IF u = t THEN "READY" ELSE kern.state[u]
         /\ \A u \in Task : r.priority[u] = IF u = t THEN p ELSE kern.priority[u]
<1>1. KernelConsistent(r)
  BY MadeReadyConsistent
<1>2. r.fault = kern.fault
  BY DEF MadeReady
<1>3. \A u \in Task : r.state[u] = IF u = t THEN "READY" ELSE kern.state[u]
  <2>1. kern.state \in [Task -> TaskState]
    BY FieldTypes
  <2>2. QED  BY <2>1 DEF MadeReady
<1>4. \A u \in Task : r.priority[u] = IF u = t THEN p ELSE kern.priority[u]
  <2>1. kern.priority \in [Task -> Priority]
    BY FieldTypes
  <2>2. QED  BY <2>1 DEF MadeReady
<1>5. Idle \in Task
  BY KernelAssumption
<1>6. TasksOf(r, cur)
  BY <1>3, <1>4, <1>5 DEF TasksOf, Runnable
<1>7. QED  BY <1>1, <1>2, <1>3, <1>4, <1>6 DEF Runnable

\* A runnable task other than the idle task was blocked.
LEMMA BlockedTasks ==
  ASSUME NEW kern \in Kernel, NEW r \in Kernel, NEW t \in Task, NEW cur,
         NEW w \in WaitList \cup {None}, NEW n \in 0 .. MaxDelay, n > 0 \/ w # None,
         KernelConsistent(kern), TasksOf(kern, cur), t # Idle,
         kern.state[t] \in Runnable, MadeBlocked(kern, r, t, w, n)
  PROVE  /\ KernelConsistent(r) /\ TasksOf(r, cur) /\ r.fault = kern.fault
         /\ r.state[t] = "BLOCKED"
<1>1. KernelConsistent(r)
  BY MadeBlockedConsistent
<1>2. r.fault = kern.fault /\ r.priority = kern.priority
  BY DEF MadeBlocked
<1>3. \A u \in Task : r.state[u] = IF u = t THEN "BLOCKED" ELSE kern.state[u]
  BY FieldTypes DEF MadeBlocked
<1>4. kern.state[t] # "ABSENT" /\ Idle \in Task
  BY KernelAssumption DEF Runnable
<1>5. TasksOf(r, cur)
  BY <1>2, <1>3, <1>4 DEF TasksOf, Runnable
<1>6. QED  BY <1>1, <1>2, <1>3, <1>5

-----------------------------------------------------------------------------
(* The actions.                                                            *)

LEMMA InitSafe == Init => SchedInv
<1> SUFFICES ASSUME Init PROVE SchedInv
  OBVIOUS
<1>1. TypeOK
  BY InitType
<1>2. k.fault = {} /\ KernelConsistent(k)
  BY InitKernelEffect DEF Init
<1>3. ~is_running /\ StartedInv
  BY DEF Init, StartedInv
<1>4. TasksInv
  <2>1. k.state[Idle] = "READY" /\ k.priority[Idle] = Prio[Idle]
    BY InitKernelEffect, KernelAssumption, SchedulerAssumption DEF Init
  <2>2. QED  BY <2>1, InitKernelEffect DEF Init, TasksInv, Runnable
<1>5. ScanInv
  BY DEF Init, ScanInv, IsInjective, Contains
<1>6. SwitchInv
  BY <1>3 DEF SwitchInv
<1>7. BlockedInv
  BY <1>3 DEF Init, BlockedInv
<1>8. QED  BY <1>1, <1>2, <1>3, <1>4, <1>5, <1>6, <1>7 DEF SchedInv

LEMMA CreateFromMainSafe ==
  ASSUME SchedInv, TypeOK', NEW u \in Task, CreateFromMain(u)
  PROVE  SchedInv'
<1>1. /\ k \in Kernel /\ k' \in Kernel /\ KernelConsistent(k) /\ Prio[u] \in Priority
      /\ TasksOf(k, current)
  BY ConstantTypes DEF SchedInv, TypeOK, TasksInv, TasksOf
<1>2. k.state[u] = "ABSENT" /\ k' = create_static(k, u, Prio[u])
  BY DEF CreateFromMain
<1>3. MadeReady(k, k', u, Prio[u])
  BY <1>1, <1>2, CreateEffect
<1>4. KernelConsistent(k') /\ TasksOf(k', current) /\ k'.fault = k.fault
  <2>1. k.state[u] \notin Runnable
    BY <1>2 DEF Runnable
  <2>2. QED  BY <1>1, <1>3, <2>1, ReadyTasks
<1>5. ~is_running /\ ~is_running'
  BY DEF CreateFromMain
<1>6. StartedInv'
  BY <1>5 DEF SchedInv, StartedInv, CreateFromMain, tick_vars, lock_vars
<1>7. scan = <<>> /\ scan' = <<>>
  BY <1>5 DEF SchedInv, StartedInv, ScanInv, CreateFromMain, tick_vars
<1>8. ScanInv'
  BY <1>7 DEF ScanInv, IsInjective, Contains
<1>9. TasksInv'
  BY <1>4 DEF CreateFromMain, TasksInv, TasksOf
<1>10. SwitchInv' /\ BlockedInv'
  BY <1>5, <1>6 DEF SwitchInv, BlockedInv, StartedInv
<1>11. QED  BY <1>4, <1>6, <1>8, <1>9, <1>10 DEF SchedInv

LEMMA StartSafe ==
  ASSUME SchedInv, TypeOK', Start
  PROVE  SchedInv'
<1> DEFINE next == select_next_task(k)
<1>1. /\ k \in Kernel /\ KernelConsistent(k) /\ next \in Task /\ k.state[next] \in Runnable
  BY SelectFacts
<1>2. ~is_running /\ is_running' = TRUE /\ current' = next /\ k' = perform_switch(k, current, next)
      /\ UNCHANGED <<lock_vars, pendsv, tick_vars, pc, wait_vars>>
  BY DEF Start
<1>3. /\ current = None /\ ~pendsv /\ isr = "none" /\ scan = <<>>
      /\ TasksOf(k, None) /\ k.fault = {}
  BY <1>2 DEF SchedInv, StartedInv, ScanInv, TasksInv, TasksOf
<1> HIDE DEF next
<1>4. /\ KernelConsistent(k') /\ k'.priority = k.priority /\ k'.ready = k.ready
      /\ k'.bitmap = k.bitmap /\ k'.delay = k.delay /\ k'.fault = k.fault
      /\ \A t \in Task : k'.state[t] = IF t = next THEN "RUNNING"
                                       ELSE IF t = current /\ k.state[t] = "RUNNING" THEN "READY"
                                       ELSE k.state[t]
  BY <1>1, <1>2, PerformSwitchEffect
<1>5. \A t \in Task : k'.state[t] = IF t = next THEN "RUNNING" ELSE k.state[t]
  BY <1>3, <1>4, KernelAssumption
<1>6. select_next_task(k') = next
  BY <1>4 DEF select_next_task, next
<1>7. StartedInv'
  BY <1>1, <1>2, <1>5 DEF StartedInv
<1>8. TasksInv'
  <2>1. Idle \in Task /\ None \notin Task /\ k.state[next] # "ABSENT"
    BY <1>1, KernelAssumption DEF Runnable
  <2>2. QED  BY <2>1, <1>2, <1>3, <1>4, <1>5 DEF TasksInv, TasksOf, Runnable
<1>9. ScanInv'
  BY <1>2, <1>3 DEF ScanInv, tick_vars, IsInjective, Contains
<1>10. SwitchInv'
  BY <1>2, <1>6 DEF SwitchInv
<1>11. BlockedInv'
  BY <1>1, <1>2, <1>3, <1>5 DEF BlockedInv, Runnable
<1>12. QED  BY <1>3, <1>4, <1>7, <1>8, <1>9, <1>10, <1>11 DEF SchedInv

LEMMA PendSVSafe ==
  ASSUME SchedInv, TypeOK', PendSV
  PROVE  SchedInv'
<1> DEFINE next == select_next_task(k)
<1>1. /\ k \in Kernel /\ KernelConsistent(k) /\ next \in Task /\ k.state[next] \in Runnable
      /\ next # None
  BY SelectFacts
<1>2. /\ pendsv /\ isr = "none" /\ pendsv' = FALSE
      /\ UNCHANGED <<is_running, lock_vars, tick_vars, pc, wait_vars>>
  BY DEF PendSV
<1>3. current' = next /\ k' = perform_switch(k, current, next)
  BY <1>1 DEF PendSV
<1>4. /\ is_running /\ scan = <<>> /\ TasksOf(k, current) /\ k.fault = {}
  BY <1>2 DEF SchedInv, StartedInv, ScanInv, TasksInv, TasksOf
<1> HIDE DEF next
<1>5. /\ KernelConsistent(k') /\ k'.priority = k.priority /\ k'.ready = k.ready
      /\ k'.bitmap = k.bitmap /\ k'.delay = k.delay /\ k'.fault = k.fault
      /\ \A t \in Task : k'.state[t] = IF t = next THEN "RUNNING"
                                       ELSE IF t = current /\ k.state[t] = "RUNNING" THEN "READY"
                                       ELSE k.state[t]
  BY <1>1, <1>3, PerformSwitchEffect
<1>6. select_next_task(k') = next
  BY <1>5 DEF select_next_task, next
<1>7. StartedInv'
  BY <1>1, <1>2, <1>3, <1>4, <1>5 DEF StartedInv
<1>8. TasksInv'
  <2>1. Idle \in Task /\ k.state[next] # "ABSENT"
    BY <1>1, KernelAssumption DEF Runnable
  <2>2. QED  BY <2>1, <1>3, <1>4, <1>5 DEF TasksInv, TasksOf, Runnable
<1>9. ScanInv'
  BY <1>2, <1>4 DEF ScanInv, tick_vars, IsInjective, Contains
<1>10. SwitchInv'
  BY <1>3, <1>6 DEF SwitchInv
<1>11. BlockedInv'
  BY <1>1, <1>2, <1>3, <1>5 DEF BlockedInv, Runnable
<1>12. QED  BY <1>4, <1>5, <1>7, <1>8, <1>9, <1>10, <1>11 DEF SchedInv

LEMMA TickEnterSafe ==
  ASSUME SchedInv, TypeOK', TickEnter
  PROVE  SchedInv'
<1>1. UNCHANGED <<k, current, is_running, lock_vars, pendsv, pc, wait_vars>>
  BY DEF TickEnter
<1>2. is_running /\ isr = "none" /\ isr' = "scan" /\ scan' = k.delay
  BY DEF TickEnter
<1>3. ScanInv'
  BY <1>1, <1>2 DEF ScanInv, SchedInv, KernelConsistent, ListsInjective
<1>4. StartedInv' /\ TasksInv' /\ BlockedInv'
  BY <1>1, <1>2 DEF StartedInv, TasksInv, BlockedInv, SchedInv, lock_vars
<1>5. SwitchInv'
  BY <1>1, <1>2 DEF SwitchInv, SchedInv, lock_vars
<1>6. QED  BY <1>1, <1>3, <1>4, <1>5 DEF SchedInv

LEMMA TickScanSafe ==
  ASSUME SchedInv, TypeOK', TickScan
  PROVE  SchedInv'
<1> DEFINE t == Head(scan)
<1>1. /\ isr = "scan" /\ scan # <<>> /\ k' = delayed_task_tick(k, t) /\ scan' = Tail(scan)
      /\ UNCHANGED <<current, is_running, lock_vars, pendsv, isr, ticks, pc, timeout>>
  BY DEF TickScan
<1>2. k \in Kernel /\ k' \in Kernel /\ scan \in Seq(Task)
  BY DEF SchedInv, TypeOK
<1>3. /\ KernelConsistent(k) /\ k.fault = {} /\ TasksOf(k, current) /\ is_running
      /\ IsInjective(scan) /\ \A u \in Task : Contains(scan, u) => Contains(k.delay, u)
      /\ current \in Task /\ k.state[current] # "ABSENT"
  BY <1>1 DEF SchedInv, TasksInv, TasksOf, ScanInv, StartedInv
<1>4. t \in Task /\ Contains(scan, t)
  BY <1>1, <1>2, HeadElement
<1>5. /\ IsInjective(Tail(scan))
      /\ \A u : Contains(Tail(scan), u) => Contains(scan, u) /\ u # t
  BY <1>1, <1>2, <1>3, TailElements
<1>6. Contains(k.delay, t)
  BY <1>3, <1>4
<1> HIDE DEF t
<1>7. CASE k.delay_ticks[t] > 1
  <2>1. k' = [k EXCEPT !.delay_ticks[t] = @ - 1] /\ KernelConsistent(k')
    BY <1>1, <1>2, <1>3, <1>4, <1>7, CountdownConsistent
  <2>2. /\ k'.state = k.state /\ k'.priority = k.priority /\ k'.ready = k.ready
        /\ k'.bitmap = k.bitmap /\ k'.delay = k.delay /\ k'.fault = k.fault
    BY <2>1, <1>2 DEF Kernel
  <2>3. select_next_task(k') = select_next_task(k)
    BY <2>2 DEF select_next_task
  <2>4. UNCHANGED need_reschedule
    BY <1>7 DEF TickScan, t
  <2>5. StartedInv' /\ TasksInv' /\ BlockedInv'
    BY <1>1, <1>3, <2>2 DEF StartedInv, TasksInv, TasksOf, BlockedInv, SchedInv, lock_vars
  <2>6. ScanInv'
    BY <1>1, <1>3, <1>5, <2>2 DEF ScanInv
  <2>7. SwitchInv'
    BY <1>1, <2>2, <2>3, <2>4 DEF SwitchInv, SchedInv, lock_vars
  <2>8. QED  BY <1>3, <2>1, <2>2, <2>5, <2>6, <2>7 DEF SchedInv
<1>8. CASE ~(k.delay_ticks[t] > 1)
  <2>1. k.state[t] = "BLOCKED" /\ MadeReady(k, k', t, k.priority[t])
    BY <1>1, <1>2, <1>3, <1>4, <1>6, <1>8, ExpireEffect
  <2>2. (TimeSlicing => k.priority[t] = Prio[t]) /\ k.priority[t] \in Priority
    BY <1>2, <1>3, <1>4, <2>1, FieldTypes DEF TasksOf
  <2>3. /\ KernelConsistent(k') /\ TasksOf(k', current) /\ k'.fault = k.fault
        /\ \A u \in Task : k'.state[u] = IF u = t THEN "READY" ELSE k.state[u]
    <3>1. k.state[t] \notin Runnable
      BY <2>1 DEF Runnable
    <3>2. QED  BY <1>2, <1>3, <1>4, <2>1, <2>2, <3>1, ReadyTasks
  <2>4. need_reschedule' = TRUE
    BY <1>8 DEF TickScan, t
  <2>5. StartedInv' /\ TasksInv' /\ BlockedInv'
    BY <1>1, <1>3, <2>3 DEF StartedInv, TasksInv, TasksOf, BlockedInv, SchedInv, lock_vars, Runnable
  <2>6. ScanInv'
    <3>1. \A u : Contains(k'.delay, u) <=> (Contains(k.delay, u) /\ u # t)
      <4>1. k'.delay = RemoveFirst(k.delay, t)
        BY <2>1 DEF MadeReady
      <4>2. k.delay \in Seq(Task) /\ IsInjective(k.delay)
        BY <1>2, <1>3, FieldTypes DEF KernelConsistent, ListsInjective
      <4>3. QED  BY <4>1, <4>2, RemoveElements
    <3>2. QED  BY <1>1, <1>3, <1>5, <3>1 DEF ScanInv
  <2>7. SwitchInv'
    BY <1>1, <2>4 DEF SwitchInv
  <2>8. QED  BY <1>3, <2>3, <2>5, <2>6, <2>7 DEF SchedInv
<1>9. QED  BY <1>7, <1>8

\* With two tasks of a priority at most, a current task that is blocked has
\* at most one runnable peer: its queue is not rotated.
LEMMA SliceCore ==
  ASSUME Disciplined, SchedCore, is_running
  PROVE  /\ KernelConsistent(process_time_slicing)
         /\ process_time_slicing.state = k.state /\ process_time_slicing.priority = k.priority
         /\ process_time_slicing.delay = k.delay /\ process_time_slicing.fault = k.fault
         /\ ~TimeSlicing => process_time_slicing = k
<1>1. /\ k \in Kernel /\ KernelConsistent(k) /\ TasksOf(k, current)
      /\ current \in Task /\ k.state[current] # "ABSENT"
  BY DEF SchedCore, TypeOK, TasksInv, TasksOf, StartedInv
<1>2. CASE ~TimeSlicing
  BY <1>1, <1>2 DEF process_time_slicing
<1>3. CASE TimeSlicing
  <2> DEFINE p == k.priority[current]
             s == k.ready[p]
  <2>1. p \in Priority /\ s \in Seq(Task) /\ IsInjective(s)
    BY <1>1, FieldTypes DEF KernelConsistent, ListsInjective
  <2>2. ASSUME Len(s) > 1, k.state[current] \notin Runnable PROVE FALSE
    <3>1. s[1] \in Task /\ s[2] \in Task /\ s[1] # s[2] /\ Contains(s, s[1]) /\ Contains(s, s[2])
      <4>1. 1 \in 1 .. Len(s) /\ 2 \in 1 .. Len(s) /\ DOMAIN s = 1 .. Len(s)
        BY <2>1, <2>2
      <4> HIDE DEF s
      <4>2. s[1] \in Task /\ s[2] \in Task /\ s[1] # s[2]
        BY <2>1, <4>1 DEF IsInjective
      <4>3. Contains(s, s[1]) /\ Contains(s, s[2])
        BY <4>1 DEF Contains
      <4>4. QED  BY <4>2, <4>3
    <3>2. /\ k.state[s[1]] \in Runnable /\ k.priority[s[1]] = p
          /\ k.state[s[2]] \in Runnable /\ k.priority[s[2]] = p
      BY <1>1, <2>1, <3>1 DEF KernelConsistent, ReadyQueuesConsistent
    <3> HIDE DEF s
    <3>3. Prio[s[1]] = p /\ Prio[s[2]] = p /\ Prio[current] = p
      BY <1>1, <1>3, <3>1, <3>2 DEF TasksOf, Runnable
    <3>4. s[1] # current /\ s[2] # current
      BY <2>2, <3>2
    <3>5. QED  BY <1>1, <1>3, <3>1, <3>3, <3>4 DEF Disciplined
  <2>3. k.state[current] \in Runnable \/ ~(Len(k.ready[k.priority[current]]) > 1)
    BY <2>2
  <2>4. process_time_slicing = rotate(k, current)
    BY <1>1, <1>3, KernelAssumption DEF process_time_slicing
  <2>5. QED  BY <1>1, <1>3, <2>3, <2>4, RotateEffect
<1>4. QED  BY <1>2, <1>3

LEMMA SliceConsistent ==
  ASSUME Disciplined, SchedInv, is_running
  PROVE  /\ KernelConsistent(process_time_slicing)
         /\ process_time_slicing.state = k.state /\ process_time_slicing.priority = k.priority
         /\ process_time_slicing.delay = k.delay /\ process_time_slicing.fault = k.fault
         /\ ~TimeSlicing => process_time_slicing = k
BY CoreOfSched, SliceCore

LEMMA TickSliceSafe ==
  ASSUME Disciplined, SchedInv, TypeOK', TickSlice
  PROVE  SchedInv'
<1>1. /\ isr = "scan" /\ isr' = "switch" /\ k' = process_time_slicing /\ scan = <<>>
      /\ UNCHANGED <<current, is_running, lock_vars, pendsv, scan, need_reschedule, ticks, pc, wait_vars>>
  BY DEF TickSlice
<1>2. is_running
  BY <1>1 DEF SchedInv, StartedInv
<1>3. /\ KernelConsistent(k') /\ k'.state = k.state /\ k'.priority = k.priority
      /\ k'.delay = k.delay /\ k'.fault = k.fault /\ (~TimeSlicing => k' = k)
  BY <1>1, <1>2, SliceConsistent
<1>4. StartedInv' /\ TasksInv' /\ BlockedInv'
  BY <1>1, <1>2, <1>3 DEF StartedInv, TasksInv, BlockedInv, SchedInv, lock_vars
<1>5. ScanInv'
  BY <1>1, <1>3 DEF SchedInv, ScanInv, Contains
<1>6. SwitchInv'
  <2>1. CASE TimeSlicing
    BY <1>1, <2>1 DEF SwitchInv
  <2>2. CASE ~TimeSlicing
    BY <1>1, <1>2, <1>3, <2>2 DEF SwitchInv, SchedInv, lock_vars
  <2>3. QED  BY <2>1, <2>2
<1>7. QED  BY <1>3, <1>4, <1>5, <1>6 DEF SchedInv

\* After switch_context the switch that is due is pending or remembered.
LEMMA SwitchContextEffect ==
  ASSUME SchedInv, TypeOK', NEW kern, switch_context(kern),
         select_next_task(kern) # None
  PROVE  /\ \/ current = select_next_task(kern)
            \/ pendsv'
            \/ lock_nesting > 0 /\ reschedule_pending'
         /\ pendsv' => lock_nesting = 0
         /\ pendsv => pendsv'
         /\ reschedule_pending => reschedule_pending'
         /\ lock_nesting = 0 /\ current # select_next_task(kern) => pendsv'
<1>1. lock_nesting \in Nat /\ (pendsv => lock_nesting = 0)
  BY SchedulerAssumption DEF SchedInv, TypeOK, BlockedInv
<1>2. CASE lock_nesting > 0
  BY <1>1, <1>2 DEF switch_context
<1>3. CASE ~(lock_nesting > 0)
  <2>1. lock_nesting = 0
    BY <1>1, <1>3
  <2>2. pendsv' <=> (pendsv \/ select_next_task(kern) \notin {None, current})
    BY <1>3 DEF switch_context
  <2>3. reschedule_pending => reschedule_pending'
    BY <1>3 DEF switch_context
  <2>4. QED  BY <2>1, <2>2, <2>3
<1>4. QED  BY <1>2, <1>3

LEMMA TickSwitchSafe ==
  ASSUME SchedInv, TypeOK', TickSwitch
  PROVE  SchedInv'
<1>1. /\ isr = "switch" /\ isr' = "none"
      /\ UNCHANGED <<k, current, is_running, lock_nesting, scan, ticks, pc, wait_vars>>
  BY DEF TickSwitch
<1>2. is_running /\ scan = <<>>
  BY <1>1 DEF SchedInv, StartedInv, ScanInv
<1>3. /\ pendsv' => lock_nesting = 0
      /\ pendsv => pendsv'
      /\ is_running => \/ current = select_next_task(k)
                       \/ pendsv'
                       \/ pc[current] \in {"switch", "wait_switch"}
                       \/ pc[current] = "reschedule" /\ k.priority[select_next_task(k)] > k.priority[current]
                       \/ lock_nesting > 0 /\ reschedule_pending'
  <2>1. CASE need_reschedule \/ TimeSlicing
    <3>1. switch_context(k) /\ select_next_task(k) # None
      BY <2>1, SelectFacts DEF TickSwitch
    <3>2. QED  BY <3>1, SwitchContextEffect
  <2>2. CASE ~(need_reschedule \/ TimeSlicing)
    BY <1>1, <2>2 DEF TickSwitch, SchedInv, SwitchInv, BlockedInv
  <2>3. QED  BY <2>1, <2>2
<1>4. StartedInv' /\ TasksInv' /\ ScanInv'
  BY <1>1, <1>2 DEF StartedInv, TasksInv, ScanInv, SchedInv
<1>5. SwitchInv'
  BY <1>1, <1>3 DEF SwitchInv
<1>6. BlockedInv'
  BY <1>1, <1>3 DEF BlockedInv, SchedInv
<1>7. QED  BY <1>1, <1>4, <1>5, <1>6 DEF SchedInv

\* What is known while the task executes: nothing is being scanned, and a
\* task in the application is runnable.
LEMMA ExecutingFacts ==
  ASSUME SchedInv, NEW t \in Task, Executing(t)
  PROVE  /\ current = t /\ is_running /\ ~pendsv /\ isr = "none" /\ scan = <<>>
         /\ k.fault = {} /\ k.state[t] # "ABSENT" /\ TasksOf(k, t)
         /\ pc[t] \notin {"switch", "wait_switch"} => k.state[t] \in Runnable
         /\ \/ t = select_next_task(k)
            \/ pc[t] \in {"switch", "wait_switch"}
            \/ pc[t] = "reschedule" /\ k.priority[select_next_task(k)] > k.priority[t]
            \/ lock_nesting > 0 /\ reschedule_pending
<1>1. current = t /\ is_running /\ ~pendsv /\ isr = "none" /\ k.fault = {}
  BY DEF Executing
<1>2. scan = <<>> /\ k.state[t] # "ABSENT" /\ TasksOf(k, t)
  BY <1>1 DEF SchedInv, ScanInv, StartedInv, TasksInv, TasksOf
<1>3. pc[t] \notin {"switch", "wait_switch"} => k.state[t] \in Runnable
  BY <1>1 DEF SchedInv, BlockedInv
<1>4. \/ t = select_next_task(k)
      \/ pc[t] \in {"switch", "wait_switch"}
      \/ pc[t] = "reschedule" /\ k.priority[select_next_task(k)] > k.priority[t]
      \/ lock_nesting > 0 /\ reschedule_pending
  BY <1>1 DEF SchedInv, SwitchInv
<1>5. QED  BY <1>1, <1>2, <1>3, <1>4

LEMMA SwitchContextSafe ==
  ASSUME SchedInv, TypeOK', NEW t \in Task, SwitchContext(t)
  PROVE  SchedInv'
<1>1. /\ Executing(t) /\ switch_context(k)
      /\ UNCHANGED <<k, current, is_running, lock_nesting, tick_vars, wait_vars>>
  BY DEF SwitchContext
<1>2. /\ current = t /\ is_running /\ ~pendsv /\ isr = "none" /\ scan = <<>>
      /\ k.fault = {} /\ k.state[t] # "ABSENT"
  BY <1>1, ExecutingFacts
<1>3. select_next_task(k) # None /\ k.state[select_next_task(k)] \in Runnable
  BY SelectFacts
<1>4. /\ \/ current = select_next_task(k)
         \/ pendsv'
         \/ lock_nesting > 0 /\ reschedule_pending'
      /\ pendsv' => lock_nesting = 0
      /\ lock_nesting = 0 /\ current # select_next_task(k) => pendsv'
  BY <1>1, <1>3, SwitchContextEffect
<1>5. StartedInv' /\ TasksInv' /\ ScanInv'
  BY <1>1, <1>2 DEF StartedInv, TasksInv, ScanInv, SchedInv, tick_vars
<1>6. SwitchInv'
  BY <1>1, <1>4 DEF SwitchInv
<1>7. BlockedInv'
  BY <1>1, <1>2, <1>3, <1>4 DEF BlockedInv, SchedInv
<1>8. QED  BY <1>1, <1>5, <1>6, <1>7 DEF SchedInv

LEMMA RescheduleSafe ==
  ASSUME SchedInv, TypeOK', NEW t \in Task, Reschedule(t)
  PROVE  SchedInv'
<1>1. /\ Executing(t) /\ pc[t] = "reschedule"
      /\ UNCHANGED <<k, current, is_running, lock_vars, pendsv, tick_vars, wait_vars>>
  BY DEF Reschedule
<1>2. /\ current = t /\ is_running /\ ~pendsv /\ isr = "none" /\ scan = <<>>
      /\ k.fault = {} /\ k.state[t] # "ABSENT" /\ k.state[t] \in Runnable
      /\ \/ t = select_next_task(k)
         \/ pc[t] = "reschedule" /\ k.priority[select_next_task(k)] > k.priority[t]
         \/ lock_nesting > 0 /\ reschedule_pending
  BY <1>1, ExecutingFacts
<1>3. k.priority[select_next_task(k)] > k.priority[t] => pc'[t] = "switch"
  <2>1. select_next_task(k) # None /\ pc \in [Task -> TaskPc]
    BY SelectFacts DEF SchedInv, TypeOK
  <2>2. QED  BY <1>2, <2>1 DEF Reschedule, Goto
<1>4. StartedInv' /\ TasksInv' /\ ScanInv'
  BY <1>1, <1>2 DEF StartedInv, TasksInv, ScanInv, SchedInv, tick_vars, lock_vars
<1>5. SwitchInv'
  BY <1>1, <1>2, <1>3 DEF SwitchInv, lock_vars
<1>6. BlockedInv'
  BY <1>1, <1>2 DEF BlockedInv, lock_vars
<1>7. QED  BY <1>1, <1>4, <1>5, <1>6 DEF SchedInv

LEMMA YieldSafe ==
  ASSUME Disciplined, SchedInv, TypeOK', NEW t \in Task, Yield(t)
  PROVE  SchedInv'
<1>1. /\ Executing(t) /\ pc[t] = "user" /\ k' = process_time_slicing
      /\ pc' = [pc EXCEPT ![t] = "switch"]
      /\ UNCHANGED <<current, is_running, lock_vars, pendsv, tick_vars, wait_vars>>
  BY DEF Yield, InUser, AtUser, Goto
<1>2. /\ current = t /\ is_running /\ ~pendsv /\ isr = "none" /\ scan = <<>>
      /\ k.state[t] # "ABSENT" /\ k.state[t] \in Runnable
  BY <1>1, ExecutingFacts
<1>3. /\ KernelConsistent(k') /\ k'.state = k.state /\ k'.priority = k.priority
      /\ k'.delay = k.delay /\ k'.fault = k.fault
  BY <1>1, <1>2, SliceConsistent
<1>4. pc'[t] = "switch"
  BY <1>1 DEF SchedInv, TypeOK
<1>5. StartedInv' /\ TasksInv' /\ ScanInv'
  BY <1>1, <1>2, <1>3 DEF StartedInv, TasksInv, ScanInv, SchedInv, tick_vars, Contains
<1>6. SwitchInv' /\ BlockedInv'
  BY <1>1, <1>2, <1>3, <1>4 DEF SwitchInv, BlockedInv, lock_vars
<1>7. QED  BY <1>3, <1>5, <1>6 DEF SchedInv

\* A task that made another one ready and goes on to reschedule.
LEMMA ReadyThenReschedule ==
  ASSUME SchedInv, TypeOK', NEW t \in Task, NEW u \in Task, NEW p \in Priority,
         Executing(t), pc[t] \in {"user", "wait_return"}, pc' = [pc EXCEPT ![t] = "reschedule"],
         k.state[u] \notin Runnable, MadeReady(k, k', u, p), TimeSlicing => p = Prio[u],
         UNCHANGED <<current, is_running, lock_vars, pendsv, tick_vars>>
  PROVE  SchedInv'
<1>1. /\ current = t /\ is_running /\ ~pendsv /\ isr = "none" /\ scan = <<>> /\ k.fault = {}
      /\ k.state[t] # "ABSENT" /\ k.state[t] \in Runnable /\ TasksOf(k, t)
      /\ t = select_next_task(k) \/ (lock_nesting > 0 /\ reschedule_pending)
  BY ExecutingFacts
<1>2. k \in Kernel /\ k' \in Kernel /\ KernelConsistent(k)
  BY DEF SchedInv, TypeOK
<1>3. /\ KernelConsistent(k') /\ TasksOf(k', t) /\ k'.fault = k.fault
      /\ \A v \in Task : k'.state[v] = IF v = u THEN "READY" ELSE k.state[v]
      /\ \A v \in Task : k'.priority[v] = IF v = u THEN p ELSE k.priority[v]
  BY <1>1, <1>2, ReadyTasks
<1>4. pc'[t] = "reschedule" /\ t # u
  BY <1>1 DEF SchedInv, TypeOK
<1>5. /\ select_next_task(k') = IF p > k.priority[select_next_task(k)]
                                THEN u ELSE select_next_task(k)
  BY <1>1, <1>2, SelectAfterReady
<1>6. StartedInv' /\ TasksInv' /\ ScanInv'
  BY <1>1, <1>3, <1>4 DEF StartedInv, TasksInv, TasksOf, ScanInv, tick_vars, IsInjective, Contains
<1>7. SwitchInv'
  BY <1>1, <1>3, <1>4, <1>5 DEF SwitchInv, lock_vars
<1>8. BlockedInv'
  BY <1>1, <1>3, <1>4 DEF BlockedInv, Runnable
<1>9. QED  BY <1>1, <1>3, <1>6, <1>7, <1>8 DEF SchedInv

LEMMA CreateSafe ==
  ASSUME SchedInv, TypeOK', NEW t \in Task, NEW u \in Task, Create(t, u)
  PROVE  SchedInv'
<1>1. /\ Executing(t) /\ pc[t] = "user" /\ pc' = [pc EXCEPT ![t] = "reschedule"]
      /\ k.state[u] = "ABSENT" /\ k' = create_static(k, u, Prio[u])
      /\ UNCHANGED <<current, is_running, lock_vars, pendsv, tick_vars>>
  BY DEF Create, InUser, AtUser, Goto
<1>2. k \in Kernel /\ KernelConsistent(k) /\ Prio[u] \in Priority
  BY ConstantTypes DEF SchedInv, TypeOK
<1>3. MadeReady(k, k', u, Prio[u])
  BY <1>1, <1>2, CreateEffect
<1>4. k.state[u] \notin Runnable
  BY <1>1 DEF Runnable
<1>5. QED  BY <1>1, <1>2, <1>3, <1>4, ReadyThenReschedule

\* unblock_highest makes a blocked task ready with the priority it has.
LEMMA SignalEffect ==
  ASSUME SchedInv, NEW w \in WaitList, k.waiters[w] # <<>>, k' = unblock_highest(k, w)
  PROVE  /\ highest_waiter(k, w) \in Task
         /\ k.state[highest_waiter(k, w)] = "BLOCKED"
         /\ k.state[highest_waiter(k, w)] \notin Runnable
         /\ k.priority[highest_waiter(k, w)] \in Priority
         /\ TimeSlicing => k.priority[highest_waiter(k, w)] = Prio[highest_waiter(k, w)]
         /\ MadeReady(k, k', highest_waiter(k, w), k.priority[highest_waiter(k, w)])
<1> DEFINE u == Head(k.waiters[w])
<1>1. k \in Kernel /\ KernelConsistent(k)
  BY DEF SchedInv, TypeOK
<1>2. u \in Task /\ k.state[u] = "BLOCKED" /\ MadeReady(k, k', u, k.priority[u])
  BY <1>1, UnblockEffect
<1>3. highest_waiter(k, w) = u
  BY DEF highest_waiter
<1> HIDE DEF u
<1>4. k.priority[u] \in Priority /\ (TimeSlicing => k.priority[u] = Prio[u])
  BY <1>1, <1>2, FieldTypes DEF SchedInv, TasksInv
<1>5. QED  BY <1>2, <1>3, <1>4 DEF Runnable

LEMMA SignalSafe ==
  ASSUME SchedInv, TypeOK', NEW t \in Task, NEW w \in WaitList, Signal(t, w)
  PROVE  SchedInv'
<1>1. /\ Executing(t) /\ pc[t] = "user" /\ pc' = [pc EXCEPT ![t] = "reschedule"]
      /\ k.waiters[w] # <<>> /\ k' = unblock_highest(k, w)
      /\ UNCHANGED <<current, is_running, lock_vars, pendsv, tick_vars>>
  BY DEF Signal, InUser, AtUser, Goto
<1>2. PICK u \in Task, p \in Priority : /\ k.state[u] \notin Runnable /\ MadeReady(k, k', u, p)
                                        /\ TimeSlicing => p = Prio[u]
  BY <1>1, SignalEffect
<1>3. QED  BY <1>1, <1>2, ReadyThenReschedule

\* The executing task woke the tasks of C and goes on to reschedule.
LEMMA WokenThenReschedule ==
  ASSUME SchedInv, TypeOK', NEW t \in Task, NEW C \in SUBSET Task,
         Executing(t), pc[t] = "user", pc' = [pc EXCEPT ![t] = "reschedule"],
         KernelConsistent(k'), k'.fault = k.fault, k'.priority = k.priority,
         \A u \in C : k.state[u] = "BLOCKED",
         \A u \in Task : k'.state[u] = IF u \in C THEN "READY" ELSE k.state[u],
         \/ select_next_task(k') = select_next_task(k)
         \/ k.priority[select_next_task(k')] > k.priority[select_next_task(k)],
         UNCHANGED <<current, is_running, lock_vars, pendsv, tick_vars>>
  PROVE  SchedInv'
<1>1. /\ current = t /\ is_running /\ ~pendsv /\ isr = "none" /\ scan = <<>> /\ k.fault = {}
      /\ k.state[t] # "ABSENT" /\ k.state[t] \in Runnable /\ TasksOf(k, t)
      /\ t = select_next_task(k) \/ (lock_nesting > 0 /\ reschedule_pending)
  BY ExecutingFacts
<1>2. TasksOf(k', t) /\ k'.state[t] \in Runnable
  BY <1>1, KernelAssumption DEF TasksOf, Runnable
<1>3. pc'[t] = "reschedule"
  BY DEF SchedInv, TypeOK
<1>4. StartedInv' /\ TasksInv' /\ ScanInv'
  BY <1>1, <1>2 DEF StartedInv, TasksInv, TasksOf, ScanInv, tick_vars, IsInjective, Contains, Runnable
<1>5. SwitchInv'
  BY <1>1, <1>3 DEF SwitchInv, lock_vars
<1>6. BlockedInv'
  BY <1>1, <1>2 DEF BlockedInv
<1>7. QED  BY <1>1, <1>4, <1>5, <1>6 DEF SchedInv

\* An interrupt handler woke the first waiter of a list, and asked for a switch
\* when it was told that a higher priority woke.
LEMMA IsrWakeSafe ==
  ASSUME SchedInv, TypeOK', NEW w \in WaitList, k.waiters[w] # <<>>,
         is_running, isr \in {"none", "switch"}, k' = unblock_highest(k, w),
         IF k.priority[highest_waiter(k, w)] > k.priority[current]
         THEN switch_context(unblock_highest(k, w))
         ELSE UNCHANGED <<reschedule_pending, pendsv>>,
         UNCHANGED <<current, is_running, lock_nesting, tick_vars, pc, timeout>>
  PROVE  SchedInv'
<1> DEFINE u == highest_waiter(k, w)
<1>1. /\ is_running /\ isr \in {"none", "switch"} /\ k' = unblock_highest(k, w)
      /\ UNCHANGED <<current, is_running, lock_nesting, tick_vars, pc, timeout>>
  OBVIOUS
<1>2. k.waiters[w] # <<>>
  OBVIOUS
<1>3. /\ u \in Task /\ k.state[u] = "BLOCKED" /\ k.state[u] \notin Runnable
      /\ (TimeSlicing => k.priority[u] = Prio[u]) /\ MadeReady(k, k', u, k.priority[u])
  BY <1>1, <1>2, SignalEffect
<1>4. /\ k \in Kernel /\ k' \in Kernel /\ KernelConsistent(k) /\ k.priority[u] \in Priority
      /\ TasksOf(k, current) /\ current \in Task /\ k.state[current] # "ABSENT" /\ k.fault = {}
      /\ scan = <<>> /\ k.state[Idle] \in Runnable /\ Idle \in Task
  BY <1>1, <1>3, FieldTypes, KernelAssumption
  DEF SchedInv, TypeOK, TasksInv, TasksOf, StartedInv, ScanInv
<1>5. k.priority[u] > k.priority[current] =>
        switch_context(unblock_highest(k, w))
  OBVIOUS
<1>6. ~(k.priority[u] > k.priority[current]) => UNCHANGED <<reschedule_pending, pendsv>>
  OBVIOUS
<1> HIDE DEF u
<1>7. /\ KernelConsistent(k') /\ TasksOf(k', current) /\ k'.fault = k.fault
      /\ \A v \in Task : k.state[v] \in Runnable => k'.state[v] \in Runnable
      /\ \A v \in Task : k'.state[v] = IF v = u THEN "READY" ELSE k.state[v]
      /\ \A v \in Task : k'.priority[v] = IF v = u THEN k.priority[u] ELSE k.priority[v]
  BY <1>3, <1>4, ReadyTasks
<1>8. \A v \in Task : k'.priority[v] = k.priority[v]
  BY <1>3, <1>7
<1>9. select_next_task(k') = IF k.priority[u] > k.priority[select_next_task(k)]
                             THEN u ELSE select_next_task(k)
  BY <1>3, <1>4, SelectAfterReady
<1>10. /\ select_next_task(k) \in Task /\ k.priority[select_next_task(k)] \in Nat
       /\ \A v \in Task : k.priority[v] \in Nat
       /\ select_next_task(k') # None
  BY <1>3, <1>9, SelectFacts, KernelAssumption
<1>11. /\ pendsv' => lock_nesting = 0
       /\ pendsv => pendsv'
       /\ SwitchInv'
  <2>1. CASE k.priority[u] > k.priority[current]
    <3>1. switch_context(k')
      BY <1>1, <1>5, <2>1
    <3>2. /\ \/ current = select_next_task(k')
             \/ pendsv'
             \/ lock_nesting > 0 /\ reschedule_pending'
          /\ pendsv' => lock_nesting = 0
          /\ pendsv => pendsv'
      BY <1>10, <3>1, SwitchContextEffect
    <3>3. QED  BY <1>1, <3>2 DEF SwitchInv
  <2>2. CASE ~(k.priority[u] > k.priority[current])
    <3>1. UNCHANGED <<reschedule_pending, pendsv>>
      BY <1>6, <2>2
    <3>2. current = select_next_task(k) => current = select_next_task(k')
      BY <1>3, <1>9, <2>2
    <3>3. k.priority[select_next_task(k)] > k.priority[current] =>
            k'.priority[select_next_task(k')] > k'.priority[current]
      BY <1>3, <1>4, <1>8, <1>9, <1>10, <2>2
    <3>4. SwitchInv'
      BY <1>1, <3>1, <3>2, <3>3 DEF SwitchInv, SchedInv, tick_vars
    <3>5. QED  BY <3>1, <3>4 DEF SchedInv, BlockedInv
  <2>3. QED  BY <2>1, <2>2
<1>12. StartedInv' /\ TasksInv' /\ ScanInv'
  BY <1>1, <1>4, <1>7 DEF StartedInv, TasksInv, TasksOf, ScanInv, tick_vars, IsInjective, Contains
<1>13. BlockedInv'
  BY <1>1, <1>4, <1>7, <1>11 DEF BlockedInv, SchedInv
<1>14. QED  BY <1>4, <1>7, <1>11, <1>12, <1>13 DEF SchedInv

LEMMA IsrSignalSafe ==
  ASSUME SchedInv, TypeOK', NEW w \in WaitList, IsrSignal(w)
  PROVE  SchedInv'
<1>1. k.waiters[w] # <<>>
  BY DEF IsrSignal, highest_waiter
<1>2. QED  BY <1>1, IsrWakeSafe DEF IsrSignal, Interruptible

\* The executing task was blocked and goes on to give up the CPU.
LEMMA BlockThenSwitch ==
  ASSUME Disciplined, SchedInv, TypeOK', NEW t \in Task, NEW w \in WaitList \cup {None},
         NEW n \in 0 .. MaxDelay, n > 0 \/ w # None, NEW l \in {"switch", "wait_switch"},
         Executing(t), pc[t] = "user", t # Idle, MayBlock, pc' = [pc EXCEPT ![t] = l],
         MadeBlocked(k, k', t, w, n),
         UNCHANGED <<current, is_running, lock_vars, pendsv, tick_vars>>
  PROVE  SchedInv'
<1>1. /\ current = t /\ is_running /\ ~pendsv /\ isr = "none" /\ scan = <<>> /\ k.fault = {}
      /\ k.state[t] # "ABSENT" /\ k.state[t] \in Runnable /\ TasksOf(k, t)
  BY ExecutingFacts
<1>2. k \in Kernel /\ k' \in Kernel /\ KernelConsistent(k)
  BY DEF SchedInv, TypeOK
<1>3. KernelConsistent(k') /\ TasksOf(k', t) /\ k'.fault = k.fault /\ k'.state[t] = "BLOCKED"
  BY <1>1, <1>2, BlockedTasks
<1>4. pc'[t] = l /\ lock_nesting = 0
  BY <1>1 DEF SchedInv, TypeOK, MayBlock, Disciplined
<1>5. StartedInv' /\ TasksInv' /\ ScanInv'
  BY <1>1, <1>3 DEF StartedInv, TasksInv, TasksOf, ScanInv, tick_vars, IsInjective, Contains
<1>6. SwitchInv' /\ BlockedInv'
  BY <1>1, <1>4 DEF SwitchInv, BlockedInv, lock_vars
<1>7. QED  BY <1>1, <1>3, <1>5, <1>6 DEF SchedInv

LEMMA DelaySafe ==
  ASSUME Disciplined, SchedInv, TypeOK', NEW t \in Task, NEW n \in 1 .. MaxDelay, Delay(t, n)
  PROVE  SchedInv'
<1>1. /\ Executing(t) /\ pc[t] = "user" /\ t # Idle /\ MayBlock
      /\ pc' = [pc EXCEPT ![t] = "switch"] /\ k' = block_on_delay(k, t, n)
      /\ UNCHANGED <<current, is_running, lock_vars, pendsv, tick_vars>>
  BY DEF Delay, InUser, AtUser, Goto
<1>2. k \in Kernel /\ KernelConsistent(k) /\ k.state[t] \in Runnable
  BY <1>1, ExecutingFacts DEF SchedInv, TypeOK
<1>3. MadeBlocked(k, k', t, None, n)
  BY <1>1, <1>2, BlockOnDelayEffect
<1>4. n \in 0 .. MaxDelay /\ n > 0 /\ None \in WaitList \cup {None}
  BY KernelAssumption
<1>5. QED  BY <1>1, <1>3, <1>4, BlockThenSwitch

\* The executing task blocked on a wait list.
LEMMA WaitListBlockSafe ==
  ASSUME Disciplined, SchedInv, TypeOK',
         NEW t \in Task, NEW w \in WaitList, NEW n \in 1 .. Forever,
         Executing(t), pc[t] = "user", t # Idle, MayBlock, WaitListBlock(t, w, n),
         UNCHANGED <<current, is_running, lock_vars, pendsv, tick_vars>>
  PROVE  SchedInv'
<1> DEFINE c == IF n = Forever THEN 0 ELSE n
<1>1. /\ Executing(t) /\ pc[t] = "user" /\ t # Idle /\ MayBlock
      /\ pc' = [pc EXCEPT ![t] = "wait_switch"] /\ k' = block_on_wait_list(k, t, w, n)
      /\ UNCHANGED <<current, is_running, lock_vars, pendsv, tick_vars>>
  BY DEF WaitListBlock, Goto
<1>2. k \in Kernel /\ KernelConsistent(k) /\ k.state[t] \in Runnable
  BY <1>1, ExecutingFacts DEF SchedInv, TypeOK
<1>3. MadeBlocked(k, k', t, w, c)
  BY <1>1, <1>2, BlockOnWaitListEffect
<1>4. c \in 0 .. MaxDelay /\ w # None /\ w \in WaitList \cup {None}
  BY KernelAssumption, PriorityType DEF Forever
<1> HIDE DEF c
<1>5. QED  BY <1>1, <1>3, <1>4, BlockThenSwitch

LEMMA WaitSafe ==
  ASSUME Disciplined, SchedInv, TypeOK',
         NEW t \in Task, NEW w \in WaitList, NEW n \in 1 .. Forever, Wait(t, w, n)
  PROVE  SchedInv'
BY WaitListBlockSafe DEF Wait, InUser, AtUser

LEMMA LockSafe ==
  ASSUME SchedInv, TypeOK', NEW t \in Task, Lock(t)
  PROVE  SchedInv'
<1>1. /\ Executing(t) /\ pc[t] = "user" /\ lock_nesting' = lock_nesting + 1
      /\ UNCHANGED <<k, current, is_running, reschedule_pending, pendsv, tick_vars, pc, wait_vars>>
  BY DEF Lock, InUser, AtUser
<1>2. /\ current = t /\ is_running /\ ~pendsv /\ isr = "none" /\ scan = <<>>
      /\ k.state[t] # "ABSENT" /\ k.state[t] \in Runnable
      /\ t = select_next_task(k) \/ (lock_nesting > 0 /\ reschedule_pending)
  BY <1>1, ExecutingFacts
<1>3. lock_nesting \in Nat
  BY SchedulerAssumption DEF SchedInv, TypeOK
<1>4. StartedInv' /\ TasksInv' /\ ScanInv'
  BY <1>1, <1>2 DEF StartedInv, TasksInv, ScanInv, SchedInv, tick_vars
<1>5. SwitchInv' /\ BlockedInv'
  BY <1>1, <1>2, <1>3 DEF SwitchInv, BlockedInv
<1>6. QED  BY <1>1, <1>4, <1>5 DEF SchedInv

LEMMA UnlockSafe ==
  ASSUME SchedInv, TypeOK', NEW t \in Task, Unlock(t)
  PROVE  SchedInv'
<1>1. /\ Executing(t) /\ pc[t] = "user" /\ lock_nesting > 0 /\ lock_nesting' = lock_nesting - 1
      /\ UNCHANGED <<k, current, is_running, pendsv, tick_vars, wait_vars>>
  BY DEF Unlock, InUser, AtUser
<1>2. /\ current = t /\ is_running /\ ~pendsv /\ isr = "none" /\ scan = <<>>
      /\ k.state[t] # "ABSENT" /\ k.state[t] \in Runnable
      /\ t = select_next_task(k) \/ (lock_nesting > 0 /\ reschedule_pending)
  BY <1>1, ExecutingFacts
<1>3. lock_nesting \in Nat
  BY SchedulerAssumption DEF SchedInv, TypeOK
<1>4. StartedInv' /\ TasksInv' /\ ScanInv'
  BY <1>1, <1>2 DEF StartedInv, TasksInv, ScanInv, SchedInv, tick_vars
<1>5. SwitchInv'
  <2>1. CASE lock_nesting = 1 /\ reschedule_pending
    <3>1. pc' = [pc EXCEPT ![t] = "switch"]
      BY <2>1 DEF Unlock, Goto
    <3>2. pc'[current'] = "switch"
      BY <1>1, <1>2, <3>1 DEF SchedInv, TypeOK
    <3>3. QED  BY <3>2 DEF SwitchInv
  <2>2. CASE ~(lock_nesting = 1 /\ reschedule_pending)
    <3>1. UNCHANGED <<reschedule_pending, pc>>
      BY <2>2 DEF Unlock
    <3>2. QED  BY <1>1, <1>2, <1>3, <2>2, <3>1 DEF SwitchInv
  <2>3. QED  BY <2>1, <2>2
<1>6. BlockedInv'
  BY <1>1, <1>2 DEF BlockedInv
<1>7. QED  BY <1>1, <1>4, <1>5, <1>6 DEF SchedInv

\* A service of the executing task ends without having woken anybody.
LEMMA BackToUser ==
  ASSUME SchedInv, TypeOK', NEW t \in Task, Executing(t), pc[t] \in {"user", "wait_return"},
         pc' = [pc EXCEPT ![t] = "user"],
         UNCHANGED <<k, current, is_running, lock_vars, pendsv, tick_vars>>
  PROVE  SchedInv'
<1>1. /\ current = t /\ is_running /\ ~pendsv /\ isr = "none" /\ scan = <<>>
      /\ k.state[t] # "ABSENT" /\ k.state[t] \in Runnable
      /\ t = select_next_task(k) \/ (lock_nesting > 0 /\ reschedule_pending)
  BY ExecutingFacts
<1>2. StartedInv' /\ TasksInv' /\ ScanInv'
  BY <1>1 DEF StartedInv, TasksInv, ScanInv, SchedInv, tick_vars
<1>3. SwitchInv' /\ BlockedInv'
  BY <1>1 DEF SwitchInv, BlockedInv, lock_vars
<1>4. QED  BY <1>1, <1>2, <1>3 DEF SchedInv

LEMMA WaitReturnSafe ==
  ASSUME SchedInv, TypeOK', NEW t \in Task, WaitReturn(t)
  PROVE  SchedInv'
BY BackToUser DEF WaitReturn, Goto

LEMMA StopSafe ==
  ASSUME SchedInv, TypeOK', NEW t \in Task, Stop(t)
  PROVE  SchedInv'
<1>1. /\ Executing(t) /\ k' = InitKernel /\ current' = None /\ is_running' = FALSE
      /\ lock_nesting' = 0 /\ reschedule_pending' = FALSE /\ scan' = <<>>
      /\ pc' = [u \in Task |-> "user"] /\ UNCHANGED <<pendsv, isr>>
  BY DEF Stop, InUser, AtUser
<1>2. ~pendsv /\ isr = "none"
  BY <1>1, ExecutingFacts
<1>3. k'.fault = {} /\ KernelConsistent(k')
  BY <1>1, InitKernelEffect
<1>4. ~pendsv' /\ isr' = "none" /\ ~is_running' /\ ~reschedule_pending'
  BY <1>1, <1>2
<1>5. StartedInv'
  BY <1>1, <1>4 DEF StartedInv
<1>6. TasksInv'
  <2>1. k'.state[Idle] = "READY" /\ k'.priority[Idle] = Prio[Idle]
    BY <1>1, InitKernelEffect, KernelAssumption, SchedulerAssumption
  <2>2. \A u \in Task : k'.state[u] = IF u = Idle THEN "READY" ELSE "ABSENT"
    BY <1>1, InitKernelEffect
  <2>3. QED  BY <2>1, <2>2 DEF TasksInv, Runnable
<1>7. ScanInv'
  BY <1>1 DEF ScanInv, IsInjective, Contains
<1>8. SwitchInv' /\ BlockedInv'
  BY <1>4 DEF SwitchInv, BlockedInv
<1>9. QED  BY <1>3, <1>5, <1>6, <1>7, <1>8 DEF SchedInv

\* SchedInv is inductive.
LEMMA NextSafe ==
  ASSUME Disciplined, SchedInv, [Next]_vars
  PROVE  SchedInv'
<1>1. TypeOK'
  BY NextType DEF SchedInv
<1>2. CASE UNCHANGED vars
  BY <1>1, <1>2 DEF SchedInv, vars, lock_vars, tick_vars, wait_vars, StartedInv, TasksInv,
                    ScanInv, SwitchInv, BlockedInv
<1>3. CASE Next
  BY <1>1, <1>3, CreateFromMainSafe, StartSafe, PendSVSafe, TickEnterSafe, TickScanSafe,
     TickSliceSafe, TickSwitchSafe, CreateSafe, StopSafe, SwitchContextSafe, RescheduleSafe,
     YieldSafe, DelaySafe, LockSafe, UnlockSafe, IsrSignalSafe, WaitReturnSafe, SignalSafe,
     WaitSafe
  DEF Next, SystemStep, KernelStep, CallStep
<1>4. QED  BY <1>2, <1>3

-----------------------------------------------------------------------------
(* What a step does to the waits of tasks, for the modules of the services: *)
(* they keep their own record of a call that waits, and tie it to these.    *)

\* Task t is inside wait_list_block.
InWait(t) == pc[t] \in {"wait_switch", "wait_return"}

\* The step neither blocks t nor takes it off a wait list.
SameBlock(t) ==
    /\ k'.wait_list[t] = k.wait_list[t]
    /\ k.state[t] \in Runnable => k'.state[t] \in Runnable
    /\ k'.state[t] = "BLOCKED" => k.state[t] = "BLOCKED"

\* The step leaves the wait of t, if any, as it is.
Undisturbed(t) ==
    /\ SameBlock(t)
    /\ woken'[t] = woken[t]
    /\ InWait(t)' <=> InWait(t)
    /\ pc'[t] = "user" <=> pc[t] = "user"
    /\ t = current' /\ lock_nesting' # 0 => t = current /\ lock_nesting # 0

\* The step takes t into no wait; it may take t elsewhere.
Outside(t) ==
    /\ k'.wait_list[t] = k.wait_list[t]
    /\ InWait(t)' => InWait(t)

\* The tick handler ends the wait of t.
Expires(t) ==
    /\ k.state[t] = "BLOCKED" /\ k'.state[t] = "READY"
    /\ k.wait_list[t] # None /\ k'.wait_list[t] = None
    /\ woken'[t] = "timeout"
    /\ pc'[t] = pc[t]

\* No wait begins or ends, except for tasks that are delayed or on their way
\* out of a service that does not wait.
WaitsKept ==
    \A t \in Task : \/ Undisturbed(t)
                    \/ Outside(t) /\ pc[t] # "user" /\ ~InWait(t)
                    \/ Outside(t) /\ k.state[t] = "BLOCKED" /\ k.wait_list[t] = None

LEMMA NoWaitList ==
  ASSUME SchedInv, NEW t \in Task, k.state[t] # "BLOCKED"
  PROVE  k.wait_list[t] = None
BY DEF SchedInv, KernelConsistent, WaitListsConsistent

\* A step that changes no control block's wait.
LEMMA SameWaits ==
  ASSUME \A t \in Task : SameBlock(t), woken' = woken, pc' = pc,
         lock_nesting' = 0 \/ (lock_nesting' = lock_nesting /\ current' = current)
  PROVE  \A t \in Task : Undisturbed(t)
BY DEF Undisturbed, InWait

\* Only the current task changes place in the kernel, and is in no wait.
LEMMA CallerWaits ==
  ASSUME SchedInv, NEW t \in Task, k.state[t] \in Runnable,
         k'.wait_list[t] = k.wait_list[t], \A u \in Task \ {t} : SameBlock(u),
         NEW l \in {"user", "switch", "reschedule"}, pc' = [pc EXCEPT ![t] = l],
         ~InWait(t), woken' = woken, current' = current,
         lock_nesting' = lock_nesting \/ t = current
  PROVE  Outside(t) /\ \A u \in Task \ {t} : Undisturbed(u)
<1>1. pc \in [Task -> TaskPc]
  BY DEF SchedInv, TypeOK
<1>2. QED  BY <1>1 DEF Outside, Undisturbed, InWait

\* A task that was created waits for nothing.
LEMMA CreateWaits ==
  ASSUME SchedInv, NEW u \in Task, k.state[u] = "ABSENT", k' = create_static(k, u, Prio[u])
  PROVE  \A t \in Task : SameBlock(t)
<1>1. k \in Kernel /\ KernelConsistent(k) /\ Prio[u] \in Priority
  BY ConstantTypes DEF SchedInv, TypeOK
<1>2. MadeReady(k, k', u, Prio[u])
  BY <1>1, CreateEffect
<1>3. k.wait_list[u] = None
  BY NoWaitList
<1>4. k.state \in [Task -> TaskState] /\ k.wait_list \in [Task -> WaitList \cup {None}]
  BY <1>1, FieldTypes
<1>5. QED  BY <1>2, <1>3, <1>4 DEF SameBlock, MadeReady, Runnable

LEMMA SliceWaits ==
  ASSUME SchedInv, k' = process_time_slicing
  PROVE  \A t \in Task : SameBlock(t)
<1>1. k \in Kernel
  BY DEF SchedInv, TypeOK
<1>2. k'.wait_list = k.wait_list /\ k'.state = k.state
  BY <1>1 DEF process_time_slicing, rotate, Unlinked, Kernel
<1>3. QED  BY <1>2 DEF SameBlock

LEMMA SwitchWaits ==
  ASSUME SchedInv, k' = perform_switch(k, current, select_next_task(k))
  PROVE  \A t \in Task : SameBlock(t)
<1> DEFINE next == select_next_task(k)
<1>1. k \in Kernel /\ KernelConsistent(k) /\ next \in Task /\ k.state[next] \in Runnable
  BY SelectFacts
<1>2. k'.wait_list = k.wait_list
  BY <1>1 DEF perform_switch, Kernel
<1>3. \A t \in Task : k'.state[t] = IF t = next THEN "RUNNING"
                                    ELSE IF t = current /\ k.state[t] = "RUNNING" THEN "READY"
                                    ELSE k.state[t]
  BY <1>1, PerformSwitchEffect
<1> HIDE DEF next
<1>4. QED  BY <1>1, <1>2, <1>3 DEF SameBlock, Runnable

\* The tick handler looks at a delayed task: it counts, or its delay is over,
\* or its wait is.
LEMMA TickScanWaits ==
  ASSUME SchedInv, TickScan
  PROVE  WaitsKept \/ \E t \in Task : Expires(t) /\ \A u \in Task \ {t} : Undisturbed(u)
<1>a. Head(scan) \in Task
  BY HeadElement DEF SchedInv, TypeOK, TickScan
<1> SUFFICES ASSUME NEW t \in Task, t = Head(scan)
             PROVE  WaitsKept \/ (Expires(t) /\ \A u \in Task \ {t} : Undisturbed(u))
  BY <1>a
<1>1. /\ isr = "scan" /\ scan # <<>> /\ k' = delayed_task_tick(k, t)
      /\ UNCHANGED <<current, lock_nesting, pc>>
  BY DEF TickScan, lock_vars
<1>2. /\ k \in Kernel /\ scan \in Seq(Task) /\ KernelConsistent(k)
      /\ \A u \in Task : Contains(scan, u) => Contains(k.delay, u)
      /\ woken \in [Task -> {"no", "event", "timeout", "deleted"}]
  BY DEF SchedInv, TypeOK, ScanInv
<1>3. Contains(k.delay, t)
  BY <1>1, <1>2, HeadElement
<1>4. k.state[t] = "BLOCKED"
  BY <1>2, <1>3 DEF KernelConsistent, DelayListConsistent
<1>5. CASE k.delay_ticks[t] > 1
  <2>1. k' = [k EXCEPT !.delay_ticks[t] = @ - 1]
    BY <1>1, <1>2, <1>3, <1>5, CountdownConsistent
  <2>2. k'.wait_list = k.wait_list /\ k'.state = k.state
    BY <1>2, <2>1 DEF Kernel
  <2>3. UNCHANGED woken
    BY <1>5 DEF TickScan
  <2>4. \A u \in Task : SameBlock(u)
    BY <2>2 DEF SameBlock
  <2>5. QED  BY <1>1, <2>3, <2>4, SameWaits DEF WaitsKept
<1>6. CASE ~(k.delay_ticks[t] > 1)
  <2>1. MadeReady(k, k', t, k.priority[t])
    BY <1>1, <1>2, <1>3, <1>6, ExpireEffect, FieldTypes
  <2>2. woken' = [woken EXCEPT ![t] = "timeout"]
    BY <1>6 DEF TickScan
  <2>3. k.state \in [Task -> TaskState] /\ k.wait_list \in [Task -> WaitList \cup {None}]
    BY <1>2, FieldTypes
  <2>4. \A u \in Task : /\ k'.state[u] = IF u = t THEN "READY" ELSE k.state[u]
                        /\ k'.wait_list[u] = IF u = t THEN None ELSE k.wait_list[u]
                        /\ woken'[u] = IF u = t THEN "timeout" ELSE woken[u]
    BY <1>2, <2>1, <2>2, <2>3 DEF MadeReady
  <2>5. \A u \in Task \ {t} : Undisturbed(u)
    BY <1>1, <2>4 DEF Undisturbed, SameBlock, InWait
  <2>6. CASE k.wait_list[t] = None
    BY <1>1, <1>4, <2>4, <2>5, <2>6 DEF WaitsKept, Outside, InWait
  <2>7. CASE k.wait_list[t] # None
    BY <1>1, <1>4, <2>4, <2>5, <2>7 DEF Expires
  <2>8. QED  BY <2>6, <2>7
<1>7. QED  BY <1>5, <1>6

\* The hardware, main, the tick handler, and the rest of a service.
LEMMA SystemWaits ==
  ASSUME Disciplined, SchedInv, SystemStep \/ \E t \in Task : KernelStep(t)
  PROVE  /\ SchedInv'
         /\ \/ WaitsKept
            \/ \E t \in Task : Expires(t) /\ \A u \in Task \ {t} : Undisturbed(u)
<1>1. SchedInv'
  BY NextSafe DEF Next
<1>2. pc \in [Task -> TaskPc]
  BY DEF SchedInv, TypeOK
<1>a. UNCHANGED k => \A t \in Task : SameBlock(t)
  BY DEF SameBlock
<1>b. (\A t \in Task : Undisturbed(t)) => WaitsKept
  BY DEF WaitsKept
<1>3. ASSUME NEW u \in Task, CreateFromMain(u) PROVE WaitsKept
  <2>1. \A t \in Task : SameBlock(t)
    BY <1>3, CreateWaits DEF CreateFromMain
  <2>2. QED  BY <1>b, <1>3, <2>1, SameWaits DEF CreateFromMain, lock_vars, wait_vars
<1>4. CASE Start
  <2>1. lock_nesting' = 0
    BY <1>4 DEF Start, SchedInv, StartedInv, lock_vars
  <2>2. \A t \in Task : SameBlock(t)
    BY <1>4, SwitchWaits DEF Start
  <2>3. QED  BY <1>1, <1>b, <1>4, <2>1, <2>2, SameWaits DEF Start, wait_vars
<1>5. CASE PendSV
  <2>1. lock_nesting' = 0 /\ select_next_task(k) # None
    BY <1>5, SelectFacts DEF PendSV, SchedInv, BlockedInv, lock_vars
  <2>2. \A t \in Task : SameBlock(t)
    BY <1>5, <2>1, SwitchWaits DEF PendSV
  <2>3. QED  BY <1>1, <1>b, <1>5, <2>1, <2>2, SameWaits DEF PendSV, wait_vars
<1>6. CASE TickEnter
  BY <1>1, <1>a, <1>b, <1>6, SameWaits DEF TickEnter, lock_vars, wait_vars
<1>7. CASE TickSlice
  BY <1>1, <1>b, <1>7, SliceWaits, SameWaits DEF TickSlice, lock_vars, wait_vars
<1>8. CASE TickSwitch
  BY <1>1, <1>a, <1>b, <1>8, SameWaits DEF TickSwitch, wait_vars
<1>9. ASSUME NEW t \in Task, SwitchContext(t) PROVE WaitsKept
  <2>1. /\ Executing(t) /\ pc[t] \in {"switch", "wait_switch"}
        /\ pc' = [pc EXCEPT ![t] = IF pc[t] = "switch" THEN "user" ELSE "wait_return"]
        /\ UNCHANGED <<k, current, lock_nesting, woken>>
    BY <1>9 DEF SwitchContext, Goto, wait_vars
  <2>2. \A u \in Task \ {t} : Undisturbed(u)
    BY <1>a, <1>2, <2>1 DEF Undisturbed, InWait
  <2>3. CASE pc[t] = "wait_switch"
    BY <1>a, <1>2, <2>1, <2>2, <2>3 DEF Undisturbed, InWait, WaitsKept
  <2>4. CASE pc[t] = "switch"
    BY <1>2, <2>1, <2>2, <2>4 DEF Outside, InWait, WaitsKept
  <2>5. QED  BY <2>1, <2>3, <2>4
<1>10. ASSUME NEW t \in Task, Reschedule(t) PROVE WaitsKept
  <2>1. /\ Executing(t) /\ pc[t] = "reschedule" /\ UNCHANGED <<k, current, lock_nesting, woken>>
        /\ \E l \in {"switch", "user"} : pc' = [pc EXCEPT ![t] = l]
    BY <1>10 DEF Reschedule, Goto, wait_vars, lock_vars
  <2>2. k.state[t] \in Runnable /\ ~InWait(t)
    BY <2>1, ExecutingFacts DEF InWait
  <2>3. Outside(t) /\ \A u \in Task \ {t} : Undisturbed(u)
    BY <1>a, <2>1, <2>2, CallerWaits
  <2>4. QED  BY <2>1, <2>2, <2>3 DEF WaitsKept
<1>11. QED
  BY <1>1, <1>3, <1>4, <1>5, <1>6, <1>7, <1>8, <1>9, <1>10, TickScanWaits
  DEF SystemStep, KernelStep

\* A task that calls a service of the scheduler enters no wait of a service.
LEMMA CallWaits ==
  ASSUME Disciplined, SchedInv, NEW t \in Task, CallStep(t)
  PROVE  SchedInv' /\ Outside(t) /\ \A u \in Task \ {t} : Undisturbed(u)
<1>1. SchedInv'
  BY NextSafe DEF Next
<1>2. Executing(t) /\ pc[t] = "user" /\ UNCHANGED <<current, woken>>
  BY DEF CallStep, Create, Yield, Delay, Lock, Unlock, InUser, AtUser, wait_vars
<1>3. current = t /\ k.state[t] \in Runnable /\ ~InWait(t) /\ pc \in [Task -> TaskPc]
  BY <1>2, ExecutingFacts DEF InWait, SchedInv, TypeOK
<1>4. pc = [pc EXCEPT ![t] = "user"]
  BY <1>2, <1>3
<1>a. ASSUME \A u \in Task : SameBlock(u), lock_nesting' = lock_nesting \/ t = current,
             NEW l \in {"user", "switch", "reschedule"}, pc' = [pc EXCEPT ![t] = l]
      PROVE  Outside(t) /\ \A u \in Task \ {t} : Undisturbed(u)
  <2>1. k'.wait_list[t] = k.wait_list[t]
    BY <1>a DEF SameBlock
  <2>2. QED  BY <1>a, <1>2, <1>3, <2>1, CallerWaits
<1>b. UNCHANGED k => \A u \in Task : SameBlock(u)
  BY DEF SameBlock
<1> DEFINE Goal == Outside(t) /\ \A u \in Task \ {t} : Undisturbed(u)
<1>5. ASSUME NEW u \in Task, Create(t, u) PROVE Goal
  <2>1. \A x \in Task : SameBlock(x)
    BY <1>5, CreateWaits DEF Create
  <2>2. QED  BY <1>a, <1>3, <1>5, <2>1 DEF Create, Goto
<1>6. CASE Yield(t)
  <2>1. \A x \in Task : SameBlock(x)
    BY <1>6, SliceWaits DEF Yield
  <2>2. QED  BY <1>1, <1>a, <1>3, <1>6, <2>1 DEF Yield, Goto
<1>7. ASSUME NEW n \in 1 .. MaxDelay, Delay(t, n) PROVE Goal
  <2>1. /\ pc' = [pc EXCEPT ![t] = "switch"] /\ k' = block_on_delay(k, t, n)
        /\ lock_nesting' = lock_nesting
    BY <1>7 DEF Delay, Goto, lock_vars
  <2>2. k \in Kernel /\ KernelConsistent(k)
    BY DEF SchedInv, TypeOK
  <2>3. MadeBlocked(k, k', t, None, n)
    BY <1>3, <2>1, <2>2, BlockOnDelayEffect
  <2>4. k.state \in [Task -> TaskState] /\ k.wait_list \in [Task -> WaitList \cup {None}]
    BY <2>2, FieldTypes
  <2>5. k.wait_list[t] = None
    BY <1>3, NoWaitList DEF Runnable
  <2>6. \A u \in Task : /\ k'.state[u] = IF u = t THEN "BLOCKED" ELSE k.state[u]
                        /\ k'.wait_list[u] = k.wait_list[u]
    BY <2>3, <2>4, <2>5 DEF MadeBlocked
  <2>7. \A u \in Task \ {t} : SameBlock(u)
    BY <2>6 DEF SameBlock
  <2>8. QED  BY <1>2, <1>3, <2>1, <2>6, <2>7, CallerWaits
<1>8. CASE Lock(t)
  BY <1>1, <1>a, <1>b, <1>3, <1>4, <1>8 DEF Lock
<1>9. CASE Unlock(t)
  <2>1. UNCHANGED k
    BY <1>9 DEF Unlock
  <2>2. pc' = pc \/ pc' = [pc EXCEPT ![t] = "switch"]
    BY <1>9 DEF Unlock, Goto
  <2>3. QED  BY <1>1, <1>a, <1>b, <1>3, <1>4, <2>1, <2>2
<1>10. QED  BY <1>1, <1>5, <1>6, <1>7, <1>8, <1>9 DEF CallStep

\* A step that leaves the scheduler as it is.
LEMMA IdleWaits ==
  ASSUME Disciplined, SchedInv, UNCHANGED vars
  PROVE  SchedInv' /\ \A t \in Task : Undisturbed(t)
<1>1. SchedInv'
  BY NextSafe
<1>2. \A t \in Task : SameBlock(t)
  BY DEF SameBlock, vars
<1>3. QED  BY <1>1, <1>2, SameWaits DEF vars, lock_vars, wait_vars

\* The executing task blocks on a wait list.
LEMMA BlockWaits ==
  ASSUME Disciplined, SchedInv, NEW t \in Task, NEW w \in WaitList, NEW n \in 1 .. Forever,
         Executing(t), pc[t] = "user", t # Idle, MayBlock, WaitListBlock(t, w, n),
         UNCHANGED <<current, is_running, lock_vars, pendsv, tick_vars>>
  PROVE  /\ SchedInv'
         /\ k'.wait_list[t] = w /\ w # None
         /\ pc'[t] = "wait_switch" /\ woken'[t] = "no"
         /\ \A u \in Task \ {t} : Undisturbed(u)
<1> DEFINE c == IF n = Forever THEN 0 ELSE n
<1>1. SchedInv'
  <2>1. TypeOK'
    BY WaitListBlockType DEF SchedInv
  <2>2. QED  BY <2>1, WaitListBlockSafe
<1>2. /\ k \in Kernel /\ KernelConsistent(k) /\ pc \in [Task -> TaskPc] /\ w # None
      /\ woken \in [Task -> {"no", "event", "timeout", "deleted"}] /\ k.state[t] \in Runnable
  BY ExecutingFacts, KernelAssumption DEF SchedInv, TypeOK
<1>3. /\ k' = block_on_wait_list(k, t, w, n) /\ woken' = [woken EXCEPT ![t] = "no"]
      /\ pc' = [pc EXCEPT ![t] = "wait_switch"] /\ UNCHANGED <<current, lock_nesting>>
  BY DEF WaitListBlock, Goto, lock_vars
<1>4. MadeBlocked(k, k', t, w, c)
  BY <1>2, <1>3, BlockOnWaitListEffect
<1> HIDE DEF c
<1>5. k.state \in [Task -> TaskState] /\ k.wait_list \in [Task -> WaitList \cup {None}]
  BY <1>2, FieldTypes
<1>6. \A u \in Task : /\ k'.state[u] = IF u = t THEN "BLOCKED" ELSE k.state[u]
                      /\ k'.wait_list[u] = IF u = t THEN w ELSE k.wait_list[u]
  BY <1>4, <1>5 DEF MadeBlocked
<1>7. \A u \in Task \ {t} : Undisturbed(u)
  BY <1>2, <1>3, <1>6 DEF Undisturbed, SameBlock, InWait
<1>8. QED  BY <1>1, <1>2, <1>3, <1>6, <1>7

\* The first waiter of a list is taken off it; the other control blocks stay.
LEMMA WakeWaits ==
  ASSUME SchedInv, NEW w \in WaitList, k.waiters[w] # <<>>, k' = unblock_highest(k, w)
  PROVE  LET u == highest_waiter(k, w)
         IN  /\ u \in Task /\ k.state[u] = "BLOCKED" /\ k.wait_list[u] = w /\ w # None
             /\ k'.state[u] = "READY" /\ k'.wait_list[u] = None
             /\ \A t \in Task \ {u} : /\ k'.state[t] = k.state[t]
                                       /\ k'.wait_list[t] = k.wait_list[t]
<1> DEFINE u == highest_waiter(k, w)
<1>1. u \in Task /\ k.state[u] = "BLOCKED" /\ MadeReady(k, k', u, k.priority[u])
  BY SignalEffect
<1>2. k \in Kernel /\ KernelConsistent(k) /\ k.waiters[w] \in Seq(Task)
  BY FieldTypes DEF SchedInv, TypeOK
<1>3. Contains(k.waiters[w], u)
  BY <1>2, HeadElement DEF highest_waiter
<1> HIDE DEF u
<1>4. k.wait_list[u] = w /\ w # None
  BY <1>1, <1>2, <1>3, KernelAssumption DEF KernelConsistent, WaitListsConsistent
<1>5. k.state \in [Task -> TaskState] /\ k.wait_list \in [Task -> WaitList \cup {None}]
  BY <1>2, FieldTypes
<1>6. \A t \in Task : /\ k'.state[t] = IF t = u THEN "READY" ELSE k.state[t]
                      /\ k'.wait_list[t] = IF t = u THEN None ELSE k.wait_list[t]
  BY <1>1, <1>5 DEF MadeReady
<1>7. QED  BY <1>1, <1>4, <1>6 DEF u

\* Every waiter of a list is taken off it; the other control blocks stay.
LEMMA WakeAllWaits ==
  ASSUME SchedInv, NEW w \in WaitList,
         NEW C, C = {u \in Task : Contains(k.waiters[w], u)}, NEW r, r = unblock_all(k, w)
  PROVE  /\ r \in Kernel /\ KernelConsistent(r) /\ r.fault = k.fault /\ r.priority = k.priority
         /\ \A u \in C : k.state[u] = "BLOCKED" /\ k.wait_list[u] = w /\ w # None
         /\ \A u \in Task : /\ r.state[u] = IF u \in C THEN "READY" ELSE k.state[u]
                            /\ r.wait_list[u] = IF u \in C THEN None ELSE k.wait_list[u]
         /\ \/ select_next_task(r) = select_next_task(k)
            \/ k.priority[select_next_task(r)] > k.priority[select_next_task(k)]
<1>1. k \in Kernel /\ KernelConsistent(k) /\ Idle \in Task /\ k.state[Idle] \in Runnable
  BY KernelAssumption DEF SchedInv, TypeOK, TasksInv
<1>2. /\ r \in Kernel /\ KernelConsistent(r) /\ r.fault = k.fault /\ r.priority = k.priority
      /\ \A u \in Task : IF Contains(k.waiters[w], u)
                         THEN r.state[u] = "READY" /\ r.wait_list[u] = None
                         ELSE r.state[u] = k.state[u] /\ r.wait_list[u] = k.wait_list[u]
      /\ \/ select_next_task(r) = select_next_task(k)
         \/ k.priority[select_next_task(r)] > k.priority[select_next_task(k)]
  BY <1>1, UnblockAllEffect
<1>3. \A u \in C : k.state[u] = "BLOCKED" /\ k.wait_list[u] = w /\ w # None
  BY <1>1, KernelAssumption DEF KernelConsistent, WaitListsConsistent
<1>4. QED  BY <1>2, <1>3

-----------------------------------------------------------------------------
\* In a disciplined application the invariant holds in every reachable state.
THEOREM SchedulerSafe ==
  ASSUME Disciplined
  PROVE  Spec => []SchedInv
<1>1. SchedInv /\ [Next]_vars => SchedInv'
  BY NextSafe
<1>2. QED  BY <1>1, InitSafe, PTL DEF Spec

\* No kernel list is ever misused: no node is inserted twice, none is removed
\* through a list it is not on.
THEOREM NoMisuse ==
  ASSUME Disciplined
  PROVE  Spec => []NoFault
<1>1. SchedInv => NoFault
  BY DEF SchedInv, NoFault
<1>2. QED  BY <1>1, SchedulerSafe, PTL

\* Lists, bitmap and control blocks agree after every critical section.
THEOREM ListsCorrect ==
  ASSUME Disciplined
  PROVE  Spec => []ListsConsistent
<1>1. SchedInv => ListsConsistent
  BY DEF SchedInv, ListsConsistent
<1>2. QED  BY <1>1, SchedulerSafe, PTL

\* Application code that executes is that of the task select_next_task would
\* choose, unless the scheduler is locked and has remembered the switch.
THEOREM HighestRuns ==
  ASSUME Disciplined
  PROVE  Spec => []HighestPriorityRuns
<1>1. SchedInv => HighestPriorityRuns
  <2> SUFFICES ASSUME SchedInv, Quiescent
               PROVE  current = select_next_task(k) \/ (lock_nesting > 0 /\ reschedule_pending)
    BY DEF HighestPriorityRuns
  <2>1. is_running /\ ~pendsv /\ isr = "none" /\ pc[current] \in {"user", "wait_return"}
    BY DEF Quiescent
  <2>2. QED  BY <2>1 DEF SchedInv, SwitchInv
<1>2. QED  BY <1>1, SchedulerSafe, PTL

\* Only the current task is RUNNING, and application code that executes is
\* never that of a blocked task.
THEOREM RunningCorrect ==
  ASSUME Disciplined
  PROVE  Spec => []RunningIsCurrent
<1>1. SchedInv => RunningIsCurrent
  <2> SUFFICES ASSUME SchedInv PROVE RunningIsCurrent
    OBVIOUS
  <2>1. \A t \in Task : k.state[t] = "RUNNING" => t = current
    BY DEF SchedInv, TasksInv
  <2>2. Quiescent => k.state[current] \in Runnable
    BY DEF SchedInv, BlockedInv, Quiescent
  <2>3. QED  BY <2>1, <2>2 DEF RunningIsCurrent
<1>2. QED  BY <1>1, SchedulerSafe, PTL

\* A locked scheduler never takes the CPU from the task that locked it.
THEOREM LockHolds ==
  ASSUME Disciplined
  PROVE  Spec => LockKeepsCpu
<1>1. SchedInv /\ [Next]_vars => [lock_nesting > 0 /\ is_running' => current' = current]_vars
  <2> SUFFICES ASSUME SchedInv, Next, lock_nesting > 0, is_running'
               PROVE  current' = current
    OBVIOUS
  <2>1. is_running /\ ~pendsv
    BY DEF SchedInv, StartedInv, BlockedInv
  <2>2. ~PendSV /\ ~Start /\ ~(\E t \in Task : Stop(t)) /\ ~(\E u \in Task : CreateFromMain(u))
    BY <2>1 DEF PendSV, Start, Stop, CreateFromMain
  <2>3. QED
    BY <2>2 DEF Next, SystemStep, KernelStep, CallStep, TickEnter, TickScan, TickSlice, TickSwitch, Create,
                SwitchContext, Reschedule, Yield, Delay, Lock, Unlock, IsrSignal, WaitReturn,
                Signal, Wait
<1>2. QED  BY <1>1, SchedulerSafe, PTL DEF Spec, LockKeepsCpu
=============================================================================
