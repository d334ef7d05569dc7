--------------------------- MODULE SertosHostProofs ---------------------------
(***************************************************************************)
(* The hand-over of control in the host ports, for any number of tasks and *)
(* any size of the context pool.                                           *)
(***************************************************************************)
EXTENDS SertosHost, Integers, TLAPS

ExecPc == {"user", "scanned", "claimed", "yield", "pass", "stopping", "ending"}
InHook == {"scanned", "claimed"}
TaskPc == ExecPc \cup {"absent", "new", "none", "start", "park", "gone", "cut", "stuck"}

\* The thread of t executes, or waits for an event that is set.
Told(t) == pc[t] \in ExecPc \/ (pc[t] \in {"start", "park"} /\ t \in signal)

\* A yield is half done; on Windows that of a thread which the tick thread
\* suspended does not count.
Yielding ==
    \/ tick \in {"yield", "pass"}
    \/ \E t \in Task : pc[t] \in {"yield", "pass"} /\ (system = "windows" => t = running_ctx)

\* The program is one of those that are checked.
BuildInv == \E b \in Builds : system = b.system /\ pool = b.pool /\ tasks = b.tasks

\* HostTypeOK without its bounds.
ShapeInv ==
    /\ system \in {"posix", "windows"} /\ pool \in Nat \ {0}
    /\ current \in Task \cup {None} /\ running_ctx \in Task \cup {None}
    /\ running \in BOOLEAN /\ exit \in BOOLEAN /\ preempted \in BOOLEAN
    /\ pc \in [Task -> TaskPc]
    /\ signal \in SUBSET Task /\ by_tick \in SUBSET Task /\ late \in SUBSET Task
    /\ waits \in [Task -> Task]
    /\ suspend \in [Task -> Nat]
    /\ tick \in {"off", "sleep", "enter", "yield", "pass", "ended"}
    /\ main \in {"init", "wait", "join", "done"}
    /\ orphan \in SUBSET {"critical", "yield"}

\* The descriptors of the tasks and of the creations under way.
SlotInv ==
    /\ slot \in [Task -> 0 .. pool]
    /\ hook \in [Task -> [task : Task \cup {None}, index : 0 .. pool]]
    /\ overlapped \in BOOLEAN

\* A task that a thread creates is nobody else's, and has no context before the
\* thread claims one for it.
HookInv ==
    /\ \A t \in Task : pc[t] = "absent" => slot[t] = 0
    /\ \A t \in Task : pc[t] \in InHook =>
            /\ hook[t].task \in Task /\ pc[hook[t].task] = "new"
            /\ pc[t] = "scanned" => slot[hook[t].task] = 0
    /\ \A t, v \in Task : pc[t] \in InHook /\ pc[v] \in InHook /\ t # v =>
            hook[t].task # hook[v].task

\* As long as no two threads are in the hook at once, the descriptor that one
\* has found stays free until it claims it.
DistinctInv ==
    ~overlapped =>
        /\ \A t, v \in Task : t # v /\ slot[t] # 0 => slot[t] # slot[v]
        /\ \A t \in Task : pc[t] = "scanned" =>
                /\ \A v \in Task : v # t => pc[v] # "scanned"
                /\ hook[t].index # 0 => \A v \in Task : slot[v] # hook[t].index

\* A thread waits for its own event; only a task that was created has a
\* context, every thread has one, and loses it when it ends.
CtxInv ==
    /\ \A t \in Task : waits[t] = t
    /\ \A t \in used : pc[t] \notin {"absent", "none"}
    /\ \A t \in Task : t \notin used => pc[t] \in {"absent", "new", "none", "gone", "cut"}
    /\ \A t \in Task : pc[t] \in {"absent", "new"} =>
            /\ t \notin by_tick /\ t \notin late /\ t \notin {running_ctx, current}
            /\ running \/ system = "windows" => t \notin signal
    /\ orphan = {} => \A t \in used : pc[t] \notin {"gone", "cut", "stuck"}

\* Before the start no thread executes.
InitInv ==
    main = "init" =>
        /\ ~running /\ running_ctx = None /\ tick = "off"
        /\ signal = {} /\ by_tick = {} /\ late = {}
        /\ \A t \in Task : pc[t] \in {"absent", "none", "start"} /\ suspend[t] <= 1

\* POSIX suspends no thread.
PosixInv == system = "posix" => by_tick = {} /\ late = {} /\ \A t \in Task : suspend[t] = 0

\* A thread that stops the scheduler has cleared s_scheduler_running.
StopInv == \A t \in Task : pc[t] = "stopping" => ~running

\* A thread is suspended once by its creation, if that came after the start,
\* and once by the tick thread.
SuspendInv ==
    main # "init" =>
        /\ running_ctx \notin by_tick
        /\ \A t \in Task : suspend[t] <= (IF t \in late THEN 1 ELSE 0)
                                       + (IF t \in by_tick THEN 1 ELSE 0)
        /\ \A t \in by_tick : suspend[t] >= 1

\* Until a POSIX tick preempts a thread, no thread but that of s_running_ctx
\* executes or can wake.
SoloInv ==
    (running \/ system = "windows") /\ ~preempted =>
        \A t \in Task : Told(t) /\ suspend[t] = 0 => t = running_ctx

\* On Windows an executing thread has consumed its event, and a thread that
\* the tick thread suspended goes on when it is resumed.
WindowsInv ==
    system = "windows" =>
        /\ ~preempted
        /\ \A t \in Task : pc[t] \in ExecPc =>
                t \notin signal /\ (t = running_ctx \/ t \in by_tick)
        /\ running /\ orphan = {} => \A t \in used : t \in by_tick /\ t \notin late => Told(t)

\* The thread of s_running_ctx executes or has been told to.
RunInv ==
    running /\ orphan = {} /\ running_ctx \in used /\ running_ctx \notin late =>
        Told(running_ctx) /\ suspend[running_ctx] = 0

\* Where the current task and s_running_ctx differ, a yield is under way.
CurrentInv ==
    running /\ orphan = {} /\ current \in used =>
        running_ctx = current \/ (system = "posix" /\ Told(current)) \/ Yielding

HostInv ==
    /\ ShapeInv
    /\ SlotInv
    /\ HookInv
    /\ DistinctInv
    /\ CtxInv
    /\ InitInv
    /\ PosixInv
    /\ StopInv
    /\ SuspendInv
    /\ SoloInv
    /\ WindowsInv
    /\ RunInv
    /\ CurrentInv

-----------------------------------------------------------------------------
(* Every action keeps the invariant.                                       *)

\* What leaves the hooks alone.
LEMMA HookFrame ==
  ASSUME HostInv, UNCHANGED <<pool, slot, hook, overlapped>>,
         \A v \in Task : pc'[v] = pc[v] \/ (pc[v] \notin InHook \cup {"absent", "new"}
                                          /\ pc'[v] \notin InHook \cup {"absent", "new"})
  PROVE  SlotInv' /\ HookInv' /\ DistinctInv' /\ used' = used /\ used \subseteq Task
<1>1. used' = used /\ used \subseteq Task
  BY DEF used
<1>2. HookInv'
  BY DEF HostInv, HookInv, InHook
<1>3. DistinctInv'
  BY DEF HostInv, DistinctInv, InHook
<1>4. SlotInv'
  BY DEF HostInv, SlotInv
<1>5. QED  BY <1>1, <1>2, <1>3, <1>4

\* What Ctx gives.
LEMMA CtxCases ==
  ASSUME HostInv
  PROVE  /\ Ctx(current) = None <=> current \notin used
         /\ Ctx(current) # None => Ctx(current) = current /\ current \in used
         /\ None \notin used /\ None \notin Task
BY HostAssumption DEF HostInv, ShapeInv, Ctx, used

LEMMA CreateBeforeStartKeeps ==
  ASSUME HostInv, NEW u \in Task, NEW i \in 0 .. pool, CreateBeforeStart(u, i)
  PROVE  HostInv'
<1> USE DEF config, making, control, events, CreateBeforeStart, Fresh, FirstFree,
           Thread, AtCreation
<1>1. pc[u] = "absent" /\ (i # 0 => \A v \in Task : slot[v] # i)
  OBVIOUS
<1>2. ShapeInv'
  BY <1>1 DEF HostInv, ShapeInv, TaskPc, ExecPc
<1>12. SlotInv'
  BY <1>1 DEF HostInv, SlotInv, NoHook
<1>3. HookInv'
  BY <1>1 DEF HostInv, ShapeInv, SlotInv, HookInv, InHook
<1>4. DistinctInv'
  <2>1. /\ overlapped' = overlapped /\ hook' = hook
        /\ slot'[u] = i /\ \A v \in Task : v # u => slot'[v] = slot[v]
        /\ \A v \in Task : pc[v] # "scanned" /\ pc'[v] # "scanned"
    BY <1>1 DEF HostInv, ShapeInv, SlotInv, InitInv
  <2> HIDE DEF CreateBeforeStart, Fresh, FirstFree, Thread, AtCreation
  <2>2. QED  BY <1>1, <2>1 DEF HostInv, DistinctInv
<1>5. CtxInv'
  BY <1>1 DEF HostInv, ShapeInv, SlotInv, CtxInv, HookInv, used, InHook
<1>6. SoloInv'
  BY <1>1 DEF HostInv, ShapeInv, CtxInv, SoloInv, Told, ExecPc
<1>7. WindowsInv'
  BY <1>1 DEF HostInv, ShapeInv, SlotInv, CtxInv, WindowsInv, Told, ExecPc, used
<1>8. RunInv'
  BY <1>1 DEF HostInv, ShapeInv, SlotInv, CtxInv, RunInv, Told, ExecPc, used
<1>9. CurrentInv'
  BY <1>1 DEF HostInv, ShapeInv, SlotInv, CtxInv, CurrentInv, Told, Yielding, ExecPc, used
<1>10. InitInv' /\ PosixInv' /\ StopInv' /\ SuspendInv'
  BY <1>1 DEF HostInv, ShapeInv, CtxInv, InitInv, PosixInv, StopInv, SuspendInv
<1>11. QED
  BY <1>2, <1>3, <1>4, <1>5, <1>6, <1>7, <1>8, <1>9, <1>10, <1>12 DEF HostInv

LEMMA HookScansKeeps ==
  ASSUME HostInv, NEW t \in Task, NEW u \in Task, NEW i \in 0 .. pool,
         HookScans(t, u, i)
  PROVE  HostInv'
<1> USE DEF config, making, control, events, HookScans, Fresh, FirstFree, InUser,
           Executing
<1>1. pc[u] = "absent" /\ pc[t] = "user" /\ (i # 0 => \A v \in Task : slot[v] # i)
  OBVIOUS
<1>2. ShapeInv'
  BY <1>1 DEF HostInv, ShapeInv, TaskPc, ExecPc
<1>12. SlotInv'
  BY <1>1 DEF HostInv, SlotInv, NoHook
<1>3. HookInv'
  <2>1. /\ t # u /\ slot' = slot /\ hook'[t] = [task |-> u, index |-> i]
        /\ pc'[t] = "scanned" /\ pc'[u] = "new"
        /\ \A v \in Task : v # t => hook'[v] = hook[v]
        /\ \A v \in Task : v \notin {t, u} => pc'[v] = pc[v]
    BY <1>1 DEF HostInv, ShapeInv, SlotInv
  <2> HIDE DEF HookScans, Fresh, FirstFree, InUser, Executing
  <2>2. QED  BY <1>1, <2>1 DEF HostInv, HookInv, InHook
<1>4. DistinctInv'
  BY <1>1 DEF HostInv, ShapeInv, SlotInv, HookInv, DistinctInv, InHook
<1>5. CtxInv'
  <2>1. /\ used' = used /\ pc'[t] = "scanned" /\ pc'[u] = "new" /\ used \subseteq Task
        /\ \A v \in Task : v \notin {t, u} => pc'[v] = pc[v]
        /\ UNCHANGED <<system, waits, by_tick, late, running_ctx, current, running, signal, orphan>>
    BY <1>1 DEF used, HostInv, ShapeInv
  <2> HIDE DEF HookScans, Fresh, FirstFree, InUser, Executing
  <2>2. QED  BY <1>1, <2>1 DEF HostInv, CtxInv
<1>6. SoloInv'
  BY <1>1 DEF HostInv, ShapeInv, CtxInv, SoloInv, Told, ExecPc
<1>7. WindowsInv'
  BY <1>1 DEF HostInv, ShapeInv, SlotInv, CtxInv, WindowsInv, Told, ExecPc, used
<1>8. RunInv'
  BY <1>1 DEF HostInv, ShapeInv, SlotInv, CtxInv, RunInv, Told, ExecPc, used
<1>9. CurrentInv'
  BY <1>1 DEF HostInv, ShapeInv, SlotInv, CtxInv, CurrentInv, Told, Yielding, ExecPc, used
<1>10. InitInv' /\ PosixInv' /\ StopInv' /\ SuspendInv'
  BY <1>1 DEF HostInv, ShapeInv, CtxInv, InitInv, PosixInv, StopInv, SuspendInv
<1>11. QED
  BY <1>2, <1>3, <1>4, <1>5, <1>6, <1>7, <1>8, <1>9, <1>10, <1>12 DEF HostInv

LEMMA HookClaimsKeeps ==
  ASSUME HostInv, NEW t \in Task, HookClaims(t)
  PROVE  HostInv'
<1> USE DEF config, making, control, events, HookClaims, Executing
<1>1. /\ pc[t] = "scanned" /\ hook[t].task \in Task /\ pc[hook[t].task] = "new"
      /\ slot[hook[t].task] = 0 /\ hook[t].index \in 0 .. pool
  BY DEF HostInv, ShapeInv, SlotInv, HookInv, InHook
<1>2. ShapeInv'
  BY <1>1 DEF HostInv, ShapeInv, TaskPc, ExecPc
<1>12. SlotInv'
  BY <1>1 DEF HostInv, SlotInv, NoHook
<1>3. HookInv'
  BY <1>1 DEF HostInv, ShapeInv, SlotInv, HookInv, InHook
<1>4. DistinctInv'
  BY <1>1 DEF HostInv, ShapeInv, SlotInv, HookInv, DistinctInv, InHook
<1>5. CtxInv'
  BY <1>1 DEF HostInv, ShapeInv, SlotInv, CtxInv, HookInv, used, InHook
<1>6. SoloInv'
  BY <1>1 DEF HostInv, ShapeInv, CtxInv, SoloInv, Told, ExecPc
<1>7. WindowsInv'
  BY <1>1 DEF HostInv, ShapeInv, SlotInv, CtxInv, WindowsInv, Told, ExecPc, used
<1>8. RunInv'
  BY <1>1 DEF HostInv, ShapeInv, SlotInv, CtxInv, RunInv, Told, ExecPc, used
<1>9. CurrentInv'
  BY <1>1 DEF HostInv, ShapeInv, SlotInv, CtxInv, CurrentInv, Told, Yielding, ExecPc, used
<1>10. InitInv' /\ PosixInv' /\ StopInv' /\ SuspendInv'
  BY <1>1 DEF HostInv, ShapeInv, CtxInv, InitInv, PosixInv, StopInv, SuspendInv
<1>11. QED
  BY <1>2, <1>3, <1>4, <1>5, <1>6, <1>7, <1>8, <1>9, <1>10, <1>12 DEF HostInv

LEMMA CreateAddsKeeps ==
  ASSUME HostInv, NEW t \in Task, NEW u \in Task, NEW n \in Task,
         CreateAdds(t, u, n)
  PROVE  HostInv'
<1> USE DEF config, making, control, events, CreateAdds, Thread, AtCreation, Executing
<1>1. pc[t] = "claimed" /\ u = hook[t].task /\ pc[u] = "new"
  BY DEF HostInv, HookInv, InHook
<1>2. ShapeInv'
  BY <1>1 DEF HostInv, ShapeInv, TaskPc, ExecPc
<1>0. pool \in Nat /\ NoHook \in [task : Task \cup {None}, index : 0 .. pool]
  BY DEF HostInv, ShapeInv, NoHook
<1>12. SlotInv'
  BY <1>0 DEF HostInv, SlotInv
<1>3. HookInv'
  BY <1>1 DEF HostInv, ShapeInv, SlotInv, HookInv, InHook
<1>4. DistinctInv'
  BY <1>1 DEF HostInv, ShapeInv, SlotInv, HookInv, DistinctInv, InHook
<1>5. CtxInv'
  BY <1>1 DEF HostInv, ShapeInv, SlotInv, CtxInv, HookInv, used, InHook
<1>6. SoloInv'
  BY <1>1 DEF HostInv, ShapeInv, CtxInv, SoloInv, Told, ExecPc
<1>7. WindowsInv'
  BY <1>1 DEF HostInv, ShapeInv, SlotInv, CtxInv, WindowsInv, Told, ExecPc, used
<1>8. RunInv'
  BY <1>1 DEF HostInv, ShapeInv, SlotInv, CtxInv, RunInv, Told, ExecPc, used
<1>9. CurrentInv'
  <2>1. system = "windows" => t = running_ctx
    BY <1>1 DEF HostInv, SoloInv, WindowsInv, Told, ExecPc
  <2>2. /\ pc'[t] = (IF n = current THEN "user" ELSE "yield") /\ current' = n
        /\ \A v \in Task : v \notin {t, u} => pc'[v] = pc[v]
        /\ used' = used /\ t # u /\ u # current
        /\ UNCHANGED <<system, running_ctx, running, signal, tick, orphan>>
    BY <1>1 DEF HostInv, ShapeInv, CtxInv, used
  <2> HIDE DEF CreateAdds, Thread, AtCreation, Executing
  <2>3. CASE n = current
    BY <1>1, <2>2, <2>3 DEF HostInv, CurrentInv, Told, Yielding, ExecPc
  <2>4. CASE n # current
    BY <2>1, <2>2, <2>4 DEF CurrentInv, Yielding
  <2>5. QED  BY <2>3, <2>4
<1>10. InitInv' /\ PosixInv' /\ StopInv' /\ SuspendInv'
  BY <1>1 DEF HostInv, ShapeInv, CtxInv, InitInv, PosixInv, StopInv, SuspendInv
<1>11. QED
  BY <1>2, <1>3, <1>4, <1>5, <1>6, <1>7, <1>8, <1>9, <1>10, <1>12 DEF HostInv

LEMMA StartFirstTaskKeeps ==
  ASSUME HostInv, NEW n \in Task, StartFirstTask(n)
  PROVE  HostInv'
<1> USE DEF config, making, control, events, StartFirstTask, Ctx, Created
<1>0. SlotInv' /\ HookInv' /\ DistinctInv' /\ used' = used /\ used \subseteq Task
  BY HookFrame
<1>1. ShapeInv'
  BY <1>0, HostAssumption DEF HostInv, ShapeInv, used, TaskPc, ExecPc
<1>2. CtxInv'
  BY <1>0 DEF HostInv, ShapeInv, CtxInv, InitInv
<1>3. StopInv'
  BY <1>0 DEF HostInv, ShapeInv, InitInv, StopInv
<1>4. SuspendInv'
  BY <1>0 DEF HostInv, ShapeInv, InitInv, SuspendInv
<1>5. SoloInv'
  BY <1>0 DEF HostInv, ShapeInv, InitInv, SoloInv, Told, ExecPc
<1>6. WindowsInv'
  BY <1>0 DEF HostInv, ShapeInv, InitInv, WindowsInv, Told, ExecPc
<1>7. RunInv'
  <2> SUFFICES ASSUME running_ctx' \in used'
               PROVE  Told(running_ctx)' /\ suspend'[running_ctx'] = 0
    BY <1>0 DEF RunInv
  <2>1. n \in used /\ running_ctx' = n /\ signal' = {n} /\ suspend'[n] = 0
    BY <1>0, HostAssumption DEF HostInv, ShapeInv, used
  <2>2. pc'[n] = "start"
    BY <2>1 DEF HostInv, InitInv, CtxInv
  <2>3. QED  BY <2>1, <2>2 DEF Told
<1>8. InitInv' /\ PosixInv' /\ CurrentInv'
  BY <1>0 DEF HostInv, InitInv, PosixInv, CurrentInv, Told, Yielding
<1>9. QED
  BY <1>0, <1>1, <1>2, <1>3, <1>4, <1>5, <1>6, <1>7, <1>8 DEF HostInv

LEMMA SwitchContextKeeps ==
  ASSUME HostInv, NEW t \in Task, NEW n \in Task, SwitchContext(t, n)
  PROVE  HostInv'
<1> USE DEF config, making, control, events, SwitchContext, InUser, Executing,
           Created
<1>1. SlotInv' /\ HookInv' /\ DistinctInv' /\ used' = used /\ used \subseteq Task
  BY HookFrame DEF HostInv, ShapeInv, InHook
<1>2. ShapeInv'
  BY DEF HostInv, ShapeInv, TaskPc, ExecPc
<1>3. SoloInv'
  BY <1>1 DEF HostInv, ShapeInv, CtxInv, StopInv, SoloInv, Told, ExecPc
<1>4. WindowsInv'
  BY <1>1 DEF HostInv, ShapeInv, CtxInv, StopInv, SoloInv, WindowsInv, Told, ExecPc
<1>5. RunInv'
  BY <1>1 DEF HostInv, ShapeInv, CtxInv, RunInv, Told, ExecPc
<1>6. CurrentInv'
  <2>1. system = "windows" => t = running_ctx
    BY DEF HostInv, SoloInv, WindowsInv, Told, ExecPc
  <2>2. QED  BY <1>1, <2>1 DEF HostInv, ShapeInv, CurrentInv, Told, Yielding, ExecPc
<1>7. CtxInv'
  BY <1>1 DEF HostInv, ShapeInv, CtxInv, StopInv
<1>8. InitInv' /\ PosixInv' /\ StopInv' /\ SuspendInv'
  BY DEF HostInv, ShapeInv, InitInv, PosixInv, StopInv, SuspendInv
<1>9. QED
  BY <1>1, <1>2, <1>3, <1>4, <1>5, <1>6, <1>7, <1>8 DEF HostInv

LEMMA IdleYieldsKeeps ==
  ASSUME HostInv, NEW t \in Task, IdleYields(t)
  PROVE  HostInv'
<1> USE DEF config, making, control, events, IdleYields, InUser, Executing
<1>1. SlotInv' /\ HookInv' /\ DistinctInv' /\ used' = used /\ used \subseteq Task
  BY HookFrame DEF HostInv, ShapeInv, InHook
<1>2. ShapeInv'
  BY DEF HostInv, ShapeInv, TaskPc, ExecPc
<1>3. SoloInv'
  BY <1>1 DEF HostInv, ShapeInv, CtxInv, StopInv, SoloInv, Told, ExecPc
<1>4. WindowsInv'
  BY <1>1 DEF HostInv, ShapeInv, CtxInv, StopInv, SoloInv, WindowsInv, Told, ExecPc
<1>5. RunInv'
  BY <1>1 DEF HostInv, ShapeInv, CtxInv, RunInv, Told, ExecPc
<1>6. CurrentInv'
  BY <1>1 DEF HostInv, ShapeInv, CurrentInv, Told, Yielding, ExecPc
<1>7. CtxInv'
  BY <1>1 DEF HostInv, ShapeInv, CtxInv, StopInv
<1>8. InitInv' /\ PosixInv' /\ StopInv' /\ SuspendInv'
  BY DEF HostInv, ShapeInv, InitInv, PosixInv, StopInv, SuspendInv
<1>9. QED
  BY <1>1, <1>2, <1>3, <1>4, <1>5, <1>6, <1>7, <1>8 DEF HostInv

LEMMA YieldTestsKeeps ==
  ASSUME HostInv, NEW t \in Task, YieldTests(t)
  PROVE  HostInv'
<1> USE DEF config, making, control, events, YieldTests, Executing
<1>1. SlotInv' /\ HookInv' /\ DistinctInv' /\ used' = used /\ used \subseteq Task
  BY HookFrame DEF HostInv, ShapeInv, InHook
<1>2. ShapeInv'
  BY DEF HostInv, ShapeInv, TaskPc, ExecPc
<1>3. SoloInv'
  BY <1>1 DEF HostInv, ShapeInv, CtxInv, StopInv, SoloInv, Told, ExecPc
<1>4. WindowsInv'
  BY <1>1 DEF HostInv, ShapeInv, CtxInv, StopInv, SoloInv, WindowsInv, Told, ExecPc
<1>5. RunInv'
  BY <1>1 DEF HostInv, ShapeInv, CtxInv, RunInv, Told, ExecPc
<1>6. CurrentInv'
  BY <1>1 DEF HostInv, ShapeInv, CurrentInv, Told, Yielding, ExecPc
<1>7. CtxInv'
  BY <1>1 DEF HostInv, ShapeInv, CtxInv, StopInv
<1>8. InitInv' /\ PosixInv' /\ StopInv' /\ SuspendInv'
  BY DEF HostInv, ShapeInv, InitInv, PosixInv, StopInv, SuspendInv
<1>9. QED
  BY <1>1, <1>2, <1>3, <1>4, <1>5, <1>6, <1>7, <1>8 DEF HostInv

LEMMA PosixYieldKeeps ==
  ASSUME HostInv, NEW t \in Task, PosixYield(t)
  PROVE  HostInv'
<1> USE DEF config, making, control, events
<1> DEFINE n == Ctx(current)
<1>1. /\ n # None => n = current /\ n \in used /\ n \in Task
      /\ n = None <=> current \notin used
      /\ None \notin Task /\ None \notin used
  BY CtxCases DEF HostInv, ShapeInv
<1>2. /\ system = "posix" /\ pc[t] = "pass"
      /\ n = t => pc' = [pc EXCEPT ![t] = "user"] /\ UNCHANGED <<running_ctx, signal>>
      /\ n # t => /\ running_ctx' = n /\ signal' = (signal \cup {n}) \ {None, t}
                  /\ pc' = [pc EXCEPT ![t] = "park"]
      /\ UNCHANGED <<config, making, current, control, waits, by_tick, suspend, tick, orphan,
                     preempted>>
  BY DEF PosixYield, PosixPass
<1> HIDE DEF n
<1>0. SlotInv' /\ HookInv' /\ DistinctInv' /\ used' = used /\ used \subseteq Task
  BY <1>2, HookFrame DEF HostInv, ShapeInv, InHook
<1>3. ShapeInv'
  BY <1>0, <1>1, <1>2 DEF HostInv, ShapeInv, TaskPc, ExecPc
<1>4. CtxInv'
  BY <1>0, <1>1, <1>2 DEF HostInv, ShapeInv, CtxInv
<1>5. StopInv'
  BY <1>0, <1>1, <1>2 DEF HostInv, ShapeInv, StopInv
<1>6. SuspendInv'
  BY <1>0, <1>1, <1>2 DEF HostInv, ShapeInv, PosixInv, SuspendInv
<1>7. SoloInv'
  BY <1>0, <1>1, <1>2 DEF HostInv, ShapeInv, PosixInv, SoloInv, Told, ExecPc
<1>8. RunInv'
  <2> SUFFICES ASSUME running, orphan = {}, running_ctx' \in used, running_ctx' \notin late
               PROVE  Told(running_ctx)' /\ suspend'[running_ctx'] = 0
    BY <1>0, <1>2 DEF RunInv
  <2>1. CASE n = t
    <3>1. /\ UNCHANGED <<running_ctx, signal, suspend>>
          /\ Told(running_ctx) /\ suspend[running_ctx] = 0 /\ pc \in [Task -> TaskPc]
      BY <1>2, <2>1 DEF HostInv, RunInv, ShapeInv
    <3>2. pc' = [pc EXCEPT ![t] = "user"]
      BY <1>2, <2>1
    <3>3. QED  BY <3>1, <3>2 DEF Told, ExecPc
  <2>2. CASE n # t
    <3>1. running_ctx' = n /\ n = current /\ n \in used /\ n \in Task /\ n \in signal' /\ pc'[n] = pc[n]
      BY <1>1, <1>2, <2>2 DEF HostInv, ShapeInv
    <3>2. /\ pc[n] \in TaskPc /\ pc[n] \notin {"absent", "new", "none", "gone", "cut", "stuck"}
          /\ suspend[n] = 0
      BY <1>2, <3>1 DEF HostInv, ShapeInv, CtxInv, PosixInv
    <3>3. QED  BY <1>2, <3>1, <3>2 DEF Told, ExecPc, TaskPc
  <2>3. QED  BY <2>1, <2>2
<1>9. CurrentInv'
  BY <1>0, <1>1, <1>2 DEF HostInv, ShapeInv, CurrentInv, Told, Yielding, ExecPc
<1>10. InitInv' /\ PosixInv' /\ WindowsInv'
  BY <1>0, <1>1, <1>2 DEF HostInv, InitInv, PosixInv, WindowsInv, Told
<1>11. QED
  BY <1>0, <1>3, <1>4, <1>5, <1>6, <1>7, <1>8, <1>9, <1>10 DEF HostInv

LEMMA WindowsYieldKeeps ==
  ASSUME HostInv, NEW t \in Task, WindowsYield(t)
  PROVE  HostInv'
<1> USE DEF config, making, control, events
<1> DEFINE n == Ctx(current)
           stays == n = running_ctx
<1>1. /\ n # None => n = current /\ n \in used /\ n \in Task
      /\ n = None <=> current \notin used
      /\ None \notin Task /\ None \notin used
  BY CtxCases DEF HostInv, ShapeInv
<1>2. /\ system = "windows" /\ pc[t] = "pass" /\ suspend[t] = 0
      /\ stays => pc' = [pc EXCEPT ![t] = "user"] /\ UNCHANGED <<running_ctx, events>>
      /\ UNCHANGED <<config, making, current, control, tick, orphan, preempted>>
  BY DEF WindowsYield, Executing
<1>3. t = running_ctx /\ t \notin signal /\ t \notin by_tick
  BY <1>2 DEF HostInv, SoloInv, WindowsInv, SuspendInv, InitInv, Told, ExecPc
<1>4. ~stays => /\ running_ctx' = n /\ by_tick' = by_tick \ {n}
                /\ signal' = IF n = None \/ n \in by_tick THEN signal ELSE signal \cup {n}
                /\ suspend' = [v \in Task |-> IF v = n /\ n \in by_tick /\ suspend[v] > 0
                                              THEN suspend[v] - 1 ELSE suspend[v]]
                /\ waits' = [waits EXCEPT ![t] = t]
                /\ pc' = [pc EXCEPT ![t] = "park"] /\ n # t
  BY <1>1, <1>3 DEF WindowsYield, Activated, Activate, StillByTick, Resumes
<1> HIDE DEF n
<1>0. SlotInv' /\ HookInv' /\ DistinctInv' /\ used' = used /\ used \subseteq Task
  BY <1>2, <1>4, HookFrame DEF HostInv, ShapeInv, InHook
<1>5. ShapeInv'
  BY <1>0, <1>1, <1>2, <1>3, <1>4 DEF HostInv, ShapeInv, TaskPc, ExecPc
<1>6. CtxInv'
  BY <1>0, <1>1, <1>2, <1>3, <1>4 DEF HostInv, ShapeInv, CtxInv
<1>7. StopInv'
  BY <1>0, <1>1, <1>2, <1>3, <1>4 DEF HostInv, ShapeInv, StopInv
<1>8. SuspendInv'
  BY <1>0, <1>1, <1>2, <1>3, <1>4 DEF HostInv, ShapeInv, SuspendInv
<1>9. SoloInv'
  BY <1>0, <1>1, <1>2, <1>3, <1>4 DEF HostInv, ShapeInv, SoloInv, Told, ExecPc
<1>10. WindowsInv'
  BY <1>0, <1>1, <1>2, <1>3, <1>4 DEF HostInv, ShapeInv, WindowsInv, Told, ExecPc
<1>11. RunInv'
  <2> SUFFICES ASSUME running, orphan = {}, running_ctx' \in used, running_ctx' \notin late
               PROVE  Told(running_ctx)' /\ suspend'[running_ctx'] = 0
    BY <1>0, <1>2 DEF RunInv
  <2>1. CASE stays
    <3>1. /\ UNCHANGED <<running_ctx, signal, suspend>>
          /\ Told(running_ctx) /\ suspend[running_ctx] = 0 /\ pc \in [Task -> TaskPc]
      BY <1>2, <2>1 DEF HostInv, RunInv, ShapeInv
    <3>2. pc' = [pc EXCEPT ![t] = "user"]
      BY <1>2, <2>1
    <3>3. QED  BY <3>1, <3>2 DEF Told, ExecPc
  <2>2. CASE ~stays
    <3>1. /\ running_ctx' = n /\ n = current /\ n \in used /\ n \in Task /\ n \notin late
          /\ n # t /\ pc'[n] = pc[n]
      BY <1>1, <1>4, <2>2 DEF HostInv, ShapeInv
    <3>2. pc[n] \in TaskPc /\ pc[n] \notin {"absent", "new", "none", "gone", "cut", "stuck"}
      BY <3>1 DEF HostInv, ShapeInv, CtxInv
    <3>3. n \in by_tick => pc[n] \in ExecPc \/ n \in signal
      BY <1>2, <3>1 DEF HostInv, WindowsInv, Told
    <3>4. /\ suspend[n] \in Nat /\ suspend[n] <= (IF n \in by_tick THEN 1 ELSE 0)
          /\ n \in by_tick => suspend[n] >= 1
      BY <3>1 DEF HostInv, ShapeInv, InitInv, SuspendInv
    <3>5. suspend'[n] = 0
      BY <1>4, <2>2, <3>1, <3>4
    <3>6. pc[n] \in ExecPc \/ n \in signal'
      BY <1>1, <1>4, <2>2, <3>1, <3>3
    <3>7. QED  BY <3>1, <3>2, <3>5, <3>6 DEF Told, ExecPc, TaskPc
  <2>3. QED  BY <2>1, <2>2
<1>12. InitInv' /\ PosixInv' /\ CurrentInv'
  BY <1>0, <1>1, <1>2, <1>3, <1>4
     DEF HostInv, InitInv, PosixInv, CurrentInv, Told, Yielding
<1>13. QED
  BY <1>0, <1>5, <1>6, <1>7, <1>8, <1>9, <1>10, <1>11, <1>12 DEF HostInv

LEMMA WakeKeeps ==
  ASSUME HostInv, NEW t \in Task, Wake(t)
  PROVE  HostInv'
<1> USE DEF config, making, control, events, Wake
<1>1. SlotInv' /\ HookInv' /\ DistinctInv' /\ used' = used /\ used \subseteq Task
  BY HookFrame DEF HostInv, ShapeInv, InHook
<1>2. ShapeInv'
  BY DEF HostInv, ShapeInv, TaskPc, ExecPc
<1>3. SoloInv'
  BY <1>1 DEF HostInv, ShapeInv, CtxInv, StopInv, SoloInv, Told, ExecPc
<1>4. WindowsInv'
  BY <1>1 DEF HostInv, ShapeInv, CtxInv, StopInv, SoloInv, WindowsInv, Told, ExecPc
<1>5. RunInv'
  BY <1>1 DEF HostInv, ShapeInv, CtxInv, RunInv, Told, ExecPc
<1>6. CurrentInv'
  BY <1>1 DEF HostInv, ShapeInv, CurrentInv, Told, Yielding, ExecPc
<1>7. CtxInv'
  BY <1>1 DEF HostInv, ShapeInv, CtxInv, StopInv
<1>8. InitInv' /\ PosixInv' /\ StopInv' /\ SuspendInv'
  BY DEF HostInv, ShapeInv, InitInv, PosixInv, StopInv, SuspendInv
<1>9. QED
  BY <1>1, <1>2, <1>3, <1>4, <1>5, <1>6, <1>7, <1>8 DEF HostInv

LEMMA EntryReturnsKeeps ==
  ASSUME HostInv, NEW t \in Task, EntryReturns(t)
  PROVE  HostInv'
<1> USE DEF config, making, control, events, EntryReturns, InUser, Executing
<1>1. SlotInv' /\ HookInv' /\ DistinctInv' /\ used' = used /\ used \subseteq Task
  BY HookFrame DEF HostInv, ShapeInv, InHook
<1>2. ShapeInv'
  BY DEF HostInv, ShapeInv, TaskPc, ExecPc
<1>3. SoloInv'
  BY <1>1 DEF HostInv, ShapeInv, CtxInv, StopInv, SoloInv, Told, ExecPc
<1>4. WindowsInv'
  BY <1>1 DEF HostInv, ShapeInv, CtxInv, StopInv, SoloInv, WindowsInv, Told, ExecPc
<1>5. RunInv'
  BY <1>1 DEF HostInv, ShapeInv, CtxInv, RunInv, Told, ExecPc
<1>6. CurrentInv'
  BY <1>1 DEF HostInv, ShapeInv, CurrentInv, Told, Yielding, ExecPc
<1>7. CtxInv'
  BY <1>1 DEF HostInv, ShapeInv, CtxInv, StopInv
<1>8. InitInv' /\ PosixInv' /\ StopInv' /\ SuspendInv'
  BY DEF HostInv, ShapeInv, InitInv, PosixInv, StopInv, SuspendInv
<1>9. QED
  BY <1>1, <1>2, <1>3, <1>4, <1>5, <1>6, <1>7, <1>8 DEF HostInv

LEMMA DeleteSelfKeeps ==
  ASSUME HostInv, NEW t \in Task, DeleteSelf(t)
  PROVE  HostInv'
<1> USE DEF config, making, control, events, DeleteSelf, Executing
<1>1. SlotInv' /\ HookInv' /\ DistinctInv' /\ used' = used /\ used \subseteq Task
  BY HookFrame DEF HostInv, ShapeInv, InHook
<1>2. ShapeInv'
  BY DEF HostInv, ShapeInv, TaskPc, ExecPc
<1>3. SoloInv'
  BY <1>1 DEF HostInv, ShapeInv, CtxInv, StopInv, SoloInv, Told, ExecPc
<1>4. WindowsInv'
  BY <1>1 DEF HostInv, ShapeInv, CtxInv, StopInv, SoloInv, WindowsInv, Told, ExecPc
<1>5. RunInv'
  BY <1>1 DEF HostInv, ShapeInv, CtxInv, RunInv, Told, ExecPc
<1>6. CurrentInv'
  BY <1>1 DEF HostInv, ShapeInv, CurrentInv, Told, Yielding, ExecPc
<1>7. CtxInv'
  BY <1>1 DEF HostInv, ShapeInv, CtxInv, StopInv
<1>8. InitInv' /\ PosixInv' /\ StopInv' /\ SuspendInv'
  BY DEF HostInv, ShapeInv, InitInv, PosixInv, StopInv, SuspendInv
<1>9. QED
  BY <1>1, <1>2, <1>3, <1>4, <1>5, <1>6, <1>7, <1>8 DEF HostInv

LEMMA DeleteOtherKeeps ==
  ASSUME HostInv, NEW t \in Task, NEW u \in Task, NEW n \in Task, DeleteOther(t, u, n)
  PROVE  HostInv'
<1> USE DEF config, making, control, events, DeleteOther, InUser, Executing, Created, Cancels
<1>1. ShapeInv'
  <2>1. current' \in Task \cup {None} /\ pc' \in [Task -> TaskPc]
    BY DEF HostInv, ShapeInv, TaskPc, ExecPc
  <2>2. orphan' \in SUBSET {"critical", "yield"}
    <3>1. \/ orphan' = orphan
          \/ orphan' = orphan \cup {"yield"}
          \/ orphan' = orphan \cup {"critical"}
      OBVIOUS
    <3>2. orphan \in SUBSET {"critical", "yield"}
      BY DEF HostInv, ShapeInv
    <3>3. QED  BY <3>1, <3>2
  <2>3. QED  BY <2>1, <2>2 DEF HostInv, ShapeInv
<1>2. /\ pc[u] \notin {"absent", "new"} /\ pc[t] = "user"
      /\ \A v \in Task : v # u => slot'[v] = slot[v]
      /\ slot'[u] \in {0, slot[u]}
  BY DEF HostInv, ShapeInv, SlotInv
<1>12. SlotInv'
  BY DEF HostInv, ShapeInv, SlotInv
<1>11. HookInv' /\ DistinctInv'
  <2>1. \A v \in Task : /\ pc'[v] \in InHook => pc'[v] = pc[v]
                        /\ pc'[v] \in {"absent", "new"} <=> pc[v] \in {"absent", "new"}
                        /\ pc[v] \in {"absent", "new"} => pc'[v] = pc[v]
    BY <1>2 DEF HostInv, ShapeInv, InHook
  <2>2. UNCHANGED <<hook, overlapped>> /\ \A v \in Task : slot'[v] \in {0, slot[v]}
    BY <1>2
  <2>3. HookInv'
    BY <2>1, <2>2 DEF HostInv, HookInv, InHook
  <2>4. DistinctInv'
    BY <2>1, <2>2 DEF HostInv, DistinctInv, InHook
  <2>5. QED  BY <2>3, <2>4
<1>4. StopInv'
  BY <1>2 DEF used, HostInv, ShapeInv, SlotInv, StopInv
<1>5. SoloInv'
  BY <1>2 DEF used, HostInv, ShapeInv, SlotInv, SoloInv, Told, ExecPc
<1>6. WindowsInv'
  BY <1>2 DEF used, HostInv, ShapeInv, SlotInv, WindowsInv, Told, ExecPc
<1>7. RunInv'
  BY <1>2 DEF used, HostInv, ShapeInv, SlotInv, RunInv, Told, ExecPc
<1>9. InitInv' /\ PosixInv' /\ SuspendInv'
  BY <1>2 DEF used, HostInv, InitInv, PosixInv, SuspendInv
<1>13. /\ u # t /\ pc[t] = "user" /\ suspend[t] = 0 /\ pc[u] \notin {"absent", "new"}
       /\ UNCHANGED <<system, running_ctx, running, waits, signal, by_tick, late, tick>>
       /\ \A v \in Task : v \notin {t, u} => pc'[v] = pc[v]
       /\ pc'[t] \in {"user", "yield", "stuck"}
       /\ used \subseteq Task /\ used' \subseteq used /\ \A v \in used : v # u => v \in used'
       /\ \/ /\ pc'[u] \in {"gone", "cut"} /\ u \notin used'
             /\ current' = n /\ n # u /\ pc[n] \notin {"absent", "new"}
             /\ pc'[t] = (IF n = current THEN "user" ELSE "yield")
             /\ orphan' = {} => orphan = {} /\ (system = "posix" => u \notin used)
          \/ /\ pc'[u] = pc[u] /\ used' = used /\ current' = current
             /\ pc'[t] = "stuck" /\ orphan' # {}
  <2>1. u # t /\ pc[t] = "user" /\ suspend[t] = 0 /\ pc[u] \notin {"absent", "new"}
    BY <1>2
  <2>2. \A v \in Task : v \notin {t, u} => pc'[v] = pc[v]
    BY DEF HostInv, ShapeInv
  <2>3. used \subseteq Task /\ used' \subseteq used /\ \A v \in used : v # u => v \in used'
    BY <1>2 DEF used
  <2>5. CASE pc' = [pc EXCEPT ![t] = "stuck"]
    <3>1. slot' = slot /\ current' = current /\ orphan' # {}
      BY <2>1, <2>5 DEF HostInv, ShapeInv
    <3>2. QED  BY <2>1, <2>2, <2>3, <2>5, <3>1 DEF used, HostInv, ShapeInv
  <2>6. CASE pc' # [pc EXCEPT ![t] = "stuck"]
    <3>1. /\ slot' = [slot EXCEPT ![u] = 0] /\ current' = n
          /\ pc' = [pc EXCEPT ![u] = IF pc[u] = "stopping" THEN "cut" ELSE "gone",
                              ![t] = IF n = current THEN "user" ELSE "yield"]
          /\ orphan' = {} => orphan = {} /\ (system = "posix" => u \notin used)
      BY <2>6
    <3>2. u \notin used'
      BY <3>1 DEF used, HostInv, SlotInv
    <3>3. n # u
      BY <2>1
    <3>4. QED  BY <2>1, <2>2, <2>3, <3>1, <3>2, <3>3 DEF HostInv, ShapeInv, CtxInv
  <2>7. QED  BY <2>5, <2>6
<1> HIDE DEF DeleteOther, InUser, Executing, Created, Cancels
<1>3. CtxInv'
  BY <1>13 DEF HostInv, ShapeInv, CtxInv
<1>8. CurrentInv'
  <2> SUFFICES ASSUME running, orphan' = {}, current' \in used'
               PROVE  \/ running_ctx = current'
                      \/ system = "posix" /\ Told(current)'
                      \/ Yielding'
    BY <1>13 DEF CurrentInv
  <2>1. CASE n # current
    <3>1. pc'[t] = "yield"
      BY <1>13, <2>1
    <3>2. system = "windows" => t = running_ctx
      BY <1>13 DEF HostInv, ShapeInv, SoloInv, WindowsInv, Told, ExecPc
    <3>3. QED  BY <1>13, <3>1, <3>2 DEF Yielding
  <2>2. CASE n = current
    <3>1. current' = current /\ current # u /\ current \in used /\ orphan = {}
      BY <1>13, <2>2
    <3>2. CASE system = "posix" /\ Told(current)
      BY <1>13, <2>2, <3>1, <3>2 DEF Told, ExecPc
    <3>3. CASE Yielding
      <4>1. CASE tick \in {"yield", "pass"}
        BY <1>13, <4>1 DEF Yielding
      <4>2. ASSUME NEW v \in Task, pc[v] \in {"yield", "pass"},
                   system = "windows" => v = running_ctx
            PROVE  Yielding'
        <5>1. system = "windows" => t = running_ctx
          BY <1>13 DEF HostInv, ShapeInv, SoloInv, WindowsInv, Told, ExecPc
        <5>2. v # t /\ system = "posix"
          BY <1>13, <4>2, <5>1 DEF HostInv, ShapeInv
        <5>3. v # u
          BY <1>13, <2>2, <4>2, <5>2 DEF HostInv, CtxInv
        <5>4. QED  BY <1>13, <4>2, <5>2, <5>3 DEF Yielding
      <4>3. QED  BY <3>3, <4>1, <4>2 DEF Yielding
    <3>4. QED  BY <1>13, <3>1, <3>2, <3>3 DEF HostInv, CurrentInv
  <2>3. QED  BY <2>1, <2>2
<1>10. QED
  BY <1>1, <1>2, <1>3, <1>4, <1>5, <1>6, <1>7, <1>8, <1>9, <1>11, <1>12 DEF HostInv

LEMMA TickWakesKeeps ==
  ASSUME HostInv, TickWakes
  PROVE  HostInv'
<1> USE DEF config, making, control, events, TickWakes, TickLoop
<1>1. SlotInv' /\ HookInv' /\ DistinctInv' /\ used' = used /\ used \subseteq Task
  BY HookFrame DEF HostInv, ShapeInv, InHook
<1>2. ShapeInv'
  BY DEF HostInv, ShapeInv, TaskPc, ExecPc
<1>3. SoloInv'
  BY <1>1 DEF HostInv, ShapeInv, CtxInv, StopInv, SoloInv, Told, ExecPc
<1>4. WindowsInv'
  BY <1>1 DEF HostInv, ShapeInv, CtxInv, StopInv, SoloInv, WindowsInv, Told, ExecPc
<1>5. RunInv'
  BY <1>1 DEF HostInv, ShapeInv, CtxInv, RunInv, Told, ExecPc
<1>6. CurrentInv'
  BY <1>1 DEF HostInv, ShapeInv, CurrentInv, Told, Yielding, ExecPc
<1>7. CtxInv'
  BY <1>1 DEF HostInv, ShapeInv, CtxInv, StopInv
<1>8. InitInv' /\ PosixInv' /\ StopInv' /\ SuspendInv'
  BY DEF HostInv, ShapeInv, InitInv, PosixInv, StopInv, SuspendInv
<1>9. QED
  BY <1>1, <1>2, <1>3, <1>4, <1>5, <1>6, <1>7, <1>8 DEF HostInv

LEMMA TickKeeps ==
  ASSUME HostInv, NEW n \in Task, Tick(n)
  PROVE  HostInv'
<1> USE DEF config, making, control, events, Tick, Created
<1>1. SlotInv' /\ HookInv' /\ DistinctInv' /\ used' = used /\ used \subseteq Task
  BY HookFrame DEF HostInv, ShapeInv, InHook
<1>2. ShapeInv'
  BY DEF HostInv, ShapeInv, TaskPc, ExecPc
<1>3. SoloInv'
  BY <1>1 DEF HostInv, ShapeInv, CtxInv, StopInv, SoloInv, Told, ExecPc
<1>4. WindowsInv'
  BY <1>1 DEF HostInv, ShapeInv, CtxInv, StopInv, SoloInv, WindowsInv, Told, ExecPc
<1>5. RunInv'
  BY <1>1 DEF HostInv, ShapeInv, CtxInv, RunInv, Told, ExecPc
<1>6. CurrentInv'
  BY <1>1 DEF HostInv, ShapeInv, CurrentInv, Told, Yielding, ExecPc
<1>7. CtxInv'
  BY <1>1 DEF HostInv, ShapeInv, CtxInv, StopInv
<1>8. InitInv' /\ PosixInv' /\ StopInv' /\ SuspendInv'
  BY DEF HostInv, ShapeInv, InitInv, PosixInv, StopInv, SuspendInv
<1>9. QED
  BY <1>1, <1>2, <1>3, <1>4, <1>5, <1>6, <1>7, <1>8 DEF HostInv

LEMMA TickTestsKeeps ==
  ASSUME HostInv, TickTests
  PROVE  HostInv'
<1> USE DEF config, making, control, events, TickTests
<1>1. SlotInv' /\ HookInv' /\ DistinctInv' /\ used' = used /\ used \subseteq Task
  BY HookFrame DEF HostInv, ShapeInv, InHook
<1>2. ShapeInv'
  BY DEF HostInv, ShapeInv, TaskPc, ExecPc
<1>3. SoloInv'
  BY <1>1 DEF HostInv, ShapeInv, CtxInv, StopInv, SoloInv, Told, ExecPc
<1>4. WindowsInv'
  BY <1>1 DEF HostInv, ShapeInv, CtxInv, StopInv, SoloInv, WindowsInv, Told, ExecPc
<1>5. RunInv'
  BY <1>1 DEF HostInv, ShapeInv, CtxInv, RunInv, Told, ExecPc
<1>6. CurrentInv'
  BY <1>1 DEF HostInv, ShapeInv, CurrentInv, Told, Yielding, ExecPc
<1>7. CtxInv'
  BY <1>1 DEF HostInv, ShapeInv, CtxInv, StopInv
<1>8. InitInv' /\ PosixInv' /\ StopInv' /\ SuspendInv'
  BY DEF HostInv, ShapeInv, InitInv, PosixInv, StopInv, SuspendInv
<1>9. QED
  BY <1>1, <1>2, <1>3, <1>4, <1>5, <1>6, <1>7, <1>8 DEF HostInv

LEMMA TickYieldKeeps ==
  ASSUME HostInv, TickYield
  PROVE  HostInv'
<1> USE DEF config, making, control, events
<1> DEFINE n == Ctx(current)
           moves == n # None /\ n # running_ctx
<1>1. /\ n # None => n = current /\ n \in used /\ n \in Task
      /\ n = None <=> current \notin used
      /\ None \notin Task /\ None \notin used
  BY CtxCases DEF HostInv, ShapeInv
<1>2. /\ tick = "pass" /\ tick' = "sleep"
      /\ moves => running_ctx' = n /\ preempted' = (preempted \/ system = "posix")
      /\ ~moves => UNCHANGED <<running_ctx, signal, by_tick, suspend, preempted>>
      /\ UNCHANGED <<config, making, current, control, pc, waits, orphan>>
  BY DEF TickYield
<1>3. moves /\ system = "posix" => /\ signal' = (signal \ {running_ctx}) \cup {n}
                                   /\ UNCHANGED <<by_tick, suspend>>
  BY DEF TickYield
<1>4. moves /\ system = "windows" =>
        /\ signal' = IF n \in by_tick THEN signal ELSE signal \cup {n}
        /\ by_tick' = (by_tick \ {n}) \cup ({running_ctx} \ {None})
        /\ suspend' = [v \in Task |-> (IF v = n /\ n \in by_tick /\ suspend[v] > 0
                                       THEN suspend[v] - 1 ELSE suspend[v])
                                      + (IF v = running_ctx THEN 1 ELSE 0)]
  BY DEF TickYield, WindowsTickPass, Activated, Activate, Resumes
<1> HIDE DEF n
<1>0. SlotInv' /\ HookInv' /\ DistinctInv' /\ used' = used /\ used \subseteq Task
  BY <1>2, HookFrame
<1>5. system \in {"posix", "windows"} /\ main # "init"
  BY <1>2 DEF HostInv, ShapeInv, InitInv
<1> HIDE DEF moves
<1>6. moves => n # None /\ n # running_ctx
  BY DEF moves
<1>7. ~moves => n = None \/ n = running_ctx
  BY DEF moves
<1>8. moves /\ system = "windows" =>
        /\ suspend'[n] = IF n \in by_tick THEN suspend[n] - 1 ELSE suspend[n]
        /\ running_ctx # None => suspend'[running_ctx] = suspend[running_ctx] + 1
        /\ \A v \in Task : v # n /\ v # running_ctx => suspend'[v] = suspend[v]
  BY <1>1, <1>4, <1>5, <1>6 DEF HostInv, ShapeInv, SuspendInv
<1>9. ShapeInv'
  <2>1. running_ctx' \in Task \cup {None} /\ preempted' \in BOOLEAN
    BY <1>1, <1>2, <1>6 DEF HostInv, ShapeInv
  <2>2. signal' \in SUBSET Task /\ by_tick' \in SUBSET Task
    BY <1>1, <1>2, <1>3, <1>4, <1>5, <1>6 DEF HostInv, ShapeInv
  <2>3. suspend' \in [Task -> Nat]
    BY <1>2, <1>3, <1>4, <1>5 DEF HostInv, ShapeInv
  <2>4. QED  BY <1>2, <2>1, <2>2, <2>3 DEF HostInv, ShapeInv
<1>10. SuspendInv'
  BY <1>0, <1>1, <1>2, <1>3, <1>4, <1>5, <1>6, <1>7, <1>8
     DEF HostInv, ShapeInv, PosixInv, SuspendInv
<1>11. SoloInv'
  BY <1>0, <1>1, <1>2, <1>3, <1>4, <1>5, <1>6, <1>7, <1>8, <1>9
     DEF HostInv, ShapeInv, SoloInv, Told, ExecPc
<1>12. WindowsInv'
  BY <1>0, <1>1, <1>2, <1>3, <1>4, <1>5, <1>6, <1>7, <1>8
     DEF HostInv, ShapeInv, WindowsInv, RunInv, Told
<1>13. RunInv'
  <2> SUFFICES ASSUME running, orphan = {}, running_ctx' \in used, running_ctx' \notin late
               PROVE  Told(running_ctx)' /\ suspend'[running_ctx'] = 0
    BY <1>0, <1>2 DEF RunInv
  <2>1. CASE ~moves
    BY <1>2, <2>1 DEF HostInv, RunInv, Told
  <2>2. CASE moves
    <3>1. running_ctx' = n /\ n = current /\ n \in used /\ n \in Task /\ n \notin late /\ pc'[n] = pc[n]
      BY <1>1, <1>2, <1>6, <2>2
    <3>2. pc[n] \in TaskPc /\ pc[n] \notin {"absent", "new", "none", "gone", "cut", "stuck"}
      BY <3>1 DEF HostInv, ShapeInv, CtxInv
    <3>3. CASE system = "posix"
      <4>1. n \in signal' /\ suspend'[n] = 0
        BY <1>3, <2>2, <3>1, <3>3 DEF HostInv, PosixInv
      <4>2. QED  BY <3>1, <3>2, <4>1 DEF Told, ExecPc, TaskPc
    <3>4. CASE system = "windows"
      <4>1. n \in by_tick => pc[n] \in ExecPc \/ n \in signal
        BY <3>1, <3>4 DEF HostInv, WindowsInv, Told
      <4>2. /\ suspend[n] \in Nat /\ suspend[n] <= (IF n \in by_tick THEN 1 ELSE 0)
            /\ n \in by_tick => suspend[n] >= 1
        BY <1>5, <3>1 DEF HostInv, ShapeInv, SuspendInv
      <4>3. suspend'[n] = 0
        BY <1>8, <2>2, <3>4, <4>2
      <4>4. pc[n] \in ExecPc \/ n \in signal'
        BY <1>4, <2>2, <3>4, <4>1
      <4>5. QED  BY <3>1, <3>2, <4>3, <4>4 DEF Told, ExecPc, TaskPc
    <3>5. QED  BY <1>5, <3>3, <3>4
  <2>3. QED  BY <2>1, <2>2
<1>14. CtxInv' /\ InitInv' /\ PosixInv' /\ StopInv' /\ CurrentInv'
  BY <1>0, <1>1, <1>2, <1>3, <1>4, <1>5, <1>6, <1>7, <1>8
     DEF HostInv, CtxInv, InitInv, PosixInv, StopInv, CurrentInv, Told,
         Yielding
<1>15. QED
  BY <1>0, <1>9, <1>10, <1>11, <1>12, <1>13, <1>14 DEF HostInv

LEMMA StopKeeps ==
  ASSUME HostInv, NEW t \in Task, Stop(t)
  PROVE  HostInv'
<1> USE DEF config, making, control, events, Stop, InUser, Executing
<1>1. SlotInv' /\ HookInv' /\ DistinctInv' /\ used' = used /\ used \subseteq Task
  BY HookFrame DEF HostInv, ShapeInv, InHook
<1>2. ShapeInv'
  BY DEF HostInv, ShapeInv, TaskPc, ExecPc
<1>3. SoloInv'
  BY <1>1 DEF HostInv, ShapeInv, CtxInv, StopInv, SoloInv, Told, ExecPc
<1>4. WindowsInv'
  BY <1>1 DEF HostInv, ShapeInv, CtxInv, StopInv, SoloInv, WindowsInv, Told, ExecPc
<1>5. RunInv'
  BY <1>1 DEF HostInv, ShapeInv, CtxInv, RunInv, Told, ExecPc
<1>6. CurrentInv'
  BY <1>1 DEF HostInv, ShapeInv, CurrentInv, Told, Yielding, ExecPc
<1>7. CtxInv'
  BY <1>1 DEF HostInv, ShapeInv, CtxInv, StopInv
<1>8. InitInv' /\ PosixInv' /\ StopInv' /\ SuspendInv'
  BY DEF HostInv, ShapeInv, InitInv, PosixInv, StopInv, SuspendInv
<1>9. QED
  BY <1>1, <1>2, <1>3, <1>4, <1>5, <1>6, <1>7, <1>8 DEF HostInv

LEMMA StopSignalsKeeps ==
  ASSUME HostInv, NEW t \in Task, StopSignals(t)
  PROVE  HostInv'
<1> USE DEF config, making, control, events, StopSignals, Executing
<1>1. SlotInv' /\ HookInv' /\ DistinctInv' /\ used' = used /\ used \subseteq Task
  BY HookFrame DEF HostInv, ShapeInv, InHook
<1>2. ShapeInv'
  BY <1>1 DEF HostInv, ShapeInv, TaskPc, ExecPc
<1>3. SoloInv'
  BY <1>1 DEF HostInv, ShapeInv, CtxInv, StopInv, SoloInv, Told, ExecPc
<1>4. WindowsInv'
  BY <1>1 DEF HostInv, ShapeInv, CtxInv, StopInv, SoloInv, WindowsInv, Told, ExecPc
<1>5. RunInv'
  BY <1>1 DEF HostInv, ShapeInv, CtxInv, RunInv, Told, ExecPc
<1>6. CurrentInv'
  BY <1>1 DEF HostInv, ShapeInv, CurrentInv, Told, Yielding, ExecPc
<1>7. CtxInv'
  BY <1>1 DEF HostInv, ShapeInv, CtxInv, StopInv
<1>8. InitInv' /\ PosixInv' /\ StopInv' /\ SuspendInv'
  BY DEF HostInv, ShapeInv, InitInv, PosixInv, StopInv, SuspendInv
<1>9. QED
  BY <1>1, <1>2, <1>3, <1>4, <1>5, <1>6, <1>7, <1>8 DEF HostInv

LEMMA MainReturnsKeeps ==
  ASSUME HostInv, MainReturns
  PROVE  HostInv'
<1> USE DEF config, making, control, events, MainReturns
<1>1. SlotInv' /\ HookInv' /\ DistinctInv' /\ used' = used /\ used \subseteq Task
  BY HookFrame DEF HostInv, ShapeInv, InHook
<1>2. ShapeInv'
  BY DEF HostInv, ShapeInv, TaskPc, ExecPc
<1>3. SoloInv'
  BY <1>1 DEF HostInv, ShapeInv, CtxInv, StopInv, SoloInv, Told, ExecPc
<1>4. WindowsInv'
  BY <1>1 DEF HostInv, ShapeInv, CtxInv, StopInv, SoloInv, WindowsInv, Told, ExecPc
<1>5. RunInv'
  BY <1>1 DEF HostInv, ShapeInv, CtxInv, RunInv, Told, ExecPc
<1>6. CurrentInv'
  BY <1>1 DEF HostInv, ShapeInv, CurrentInv, Told, Yielding, ExecPc
<1>7. CtxInv'
  BY <1>1 DEF HostInv, ShapeInv, CtxInv, StopInv
<1>8. InitInv' /\ PosixInv' /\ StopInv' /\ SuspendInv'
  BY DEF HostInv, ShapeInv, InitInv, PosixInv, StopInv, SuspendInv
<1>9. QED
  BY <1>1, <1>2, <1>3, <1>4, <1>5, <1>6, <1>7, <1>8 DEF HostInv

LEMMA MainJoinsKeeps ==
  ASSUME HostInv, MainJoins
  PROVE  HostInv'
<1> USE DEF config, making, control, events, MainJoins
<1>1. SlotInv' /\ HookInv' /\ DistinctInv' /\ used' = used /\ used \subseteq Task
  BY HookFrame DEF HostInv, ShapeInv, InHook
<1>2. ShapeInv'
  BY DEF HostInv, ShapeInv, TaskPc, ExecPc
<1>3. SoloInv'
  BY <1>1 DEF HostInv, ShapeInv, CtxInv, StopInv, SoloInv, Told, ExecPc
<1>4. WindowsInv'
  BY <1>1 DEF HostInv, ShapeInv, CtxInv, StopInv, SoloInv, WindowsInv, Told, ExecPc
<1>5. RunInv'
  BY <1>1 DEF HostInv, ShapeInv, CtxInv, RunInv, Told, ExecPc
<1>6. CurrentInv'
  BY <1>1 DEF HostInv, ShapeInv, CurrentInv, Told, Yielding, ExecPc
<1>7. CtxInv'
  BY <1>1 DEF HostInv, ShapeInv, CtxInv, StopInv
<1>8. InitInv' /\ PosixInv' /\ StopInv' /\ SuspendInv'
  BY DEF HostInv, ShapeInv, InitInv, PosixInv, StopInv, SuspendInv
<1>9. QED
  BY <1>1, <1>2, <1>3, <1>4, <1>5, <1>6, <1>7, <1>8 DEF HostInv

-----------------------------------------------------------------------------
(* The theorems.                                                           *)

LEMMA InitHolds ==
  ASSUME HostInit
  PROVE  HostInv
<1>0. system \in {"posix", "windows"} /\ pool \in Nat \ {0}
  BY HostAssumption DEF HostInit
<1>7. NoHook \in [task : Task \cup {None}, index : 0 .. pool]
  BY <1>0 DEF NoHook
<1>6. SlotInv
  <2>1. slot = [t \in Task |-> 0] /\ hook = [t \in Task |-> NoHook] /\ overlapped = FALSE
    BY DEF HostInit
  <2>2. 0 \in 0 .. pool
    BY <1>0
  <2>3. QED  BY <1>7, <2>1, <2>2 DEF SlotInv
<1> USE DEF HostInit
<1>1. ShapeInv
  BY <1>0 DEF ShapeInv, TaskPc
<1>2. HookInv /\ DistinctInv
  BY DEF HookInv, DistinctInv, InHook
<1>3. CtxInv /\ InitInv /\ PosixInv /\ StopInv
  BY HostAssumption DEF CtxInv, InitInv, PosixInv, StopInv, used
<1>4. SuspendInv /\ SoloInv /\ WindowsInv /\ RunInv /\ CurrentInv
  BY DEF SuspendInv, SoloInv, WindowsInv, RunInv, CurrentInv, Told, ExecPc
<1>5. QED  BY <1>1, <1>2, <1>3, <1>4, <1>6 DEF HostInv

LEMMA NextKeeps ==
  ASSUME HostInv, [HostNext]_vars
  PROVE  HostInv'
<1>1. CASE UNCHANGED vars
  <2> USE <1>1 DEF vars, config, making, control, events
  <2>1. SlotInv' /\ HookInv' /\ DistinctInv' /\ used' = used /\ used \subseteq Task
    BY HookFrame
  <2>2. ShapeInv' /\ CtxInv' /\ InitInv' /\ PosixInv' /\ StopInv' /\ SuspendInv'
    BY <2>1 DEF HostInv, ShapeInv, CtxInv, InitInv, PosixInv, StopInv, SuspendInv
  <2>3. SoloInv' /\ WindowsInv' /\ RunInv' /\ CurrentInv'
    BY <2>1 DEF HostInv, SoloInv, WindowsInv, RunInv, CurrentInv, Told, Yielding
  <2>4. QED  BY <2>1, <2>2, <2>3 DEF HostInv
<1>2. ASSUME NEW t \in Task, PortStep(t)
      PROVE  HostInv'
  BY <1>2, YieldTestsKeeps, PosixYieldKeeps, WindowsYieldKeeps, WakeKeeps, HookClaimsKeeps,
     DeleteSelfKeeps, StopSignalsKeeps
     DEF PortStep
<1>3. ASSUME NEW t \in Task, AppStep(t)
      PROVE  HostInv'
  BY <1>3, EntryReturnsKeeps, StopKeeps, IdleYieldsKeeps, SwitchContextKeeps, HookScansKeeps,
     CreateAddsKeeps, DeleteOtherKeeps
     DEF AppStep
<1>4. CASE TickStep
  BY <1>4, TickWakesKeeps, TickTestsKeeps, TickYieldKeeps, TickKeeps DEF TickStep
<1>5. ASSUME NEW u \in Task, NEW i \in 0 .. pool, CreateBeforeStart(u, i)
      PROVE  HostInv'
  BY <1>5, CreateBeforeStartKeeps
<1>6. QED
  BY <1>1, <1>2, <1>3, <1>4, <1>5, StartFirstTaskKeeps, MainReturnsKeeps, MainJoinsKeeps
     DEF HostNext

\* The invariant of the host ports.
LEMMA HostSafe == HostSpec => []HostInv
<1>1. HostInit /\ [][HostNext]_vars => []HostInv
  BY InitHolds, NextKeeps, PTL
<1>2. HostSpec => HostInit /\ [][HostNext]_vars
  BY PTL DEF HostSpec
<1>3. QED  BY <1>1, <1>2, PTL

\* No step changes the program.
LEMMA BuildStays == HostSpec => []BuildInv
<1>1. HostInit => BuildInv
  BY DEF HostInit, BuildInv
<1>2. ASSUME BuildInv, [HostNext]_vars
      PROVE  BuildInv'
  <2>1. UNCHANGED config
    <3>1. ASSUME NEW t \in Task, PortStep(t)
          PROVE  UNCHANGED config
      BY <3>1 DEF PortStep, YieldTests, PosixYield, WindowsYield, Wake, HookClaims,
                  DeleteSelf, StopSignals
    <3>2. ASSUME NEW t \in Task, AppStep(t)
          PROVE  UNCHANGED config
      BY <3>2 DEF AppStep, EntryReturns, Stop, IdleYields, SwitchContext, HookScans,
                  CreateAdds, DeleteOther
    <3>3. CASE TickStep
      BY <3>3 DEF TickStep, TickWakes, TickTests, TickYield, Tick
    <3>4. QED
      BY <1>2, <3>1, <3>2, <3>3
         DEF HostNext, vars, CreateBeforeStart, StartFirstTask, MainReturns, MainJoins
  <2>2. QED  BY <1>2, <2>1 DEF BuildInv, config
<1>3. QED  BY <1>1, <1>2, PTL DEF HostSpec

-----------------------------------------------------------------------------
\* The state of the host ports keeps its types; in particular no thread is
\* suspended more than twice, and no two tasks share a context of s_task_contexts
\* unless one thread began the unlocked sertos_port_task_create_hook while another
\* was between its scan and its claim.
THEOREM HostTypesOK == HostSpec => []HostTypeOK
<1>1. HostInv /\ BuildInv => HostTypeOK
  <2> SUFFICES ASSUME HostInv, BuildInv PROVE HostTypeOK
    OBVIOUS
  <2>1. suspend \in [Task -> 0 .. 2]
    <3>1. ASSUME NEW t \in Task PROVE suspend[t] \in 0 .. 2
      BY DEF HostInv, ShapeInv, InitInv, SuspendInv
    <3>2. QED  BY <3>1 DEF HostInv, ShapeInv
  <2>2. Shared => overlapped
    BY DEF HostInv, SlotInv, DistinctInv, Shared, used
  <2>3. QED  BY <2>1, <2>2 DEF HostInv, BuildInv, ShapeInv, SlotInv, HostTypeOK, TaskPc, ExecPc
<1>2. QED  BY <1>1, HostSafe, BuildStays, PTL

\* Tasks are simulated one at a time: whatever tasks, the tick thread and the
\* starting thread do, only the thread of s_running_ctx executes, on POSIX
\* until a tick first preempts a thread.
THEOREM OneAtATime == HostSpec => []OneExecutes
<1>1. HostInv => OneExecutes
  BY DEF HostInv, SoloInv, OneExecutes, Executing, Told, ExecPc
<1>2. QED  BY <1>1, HostSafe, PTL

\* No interleaving of the yields of tasks and of the tick thread loses the
\* hand-over: once no yield is half done, the thread of the current task
\* executes or has been told to.
THEOREM HandOverSafe == HostSpec => []HandOver
<1>1. HostInv => HandOver
  <2> SUFFICES ASSUME HostInv, running, orphan = {}, tick \notin {"yield", "pass"},
                      \A t \in Task : pc[t] \notin {"yield", "pass"}, current \in used, current \notin late
               PROVE  \/ Executing(current)
                      \/ suspend[current] = 0 /\ waits[current] \in signal
    BY DEF HandOver
  <2>1. current \in Task /\ waits[current] = current
    BY DEF HostInv, ShapeInv, CtxInv, used
  <2>2. Told(current) /\ suspend[current] = 0
    BY DEF HostInv, CurrentInv, RunInv, PosixInv, ShapeInv, Yielding, used
  <2>3. QED  BY <2>1, <2>2 DEF Told, ExecPc, Executing
<1>2. QED  BY <1>1, HostSafe, PTL
=============================================================================
