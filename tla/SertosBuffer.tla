---------------------------- MODULE SertosBuffer ----------------------------
(***************************************************************************)
(* What message queues and stream buffers have in common: a ring buffer    *)
(* with a list of tasks that wait to send and one of tasks that wait to    *)
(* receive.  The scheduler's two wait lists are those of one such object.  *)
(*                                                                         *)
(* A service tests the magic word with interrupts enabled and then enters  *)
(* its critical section: a task that is past the test goes on with a       *)
(* buffer that was deleted in between (statically allocated: the storage   *)
(* is still there).  A blocking call tests the ring buffer in one critical *)
(* section and blocks in another, that of wait_list_block.  In both gaps   *)
(* its task has its pc at "user", with an entry in the first and a call    *)
(* under way in the second.  A call that is woken tests the ring buffer    *)
(* again.                                                                  *)
(***************************************************************************)
EXTENDS SertosScheduler

CONSTANTS
    wait_send, wait_recv,  \* the two wait lists
    Kinds,                 \* which objects: a subset of {"queue", "stream"}
    ItemSize, MaxItems,    \* the arguments of sertos_queue_create
    BufferSize,            \* buffer_size of sertos_stream_buffer_create
    Datum,                 \* what an item, or a byte of a stream, may be
    StreamLengths,         \* the lengths of the calls of a stream buffer
    BufferCalls            \* the calls the application makes: a subset of BufferApi

BufferApi == {"send", "receive", "peek", "send_from_isr", "receive_from_isr",
              "reset", "set_trigger_level", "delete", "create"}

ASSUME BufferAssumption ==
    /\ wait_send # wait_recv /\ WaitList = {wait_send, wait_recv}
    /\ Kinds \subseteq {"queue", "stream"}
    /\ {ItemSize, MaxItems, BufferSize} \cup StreamLengths \subseteq Nat \ {0}
    /\ BufferCalls \subseteq BufferApi

VARIABLES
    kind,      \* which of the two objects this one is
    data,      \* what the ring buffer holds, the oldest first
    trigger,   \* trigger_level_bytes
    alive,     \* the magic word is there
    entry,     \* the call a task has made: past the magic test, before the
               \* critical section
    call,      \* the blocking call a task is in, from its first test to its end
    answer,    \* what the last call that ended returned, and to whom; None is
               \* a handler
    excused    \* history: a wake-up was lost in one of the ways named below

buffer_vars == <<kind, data, trigger, alive, entry, call, answer, excused>>
all_vars == <<vars, buffer_vars>>

(***************************************************************************)
(* Sizes.  One slot of the ring buffer stays empty.                        *)
(***************************************************************************)
next_power_of_two(value) ==
    LET p[n \in Nat] == IF n < value THEN p[2 * n] ELSE n IN p[2]

ring_buffer_capacity(size) == size - 1

\* In items for a queue, in bytes for a stream buffer.
QueueCapacity ==
    ring_buffer_capacity(next_power_of_two(ItemSize * MaxItems + 1)) \div ItemSize

StreamCapacity == ring_buffer_capacity(next_power_of_two(BufferSize + 1))

Capacity == IF kind = "queue" THEN QueueCapacity ELSE StreamCapacity

free == Capacity - Len(data)

\* A call with no arguments that matter here; and the absence of one.
Control(op) == [op |-> op, bytes |-> <<>>, max |-> 0, timeout |-> 0]
NoCall == Control("none")

\* The arguments of a call: what to send or how much to receive, and the
\* timeout, where 0 is SERTOS_NO_WAIT.
Lengths == IF kind = "queue" THEN {1} ELSE StreamLengths

Sends(L) == [op : {"send"}, bytes : UNION {[1 .. n -> Datum] : n \in L},
             max : {0}, timeout : 0 .. Forever]

Receives(L) == [op : {"receive", "peek"}, bytes : {<<>>}, max : L, timeout : 0 .. Forever]

SendCall == Sends(Lengths)
RecvCall == Receives(Lengths)
ControlCall == {Control(op) : op \in {"reset", "set_trigger_level", "delete"}}

\* Every call of a queue or of a stream buffer.
AnyCall == Sends({1} \cup StreamLengths) \cup Receives({1} \cup StreamLengths) \cup ControlCall

\* The call task t is in, from the magic test to its end.
CallsOf(t) == {entry[t], call[t]} \ {NoCall}

\* Every variable stays in its type, and the ring buffer never holds more
\* than its capacity, though a sender waits between its test and its write.
BufferTypeOK ==
    /\ TypeOK
    /\ kind \in Kinds
    /\ data \in Seq(Datum) /\ Len(data) <= Capacity
    /\ trigger \in 1 .. Capacity
    /\ alive \in BOOLEAN
    /\ \A t \in Task : /\ entry[t] \in {NoCall} \cup SendCall \cup RecvCall \cup ControlCall
                       /\ call[t] \in {NoCall} \cup SendCall \cup RecvCall
                       /\ entry[t] = NoCall \/ call[t] = NoCall
    /\ answer \in [to : Task \cup {None}, bytes : Seq(Datum)]
    /\ excused \in BOOLEAN

\* main creates the buffer before it starts the scheduler.
BufferInit ==
    /\ Init
    /\ kind \in Kinds
    /\ data = <<>>
    /\ trigger \in 1 .. (IF kind = "queue" THEN 1 ELSE StreamCapacity)
    /\ alive = TRUE
    /\ entry = [t \in Task |-> NoCall]
    /\ call = [t \in Task |-> NoCall]
    /\ answer = [to |-> None, bytes |-> <<>>]
    /\ excused = FALSE

-----------------------------------------------------------------------------
(* The shape of a blocking call.                                           *)

\* Task t is in the application and makes call c, which finds the magic word.
Enter(t, c) ==
    /\ c.op \in BufferCalls
    /\ AtUser(t)
    /\ CallsOf(t) = {}
    /\ alive
    /\ entry' = [entry EXCEPT ![t] = c]
    /\ UNCHANGED <<vars, kind, data, trigger, alive, call, answer, excused>>

\* Task t comes to the critical section of call c, whatever became of the
\* buffer since the magic test.
Calling(t, c) == AtUser(t) /\ entry[t] = c

\* The wait of call c has come to its end.
Waited(t, c) == Executing(t) /\ pc[t] = "wait_return" /\ call[t] = c

WaitSide(c) == IF c.op = "send" THEN wait_send ELSE wait_recv

\* A task is between the test and the wait, or was woken and has yet to test.
InGap(t, w) == call[t] # NoCall /\ pc[t] = "user" /\ WaitSide(call[t]) = w
OnWay(w) == {t \in Task : call[t] # NoCall /\ WaitSide(call[t]) = w /\ woken[t] = "event"}

\* The call of t, or a handler for None, returns with s: the elements that were
\* sent, received or looked at, none when the call failed.
Answers(t, s) == answer' = [to |-> t, bytes |-> s]

LeaveEntry(t) == entry' = [entry EXCEPT ![t] = NoCall]

\* The test failed and the caller is ready to wait.
GoToWait(t, c) ==
    /\ c.timeout > 0
    /\ MayBlock
    /\ LeaveEntry(t)
    /\ call' = [call EXCEPT ![t] = c]
    /\ timeout' = [timeout EXCEPT ![t] = 0]
    /\ woken' = [woken EXCEPT ![t] = "no"]
    /\ Goto(t, "user")
    /\ UNCHANGED <<k, current, is_running, lock_vars, pendsv, tick_vars, deadline,
                   kind, data, trigger, alive, answer, excused>>

\* The caller blocks, whatever happened to the buffer since the test.
Block(t) ==
    /\ Executing(t)
    /\ pc[t] = "user"
    /\ call[t] # NoCall
    /\ WaitListBlock(t, WaitSide(call[t]), call[t].timeout)
    /\ UNCHANGED <<current, is_running, lock_vars, pendsv, tick_vars, buffer_vars>>

\* A wake-up of list w is lost when a task is about to join the list.
Overlooked(w) == \E x \in Task : InGap(x, w)

\* A mutant: the task that was woken does not preempt its waker.
EndCallNoPreempt(t, w) ==
    LET u == IF w = None THEN None ELSE highest_waiter(k, w)
    IN  /\ k' = IF u = None THEN k ELSE unblock_highest(k, w)
        /\ woken' = [x \in Task |-> IF x = u THEN "event" ELSE IF x = t THEN "no" ELSE woken[x]]
        /\ deadline' = [x \in Task |-> IF x = u THEN 0 ELSE deadline[x]]
        /\ timeout' = [timeout EXCEPT ![t] = 0]
        /\ LeaveEntry(t)
        /\ call' = [call EXCEPT ![t] = NoCall]
        /\ Goto(t, "user")
        /\ UNCHANGED <<current, is_running, lock_vars, pendsv, tick_vars>>

\* The call of t ends; the first waiter of w is woken, if w is a list and has
\* one, and may preempt the caller.
EndCall(t, w) ==
    LET u == IF w = None THEN None ELSE highest_waiter(k, w)
    IN  /\ k' = IF u = None THEN k ELSE unblock_highest(k, w)
        /\ woken' = [x \in Task |-> IF x = u THEN "event" ELSE IF x = t THEN "no" ELSE woken[x]]
        /\ deadline' = [x \in Task |-> IF x = u THEN 0 ELSE deadline[x]]
        /\ timeout' = [timeout EXCEPT ![t] = 0]
        /\ LeaveEntry(t)
        /\ call' = [call EXCEPT ![t] = NoCall]
        /\ Goto(t, IF u = None THEN "user" ELSE "reschedule")
        /\ UNCHANGED <<current, is_running, lock_vars, pendsv, tick_vars>>

\* The services for interrupts: the first waiter of w, if w is a list, is
\* woken, and the handler switches when it is told of a higher priority.
NotifyFromIsr(op, w) ==
    LET u == IF w = None THEN None ELSE highest_waiter(k, w)
        r == IF u = None THEN k ELSE unblock_highest(k, w)
    IN  /\ op \in BufferCalls
        /\ Interruptible
        /\ alive
        /\ k' = r
        /\ RecordEvent(u)
        /\ IF u # None /\ k.priority[u] > k.priority[current]
           THEN switch_context(r)
           ELSE UNCHANGED <<reschedule_pending, pendsv>>
        /\ excused' = (excused \/ (w # None /\ Overlooked(w)))
        /\ UNCHANGED <<current, is_running, lock_nesting, tick_vars, pc, timeout,
                       kind, trigger, alive, entry, call>>

\* Every waiter of the lists W is woken, and the call of t ends.
WakeLists(t, W, why) ==
    LET woke == UNION {ToSet(k.waiters[w]) : w \in W}
    IN  /\ k' = IF wait_recv \in W
                THEN unblock_all(unblock_all(k, wait_send), wait_recv)
                ELSE unblock_all(k, wait_send)
        /\ woken' = [u \in Task |-> IF u \in woke THEN why ELSE woken[u]]
        /\ deadline' = [u \in Task |-> IF u \in woke THEN 0 ELSE deadline[u]]
        /\ LeaveEntry(t)
        /\ Goto(t, "reschedule")
        /\ UNCHANGED <<current, is_running, lock_vars, pendsv, tick_vars, timeout, call>>

\* sertos_queue_delete and sertos_stream_buffer_delete.
Delete(t) ==
    /\ Calling(t, Control("delete"))
    /\ alive' = FALSE
    /\ WakeLists(t, {wait_send, wait_recv}, "deleted")
    /\ Answers(t, <<>>)
    /\ UNCHANGED <<kind, data, trigger, excused>>

\* The application creates a buffer again that nobody uses.
CreateAgain(t) ==
    /\ "create" \in BufferCalls
    /\ AtUser(t)
    /\ ~alive
    /\ \A u \in Task : CallsOf(u) = {}
    /\ alive' = TRUE
    /\ data' = <<>>
    /\ UNCHANGED <<vars, kind, entry, call, answer, excused>>

BufferStep ==
    \/ SystemStep /\ UNCHANGED buffer_vars
    \/ \E t \in Task :
        \/ KernelStep(t) /\ UNCHANGED buffer_vars
        \/ CallsOf(t) = {} /\ CallStep(t) /\ UNCHANGED buffer_vars
        \/ Block(t)

-----------------------------------------------------------------------------
(***************************************************************************)
(* Safety.                                                                 *)
(***************************************************************************)

Abstract ==
    INSTANCE Fifo WITH
        Client <- Task, NoClient <- None, Request <- AnyCall, NoRequest <- NoCall,
        room <- Capacity, contents <- data,
        request <- [t \in Task |-> IF entry[t] # NoCall THEN entry[t] ELSE call[t]],
        waiting <- {t \in Task : call[t] # NoCall}

\* A queue or stream buffer is a bounded FIFO.  Every send, receive and peek,
\* of a task or of an interrupt, takes effect once, in one step between the
\* magic test and its return, and returns what that step did: the elements
\* that went in at the end, came out of the front or were looked at there, as
\* many as fit or are there, up to what the caller asked for.  Nothing else
\* changes the contents but a reset and the next creation.  So nothing is
\* lost, duplicated, reordered or written over, through preemption between
\* magic test, test and wait, wake-ups that find the buffer changed again,
\* timeouts, interrupts and a deletion under the feet of those in a call.
BufferImplements == Abstract!FSpec

\* What a waiting receiver, a waiting sender could get.
Receivable ==
    IF kind = "queue" THEN Len(data) ELSE IF Len(data) >= trigger THEN 1 ELSE 0

Sendable == IF kind = "queue" THEN free ELSE IF free > 0 THEN 1 ELSE 0

\* No wake-up is lost, but for the ways excused names: as long as a task waits
\* to receive, everything there is to receive is spoken for by tasks that were
\* woken and have yet to look, and likewise for senders.  In particular a
\* sender and a receiver never wait for each other.
NoLostWakeup ==
    alive /\ ~excused =>
        /\ k.waiters[wait_recv] # <<>> => Receivable <= Cardinality(OnWay(wait_recv))
        /\ k.waiters[wait_send] # <<>> => Sendable <= Cardinality(OnWay(wait_send))

\* After the wake-ups of sends, receives, resets and deletions the head of the
\* highest ready queue executes and the lists agree.
BufferScheduling == HighestPriorityRuns /\ NoFault /\ ListsConsistent
=============================================================================
