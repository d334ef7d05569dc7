----------------------------- MODULE SertosQueue -----------------------------
(***************************************************************************)
(* Message queues.  An item goes in and out whole: the tests of            *)
(* queue_free_bytes and ring_buffer_count against item_size are tests for  *)
(* a free slot and for an item.                                            *)
(***************************************************************************)
EXTENDS SertosBuffer

CONSTANTS Senders, Receivers   \* the tasks that send and that receive

ASSUME QueueAssumption == Senders \cup Receivers \subseteq Task

\* Task t makes a call of the queue.
QueueEnter(t, c) ==
    /\ kind = "queue"
    /\ c.op # "set_trigger_level"
    /\ c.op = "send" => t \in Senders
    /\ c.op \in {"receive", "peek"} => t \in Receivers
    /\ Enter(t, c)

\* Task t is at the first test of call c, or its wait for c returned OK, and it
\* looks at the queue.  A queue that was deleted meanwhile is looked at all the
\* same.
QueueTest(t, c, op) ==
    /\ kind = "queue"
    /\ c.op = op
    /\ Calling(t, c) \/ (Waited(t, c) /\ wait_list_status(t) = "OK")

\* A mutant: the newest item goes before the others.
QueueSendLifo(t, c) ==
    /\ QueueTest(t, c, "send")
    /\ free > 0
    /\ data' = c.bytes \o data
    /\ Answers(t, c.bytes)
    /\ EndCall(t, wait_recv)
    /\ excused' = (excused \/ Overlooked(wait_recv))
    /\ UNCHANGED <<kind, trigger, alive>>

\* A mutant: a sender that was woken does not test again.
QueueSendTestsOnce(t, c) ==
    /\ QueueTest(t, c, "send")
    /\ free > 0 \/ pc[t] = "wait_return"
    /\ data' = Append(data, c.bytes[1])
    /\ Answers(t, c.bytes)
    /\ EndCall(t, wait_recv)
    /\ excused' = (excused \/ Overlooked(wait_recv))
    /\ UNCHANGED <<kind, trigger, alive>>

\* sertos_queue_send finds a free slot, or has to wait for one.
QueueSend(t, c) ==
    /\ QueueTest(t, c, "send")
    /\ free > 0
    /\ data' = data \o c.bytes
    /\ Answers(t, c.bytes)
    /\ EndCall(t, wait_recv)
    /\ excused' = (excused \/ Overlooked(wait_recv))
    /\ UNCHANGED <<kind, trigger, alive>>

QueueSendWaits(t, c) == QueueTest(t, c, "send") /\ free = 0 /\ GoToWait(t, c)

\* sertos_queue_receive finds an item, or has to wait for one.
QueueReceive(t, c) ==
    /\ QueueTest(t, c, "receive")
    /\ data # <<>>
    /\ data' = Tail(data)
    /\ Answers(t, <<Head(data)>>)
    /\ EndCall(t, wait_send)
    /\ excused' = (excused \/ Overlooked(wait_send))
    /\ UNCHANGED <<kind, trigger, alive>>

QueueReceiveWaits(t, c) == QueueTest(t, c, "receive") /\ data = <<>> /\ GoToWait(t, c)

\* sertos_queue_peek waits as receive does, leaves the item and wakes nobody:
\* excused, when the wake-up it used up was meant for a receiver.
QueuePeek(t, c) ==
    /\ QueueTest(t, c, "peek")
    /\ data # <<>>
    /\ Answers(t, <<Head(data)>>)
    /\ EndCall(t, None)
    /\ excused' = (excused \/ woken[t] = "event")
    /\ UNCHANGED <<kind, data, trigger, alive>>

QueuePeekWaits(t, c) == QueueTest(t, c, "peek") /\ data = <<>> /\ GoToWait(t, c)

\* There is no slot or no item for a call with SERTOS_NO_WAIT.
QueueRefused(t, c) ==
    /\ c.timeout = 0
    /\ \/ QueueTest(t, c, "send") /\ free = 0
       \/ \E op \in {"receive", "peek"} : QueueTest(t, c, op) /\ data = <<>>

\* The call returns TIMEOUT: that, or what wait_list_block told it; excused,
\* when it was an event that ended the wait.
QueueTimeout(t, c) ==
    /\ kind = "queue"
    /\ QueueRefused(t, c) \/ (Waited(t, c) /\ wait_list_status(t) = "TIMEOUT")
    /\ Answers(t, <<>>)
    /\ EndCall(t, None)
    /\ excused' = (excused \/ woken[t] = "event")
    /\ UNCHANGED <<kind, data, trigger, alive>>

\* sertos_queue_send_from_isr, sertos_queue_receive_from_isr.
QueueSendFromIsr(d) ==
    /\ kind = "queue"
    /\ free > 0
    /\ data' = Append(data, d)
    /\ Answers(None, <<d>>)
    /\ NotifyFromIsr("send_from_isr", wait_recv)

QueueReceiveFromIsr ==
    /\ kind = "queue"
    /\ data # <<>>
    /\ data' = Tail(data)
    /\ Answers(None, <<Head(data)>>)
    /\ NotifyFromIsr("receive_from_isr", wait_send)

\* sertos_queue_reset empties the queue and wakes no sender: excused.
QueueReset(t) ==
    /\ kind = "queue"
    /\ Calling(t, Control("reset"))
    /\ data' = <<>>
    /\ LeaveEntry(t)
    /\ Answers(t, <<>>)
    /\ excused' = (excused \/ k.waiters[wait_send] # <<>> \/ Overlooked(wait_send))
    /\ UNCHANGED <<vars, kind, trigger, alive, call>>

QueueDelete(t) == kind = "queue" /\ Delete(t)

QueueCreate(t) == kind = "queue" /\ CreateAgain(t) /\ UNCHANGED trigger

QueueNext ==
    \/ QueueReceiveFromIsr
    \/ \E d \in Datum : QueueSendFromIsr(d)
    \/ \E t \in Task :
        \/ AtUser(t) /\ \E c \in SendCall \cup RecvCall \cup ControlCall : QueueEnter(t, c)
        \/ QueueReset(t) \/ QueueDelete(t) \/ QueueCreate(t)
        \/ \E c \in CallsOf(t) :
            \/ QueueSend(t, c) \/ QueueSendWaits(t, c)
            \/ QueueReceive(t, c) \/ QueueReceiveWaits(t, c)
            \/ QueuePeek(t, c) \/ QueuePeekWaits(t, c)
            \/ QueueTimeout(t, c)
=============================================================================
