------------------------- MODULE SertosStreamBuffer -------------------------
(***************************************************************************)
(* Stream buffers: bytes for one sending and one receiving task.  A send   *)
(* blocks only on a full buffer and writes what fits; a receive blocks     *)
(* below the trigger level and reads what is there.                        *)
(***************************************************************************)
EXTENDS SertosBuffer

CONSTANTS Writer, Reader   \* the two tasks that use the stream buffer

ASSUME StreamAssumption == {Writer, Reader} \subseteq Task

\* Task t makes a call of the stream buffer.
StreamEnter(t, c) ==
    /\ kind = "stream"
    /\ c.op # "peek"
    /\ c.op = "send" => t = Writer
    /\ c.op = "receive" => t = Reader
    /\ Enter(t, c)

\* Task t is at the first test of call c, or its wait for c is over and the
\* handle still valid.
StreamTest(t, c, op, status) ==
    /\ kind = "stream"
    /\ c.op = op
    /\ Calling(t, c) \/ (Waited(t, c) /\ alive /\ wait_list_status(t) \in status)

\* ring_buffer_write and ring_buffer_read move what fits and what is there.
\* The caller t is told how many, or gets them.
write_bytes(t, s) ==
    LET n == Min({Len(s), free})
    IN  data' = data \o SubSeq(s, 1, n) /\ Answers(t, SubSeq(s, 1, n))

read_bytes(t, max) ==
    LET n == Min({max, Len(data)})
    IN  data' = SubSeq(data, n + 1, Len(data)) /\ Answers(t, SubSeq(data, 1, n))

\* A mutant: the trigger level is compared with what was there before.
WriteNotifiesEarly == IF Len(data) >= trigger THEN wait_recv ELSE None

\* Who is told of bytes written and of bytes read, judged by what is there
\* afterwards.
WriteNotifies == IF Len(data') >= trigger THEN wait_recv ELSE None
ReadNotifies == IF data' # data THEN wait_send ELSE None

\* sertos_stream_buffer_send finds room, or has to wait for it.
StreamSend(t, c) ==
    /\ StreamTest(t, c, "send", {"OK"})
    /\ free > 0
    /\ write_bytes(t, c.bytes)
    /\ EndCall(t, WriteNotifies)
    /\ excused' = (excused \/ (WriteNotifies # None /\ Overlooked(wait_recv)))
    /\ UNCHANGED <<kind, trigger, alive>>

StreamSendWaits(t, c) == StreamTest(t, c, "send", {"OK"}) /\ free = 0 /\ GoToWait(t, c)

\* sertos_stream_buffer_receive reads at the trigger level, without a wait,
\* or when its wait timed out: then it takes what there is.
StreamReceive(t, c) ==
    /\ StreamTest(t, c, "receive", {"OK", "TIMEOUT"})
    /\ \/ Len(data) >= trigger
       \/ c.timeout = 0
       \/ pc[t] = "wait_return" /\ wait_list_status(t) = "TIMEOUT"
    /\ read_bytes(t, c.max)
    /\ EndCall(t, ReadNotifies)
    /\ excused' = (excused \/ (ReadNotifies # None /\ Overlooked(wait_send)))
    /\ UNCHANGED <<kind, trigger, alive>>

StreamReceiveWaits(t, c) ==
    StreamTest(t, c, "receive", {"OK"}) /\ Len(data) < trigger /\ GoToWait(t, c)

\* A call returns 0: a send that finds no room and may not wait or is told
\* TIMEOUT, and any call that waited and finds the buffer deleted.
StreamFails(t, c) ==
    /\ kind = "stream"
    /\ \/ StreamTest(t, c, "send", {"OK"}) /\ free = 0 /\ c.timeout = 0
       \/ Waited(t, c) /\ c.op = "send" /\ wait_list_status(t) = "TIMEOUT"
       \/ Waited(t, c) /\ ~alive
    /\ Answers(t, <<>>)
    /\ EndCall(t, None)
    /\ UNCHANGED <<kind, data, trigger, alive, excused>>

\* sertos_stream_buffer_send_from_isr, sertos_stream_buffer_receive_from_isr.
StreamSendFromIsr(s) ==
    /\ kind = "stream"
    /\ free > 0
    /\ write_bytes(None, s)
    /\ NotifyFromIsr("send_from_isr", WriteNotifies)

StreamReceiveFromIsr(n) ==
    /\ kind = "stream"
    /\ data # <<>>
    /\ read_bytes(None, n)
    /\ NotifyFromIsr("receive_from_isr", ReadNotifies)

\* sertos_stream_buffer_set_trigger_level; a level of 0 stands for 1.
SetTriggerLevel(t, n) ==
    LET w == IF Len(data) >= n THEN wait_recv ELSE None
    IN  /\ kind = "stream"
        /\ Calling(t, Control("set_trigger_level"))
        /\ trigger' = n
        /\ Answers(t, <<>>)
        /\ EndCall(t, w)
        /\ excused' = (excused \/ (w # None /\ Overlooked(w)))
        /\ UNCHANGED <<kind, data, alive>>

\* sertos_stream_buffer_reset empties the buffer and wakes every sender.
StreamReset(t) ==
    /\ kind = "stream"
    /\ Calling(t, Control("reset"))
    /\ data' = <<>>
    /\ WakeLists(t, {wait_send}, "event")
    /\ Answers(t, <<>>)
    /\ excused' = (excused \/ Overlooked(wait_send))
    /\ UNCHANGED <<kind, trigger, alive>>

StreamDelete(t) == kind = "stream" /\ Delete(t)

StreamCreate(t, n) == kind = "stream" /\ CreateAgain(t) /\ trigger' = n

StreamNext ==
    \/ \E n \in Lengths : StreamReceiveFromIsr(n)
    \/ \E c \in SendCall : c.timeout = 0 /\ StreamSendFromIsr(c.bytes)
    \/ \E t \in Task :
        \/ AtUser(t) /\ \E c \in SendCall \cup RecvCall \cup ControlCall : StreamEnter(t, c)
        \/ StreamReset(t) \/ StreamDelete(t)
        \/ \E n \in 1 .. StreamCapacity : SetTriggerLevel(t, n) \/ StreamCreate(t, n)
        \/ \E c \in CallsOf(t) :
            \/ StreamSend(t, c) \/ StreamSendWaits(t, c)
            \/ StreamReceive(t, c) \/ StreamReceiveWaits(t, c)
            \/ StreamFails(t, c)
=============================================================================
