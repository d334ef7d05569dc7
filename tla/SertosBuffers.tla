---------------------------- MODULE SertosBuffers ----------------------------
(***************************************************************************)
(* One ring buffer with its waiters, a message queue or a stream buffer,   *)
(* with the scheduler below it: the specification of the two.              *)
(***************************************************************************)
EXTENDS SertosQueue, SertosStreamBuffer

BufferNext ==
    \/ BufferStep
    \/ kind = "queue" /\ QueueNext
    \/ kind = "stream" /\ StreamNext

BufferSpec == BufferInit /\ [][BufferNext]_all_vars
=============================================================================
