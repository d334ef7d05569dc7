------------------------------- MODULE MCMutex -------------------------------
(* Instances of SertosMutex for TLC.                                       *)
EXTENDS SertosMutex

CONSTANTS a, b, c

\* Three tasks, each of a priority of its own.
Three == [t \in Task |-> IF t = Idle THEN 0 ELSE IF t = a THEN 1 ELSE IF t = b THEN 2 ELSE 3]

\* The tick counter and the deadlines, which no step of a mutex depends on, do
\* not tell states apart.
WithoutClock ==
    <<k, current, is_running, lock_vars, pendsv, isr, scan, need_reschedule, pc, timeout, woken,
      mutex_vars>>
=============================================================================
