-------------------------------- MODULE MCTask --------------------------------
(* Instances of SertosTask for TLC.                                        *)
EXTENDS SertosTask

CONSTANTS a, b, c

\* Two peers and a task of higher priority.
PeersAndHigh == [t \in Task |-> IF t = Idle THEN 0 ELSE IF t = c THEN 2 ELSE 1]

\* The peers may be exchanged.
Peers == Permutations({a, b})

\* The clock, and what only the clock's properties read, are left out of the
\* states that TLC tells apart.
WithoutClock ==
    <<k, current, is_running, lock_vars, pendsv, isr, scan, need_reschedule, pc, life_vars>>
=============================================================================
