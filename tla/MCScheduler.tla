----------------------------- MODULE MCScheduler -----------------------------
(* Instances of SertosScheduler for TLC.                                   *)
EXTENDS SertosScheduler

CONSTANTS a, b, c

\* Two peers and a task of higher priority.
PeersAndHigh == [t \in Task |-> IF t = Idle THEN 0 ELSE IF t = c THEN 2 ELSE 1]

\* Peers only.
PeersOnly == [t \in Task |-> IF t = Idle THEN 0 ELSE 1]

\* The peers may be exchanged.
Peers == Permutations({a, b})

AllCalls == {"create", "yield", "delay", "lock", "wait", "signal", "isr_signal", "stop"}
EventCalls == {"delay", "wait", "signal", "isr_signal", "yield"}
=============================================================================
