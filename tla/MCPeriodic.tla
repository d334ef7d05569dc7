----------------------------- MODULE MCPeriodic -----------------------------
(* Periodic tasks among peers, for TLC.                                    *)
EXTENDS SertosPeriodic

\* Every task but the idle task has the same priority.
PeersOnly == [t \in Task |-> IF t = Idle THEN 0 ELSE 1]
=============================================================================
