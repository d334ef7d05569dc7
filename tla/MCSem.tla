-------------------------------- MODULE MCSem --------------------------------
(* Instances of SertosSem for TLC.                                         *)
EXTENDS SertosSem

CONSTANTS a, b, c

\* Two peers and a task of higher priority.
PeersAndHigh == [t \in Task |-> IF t = Idle THEN 0 ELSE IF t = c THEN 2 ELSE 1]

\* The peers may be exchanged.
Peers == Permutations({a, b})
=============================================================================
