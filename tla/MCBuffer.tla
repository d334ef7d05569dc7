------------------------------ MODULE MCBuffer ------------------------------
(* A message queue or a stream buffer, for TLC.                            *)
EXTENDS SertosBuffers

CONSTANTS a, b, c

\* Two peers and a task of higher priority.
PeersAndHigh == [t \in Task |-> IF t = Idle THEN 0 ELSE IF t = c THEN 2 ELSE 1]

\* The bytes are only copied: they may be exchanged.
Bytes == Permutations(Datum)

\* The answer is never read: states that differ in it only are one, and every
\* step is checked against the abstract buffer before it is forgotten.
WithoutAnswer == <<vars, kind, data, trigger, alive, entry, call, excused>>
=============================================================================
