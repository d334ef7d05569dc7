------------------------------- MODULE MCTimer -------------------------------
(* Instances of SertosTimer for TLC.                                       *)
EXTENDS SertosTimer

CONSTANTS x, y, z, a

\* The one-shot timers may be exchanged.
OneShots == Permutations({x, y})

\* What can still matter: of a deadline its distance from the tick count, and
\* nothing of the countdown of a timer that the walk cannot come to, or of the
\* period of one that a task would have to create again first.
WithoutClock ==
    <<callbacks, active_timers, is_active, alive, call, stage, curr, next, todo, raced,
      severed, fault,
      [t \in Timer |-> IF is_active[t] THEN (due[t] - now) % TickMod ELSE 0],
      [t \in Timer |-> IF is_active[t] \/ severed THEN remaining_ticks[t] ELSE 0],
      [t \in Timer |-> IF alive[t] \/ is_active[t] \/ \E c \in Caller : call[c].timer = t
                       THEN period_ticks[t] ELSE 0]>>
=============================================================================
