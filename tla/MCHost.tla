-------------------------------- MODULE MCHost --------------------------------
(* The host ports: the smallest programs in which two threads can be in the   *)
(* hook of a creation at once (Windows), and in which one task of three gets  *)
(* no context.                                                                *)
EXTENDS SertosHost
CONSTANTS a, b, c, d

MCBuilds ==
    {[system |-> "posix", pool |-> 2, tasks |-> {a, b, c}],
     [system |-> "posix", pool |-> 3, tasks |-> {a, b, c}],
     [system |-> "windows", pool |-> 2, tasks |-> {a, b, c}],
     [system |-> "windows", pool |-> 3, tasks |-> {a, b, c, d}]}
=============================================================================
