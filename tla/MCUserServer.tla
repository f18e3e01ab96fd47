--------------------------- MODULE MCUserServer ---------------------------
(***************************************************************************)
(* Model-checking instance of UserServer: three process slots, the real   *)
(* 30 s ceiling in milliseconds, and runs that either fail at once or last *)
(* 20 s (so that a failure after a short sleep counts as consecutive and  *)
(* one after a long sleep does not).                                       *)
(***************************************************************************)
EXTENDS UserServer, TLC

MCPids == {"p1", "p2", "p3"}
MCMaxSleepTime == 30000
MCRunDurations == {0, 20000}

=============================================================================
