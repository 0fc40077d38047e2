---------------------------- MODULE MCSidEnvelope ----------------------------
(* Five levels with a divider of two near the bottom; a rate counter of eleven      *)
(* positions, the fastest rate being the code's: nine cycles, longer than the       *)
(* pipelines, so that an attack never steps again before its peak has taken effect. *)
EXTENDS SidEnvelope

MCNewPeriod == [e \in 0..Top |-> IF e \in {0, Top} THEN 1 ELSE IF e = 2 THEN 2 ELSE 0]
=============================================================================
