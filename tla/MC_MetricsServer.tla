-------------------------- MODULE MC_MetricsServer --------------------------
(* Model-checking instance of MetricsServer: one controller, up to three *)
(* NewServer calls (the third re-registers what the second removed), two  *)
(* increments per counter child and three clock readings.                 *)
EXTENDS MetricsServer

MC_Controllers == {"c1"}
MC_MaxCalls == 3
MC_MaxCount == 2
MC_MaxTime == 2
=============================================================================
