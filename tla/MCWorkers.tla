----------------------------- MODULE MCWorkers ------------------------------
(* The workers beside the scan thread and the radio thread of the test bench, for
   TLC: they share nothing here, so one of them moves and the others are never
   started. *)
EXTENDS ShadowWorker, MlInference, DroneDetector, BenchRadio

VARIABLE moves

MCInit ==
  /\ moves \in {"shadow", "ml", "drones", "bench"}
  /\ SwInit /\ MlInit /\ DtInit /\ BrInit
  /\ moves # "bench" => brSide = "rx"

MCNext ==
  \/ moves = "shadow" /\ SwNext /\ UNCHANGED <<moves, mlVars, dtVars, brVars>>
  \/ moves = "ml" /\ MlNext /\ UNCHANGED <<moves, swVars, dtVars, brVars>>
  \/ moves = "drones" /\ DtNext /\ UNCHANGED <<moves, swVars, mlVars, brVars>>
  \/ moves = "bench" /\ BrNext /\ UNCHANGED <<moves, swVars, mlVars, dtVars>>

\* Of a worker that does not move no step is enabled: it was never started.
MCSpec ==
  /\ MCInit /\ [][MCNext]_<<moves, swVars, mlVars, dtVars, brVars>>
  /\ SwFairness /\ MlFairness /\ DtFairness /\ BrFairness
=============================================================================
