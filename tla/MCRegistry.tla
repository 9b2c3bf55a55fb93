----------------------------- MODULE MCRegistry -----------------------------
(* Instances of Registry for TLC: two buckets, energy and confirmed modulations,
   and two fingerprints. *)
EXTENDS Registry

Detected(k, c, p, f) == [key |-> k, confirmed |-> c, power |-> p, feature |-> f]

MCDetections == {Detected(1, FALSE, 3, 0), Detected(1, TRUE, 1, 0), Detected(1, TRUE, 2, 0),
                 Detected(2, FALSE, 1, 0), Detected(1, FALSE, 2, 4), Detected(2, FALSE, 2, 9)}
=============================================================================
