----------------------------- MODULE MCScanner -----------------------------
(* Instances of Scanner for TLC. *)
EXTENDS Scanner

MCSteps == [m \in {"sub", "locked", "2g4", "2g4_fixed", "both", "coordinated"} |->
              CASE m \in {"locked", "coordinated"} -> 0
                [] m = "2g4" -> 2
                [] OTHER -> 1]

Budget(s, l, m, r, v) == [steps |-> s, listens |-> l, modes |-> m, runs |-> r, saves |-> v]

MCBudgets ==
  {Budget(3, 0, 0, 1, 0), Budget(2, 0, 1, 1, 0), Budget(1, 1, 1, 1, 0), Budget(0, 2, 1, 1, 1),
   Budget(1, 1, 0, 2, 0), Budget(0, 1, 2, 1, 0)}

StallBudgets == {Budget(3, 0, 0, 1, 0)}
=============================================================================
