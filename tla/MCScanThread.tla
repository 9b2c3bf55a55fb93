---------------------------- MODULE MCScanThread ----------------------------
(* The scan thread, for TLC: it is in run() or in run_coordinated(), never in
   both, so one of the two modules moves. *)
EXTENDS MCScanner, Coordinated

-----------------------------------------------------------------------------
(* Coordinated *)

Slot(k, n, p) == [kind |-> k, enabled |-> TRUE, size |-> n, perCycle |-> p]
Off(k, n, p) == [Slot(k, n, p) EXCEPT !.enabled = FALSE]

MCSchedules == << <<Slot("wifi", 3, 4), Slot("sub", 1, 1)>>,
                  <<Off("wifi", 1, 1), Slot("sub", 3, 2)>> >>
MCEmitter == <<1, 0>>
MCDroneOnly == {MCEmitter}

-----------------------------------------------------------------------------
VARIABLE moves

MCInit ==
  /\ moves \in {"run", "run_coordinated"}
  /\ Init /\ CoInit
  /\ moves = "run" \/ (active = "sub" /\ pipeline)

MCNext ==
  \/ moves = "run" /\ Next /\ UNCHANGED <<moves, coVars>>
  \/ moves = "run_coordinated" /\ CoNext /\ UNCHANGED <<moves, vars>>

\* Of a thread that does not move no step is enabled: the scanner is never started.
MCSpec == MCInit /\ [][MCNext]_<<moves, vars, coVars>> /\ Fairness
=============================================================================
