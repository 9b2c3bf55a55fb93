--------------------------- MODULE OrderedWorker ---------------------------
(***************************************************************************)
(* What a caller of SerialLane may rely on, with the mutex, the condition  *)
(* variables and the worker's program counter left out: jobs are accepted  *)
(* into an order, started one at a time in that order, completed before    *)
(* the next one starts, and none is abandoned by closing.                  *)
(***************************************************************************)
EXTENDS Naturals, Sequences

CONSTANT Job

VARIABLES
  accepted,   \* jobs in the order they were accepted
  started,    \* jobs in the order they were started
  completed,  \* how many of them have run and been destroyed
  phase       \* "open" until the owner closes, "stopped" once drained

vars == <<accepted, started, completed, phase>>

Init ==
  /\ accepted = <<>>
  /\ started = <<>>
  /\ completed = 0
  /\ phase = "open"

Accept(j) ==
  /\ phase = "open"
  /\ accepted' = Append(accepted, j)
  /\ UNCHANGED <<started, completed, phase>>

Start ==
  /\ completed = Len(started)
  /\ Len(started) < Len(accepted)
  /\ started' = Append(started, accepted[Len(started) + 1])
  /\ UNCHANGED <<accepted, completed, phase>>

Complete ==
  /\ completed < Len(started)
  /\ completed' = completed + 1
  /\ UNCHANGED <<accepted, started, phase>>

Close ==
  /\ phase = "open"
  /\ phase' = "closing"
  /\ UNCHANGED <<accepted, started, completed>>

\* The worker stops only when nothing accepted is left to do.
Stop ==
  /\ phase = "closing"
  /\ completed = Len(accepted)
  /\ phase' = "stopped"
  /\ UNCHANGED <<accepted, started, completed>>

Next ==
  \/ \E j \in Job : Accept(j)
  \/ Start
  \/ Complete
  \/ Close
  \/ Stop

\* Jobs that are accepted get done, and a closed worker stops.
Fairness == WF_vars(Start) /\ WF_vars(Complete) /\ WF_vars(Stop)

Safety == Init /\ [][Next]_vars
Spec == Safety /\ Fairness
=============================================================================
