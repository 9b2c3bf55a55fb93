--------------------------- MODULE DroneDetector ---------------------------
(***************************************************************************)
(* The native drone decoder behind the add-on: Addon::observe              *)
(* (drones/addon.hpp) cuts a capture into messages, Detector               *)
(* (drones/detector.cpp) queues them without waiting and its thread hands  *)
(* them to a child process.                                                *)
(*                                                                         *)
(* Three threads: the processing thread offers, the GUI starts and stops,  *)
(* run() analyses.  Device time counts messages; what the decoder finds in *)
(* them is left out.                                                       *)
(***************************************************************************)
EXTENDS Naturals, Sequences

CONSTANTS
  DtQueueLimit,  \* 1 for the native backend, 4 for the other
  DtMessages,    \* the most messages one capture is cut into
  DtMaxTime, DtMaxStarts  \* bounds: device time, calls of start()

ASSUME DetectorAssumption ==
  {DtQueueLimit, DtMessages, DtMaxTime, DtMaxStarts} \subseteq Nat

VARIABLES
  dtRunning, dtQueue, dtGap,  \* running_, queue_, gap_
  dtThread,      \* where run() is
  dtPart,        \* part, the message it works on
  dtPrevious,    \* previous_epoch and expected_time, once have_previous
  dtContinuity,  \* continuity, sent to the child with each message
  dtUi,          \* where start() or stop() is
  dtStarts,
  dtOffer,       \* Addon::observe: the messages left, and where it is
  dtNow,         \* device time of the next sample
  dtEpoch,       \* native_epoch_: moves with every retune and broken capture
  dtBreaks       \* history: everything that ended a contiguous stretch of samples

dtSide == <<dtUi, dtStarts>>
dtScan == <<dtOffer, dtNow, dtEpoch, dtBreaks>>
dtWork == <<dtPart, dtPrevious, dtContinuity>>
dtVars == <<dtRunning, dtQueue, dtGap, dtThread, dtSide, dtScan, dtWork>>

NoMessage == [time |-> 0, epoch |-> <<0, 0>>, breaks |-> 0]

DtInit ==
  /\ dtRunning = FALSE /\ dtQueue = <<>> /\ dtGap = 0
  /\ dtThread = "none" /\ dtPart = NoMessage
  /\ dtPrevious = NoMessage /\ dtContinuity = 0
  /\ dtUi = "free" /\ dtStarts = 0
  /\ dtOffer = [at |-> "idle", left |-> 0] /\ dtNow = 1 /\ dtEpoch = 0 /\ dtBreaks = 0

-----------------------------------------------------------------------------
(* Addon::observe, and submit() for each message *)

\* A healthy capture, perhaps after a pause or on another tuning.
DtObserve ==
  /\ dtOffer.at = "idle" /\ dtRunning
  /\ \E pause \in 0..1, retuned \in BOOLEAN, n \in 1..DtMessages :
       /\ dtNow + pause + n <= DtMaxTime
       /\ dtNow' = dtNow + pause
       /\ dtEpoch' = dtEpoch + (IF retuned THEN 1 ELSE 0)
       /\ dtBreaks' = dtBreaks + (IF pause = 1 \/ retuned THEN 1 ELSE 0)
       /\ dtOffer' = [at |-> "next", left |-> n]
  /\ UNCHANGED <<dtRunning, dtQueue, dtGap, dtThread, dtSide, dtWork>>

\* A capture with a gap, or of another clock, is not offered.
DtUnhealthy ==
  /\ dtOffer.at = "idle" /\ dtRunning
  /\ dtNow < DtMaxTime
  /\ dtEpoch' = dtEpoch + 1 /\ dtNow' = dtNow + 1
  /\ dtBreaks' = dtBreaks + 1
  /\ UNCHANGED <<dtRunning, dtQueue, dtGap, dtThread, dtSide, dtOffer, dtWork>>

\* All messages were offered; samples beyond the limit are omitted.
DtObserved ==
  /\ dtOffer.at = "next" /\ dtOffer.left = 0
  /\ dtOffer' = [at |-> "idle", left |-> 0]
  /\ \E omitted \in 0..1 :
       /\ dtNow' = dtNow + omitted
       /\ dtBreaks' = dtBreaks + omitted
  /\ UNCHANGED <<dtRunning, dtQueue, dtGap, dtThread, dtSide, dtEpoch, dtWork>>

NextMessage == /\ dtNow' = dtNow + 1
               /\ dtOffer' = [at |-> "next", left |-> dtOffer.left - 1]

DtSubmitStopped ==
  /\ dtOffer.at = "next" /\ dtOffer.left > 0
  /\ ~dtRunning
  /\ NextMessage
  /\ dtBreaks' = dtBreaks + 1
  /\ UNCHANGED <<dtRunning, dtQueue, dtGap, dtThread, dtSide, dtEpoch, dtWork>>

DtSubmitRunning ==
  /\ dtOffer.at = "next" /\ dtOffer.left > 0
  /\ dtRunning
  /\ dtOffer' = [dtOffer EXCEPT !.at = "lock"]
  /\ UNCHANGED <<dtRunning, dtQueue, dtGap, dtThread, dtSide, dtNow, dtEpoch, dtBreaks,
                 dtWork>>

\* The mutex is taken or the queue is full.
DtSubmitDropped ==
  /\ dtOffer.at = "lock"
  /\ dtGap' = dtGap + 1
  /\ NextMessage
  /\ dtBreaks' = dtBreaks + 1
  /\ UNCHANGED <<dtRunning, dtQueue, dtThread, dtSide, dtEpoch, dtWork>>

DtSubmitQueued ==
  /\ dtOffer.at = "lock"
  /\ Len(dtQueue) < DtQueueLimit
  /\ dtQueue' = Append(dtQueue, [time |-> dtNow, epoch |-> <<dtEpoch, dtGap>>,
                                 breaks |-> dtBreaks])
  /\ NextMessage
  /\ UNCHANGED <<dtRunning, dtGap, dtThread, dtSide, dtEpoch, dtBreaks, dtWork>>

-----------------------------------------------------------------------------
(* start() and stop() *)

DtStop ==
  /\ dtUi = "free"
  /\ \/ dtUi' = "stop" /\ UNCHANGED dtStarts
     \/ dtStarts < DtMaxStarts /\ dtUi' = "restart" /\ dtStarts' = dtStarts + 1
  /\ dtRunning' = FALSE
  /\ UNCHANGED <<dtQueue, dtGap, dtThread, dtScan, dtWork>>

\* The thread is joined and the queue drained; start() goes on.
DtJoined ==
  /\ dtUi \in {"stop", "restart"} /\ dtThread \in {"none", "exit"}
  /\ dtQueue' = <<>>
  /\ dtThread' = "none"
  /\ dtUi' = IF dtUi = "stop" THEN "free" ELSE "start"
  /\ UNCHANGED <<dtRunning, dtGap, dtStarts, dtScan, dtWork>>

DtStart ==
  /\ dtUi = "start"
  /\ dtQueue' = <<>> /\ dtGap' = 0 /\ dtRunning' = TRUE
  /\ dtThread' = "starting"
  /\ dtPart' = NoMessage /\ dtPrevious' = NoMessage /\ dtContinuity' = 0
  /\ dtUi' = "free"
  /\ UNCHANGED <<dtStarts, dtScan>>

-----------------------------------------------------------------------------
(* run() *)

DtReady ==
  /\ dtThread = "starting"
  /\ dtThread' = "loop"
  /\ UNCHANGED <<dtRunning, dtQueue, dtGap, dtSide, dtScan, dtWork>>

\* Defect: the thread looks at running_ only when it has a message.
DtTakeOnly ==
  /\ dtThread = "loop" /\ dtQueue # <<>>
  /\ dtPart' = Head(dtQueue) /\ dtQueue' = Tail(dtQueue)
  /\ dtThread' = IF dtRunning THEN "send" ELSE "ending"
  /\ UNCHANGED <<dtRunning, dtGap, dtSide, dtScan, dtPrevious, dtContinuity>>

\* The wait ends every 100 ms at the latest, so no notification is needed.
DtTake ==
  /\ dtThread = "loop"
  /\ IF ~dtRunning
       THEN dtThread' = "ending" /\ UNCHANGED <<dtPart, dtQueue>>
       ELSE /\ dtQueue # <<>>
            /\ dtPart' = Head(dtQueue) /\ dtQueue' = Tail(dtQueue)
            /\ dtThread' = "send"
  /\ UNCHANGED <<dtRunning, dtGap, dtSide, dtScan, dtPrevious, dtContinuity>>

\* Defect: only the epoch is compared, not the device time.
DiscontinuityByEpoch ==
  /\ dtPrevious # NoMessage
  /\ dtPrevious.epoch # dtPart.epoch

Discontinuity ==
  /\ dtPrevious # NoMessage
  /\ dtPrevious.epoch # dtPart.epoch \/ dtPart.time # dtPrevious.time + 1

DtAnalyse ==
  /\ dtThread = "send"
  /\ dtContinuity' = dtContinuity + (IF Discontinuity THEN 1 ELSE 0)
  /\ dtPrevious' = dtPart
  /\ dtPart' = NoMessage
  /\ dtThread' = "loop"
  /\ UNCHANGED <<dtRunning, dtQueue, dtGap, dtSide, dtScan>>

\* The child is lost or silent; running_ makes a transfer give up too.
DtFails ==
  /\ dtThread \in {"starting", "send"}
  /\ dtThread' = "ending"
  /\ UNCHANGED <<dtRunning, dtQueue, dtGap, dtSide, dtScan, dtWork>>

DtEnds ==
  /\ dtThread = "ending"
  /\ dtRunning' = FALSE
  /\ dtPart' = NoMessage /\ dtPrevious' = NoMessage /\ dtContinuity' = 0
  /\ dtThread' = "exit"
  /\ UNCHANGED <<dtQueue, dtGap, dtSide, dtScan>>

-----------------------------------------------------------------------------
DtOfferStep == DtObserved \/ DtSubmitStopped \/ DtSubmitRunning \/ DtSubmitDropped
               \/ DtSubmitQueued
DtUiStep == DtJoined \/ DtStart
DtThreadStep == DtReady \/ DtTake \/ DtAnalyse \/ DtFails \/ DtEnds

DtNext == DtObserve \/ DtUnhealthy \/ DtStop \/ DtOfferStep \/ DtUiStep \/ DtThreadStep

\* Every wait of run() has a time limit, and threads run.
DtFairness == WF_dtVars(DtThreadStep) /\ WF_dtVars(DtUiStep)

-----------------------------------------------------------------------------
(* Properties *)

\* The child keeps its filters from one message to the next as long as the number
\* of continuity stays.  Between two messages it joins so, nothing was dropped,
\* omitted or broken, and the tuning stayed.
DtJoinsUnbroken ==
  [][ /\ NoMessage \notin {dtPrevious, dtPrevious'}
      /\ dtContinuity' = dtContinuity
      => dtPrevious'.breaks = dtPrevious.breaks ]_dtVars

\* start() and stop() return whatever the child does.
DtStops == dtUi # "free" ~> dtUi = "free"
=============================================================================
