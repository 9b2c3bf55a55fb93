---------------------------- MODULE LoraSecurity ----------------------------
(***************************************************************************)
(* The evidence monitor of the LoRa captures (security/lora_security.cpp): *)
(* the scan thread submits one batch per capture and channel, a consumer   *)
(* thread takes them in and keeps the receiver's timeline.                 *)
(*                                                                         *)
(* A batch is reduced to its device time.  Time counts from 1 in units in  *)
(* which the shortest capture lasts one.  capture_seq only rises on this   *)
(* path, so the duplicates of a replay are left out; so are the recording  *)
(* file and the exposure per receiver profile.                             *)
(***************************************************************************)
EXTENDS Naturals, Sequences, FiniteSets

CONSTANTS
  LsCapacity,   \* queue_capacity_
  LsCentres,    \* channels derived from one wideband capture
  LsMaxTime, LsMaxSessions, LsMaxSteps, LsMaxStarts
                \* bounds: time, radio sessions, steps back of the clock, start()

ASSUME LoraSecurityAssumption ==
  /\ LsCapacity \in Nat \ {0} /\ LsCentres \in Nat \ {0}
  /\ {LsMaxTime, LsMaxSessions, LsMaxSteps, LsMaxStarts} \subseteq Nat

VARIABLES
  lsMode,      \* "off", "on", "stopping": running_ and stopping_
  lsQueue, lsLoss, lsShown,   \* queue_, loss_, published_
  lsRound,     \* what run() took: the batches (at most one), the loss, done
  lsCounts,    \* captures, rejected_inputs, input_loss, time_regressions
  lsContext,   \* session_ends_ and session_starts_ of the latest session
  lsDead,      \* dead_s
  lsVisit,     \* the capture whose channels the scan thread is submitting
  lsNow, lsSession, lsBack,   \* true time, radio session, clock steps back
  lsStarts,
  lsSubmitted, lsSampled, lsHeard  \* history: batches, times sampled, times taken in

lsMonitor == <<lsShown, lsRound, lsCounts, lsContext, lsDead, lsHeard>>
lsRadio == <<lsVisit, lsNow, lsSession, lsBack, lsSubmitted, lsSampled>>
lsVars == <<lsMode, lsQueue, lsLoss, lsMonitor, lsRadio, lsStarts>>

LsIdle == [batches |-> <<>>, loss |-> 0, done |-> FALSE, at |-> "none"]
\* No end is known of the session: nothing came, or it was forgotten.
LsNoContext == [session |-> 0, end |-> 0, known |-> FALSE, start |-> 0, centres |-> {}]
LsNoCapture == [session |-> 0, start |-> 0, length |-> 0, skew |-> 0,
                kind |-> "whole", centre |-> 0]
LsZero == [captures |-> 0, rejected |-> 0, lost |-> 0, regressions |-> 0]

LsInit ==
  /\ lsMode = "off" /\ lsQueue = <<>> /\ lsLoss = 0 /\ lsShown = LsZero
  /\ lsRound = LsIdle /\ lsCounts = LsZero /\ lsContext = LsNoContext
  /\ lsDead = 0 /\ lsVisit = LsNoCapture
  /\ lsNow = 1 /\ lsSession = 1 /\ lsBack = 0 /\ lsStarts = 0
  /\ lsSubmitted = 0 /\ lsSampled = {} /\ lsHeard = {}

-----------------------------------------------------------------------------
(* The radio and the scan thread *)

\* A capture after a pause; its device time may lag behind the true time.
LsCapture ==
  /\ lsMode = "on" /\ lsVisit.centre = 0
  /\ \E pause \in 0..1, length \in 1..2, kind \in {"whole", "broken", "untimed"} :
       /\ lsNow + pause + length <= LsMaxTime
       /\ lsNow' = lsNow + pause + length
       /\ lsVisit' = [session |-> lsSession, start |-> lsNow + pause, length |-> length,
                      skew |-> lsBack, kind |-> kind, centre |-> LsCentres]
       /\ lsSampled' = lsSampled \cup (lsNow + pause)..(lsNow + pause + length - 1)
  /\ UNCHANGED <<lsMode, lsQueue, lsLoss, lsMonitor, lsSession, lsBack, lsStarts, lsSubmitted>>

\* The radio's clock is set back within the session.
LsClockBack ==
  /\ lsMode = "on" /\ lsVisit.centre = 0 /\ lsBack < LsMaxSteps
  /\ lsBack' = lsBack + 1
  /\ UNCHANGED <<lsMode, lsQueue, lsLoss, lsMonitor, lsVisit, lsNow, lsSession, lsStarts,
                 lsSubmitted, lsSampled>>

\* A reconnection is a new radio session; its clock need not agree with the old one.
LsReconnect ==
  /\ lsMode = "on" /\ lsVisit.centre = 0 /\ lsSession < LsMaxSessions
  /\ lsSession' = lsSession + 1
  /\ UNCHANGED <<lsMode, lsQueue, lsLoss, lsMonitor, lsVisit, lsNow, lsBack, lsStarts,
                 lsSubmitted, lsSampled>>

\* Defect: what a full queue refuses is not counted.
LsSubmitUncounted ==
  /\ lsVisit.centre > 0
  /\ lsVisit' = [lsVisit EXCEPT !.centre = @ - 1]
  /\ lsSubmitted' = lsSubmitted + 1
  /\ lsQueue' = IF Len(lsQueue) >= LsCapacity THEN lsQueue ELSE Append(lsQueue, lsVisit)
  /\ UNCHANGED <<lsMode, lsLoss, lsMonitor, lsNow, lsSession, lsBack, lsStarts, lsSampled>>

\* submit() of the batch of one channel: queued, or counted and left out.
LsSubmit ==
  /\ lsVisit.centre > 0
  /\ lsVisit' = [lsVisit EXCEPT !.centre = @ - 1]
  /\ lsSubmitted' = lsSubmitted + 1
  /\ IF lsMode # "on" \/ Len(lsQueue) >= LsCapacity
     THEN lsLoss' = lsLoss + 1 /\ UNCHANGED lsQueue
     ELSE lsQueue' = Append(lsQueue, lsVisit) /\ UNCHANGED lsLoss
  /\ UNCHANGED <<lsMode, lsMonitor, lsNow, lsSession, lsBack, lsStarts, lsSampled>>

LsStart ==
  /\ lsMode = "off" /\ lsStarts < LsMaxStarts
  /\ lsMode' = "on" /\ lsStarts' = lsStarts + 1
  /\ lsRound' = [LsIdle EXCEPT !.at = "wait"]
  /\ UNCHANGED <<lsQueue, lsLoss, lsShown, lsCounts, lsContext, lsDead, lsHeard, lsRadio>>

\* stop(), called once the scan thread is joined.
LsStop ==
  /\ lsMode = "on" /\ lsVisit.centre = 0
  /\ lsMode' = "stopping"
  /\ UNCHANGED <<lsQueue, lsLoss, lsMonitor, lsRadio, lsStarts>>

LsStopped ==
  /\ lsMode = "stopping" /\ lsRound.at = "none"
  /\ lsMode' = "off"
  /\ UNCHANGED <<lsQueue, lsLoss, lsMonitor, lsRadio, lsStarts>>

-----------------------------------------------------------------------------
(* run(), the consumer *)

LsOldest == IF lsQueue = <<>> THEN <<>> ELSE <<Head(lsQueue)>>

\* Defect: the consumer ends with batches still queued.
LsTakeLast ==
  /\ lsRound.at = "wait"
  /\ lsMode = "stopping" \/ lsQueue # <<>> \/ lsLoss > 0
  /\ lsRound' = [batches |-> LsOldest, loss |-> lsLoss,
                 done |-> lsMode = "stopping", at |-> "loss"]
  /\ lsQueue' = IF lsQueue = <<>> THEN <<>> ELSE Tail(lsQueue)
  /\ lsLoss' = 0
  /\ UNCHANGED <<lsMode, lsShown, lsCounts, lsContext, lsDead, lsHeard, lsRadio, lsStarts>>

\* The whole loss is taken with the oldest batch.
LsTake ==
  /\ lsRound.at = "wait"
  /\ lsMode = "stopping" \/ lsQueue # <<>> \/ lsLoss > 0
  /\ LET rest == IF lsQueue = <<>> THEN <<>> ELSE Tail(lsQueue) IN
       /\ lsRound' = [batches |-> LsOldest, loss |-> lsLoss,
                      done |-> lsMode = "stopping" /\ rest = <<>>, at |-> "loss"]
       /\ lsQueue' = rest
  /\ lsLoss' = 0
  /\ UNCHANGED <<lsMode, lsShown, lsCounts, lsContext, lsDead, lsHeard, lsRadio, lsStarts>>

\* note_loss: what was lost may lie in any gap, so no end is known any more.
LsNoteLoss ==
  /\ lsRound.at = "loss"
  /\ lsRound' = [lsRound EXCEPT !.at = "ingest"]
  /\ IF lsRound.loss = 0 THEN UNCHANGED <<lsCounts, lsContext>>
     ELSE /\ lsCounts' = [lsCounts EXCEPT !.lost = @ + lsRound.loss]
          /\ lsContext' = LsNoContext
  /\ UNCHANGED <<lsMode, lsQueue, lsLoss, lsShown, lsDead, lsHeard, lsRadio, lsStarts>>

LsDeviceTime(c) == c.start - c.skew
LsEnd(c) == LsDeviceTime(c) + c.length

\* Defect: every capture is taken as one of its own.
LsNoSibling(c) == FALSE

\* Another channel of the wideband capture the session started last.
LsSibling(c) ==
  /\ lsContext.session = c.session /\ lsContext.start = LsDeviceTime(c)
  /\ c.centre \notin lsContext.centres

\* Device time ran backwards since the capture before.
LsRegressed(c) ==
  /\ c.kind # "untimed" /\ lsContext.session = c.session /\ ~LsSibling(c)
  /\ lsContext.known /\ LsDeviceTime(c) < lsContext.end

\* Unsampled time before c; none is known after a broken capture.
LsGapBefore(c) ==
  IF c.kind # "untimed" /\ lsContext.session = c.session /\ ~LsSibling(c)
     /\ lsContext.known /\ LsDeviceTime(c) >= lsContext.end
  THEN LsDeviceTime(c) - lsContext.end ELSE 0

\* Defect: a capture without device time leaves the session's end in place.
LsContextKept(c) ==
  IF c.kind = "untimed" THEN lsContext
  ELSE [session |-> c.session, end |-> LsEnd(c), known |-> c.kind # "broken",
        start |-> LsDeviceTime(c), centres |-> {c.centre}]

\* A sibling neither repairs its capture's gap nor shortens its end.
LsContextAfter(c) ==
  IF c.kind = "untimed" THEN (IF lsContext.session = c.session THEN LsNoContext ELSE lsContext)
  ELSE IF LsSibling(c)
  THEN [lsContext EXCEPT !.centres = @ \cup {c.centre},
                         !.known = @ /\ c.kind # "broken",
                         !.end = IF @ < LsEnd(c) THEN LsEnd(c) ELSE @]
  ELSE [session |-> c.session, end |-> LsEnd(c), known |-> c.kind # "broken",
        start |-> LsDeviceTime(c), centres |-> {c.centre}]

\* State::ingest.
LsIngest ==
  /\ lsRound.at = "ingest" /\ lsRound.batches # <<>>
  /\ LET c == Head(lsRound.batches) IN
       /\ lsCounts' = [lsCounts EXCEPT !.captures = @ + 1,
                                       !.regressions = @ + (IF LsRegressed(c) THEN 1 ELSE 0)]
       /\ lsDead' = lsDead + LsGapBefore(c)
       /\ lsContext' = LsContextAfter(c)
       /\ lsHeard' = lsHeard \cup c.start..(c.start + c.length - 1)
  /\ lsRound' = [lsRound EXCEPT !.at = "publish"]
  /\ UNCHANGED <<lsMode, lsQueue, lsLoss, lsShown, lsRadio, lsStarts>>

\* validate() throws: note_rejected.
LsReject ==
  /\ lsRound.at = "ingest" /\ lsRound.batches # <<>>
  /\ lsCounts' = [lsCounts EXCEPT !.rejected = @ + 1]
  /\ lsContext' = LsNoContext
  /\ lsRound' = [lsRound EXCEPT !.at = "publish"]
  /\ UNCHANGED <<lsMode, lsQueue, lsLoss, lsShown, lsDead, lsHeard, lsRadio, lsStarts>>

LsOnlyLoss ==
  /\ lsRound.at = "ingest" /\ lsRound.batches = <<>>
  /\ lsRound' = [lsRound EXCEPT !.at = "publish"]
  /\ UNCHANGED <<lsMode, lsQueue, lsLoss, lsShown, lsCounts, lsContext, lsDead, lsHeard,
                 lsRadio, lsStarts>>

LsPublish ==
  /\ lsRound.at = "publish"
  /\ lsShown' = lsCounts
  /\ lsRound' = [LsIdle EXCEPT !.at = IF lsRound.done THEN "none" ELSE "wait"]
  /\ UNCHANGED <<lsMode, lsQueue, lsLoss, lsCounts, lsContext, lsDead, lsHeard, lsRadio, lsStarts>>

LsConsume == LsTake \/ LsNoteLoss \/ LsIngest \/ LsReject \/ LsOnlyLoss \/ LsPublish

LsNext ==
  \/ LsCapture \/ LsClockBack \/ LsReconnect \/ LsSubmit
  \/ LsStart \/ LsStop \/ LsStopped \/ LsConsume

LsSpec == LsInit /\ [][LsNext]_lsVars

-----------------------------------------------------------------------------
(* Properties *)

\* Every batch the scan thread submitted is taken in, rejected, counted as
\* lost or on its way, once; and once stop() returned, the last snapshot
\* shows them all (submit and run, lora_security.cpp:226-258).
LsAccounted ==
  LET counted == lsCounts.captures + lsCounts.rejected + lsCounts.lost
      loss == IF lsRound.at = "loss" THEN lsRound.loss ELSE 0
      held == IF lsRound.at \in {"loss", "ingest"} THEN Len(lsRound.batches) ELSE 0 IN
  /\ lsSubmitted = counted + loss + held + Len(lsQueue) + lsLoss
  /\ lsMode = "off" => /\ lsQueue = <<>>
                       /\ lsSubmitted = lsShown.captures + lsShown.rejected + lsShown.lost

\* The timeline is never better or worse than the truth: the unsampled time
\* it reports is no more than the time no capture it took in covers, and it
\* reports a step back of the clock only if there was one (State::ingest,
\* with the channels of one wideband capture, broken captures and captures
\* without device time in any order, lora_security.cpp:158-180).
LsTimelineTrue ==
  /\ lsDead <= Cardinality((1..lsNow - 1) \ lsHeard)
  /\ lsCounts.regressions > 0 => lsBack > 0

\* The coverage shown can be relied on: batches and time are accounted for.
LsCoverageTrue == LsAccounted /\ LsTimelineTrue

\* "Unsampled time: Device time between captures that was never sampled"
\* (lora_gui.cpp:239).  Loss is noted before the older batches still queued,
\* so a lost capture's time can be reported as never sampled.
LsNeverSampled == lsDead <= Cardinality((1..lsNow - 1) \ lsSampled)
=============================================================================
