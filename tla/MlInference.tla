---------------------------- MODULE MlInference ----------------------------
(***************************************************************************)
(* The optional model inference (src/ml_inference.cpp): start, stop,       *)
(* invalidate, observe and the thread run() with its child process.        *)
(*                                                                         *)
(* The processing thread observes captures and never waits; the GUI thread *)
(* starts, stops and invalidates; run() takes the one pending job and has  *)
(* the child classify its intervals.  Some of the flags are atomics stored *)
(* with the mutex not held, so each such store is a step.  A capture is    *)
(* its source and when it was observed; models, spectra and scores are     *)
(* left out, and a history entry is dropped when it stops being current.   *)
(***************************************************************************)
EXTENDS Naturals, Sequences

CONSTANTS
  Sources, NoSource,  \* source_key of a capture, and the cleared key
  MaxObserved, MaxInvalidated, MaxStarts  \* bounds on the calls

ASSUME MlAssumption ==
  /\ NoSource \notin Sources
  /\ {MaxObserved, MaxInvalidated, MaxStarts} \subseteq Nat

VARIABLES
  mlEnabled, mlReady, mlGen,  \* enabled_, ready_, generation_: atomics
  mlQueued, mlPending,  \* queued_, pending_
  mlKey,                \* source_key_
  mlHistory,            \* state_.history, the entries with current set
  mlRun,                \* where run() is
  mlWorking,            \* working_, and the intervals it has left
  mlObserve,            \* where observe() is
  mlUi,                 \* where the GUI's call is
  mlGaps,               \* history: broken captures observed so far
  mlInvalid,            \* history: invalidate() called and returned
  mlSpent               \* captures, invalidations and starts so far

mlState == <<mlQueued, mlPending, mlKey, mlHistory>>
mlAtomics == <<mlEnabled, mlReady, mlGen>>
mlVars == <<mlState, mlAtomics, mlRun, mlWorking, mlObserve, mlUi, mlGaps, mlInvalid,
            mlSpent>>

NoCaptureSeen == [source |-> NoSource, gaps |-> 0, called |-> 0]
NoJob == [gen |-> 0, of |-> NoCaptureSeen, left |-> 0]
NotObserving == [at |-> "idle", gen |-> 0, of |-> NoCaptureSeen]

MlInit ==
  /\ mlEnabled = FALSE /\ mlReady = FALSE /\ mlGen = 0
  /\ mlQueued = FALSE /\ mlPending = NoJob /\ mlKey = NoSource /\ mlHistory = {}
  /\ mlRun = "none" /\ mlWorking = NoJob
  /\ mlObserve = NotObserving /\ mlUi = "free"
  /\ mlGaps = 0 /\ mlInvalid = [called |-> 0, returned |-> 0]
  /\ mlSpent = [observed |-> 0, starts |-> 0]

-----------------------------------------------------------------------------
\* The mutex is held across a step by observe() while it copies the samples and
\* by run() between the test of its predicate and its sleep.
MlMutexFree == mlObserve.at # "copy" /\ mlRun # "blocking"

\* wake_.notify_one / notify_all
MlWoken == IF mlRun = "asleep" THEN "check" ELSE mlRun

(* observe() *)

Observe ==
  /\ mlObserve.at = "idle"
  /\ mlSpent.observed < MaxObserved
  /\ mlSpent' = [mlSpent EXCEPT !.observed = @ + 1]
  /\ mlEnabled /\ mlReady
  /\ \/ \E source \in Sources :
          mlObserve' = [at |-> "lock", gen |-> mlGen,
            of |-> [source |-> source, gaps |-> mlGaps, called |-> mlInvalid.called]]
        /\ UNCHANGED <<mlGen, mlGaps>>
     \/ /\ mlGen' = mlGen + 1  \* a broken capture
        /\ mlGaps' = mlGaps + 1
        /\ UNCHANGED mlObserve
  /\ UNCHANGED <<mlState, mlEnabled, mlReady, mlRun, mlWorking, mlUi, mlInvalid>>

\* The mutex is taken, the generation has moved, a job is pending or the last one
\* was less than half a second ago: the capture is dropped.
ObserveDropped ==
  /\ mlObserve.at = "lock"
  /\ mlObserve' = NotObserving
  /\ UNCHANGED <<mlState, mlAtomics, mlRun, mlWorking, mlUi, mlGaps, mlInvalid, mlSpent>>

\* Defect: a new source clears what is shown, not what is being worked on.
ForgetHistoryOnly(changed) ==
  /\ UNCHANGED mlGen
  /\ IF changed THEN mlQueued' = FALSE /\ mlHistory' = {}
                ELSE UNCHANGED <<mlQueued, mlHistory>>

\* A new source makes everything older stale, whether this capture is kept or not.
ForgetOld(changed) ==
  IF changed THEN mlGen' = mlGen + 1 /\ mlQueued' = FALSE /\ mlHistory' = {}
             ELSE UNCHANGED <<mlGen, mlQueued, mlHistory>>

ObserveChecked ==
  /\ mlObserve.at = "lock" /\ MlMutexFree
  /\ mlEnabled /\ mlReady /\ mlObserve.gen = mlGen
  /\ LET changed == mlObserve.of.source # mlKey IN
       /\ mlKey' = mlObserve.of.source
       /\ ForgetOld(changed)
       /\ IF mlQueued /\ ~changed THEN mlObserve' = NotObserving
                                  ELSE mlObserve' = [mlObserve EXCEPT !.at = "copy"]
  /\ UNCHANGED <<mlPending, mlEnabled, mlReady, mlRun, mlWorking, mlUi, mlGaps,
                 mlInvalid, mlSpent>>

\* Defect: the job is queued and nobody is told.
ObserveQueuedSilently ==
  /\ mlObserve.at = "copy"
  /\ mlPending' = [gen |-> mlGen, of |-> mlObserve.of, left |-> 1]
  /\ mlQueued' = TRUE
  /\ mlObserve' = NotObserving
  /\ UNCHANGED <<mlRun, mlKey, mlHistory, mlAtomics, mlWorking, mlUi, mlGaps, mlInvalid,
                 mlSpent>>

\* The generation is read again for the job.
ObserveQueued ==
  /\ mlObserve.at = "copy"
  /\ \E intervals \in 1..2 :
       mlPending' = [gen |-> mlGen, of |-> mlObserve.of, left |-> intervals]
  /\ mlQueued' = TRUE
  /\ mlRun' = MlWoken
  /\ mlObserve' = NotObserving
  /\ UNCHANGED <<mlKey, mlHistory, mlAtomics, mlWorking, mlUi, mlGaps, mlInvalid, mlSpent>>

-----------------------------------------------------------------------------
(* start(), stop() and invalidate(), called by the GUI thread *)

\* A thread that has ended is joined before the state is reset; the program's end,
\* ~Inference, joins too.
MlStart ==
  /\ mlUi = "free" /\ ~mlEnabled
  /\ mlSpent.starts < MaxStarts
  /\ mlSpent' = [mlSpent EXCEPT !.starts = @ + 1]
  /\ mlUi' = "join"
  /\ UNCHANGED <<mlState, mlAtomics, mlRun, mlWorking, mlObserve, mlGaps, mlInvalid>>

MlReset ==
  /\ mlUi = "join" /\ mlRun \in {"none", "exit"} /\ MlMutexFree
  /\ mlQueued' = FALSE /\ mlKey' = NoSource /\ mlHistory' = {}
  /\ mlRun' = "none"
  /\ mlUi' = "launch"
  /\ UNCHANGED <<mlPending, mlAtomics, mlWorking, mlObserve, mlGaps, mlInvalid, mlSpent>>

MlLaunch ==
  /\ mlUi = "launch"
  /\ mlGen' = mlGen + 1 /\ mlEnabled' = TRUE /\ mlReady' = FALSE
  /\ mlRun' = "load"
  /\ mlUi' = "free"
  /\ UNCHANGED <<mlState, mlWorking, mlObserve, mlGaps, mlInvalid, mlSpent>>

\* Neither the stores nor the notification hold the mutex.
MlStop ==
  /\ mlUi = "free" /\ mlEnabled
  /\ mlEnabled' = FALSE /\ mlReady' = FALSE /\ mlGen' = mlGen + 1
  /\ mlUi' = "stop_notify"
  /\ UNCHANGED <<mlState, mlRun, mlWorking, mlObserve, mlGaps, mlInvalid, mlSpent>>

MlStopNotify ==
  /\ mlUi = "stop_notify"
  /\ mlRun' = MlWoken
  /\ mlUi' = "free"
  /\ UNCHANGED <<mlState, mlAtomics, mlWorking, mlObserve, mlGaps, mlInvalid, mlSpent>>

\* The generation moves first, then the mutex is taken.
MlInvalidate ==
  /\ mlUi = "free"
  /\ mlInvalid.called < MaxInvalidated
  /\ mlInvalid' = [mlInvalid EXCEPT !.called = @ + 1]
  /\ mlGen' = mlGen + 1
  /\ mlUi' = "invalidate"
  /\ UNCHANGED <<mlState, mlEnabled, mlReady, mlRun, mlWorking, mlObserve, mlGaps, mlSpent>>

MlInvalidateLocked ==
  /\ mlUi = "invalidate" /\ MlMutexFree
  /\ mlQueued' = FALSE /\ mlKey' = NoSource /\ mlHistory' = {}
  /\ mlInvalid' = [mlInvalid EXCEPT !.returned = mlInvalid.called]
  /\ mlUi' = "free"
  /\ UNCHANGED <<mlPending, mlAtomics, mlRun, mlWorking, mlObserve, mlGaps, mlSpent>>

-----------------------------------------------------------------------------
(* run() *)

mlRest == <<mlKey, mlObserve, mlUi, mlGaps, mlInvalid, mlSpent>>

\* The child loads its model, or the thread ends: ready_ may be set although
\* stop() has been called meanwhile.
RunReady ==
  /\ mlRun = "load"
  /\ mlReady' = TRUE
  /\ mlRun' = "loop"
  /\ UNCHANGED <<mlEnabled, mlGen, mlQueued, mlPending, mlHistory, mlWorking, mlRest>>

\* while(enabled_), and the first test of the wait's predicate.
RunLoop ==
  /\ mlRun = "loop"
  /\ mlRun' = IF mlEnabled THEN "check" ELSE "end"
  /\ UNCHANGED <<mlAtomics, mlQueued, mlPending, mlHistory, mlWorking, mlRest>>

RunBlocks ==
  /\ mlRun = "check" /\ MlMutexFree
  /\ mlEnabled /\ ~mlQueued
  /\ mlRun' = "blocking"
  /\ UNCHANGED <<mlAtomics, mlQueued, mlPending, mlHistory, mlWorking, mlRest>>

RunSleeps ==
  /\ mlRun = "blocking"
  /\ mlRun' = "asleep"
  /\ UNCHANGED <<mlAtomics, mlQueued, mlPending, mlHistory, mlWorking, mlRest>>

RunTakes ==
  /\ mlRun = "check" /\ MlMutexFree
  /\ ~mlEnabled \/ mlQueued
  /\ IF ~mlEnabled
       THEN mlRun' = "end" /\ UNCHANGED <<mlQueued, mlWorking>>
       ELSE /\ mlWorking' = mlPending /\ mlQueued' = FALSE
            /\ mlRun' = IF mlPending.gen = mlGen THEN "interval" ELSE "loop"
  /\ UNCHANGED <<mlAtomics, mlPending, mlHistory, mlRest>>

\* The job ends when its intervals do or when it has become stale; otherwise the
\* next interval goes to the child.
RunInterval ==
  /\ mlRun = "interval"
  /\ IF mlEnabled /\ mlWorking.left > 0 /\ mlWorking.gen = mlGen
       THEN /\ mlRun' = "asked"
            /\ mlWorking' = [mlWorking EXCEPT !.left = @ - 1]
       ELSE mlRun' = "loop" /\ mlWorking' = NoJob
  /\ UNCHANGED <<mlAtomics, mlQueued, mlPending, mlHistory, mlRest>>

Showable == mlEnabled /\ mlWorking.gen = mlGen

RunAnswered ==
  /\ mlRun = "asked" /\ MlMutexFree
  /\ mlHistory' = IF Showable THEN mlHistory \cup {[gen |-> mlWorking.gen, of |-> mlWorking.of]}
                              ELSE mlHistory
  /\ mlRun' = "interval"
  /\ UNCHANGED <<mlAtomics, mlQueued, mlPending, mlWorking, mlRest>>

\* The child cannot be started, hangs, dies or answers for another capture.
RunFails ==
  /\ mlRun \in {"load", "asked"} /\ MlMutexFree
  /\ mlRun' = "end"
  /\ UNCHANGED <<mlAtomics, mlQueued, mlPending, mlHistory, mlWorking, mlRest>>

RunEnds ==
  /\ mlRun = "end"
  /\ mlReady' = FALSE /\ mlEnabled' = FALSE
  /\ mlWorking' = NoJob
  /\ mlRun' = "exit"
  /\ UNCHANGED <<mlGen, mlQueued, mlPending, mlHistory, mlRest>>

-----------------------------------------------------------------------------
MlObserver == ObserveDropped \/ ObserveChecked \/ ObserveQueued
MlCall == MlStart \/ MlStop \/ MlInvalidate
MlCallGoesOn == MlReset \/ MlLaunch \/ MlStopNotify \/ MlInvalidateLocked
MlThread == RunReady \/ RunLoop \/ RunBlocks \/ RunSleeps \/ RunTakes \/ RunInterval
            \/ RunAnswered \/ RunFails \/ RunEnds

MlNext == Observe \/ MlObserver \/ MlCall \/ MlCallGoesOn \/ MlThread

\* Threads run, and a request ends because its deadline ends it.
MlFairness ==
  /\ WF_mlVars(MlObserver)
  /\ WF_mlVars(MlCallGoesOn)
  /\ WF_mlVars(MlThread)

MlSpec == MlInit /\ [][MlNext]_mlVars /\ MlFairness

-----------------------------------------------------------------------------
(* Properties *)

\* What snapshot() shows as current: the generation must still be the present one.
Shown == {r \in mlHistory : mlEnabled /\ r.gen = mlGen}

\* What is shown as current was captured after the last broken capture, and all
\* of it on the source that was observed last.
MlOneSource ==
  \A r \in Shown :
    /\ r.of.gaps = mlGaps
    /\ mlKey \in {r.of.source, NoSource}

\* A pending job is taken or discarded: it never waits for ever while inference is on.
MlServed == mlQueued /\ mlEnabled ~> ~mlQueued \/ ~mlEnabled

\* Nothing observed before invalidate() was called is shown as current once it has
\* returned.
MlForgotten == \A r \in Shown : r.of.called >= mlInvalid.returned

\* start() returns: the thread it joins does end.
MlStarts == mlUi = "join" ~> mlUi = "free"
=============================================================================
