----------------------------- MODULE SerialLane -----------------------------
(***************************************************************************)
(* SerialLane<Job> (src/serial_lane.hpp): one ordered background worker    *)
(* and the thread that feeds it.  The lane's mutex is held from one        *)
(* critical section's start to its end, so a section is one action; the    *)
(* only place where a thread keeps it between two actions is the worker at *)
(* the top of its loop ("top"), which goes from re-locking after a job to  *)
(* popping the next one without unlocking.                                 *)
(***************************************************************************)
EXTENDS Naturals, Sequences

CONSTANTS
  Job,          \* what a job may be
  Limits,       \* the max_outstanding values the producer passes
  MaxJobs       \* bound on the jobs pushed in one behaviour

ASSUME LimitsAssumption == Limits \subseteq Nat \ {0}
ASSUME MaxJobsAssumption == MaxJobs \in Nat

VARIABLES
  q,            \* q_: jobs queued
  slRunning,      \* running_: 1 from the pop until the worker re-locks
  closing,      \* closing_
  jobsDone,     \* stats_.jobs_done
  highWater,    \* stats_.high_water
  prod,         \* where the producer thread is
  req,          \* the arguments of the push it is in
  slWorker,       \* where the worker thread is
  joined,       \* worker_ has been joined
  admitted,     \* history: jobs in the order they entered q_
  ran           \* history: jobs in the order fn_ was entered

laneVars == <<q, slRunning, closing, jobsDone, highWater>>
slVars == <<q, slRunning, closing, jobsDone, highWater, prod, req, slWorker,
          joined, admitted, ran>>

\* "pushing", "idling": runnable, about to (re)take the mutex and test;
\* "room", "drained": asleep in done_cv_; "signal", "shout": has unlocked, has
\* not notified work_cv_ yet; "join": in worker_.join().
ProdStates == {"idle", "pushing", "room", "idling", "drained",
               "signal", "shout", "join"}
\* "acquire": runnable, wants the mutex; "top": holds it; "asleep": in
\* work_cv_; "body": in fn_; "destroy": fn_ returned, the job is alive;
\* "relock": the job is gone, running_ is not reset yet.
WorkerStates == {"acquire", "top", "asleep", "body", "destroy", "relock",
                 "exited"}

MutexFree == slWorker # "top"
Outstanding == Len(q) + slRunning
\* Jobs whose resources exist inside the lane.
Alive == Len(q) + (IF slWorker \in {"body", "destroy"} THEN 1 ELSE 0)

SlInit ==
  /\ q = <<>>
  /\ slRunning = 0
  /\ closing = FALSE
  /\ jobsDone = 0
  /\ highWater = 0
  /\ prod = "idle"
  /\ req \in [job : Job, limit : Limits]
  /\ slWorker = "acquire"
  /\ joined = FALSE
  /\ admitted = <<>>
  /\ ran = <<>>

-----------------------------------------------------------------------------
(* The producer *)

\* Defect: the job goes to the front of the queue.
EnqueueAtFront(j) ==
  /\ q' = <<j>> \o q
  /\ highWater' = IF Len(q') + slRunning > highWater
                  THEN Len(q') + slRunning ELSE highWater
  /\ admitted' = Append(admitted, j)
  /\ UNCHANGED <<slRunning, closing, jobsDone>>

\* q_.push_back and the high-water mark, in the section that found room.
Enqueue(j) ==
  /\ q' = Append(q, j)
  /\ highWater' = IF Len(q') + slRunning > highWater
                  THEN Len(q') + slRunning ELSE highWater
  /\ admitted' = Append(admitted, j)
  /\ UNCHANGED <<slRunning, closing, jobsDone>>

\* assert(!closing_) is the caller's obligation: nobody pushes after close().
PushCall(j, m) ==
  /\ prod = "idle"
  /\ ~closing
  /\ Len(admitted) < MaxJobs
  /\ prod' = "pushing"
  /\ req' = [job |-> j, limit |-> m]
  /\ UNCHANGED <<laneVars, slWorker, joined, admitted, ran>>

\* The while loop of push(): wait releases the mutex and sleeps in one step.
PushBlock ==
  /\ prod = "pushing"
  /\ MutexFree
  /\ Outstanding >= req.limit
  /\ prod' = "room"
  /\ UNCHANGED <<laneVars, req, slWorker, joined, admitted, ran>>

PushAdmit ==
  /\ prod = "pushing"
  /\ MutexFree
  /\ Outstanding < req.limit
  /\ Enqueue(req.job)
  /\ prod' = "signal"
  /\ UNCHANGED <<req, slWorker, joined, ran>>

\* A try_push that finds no room returns false and changes nothing.
TryPush(j, m) ==
  /\ prod = "idle"
  /\ ~closing
  /\ MutexFree
  /\ Len(admitted) < MaxJobs
  /\ Outstanding < m
  /\ Enqueue(j)
  /\ prod' = "signal"
  /\ UNCHANGED <<req, slWorker, joined, ran>>

\* A notification reaches the worker only if it is asleep.
WakeWorker ==
  slWorker' = IF slWorker = "asleep" THEN "acquire" ELSE slWorker

\* work_cv_.notify_one() after the unlock.
PushSignal ==
  /\ prod = "signal"
  /\ WakeWorker
  /\ prod' = "idle"
  /\ UNCHANGED <<laneVars, req, joined, admitted, ran>>

WaitIdleCall ==
  /\ prod = "idle"
  /\ prod' = "idling"
  /\ UNCHANGED <<laneVars, req, slWorker, joined, admitted, ran>>

WaitIdleBlock ==
  /\ prod = "idling"
  /\ MutexFree
  /\ Outstanding > 0
  /\ prod' = "drained"
  /\ UNCHANGED <<laneVars, req, slWorker, joined, admitted, ran>>

WaitIdleReturn ==
  /\ prod = "idling"
  /\ MutexFree
  /\ Outstanding = 0
  /\ prod' = "idle"
  /\ UNCHANGED <<laneVars, req, slWorker, joined, admitted, ran>>

\* close() may be called again: the destructor always does.
CloseSet ==
  /\ prod = "idle"
  /\ MutexFree
  /\ closing' = TRUE
  /\ prod' = "shout"
  /\ UNCHANGED <<q, slRunning, jobsDone, highWater, req, slWorker, joined,
                 admitted, ran>>

CloseNotify ==
  /\ prod = "shout"
  /\ WakeWorker
  /\ prod' = "join"
  /\ UNCHANGED <<laneVars, req, joined, admitted, ran>>

CloseJoin ==
  /\ prod = "join"
  /\ joined \/ slWorker = "exited"
  /\ joined' = TRUE
  /\ prod' = "idle"
  /\ UNCHANGED <<laneVars, req, slWorker, admitted, ran>>

\* A wait on done_cv_ may return without a notification.
ProducerSpuriousWake ==
  /\ prod \in {"room", "drained"}
  /\ prod' = IF prod = "room" THEN "pushing" ELSE "idling"
  /\ UNCHANGED <<laneVars, req, slWorker, joined, admitted, ran>>

-----------------------------------------------------------------------------
(* The worker: loop() *)

WorkerAcquire ==
  /\ slWorker = "acquire"
  /\ slWorker' = "top"
  /\ UNCHANGED <<laneVars, prod, req, joined, admitted, ran>>

WorkerSleep ==
  /\ slWorker = "top"
  /\ ~closing /\ q = <<>>
  /\ slWorker' = "asleep"
  /\ UNCHANGED <<laneVars, prod, req, joined, admitted, ran>>

\* Defect: a closing worker leaves without draining the queue.
WorkerExitAtOnce ==
  /\ slWorker = "top"
  /\ closing
  /\ slWorker' = "exited"
  /\ UNCHANGED <<laneVars, prod, req, joined, admitted, ran>>

WorkerExit ==
  /\ slWorker = "top"
  /\ closing /\ q = <<>>
  /\ slWorker' = "exited"
  /\ UNCHANGED <<laneVars, prod, req, joined, admitted, ran>>

\* Defect: a popped job stops counting at once.
WorkerTakeUncounted ==
  /\ slWorker = "top"
  /\ q # <<>>
  /\ q' = Tail(q)
  /\ slRunning' = 0
  /\ ran' = Append(ran, Head(q))
  /\ slWorker' = "body"
  /\ UNCHANGED <<closing, jobsDone, highWater, prod, req, joined, admitted>>

WorkerTake ==
  /\ slWorker = "top"
  /\ q # <<>>
  /\ q' = Tail(q)
  /\ slRunning' = 1
  /\ ran' = Append(ran, Head(q))
  /\ slWorker' = "body"
  /\ UNCHANGED <<closing, jobsDone, highWater, prod, req, joined, admitted>>

FnReturn ==
  /\ slWorker = "body"
  /\ slWorker' = "destroy"
  /\ UNCHANGED <<laneVars, prod, req, joined, admitted, ran>>

JobDestroyed ==
  /\ slWorker = "destroy"
  /\ slWorker' = "relock"
  /\ UNCHANGED <<laneVars, prod, req, joined, admitted, ran>>

\* Defect: only a push is woken, not wait_idle.
WakePushOnly ==
  prod' = IF prod = "room" THEN "pushing" ELSE prod

\* done_cv_.notify_all(): whoever sleeps on it becomes runnable.
WakeProducer ==
  prod' = CASE prod = "room" -> "pushing"
            [] prod = "drained" -> "idling"
            [] OTHER -> prod

\* Defect: no notification when a job has finished.
WorkerRelockSilent ==
  /\ slWorker = "relock"
  /\ slRunning' = 0
  /\ jobsDone' = jobsDone + 1
  /\ slWorker' = "top"
  /\ UNCHANGED <<q, closing, highWater, prod, req, joined, admitted, ran>>

WorkerRelock ==
  /\ slWorker = "relock"
  /\ slRunning' = 0
  /\ jobsDone' = jobsDone + 1
  /\ WakeProducer
  /\ slWorker' = "top"
  /\ UNCHANGED <<q, closing, highWater, req, joined, admitted, ran>>

WorkerSpuriousWake ==
  /\ slWorker = "asleep"
  /\ slWorker' = "acquire"
  /\ UNCHANGED <<laneVars, prod, req, joined, admitted, ran>>

-----------------------------------------------------------------------------
Producer ==
  \/ \E j \in Job, m \in Limits : PushCall(j, m) \/ TryPush(j, m)
  \/ PushBlock \/ PushAdmit \/ PushSignal
  \/ WaitIdleCall \/ WaitIdleBlock \/ WaitIdleReturn
  \/ CloseSet \/ CloseNotify \/ CloseJoin
  \/ ProducerSpuriousWake

WorkerStep ==
  \/ WorkerAcquire \/ WorkerSleep \/ WorkerExit \/ WorkerTake
  \/ FnReturn \/ JobDestroyed \/ WorkerRelock

Worker == WorkerStep \/ WorkerSpuriousWake

SlNext == Producer \/ Worker

\* The worker thread is scheduled and a job's fn_ returns; a producer inside a
\* call is scheduled, and is not refused the mutex for ever.  Nothing makes the
\* producer call anything.
SlFairness ==
  /\ WF_slVars(WorkerStep)
  /\ SF_slVars(PushBlock) /\ SF_slVars(PushAdmit)
  /\ SF_slVars(WaitIdleBlock) /\ SF_slVars(WaitIdleReturn)
  /\ WF_slVars(PushSignal) /\ WF_slVars(CloseNotify) /\ WF_slVars(CloseJoin)

SlSafety == SlInit /\ [][SlNext]_slVars
SlSpec == SlSafety /\ SlFairness

-----------------------------------------------------------------------------
(* Properties *)

\* Every variable has its type.
SlTypeOK ==
  /\ q \in Seq(Job)
  /\ slRunning \in {0, 1}
  /\ closing \in BOOLEAN
  /\ jobsDone \in Nat
  /\ highWater \in Nat
  /\ prod \in ProdStates
  /\ req \in [job : Job, limit : Limits]
  /\ slWorker \in WorkerStates
  /\ joined \in BOOLEAN
  /\ admitted \in Seq(Job)
  /\ ran \in Seq(Job)

\* "FIFO, exactly one job running at a time": the jobs fn_ was entered with are
\* a prefix of the jobs pushed, the queue holds exactly the rest, and at most
\* one of those entered is not finished.
Fifo ==
  /\ Len(admitted) = Len(ran) + Len(q)
  /\ \A i \in 1..Len(ran) : ran[i] = admitted[i]
  /\ \A i \in 1..Len(q) : q[i] = admitted[Len(ran) + i]
  /\ Len(ran) = jobsDone + slRunning

\* No lost wakeup on either condition variable: a worker asleep has nothing to
\* do unless the notification for it is still on its way, and a producer asleep
\* is waiting for something that is really not there yet.
NoLostWakeup ==
  /\ slWorker = "asleep" =>
       \/ q = <<>> /\ ~closing
       \/ prod \in {"signal", "shout"}
  /\ prod = "room" => Outstanding >= req.limit
  /\ prod = "drained" => Outstanding > 0

\* A job counts until it has run and been destroyed, so what the counters call
\* outstanding is never less than what is alive, and never exceeds the largest
\* limit pushed with; the high-water mark has seen every one of those values.
OutstandingBounded ==
  /\ Alive <= Outstanding
  /\ Outstanding <= highWater
  /\ \E m \in Limits \cup {0} : highWater <= m

\* close() drains every queued job, then joins: once it has joined, everything
\* ever pushed has run to the end, and the worker never touches the lane again.
CloseDrains ==
  joined => /\ slWorker = "exited"
            /\ q = <<>>
            /\ jobsDone = Len(admitted)

\* push() with limit m admits a job only when fewer than m jobs are alive, so
\* after push(job, 1) the previous job's IQ buffers are gone; wait_idle()
\* returns only when everything pushed so far has run and been destroyed.
ReturnsWhenPromised ==
  [][/\ (prod = "pushing" /\ prod' = "signal") => Alive < req.limit
     /\ (prod = "idling" /\ prod' = "idle") =>
          Alive = 0 /\ jobsDone = Len(admitted)]_slVars

\* A blocked push is admitted, and wait_idle and close return: the producer is
\* never left waiting.
CallersReturn ==
  /\ (prod \in {"pushing", "room"}) ~> (prod = "idle")
  /\ (prod \in {"idling", "drained"}) ~> (prod = "idle")
  /\ (prod = "shout") ~> joined

\* Every job pushed is run.
EveryJobRuns == \A n \in 1..MaxJobs : (Len(admitted) >= n) ~> (jobsDone >= n)

\* The lane implements the ordered worker its callers are written against.
Phase == IF slWorker = "exited" THEN "stopped"
         ELSE IF closing THEN "closing" ELSE "open"
Abstract == INSTANCE OrderedWorker WITH
  accepted <- admitted, started <- ran, completed <- jobsDone, phase <- Phase
ImplementsOrderedWorker == Abstract!Spec
=============================================================================
