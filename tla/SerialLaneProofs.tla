-------------------------- MODULE SerialLaneProofs --------------------------
(***************************************************************************)
(* What holds of SerialLane for every set of jobs, every set of limits and *)
(* every number of pushes.  The properties of SerialLane are not inductive *)
(* by themselves: each relies on what the two threads' program counters    *)
(* say about the counters, which is ThreadsAgree below.                    *)
(***************************************************************************)
EXTENDS SerialLane, TLAPS

\* running_ is 1 exactly while the worker is between the pop and the re-lock;
\* a worker leaves only a closed, empty lane; whoever is inside push has not
\* seen it closed, whoever is inside close has closed it.
ThreadsAgree ==
  /\ slRunning = IF slWorker \in {"body", "destroy", "relock"} THEN 1 ELSE 0
  /\ slWorker = "exited" => closing /\ q = <<>>
  /\ prod \in {"shout", "join"} => closing
  /\ prod \in {"pushing", "room", "signal"} => ~closing

IInv ==
  /\ SlTypeOK
  /\ ThreadsAgree
  /\ Fifo
  /\ NoLostWakeup
  /\ OutstandingBounded
  /\ CloseDrains

\* Taking the head of a non-empty sequence leaves the rest, shifted by one.
LEMMA TailFacts ==
  ASSUME NEW S, NEW s \in Seq(S), s # <<>>
  PROVE  /\ Tail(s) \in Seq(S)
         /\ Head(s) \in S
         /\ Head(s) = s[1]
         /\ Len(s) > 0
         /\ Len(Tail(s)) = Len(s) - 1
         /\ \A i \in 1..Len(Tail(s)) : Tail(s)[i] = s[i + 1]
  OBVIOUS

\* Appending keeps what was there and puts the new element last.
LEMMA AppendFacts ==
  ASSUME NEW S, NEW s \in Seq(S), NEW e \in S
  PROVE  /\ Append(s, e) \in Seq(S)
         /\ Len(Append(s, e)) = Len(s) + 1
         /\ \A i \in 1..Len(s) : Append(s, e)[i] = s[i]
         /\ Append(s, e)[Len(s) + 1] = e
         /\ Append(s, e) # <<>>
  OBVIOUS

\* The initial state satisfies the inductive invariant.
LEMMA InitIInv == SlInit => IInv
<1> SUFFICES ASSUME SlInit PROVE IInv
  OBVIOUS
<1>1. /\ q = <<>> /\ admitted = <<>> /\ ran = <<>>
      /\ Len(q) = 0 /\ Len(admitted) = 0 /\ Len(ran) = 0
  BY DEF SlInit
<1>2. SlTypeOK
  <2>1. q \in Seq(Job) /\ admitted \in Seq(Job) /\ ran \in Seq(Job)
    BY <1>1
  <2> QED BY <2>1 DEF SlInit, SlTypeOK, ProdStates, WorkerStates
<1>3. ThreadsAgree /\ NoLostWakeup /\ CloseDrains
  BY DEF SlInit, ThreadsAgree, NoLostWakeup, CloseDrains
<1>4. Fifo
  BY <1>1 DEF SlInit, Fifo
<1>5. OutstandingBounded
  BY <1>1 DEF SlInit, OutstandingBounded, Outstanding, Alive
<1> QED BY <1>2, <1>3, <1>4, <1>5 DEF IInv

\* A job enters the lane: the two actions that admit one share this step.
LEMMA EnqueueIInv ==
  ASSUME IInv, NEW j \in Job, NEW m \in Limits, Enqueue(j), Outstanding < m,
         ~closing, MutexFree, prod \in {"idle", "pushing"}, prod' = "signal",
         UNCHANGED <<req, slWorker, joined, ran>>
  PROVE  IInv'
<1>1. /\ m \in Nat /\ Len(q) \in Nat /\ Len(admitted) \in Nat /\ Len(ran) \in Nat
      /\ slRunning \in Nat /\ highWater \in Nat
  BY LimitsAssumption DEF IInv, SlTypeOK
<1>2. /\ q' \in Seq(Job) /\ Len(q') = Len(q) + 1
      /\ \A i \in 1..Len(q) : q'[i] = q[i]
      /\ q'[Len(q) + 1] = j
      /\ q' # <<>>
  BY AppendFacts DEF Enqueue, IInv, SlTypeOK
<1>3. /\ admitted' \in Seq(Job) /\ Len(admitted') = Len(admitted) + 1
      /\ \A i \in 1..Len(admitted) : admitted'[i] = admitted[i]
      /\ admitted'[Len(admitted) + 1] = j
  BY AppendFacts DEF Enqueue, IInv, SlTypeOK
<1>4. SlTypeOK'
  BY <1>1, <1>2, <1>3 DEF Enqueue, IInv, SlTypeOK, ProdStates
<1>5. ThreadsAgree'
  BY DEF Enqueue, IInv, ThreadsAgree
<1>6. Fifo'
  <2>1. /\ Len(admitted) = Len(ran) + Len(q)
        /\ \A i \in 1..Len(ran) : ran[i] = admitted[i]
        /\ \A i \in 1..Len(q) : q[i] = admitted[Len(ran) + i]
        /\ Len(ran) = jobsDone + slRunning
    BY DEF IInv, Fifo
  <2>2. \A i \in 1..Len(ran) : ran[i] = admitted'[i]
    BY <1>1, <1>3, <2>1
  <2>3. \A i \in 1..Len(q') : q'[i] = admitted'[Len(ran) + i]
    <3> SUFFICES ASSUME NEW i \in 1..Len(q')
                 PROVE  q'[i] = admitted'[Len(ran) + i]
      OBVIOUS
    <3>1. CASE i \in 1..Len(q)
      <4>1. Len(ran) + i \in 1..Len(admitted)
        BY <1>1, <2>1, <3>1
      <4> QED BY <1>2, <1>3, <2>1, <3>1, <4>1
    <3>2. CASE i = Len(q) + 1
      <4>1. Len(ran) + i = Len(admitted) + 1
        BY <1>1, <2>1, <3>2
      <4> QED BY <1>2, <1>3, <3>2, <4>1
    <3> QED BY <1>1, <1>2, <3>1, <3>2
  <2> QED
    BY SMTT(30), <1>1, <1>2, <1>3, <2>1, <2>2, <2>3 DEF Fifo, Enqueue
<1>7. NoLostWakeup'
  BY DEF NoLostWakeup
<1>8. OutstandingBounded'
  <2>1. Alive' = Alive + 1 /\ Outstanding' = Outstanding + 1
    BY <1>1, <1>2 DEF Alive, Outstanding, Enqueue
  <2>2. Alive \in Nat /\ Outstanding \in Nat
    BY <1>1 DEF Alive, Outstanding
  <2>3. highWater' = IF Outstanding' > highWater THEN Outstanding' ELSE highWater
    BY DEF Outstanding, Enqueue
  <2>4. Alive' <= Outstanding' /\ Outstanding' <= highWater'
    BY <1>1, <2>1, <2>2, <2>3 DEF OutstandingBounded, IInv
  <2>5. \E k \in Limits \cup {0} : highWater' <= k
    BY <1>1, <2>1, <2>2, <2>3 DEF OutstandingBounded, IInv
  <2> QED BY <2>4, <2>5 DEF OutstandingBounded
<1>9. CloseDrains'
  BY DEF IInv, CloseDrains, ThreadsAgree, Enqueue
<1> QED BY <1>4, <1>5, <1>6, <1>7, <1>8, <1>9 DEF IInv

\* Every step of the two threads keeps the inductive invariant.
LEMMA NextIInv == IInv /\ [SlNext]_slVars => IInv'
<1> SUFFICES ASSUME IInv, [SlNext]_slVars PROVE IInv'
  OBVIOUS
<1>t. /\ Len(q) \in Nat /\ Len(admitted) \in Nat /\ Len(ran) \in Nat
      /\ slRunning \in {0, 1} /\ highWater \in Nat /\ jobsDone \in Nat
      /\ Limits \subseteq Nat
  BY LimitsAssumption DEF IInv, SlTypeOK
<1> USE DEF ProdStates, WorkerStates
<1>1. ASSUME NEW j \in Job, NEW m \in Limits, PushCall(j, m) PROVE IInv'
  BY <1>1, <1>t DEF PushCall, IInv, SlTypeOK, ThreadsAgree, Fifo, NoLostWakeup,
     OutstandingBounded, CloseDrains, Outstanding, Alive, laneVars
<1>2. ASSUME NEW j \in Job, NEW m \in Limits, TryPush(j, m) PROVE IInv'
  BY <1>2, EnqueueIInv DEF TryPush
<1>3. CASE PushBlock
  BY <1>3, <1>t DEF PushBlock, IInv, SlTypeOK, ThreadsAgree, Fifo, NoLostWakeup,
     OutstandingBounded, CloseDrains, Outstanding, Alive, laneVars, MutexFree
<1>4. CASE PushAdmit
  <2>1. req.job \in Job /\ req.limit \in Limits /\ ~closing
    BY <1>4 DEF IInv, SlTypeOK, ThreadsAgree, PushAdmit
  <2> QED BY <1>4, <2>1, EnqueueIInv DEF PushAdmit
<1>5. CASE PushSignal
  BY <1>5, <1>t DEF PushSignal, WakeWorker, IInv, SlTypeOK, ThreadsAgree, Fifo,
     NoLostWakeup, OutstandingBounded, CloseDrains, Outstanding, Alive, laneVars
<1>6. CASE WaitIdleCall
  BY <1>6, <1>t DEF WaitIdleCall, IInv, SlTypeOK, ThreadsAgree, Fifo,
     NoLostWakeup, OutstandingBounded, CloseDrains, Outstanding, Alive, laneVars
<1>7. CASE WaitIdleBlock
  BY <1>7, <1>t DEF WaitIdleBlock, IInv, SlTypeOK, ThreadsAgree, Fifo,
     NoLostWakeup, OutstandingBounded, CloseDrains, Outstanding, Alive, laneVars
<1>8. CASE WaitIdleReturn
  BY <1>8, <1>t DEF WaitIdleReturn, IInv, SlTypeOK, ThreadsAgree, Fifo,
     NoLostWakeup, OutstandingBounded, CloseDrains, Outstanding, Alive, laneVars
<1>9. CASE CloseSet
  BY <1>9, <1>t DEF CloseSet, MutexFree, IInv, SlTypeOK, ThreadsAgree, Fifo,
     NoLostWakeup, OutstandingBounded, CloseDrains, Outstanding, Alive, laneVars
<1>10. CASE CloseNotify
  BY <1>10, <1>t DEF CloseNotify, WakeWorker, IInv, SlTypeOK, ThreadsAgree, Fifo,
     NoLostWakeup, OutstandingBounded, CloseDrains, Outstanding, Alive, laneVars
<1>11. CASE CloseJoin
  <2>1. slWorker = "exited" /\ q = <<>> /\ slRunning = 0
    BY <1>11 DEF CloseJoin, IInv, CloseDrains, ThreadsAgree
  <2>2. jobsDone = Len(admitted)
    BY <2>1, <1>t DEF IInv, Fifo
  <2> QED
    BY <1>11, <1>t, <2>1, <2>2 DEF CloseJoin, IInv, SlTypeOK, ThreadsAgree, Fifo,
       NoLostWakeup, OutstandingBounded, CloseDrains, Outstanding, Alive, laneVars
<1>12. CASE ProducerSpuriousWake
  BY <1>12, <1>t DEF ProducerSpuriousWake, IInv, SlTypeOK, ThreadsAgree, Fifo,
     NoLostWakeup, OutstandingBounded, CloseDrains, Outstanding, Alive, laneVars
<1>13. CASE WorkerAcquire
  BY <1>13, <1>t DEF WorkerAcquire, IInv, SlTypeOK, ThreadsAgree, Fifo,
     NoLostWakeup, OutstandingBounded, CloseDrains, Outstanding, Alive, laneVars
<1>14. CASE WorkerSleep
  BY <1>14, <1>t DEF WorkerSleep, IInv, SlTypeOK, ThreadsAgree, Fifo,
     NoLostWakeup, OutstandingBounded, CloseDrains, Outstanding, Alive, laneVars
<1>15. CASE WorkerExit
  BY <1>15, <1>t DEF WorkerExit, IInv, SlTypeOK, ThreadsAgree, Fifo,
     NoLostWakeup, OutstandingBounded, CloseDrains, Outstanding, Alive, laneVars
<1>16. CASE WorkerTake
  <2>1. /\ q' \in Seq(Job) /\ Head(q) \in Job /\ Head(q) = q[1]
        /\ Len(q') = Len(q) - 1 /\ Len(q) > 0
        /\ \A i \in 1..Len(q') : q'[i] = q[i + 1]
    BY <1>16, TailFacts DEF WorkerTake, IInv, SlTypeOK
  <2>2. /\ ran' \in Seq(Job) /\ Len(ran') = Len(ran) + 1
        /\ \A i \in 1..Len(ran) : ran'[i] = ran[i]
        /\ ran'[Len(ran) + 1] = q[1]
    BY <1>16, <2>1, AppendFacts DEF WorkerTake, IInv, SlTypeOK
  <2>3. SlTypeOK'
    BY <1>16, <2>1, <2>2 DEF WorkerTake, IInv, SlTypeOK
  <2>4. slRunning = 0 /\ slWorker # "exited" /\ slWorker # "asleep"
    BY <1>16 DEF WorkerTake, IInv, ThreadsAgree
  <2>5. ThreadsAgree'
    BY <1>16 DEF WorkerTake, IInv, ThreadsAgree
  <2>6. Fifo'
    <3>1. /\ Len(admitted) = Len(ran) + Len(q)
          /\ \A i \in 1..Len(ran) : ran[i] = admitted[i]
          /\ \A i \in 1..Len(q) : q[i] = admitted[Len(ran) + i]
          /\ Len(ran) = jobsDone + slRunning
      BY DEF IInv, Fifo
    <3>2. \A i \in 1..Len(ran') : ran'[i] = admitted[i]
      <4> SUFFICES ASSUME NEW i \in 1..Len(ran') PROVE ran'[i] = admitted[i]
        OBVIOUS
      <4>1. CASE i \in 1..Len(ran)
        BY <2>2, <3>1, <4>1
      <4>2. CASE i = Len(ran) + 1
        BY <2>1, <2>2, <3>1, <4>2, <1>t
      <4> QED BY <2>2, <4>1, <4>2, <1>t
    <3>3. \A i \in 1..Len(q') : q'[i] = admitted[Len(ran') + i]
      <4> SUFFICES ASSUME NEW i \in 1..Len(q')
                   PROVE  q'[i] = admitted[Len(ran') + i]
        OBVIOUS
      <4>1. i + 1 \in 1..Len(q) /\ Len(ran) + (i + 1) = Len(ran') + i
        BY <2>1, <2>2, <1>t
      <4> QED BY <2>1, <3>1, <4>1
    <3>4. /\ Len(admitted) = Len(ran') + Len(q')
          /\ Len(ran') = jobsDone + 1
      BY <1>t, <2>1, <2>2, <2>4, <3>1
    <3>5. admitted' = admitted /\ jobsDone' = jobsDone /\ slRunning' = 1
      BY <1>16 DEF WorkerTake
    <3> QED
      BY <3>2, <3>3, <3>4, <3>5 DEF Fifo
  <2>7. NoLostWakeup'
    <3>1. Outstanding' = Outstanding
      BY <1>16, <1>t, <2>1, <2>4 DEF Outstanding, WorkerTake
    <3> QED BY <1>16, <3>1 DEF NoLostWakeup, IInv, WorkerTake
  <2>8. OutstandingBounded'
    BY <1>16, <1>t, <2>1, <2>4 DEF OutstandingBounded, Outstanding, Alive,
       IInv, WorkerTake
  <2>9. CloseDrains'
    BY <1>16, <2>4 DEF CloseDrains, IInv, WorkerTake
  <2> QED BY <2>3, <2>5, <2>6, <2>7, <2>8, <2>9 DEF IInv
<1>17. CASE FnReturn
  BY <1>17, <1>t DEF FnReturn, IInv, SlTypeOK, ThreadsAgree, Fifo,
     NoLostWakeup, OutstandingBounded, CloseDrains, Outstanding, Alive, laneVars
<1>18. CASE JobDestroyed
  <2>1. /\ SlTypeOK' /\ ThreadsAgree' /\ Fifo' /\ NoLostWakeup' /\ CloseDrains'
    BY <1>18, <1>t DEF JobDestroyed, IInv, SlTypeOK, ThreadsAgree, Fifo,
       NoLostWakeup, CloseDrains, Outstanding, laneVars
  <2>2. Outstanding' = Outstanding /\ highWater' = highWater
    BY <1>18 DEF JobDestroyed, Outstanding, laneVars
  <2>3. Alive' <= Outstanding'
    BY <1>18, <1>t DEF JobDestroyed, Outstanding, Alive, laneVars
  <2>4. OutstandingBounded'
    BY <2>2, <2>3 DEF OutstandingBounded, IInv
  <2> QED BY <2>1, <2>4 DEF IInv
<1>19. CASE WorkerRelock
  BY <1>19, <1>t DEF WorkerRelock, WakeProducer, IInv, SlTypeOK, ThreadsAgree,
     Fifo, NoLostWakeup, OutstandingBounded, CloseDrains, Outstanding, Alive
<1>20. CASE WorkerSpuriousWake
  BY <1>20, <1>t DEF WorkerSpuriousWake, IInv, SlTypeOK, ThreadsAgree, Fifo,
     NoLostWakeup, OutstandingBounded, CloseDrains, Outstanding, Alive, laneVars
<1>21. CASE UNCHANGED slVars
  BY <1>21 DEF slVars, IInv, SlTypeOK, ThreadsAgree, Fifo, NoLostWakeup,
     OutstandingBounded, CloseDrains, Outstanding, Alive
<1> QED
  BY <1>1, <1>2, <1>3, <1>4, <1>5, <1>6, <1>7, <1>8, <1>9, <1>10, <1>11,
     <1>12, <1>13, <1>14, <1>15, <1>16, <1>17, <1>18, <1>19, <1>20, <1>21
  DEF SlNext, Producer, Worker, WorkerStep

\* The inductive invariant holds in every reachable state.
THEOREM Invariance == SlSafety => []IInv
  BY InitIInv, NextIInv, PTL DEF SlSafety

\* Every variable keeps its type.
THEOREM TypeCorrect == SlSafety => []SlTypeOK
<1>1. IInv => SlTypeOK
  BY DEF IInv
<1> QED BY <1>1, Invariance, PTL

\* Jobs run once each, in push order, one at a time, whatever the limits.
THEOREM FifoHolds == SlSafety => []Fifo
<1>1. IInv => Fifo
  BY DEF IInv
<1> QED BY <1>1, Invariance, PTL

\* Neither thread sleeps through the change it waits for.
THEOREM NoLostWakeupHolds == SlSafety => []NoLostWakeup
<1>1. IInv => NoLostWakeup
  BY DEF IInv
<1> QED BY <1>1, Invariance, PTL

\* No more jobs are ever alive than the largest limit pushed with.
THEOREM OutstandingBoundedHolds == SlSafety => []OutstandingBounded
<1>1. IInv => OutstandingBounded
  BY DEF IInv
<1> QED BY <1>1, Invariance, PTL

\* push returns to its caller with room under its own limit, and wait_idle with
\* nothing alive, in every behaviour.
THEOREM ReturnsWhenPromisedHolds == SlSafety => ReturnsWhenPromised
<1>1. ASSUME IInv, [SlNext]_slVars, prod = "pushing", prod' = "signal"
      PROVE  Alive < req.limit
  <2>1. PushAdmit
    BY <1>1 DEF SlNext, Producer, Worker, WorkerStep, slVars, PushCall, PushBlock,
       TryPush, PushSignal, WaitIdleCall, WaitIdleBlock, WaitIdleReturn,
       CloseSet, CloseNotify, CloseJoin, ProducerSpuriousWake, WorkerAcquire,
       WorkerSleep, WorkerExit, WorkerTake, FnReturn, JobDestroyed,
       WorkerRelock, WakeProducer, WorkerSpuriousWake
  <2>2. Outstanding < req.limit /\ Alive <= Outstanding
    BY <1>1, <2>1 DEF PushAdmit, IInv, OutstandingBounded
  <2>3. /\ Len(q) \in Nat /\ slRunning \in {0, 1}
        /\ req.limit \in Limits
    BY <1>1 DEF IInv, SlTypeOK
  <2>4. Alive \in Nat /\ Outstanding \in Nat
    BY <2>3 DEF Alive, Outstanding
  <2>5. req.limit \in Nat
    BY <2>3, LimitsAssumption
  <2>6. \A a, o, m \in Nat : o < m /\ a <= o => a < m
    OBVIOUS
  <2> QED BY <2>2, <2>4, <2>5, <2>6
<1>2. ASSUME IInv, [SlNext]_slVars, prod = "idling", prod' = "idle"
      PROVE  Alive = 0 /\ jobsDone = Len(admitted)
  <2>1. WaitIdleReturn
    BY <1>2 DEF SlNext, Producer, Worker, WorkerStep, slVars, PushCall, PushBlock,
       TryPush, PushAdmit, PushSignal, WaitIdleCall, WaitIdleBlock,
       CloseSet, CloseNotify, CloseJoin, ProducerSpuriousWake, WorkerAcquire,
       WorkerSleep, WorkerExit, WorkerTake, FnReturn, JobDestroyed,
       WorkerRelock, WakeProducer, WorkerSpuriousWake
  <2>2. Outstanding = 0 /\ Alive <= Outstanding
    BY <1>2, <2>1 DEF WaitIdleReturn, IInv, OutstandingBounded
  <2>3. /\ Len(q) \in Nat /\ slRunning \in Nat /\ jobsDone \in Nat
        /\ Alive \in Nat /\ Len(ran) \in Nat
    BY <1>2 DEF IInv, SlTypeOK, Alive
  <2>4. Len(q) = 0 /\ slRunning = 0
    BY <2>2, <2>3 DEF Outstanding
  <2> QED BY <1>2, <2>2, <2>3, <2>4 DEF IInv, Fifo
<1>3. IInv /\ [SlNext]_slVars =>
        [/\ (prod = "pushing" /\ prod' = "signal") => Alive < req.limit
         /\ (prod = "idling" /\ prod' = "idle") =>
              Alive = 0 /\ jobsDone = Len(admitted)]_slVars
  BY <1>1, <1>2
<1> QED BY <1>3, Invariance, PTL DEF SlSafety, ReturnsWhenPromised

\* A joined lane has run everything that was ever pushed.
THEOREM CloseDrainsHolds == SlSafety => []CloseDrains
<1>1. IInv => CloseDrains
  BY DEF IInv
<1> QED BY <1>1, Invariance, PTL

-----------------------------------------------------------------------------
(* The lane implements the ordered worker (its safety part).               *)

\* The initial state of the lane is one of the ordered worker.
LEMMA InitRefines == SlInit => Abstract!Init
  BY DEF SlInit, Abstract!Init, Phase

\* Every step of the lane is a step of the ordered worker or changes nothing
\* the ordered worker has.
LEMMA NextRefines ==
  IInv /\ [SlNext]_slVars => [Abstract!Next]_(Abstract!vars)
<1> SUFFICES ASSUME IInv, [SlNext]_slVars
             PROVE  [Abstract!Next]_(Abstract!vars)
  OBVIOUS
<1>t. /\ q \in Seq(Job) /\ ran \in Seq(Job) /\ admitted \in Seq(Job)
      /\ Len(q) \in Nat /\ Len(ran) \in Nat /\ Len(admitted) \in Nat
      /\ slRunning \in {0, 1} /\ jobsDone \in Nat
  BY DEF IInv, SlTypeOK
<1>f. /\ Len(admitted) = Len(ran) + Len(q)
      /\ \A i \in 1..Len(q) : q[i] = admitted[Len(ran) + i]
      /\ Len(ran) = jobsDone + slRunning
  BY DEF IInv, Fifo
<1>1. ASSUME NEW j \in Job, Enqueue(j), ~closing, slWorker # "exited",
             UNCHANGED <<ran, slWorker>>
      PROVE  Abstract!Accept(j)
  BY <1>1 DEF Enqueue, Abstract!Accept, Phase
<1>2. ASSUME NEW j \in Job, NEW m \in Limits, TryPush(j, m)
      PROVE  Abstract!Next
  <2>1. slWorker # "exited"
    BY <1>2 DEF TryPush, IInv, ThreadsAgree
  <2> QED BY <1>1, <1>2, <2>1 DEF TryPush, Abstract!Next
<1>3. CASE PushAdmit
  <2>1. req.job \in Job /\ ~closing /\ slWorker # "exited"
    BY <1>3 DEF PushAdmit, IInv, SlTypeOK, ThreadsAgree
  <2> QED BY <1>1, <1>3, <2>1 DEF PushAdmit, Abstract!Next
<1>4. CASE WorkerTake
  <2>1. Len(q) > 0 /\ Head(q) = q[1]
    BY <1>4, <1>t, TailFacts DEF WorkerTake
  <2>2. slRunning = 0
    BY <1>4 DEF WorkerTake, IInv, ThreadsAgree
  <2>3. jobsDone = Len(ran) /\ Len(ran) < Len(admitted)
    BY <1>t, <1>f, <2>1, <2>2
  <2>4. Head(q) = admitted[Len(ran) + 1]
    BY <1>t, <1>f, <2>1
  <2>5. Abstract!Start
    BY <1>4, <2>3, <2>4 DEF WorkerTake, Abstract!Start, Phase
  <2> QED BY <2>5 DEF Abstract!Next
<1>5. CASE WorkerRelock
  <2>1. jobsDone < Len(ran)
    BY <1>5, <1>t, <1>f DEF WorkerRelock, IInv, ThreadsAgree
  <2>2. Abstract!Complete
    BY <1>5, <2>1 DEF WorkerRelock, Abstract!Complete, Phase
  <2> QED BY <2>2 DEF Abstract!Next
<1>6. CASE CloseSet
  <2>1. CASE closing
    BY <1>6, <2>1 DEF CloseSet, Phase, Abstract!vars
  <2>2. CASE ~closing
    <3>1. slWorker # "exited"
      BY <2>2 DEF IInv, ThreadsAgree
    <3>2. Abstract!Close
      BY <1>6, <2>2, <3>1 DEF CloseSet, Phase, Abstract!Close
    <3> QED BY <3>2 DEF Abstract!Next
  <2> QED BY <2>1, <2>2
<1>7. CASE WorkerExit
  <2>1. jobsDone = Len(admitted)
    <3>1. Len(q) = 0 /\ slRunning = 0
      BY <1>7 DEF WorkerExit, IInv, ThreadsAgree
    <3> QED BY <3>1, <1>t, <1>f
  <2>2. Abstract!Stop
    BY <1>7, <2>1 DEF WorkerExit, Phase, Abstract!Stop, laneVars
  <2> QED BY <2>2 DEF Abstract!Next
<1>8. ASSUME UNCHANGED <<admitted, ran, jobsDone, closing>>,
             slWorker # "exited" <=> slWorker' # "exited"
      PROVE  UNCHANGED Abstract!vars
  BY <1>8 DEF Abstract!vars, Phase
<1>9. ASSUME NEW j \in Job, NEW m \in Limits, PushCall(j, m)
      PROVE  UNCHANGED Abstract!vars
  BY <1>8, <1>9 DEF PushCall, laneVars
<1>10. ASSUME \/ PushBlock \/ PushSignal \/ WaitIdleCall \/ WaitIdleBlock
              \/ WaitIdleReturn \/ CloseNotify \/ CloseJoin
              \/ ProducerSpuriousWake
       PROVE  UNCHANGED Abstract!vars
  BY <1>8, <1>10 DEF PushBlock, PushSignal, WakeWorker, WaitIdleCall,
     WaitIdleBlock, WaitIdleReturn, CloseNotify, CloseJoin,
     ProducerSpuriousWake, laneVars
<1>11. ASSUME \/ WorkerAcquire \/ WorkerSleep \/ FnReturn \/ JobDestroyed
              \/ WorkerSpuriousWake \/ UNCHANGED slVars
       PROVE  UNCHANGED Abstract!vars
  BY <1>8, <1>11 DEF WorkerAcquire, WorkerSleep, FnReturn, JobDestroyed,
     WorkerSpuriousWake, laneVars, slVars
<1> QED
  BY <1>2, <1>3, <1>4, <1>5, <1>6, <1>7, <1>9, <1>10, <1>11
  DEF SlNext, Producer, Worker, WorkerStep

\* Callers may reason with OrderedWorker: the lane never does what it may not.
THEOREM Refinement == SlSafety => Abstract!Safety
  BY InitRefines, NextRefines, Invariance, PTL DEF SlSafety, Abstract!Safety
=============================================================================
