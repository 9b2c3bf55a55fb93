--------------------------- MODULE WorkersProofs ----------------------------
(***************************************************************************)
(* Theorems about the workers that keep a child process, and about the     *)
(* radio threads of the test bench: the drone decoder's detector, the      *)
(* model inference, the cyclostationary shadow worker, the bench receiver. *)
(*                                                                         *)
(* They hold for any limits of queues, restarts, attempts and calls.  Each *)
(* part has the inductive invariant its theorem needs, and the proof that  *)
(* every action keeps it.                                                  *)
(***************************************************************************)
EXTENDS ShadowWorker, MlInference, DroneDetector, BenchRadio, SequenceTheorems,
        FiniteSetTheorems, TLAPS

(* The drone decoder *)

DtMessage == [time : Nat \ {0}, epoch : Nat \X Nat, breaks : Nat]

DtTyped ==
  /\ dtNow \in Nat \ {0} /\ {dtEpoch, dtGap, dtBreaks, dtContinuity} \subseteq Nat
  /\ dtQueue \in Seq(DtMessage)
  /\ {dtPart, dtPrevious} \subseteq DtMessage \cup {NoMessage}

\* A message was offered before now; when it is the last thing that happened to
\* the samples, nothing broke them since.
Recent(m, now, ep, breaks) ==
  /\ m.time < now /\ m.epoch[1] <= ep
  /\ m.time + 1 = now /\ m.epoch[1] = ep => m.breaks = breaks

\* Of two messages, neighbours in time and of one tuning: nothing broke between.
Steady(m, n) == n.time = m.time + 1 /\ n.epoch[1] = m.epoch[1] => n.breaks = m.breaks

\* A message the thread holds: it is recent, and steady with all behind it.
Ahead(m, q, now, ep, breaks) ==
  m # NoMessage => /\ Recent(m, now, ep, breaks)
                   /\ \A i \in 1..Len(q) : Steady(m, q[i])

\* So are those that wait, each with all behind it.
Waiting(q, now, ep, breaks) ==
  \A i \in 1..Len(q) : /\ Recent(q[i], now, ep, breaks)
                       /\ \A j \in 1..Len(q) : i < j => Steady(q[i], q[j])

DtInv ==
  /\ DtTyped
  /\ Ahead(dtPrevious, dtQueue, dtNow, dtEpoch, dtBreaks)
  /\ Ahead(dtPart, dtQueue, dtNow, dtEpoch, dtBreaks)
  /\ Waiting(dtQueue, dtNow, dtEpoch, dtBreaks)
  /\ dtPrevious # NoMessage /\ dtPart # NoMessage => Steady(dtPrevious, dtPart)

-----------------------------------------------------------------------------
\* Time goes on, perhaps with a break: without one of them the samples are unbroken.
Moves(now, ep, breaks, now2, ep2, breaks2) ==
  /\ {now, ep, breaks, now2, ep2, breaks2} \subseteq Nat
  /\ now <= now2 /\ ep <= ep2
  /\ now2 = now /\ ep2 = ep => breaks2 = breaks

\* What is known of a message stays known when time goes on.
LEMMA RecentStays ==
  ASSUME NEW m \in DtMessage, NEW now, NEW ep, NEW br, NEW now2, NEW ep2, NEW br2,
         Moves(now, ep, br, now2, ep2, br2), Recent(m, now, ep, br)
  PROVE  Recent(m, now2, ep2, br2)
<1>1. m.time \in Nat /\ m.epoch[1] \in Nat
  BY DEF DtMessage
<1> QED BY <1>1 DEF Moves, Recent

\* So does what is known of it and of all that waits behind it.
LEMMA AheadStays ==
  ASSUME NEW q \in Seq(DtMessage), NEW m \in DtMessage \cup {NoMessage},
         NEW now, NEW ep, NEW br, NEW now2, NEW ep2, NEW br2,
         Moves(now, ep, br, now2, ep2, br2), Ahead(m, q, now, ep, br)
  PROVE  Ahead(m, q, now2, ep2, br2)
<1>1. CASE m = NoMessage
  BY <1>1 DEF Ahead
<1>2. CASE m # NoMessage
  <2>1. m \in DtMessage /\ Recent(m, now, ep, br)
    BY <1>2 DEF Ahead
  <2>2. Recent(m, now2, ep2, br2)
    BY <2>1, RecentStays
  <2> QED BY <1>2, <2>2 DEF Ahead
<1> QED BY <1>1, <1>2

\* And of all that waits.
LEMMA WaitingStays ==
  ASSUME NEW q \in Seq(DtMessage), NEW now, NEW ep, NEW br, NEW now2, NEW ep2, NEW br2,
         Moves(now, ep, br, now2, ep2, br2), Waiting(q, now, ep, br)
  PROVE  Waiting(q, now2, ep2, br2)
<1> SUFFICES ASSUME NEW i \in 1..Len(q) PROVE Recent(q[i], now2, ep2, br2)
  BY DEF Waiting
<1>1. q[i] \in DtMessage
  BY ElementOfSeq
<1>2. Recent(q[i], now, ep, br)
  BY DEF Waiting
<1> QED BY <1>1, <1>2, RecentStays

\* The first that waits is taken; it is ahead of the rest.
LEMMA TailWaits ==
  ASSUME NEW q \in Seq(DtMessage), q # <<>>, NEW now, NEW ep, NEW br, Waiting(q, now, ep, br)
  PROVE  /\ Head(q) \in DtMessage /\ Tail(q) \in Seq(DtMessage)
         /\ Waiting(Tail(q), now, ep, br) /\ Ahead(Head(q), Tail(q), now, ep, br)
         /\ \A m : Ahead(m, q, now, ep, br) =>
              /\ Ahead(m, Tail(q), now, ep, br)
              /\ m # NoMessage => Steady(m, Head(q))
<1> DEFINE z == Tail(q)
<1>1. /\ Len(q) \in Nat /\ Len(q) > 0 /\ Len(z) = Len(q) - 1 /\ z \in Seq(DtMessage)
      /\ Head(q) \in DtMessage /\ Head(q) = q[1] /\ \A i \in 1..Len(z) : z[i] = q[i + 1]
  BY HeadTailProperties, LenProperties, EmptySeq
<1> HIDE DEF z
<1>2. \A i \in 1..Len(z) : i + 1 \in 1..Len(q) /\ z[i] = q[i + 1] /\ 1 < i + 1
  BY ONLY <1>1
<1>3. 1 \in 1..Len(q)
  BY ONLY <1>1
<1>4. \A i, j \in 1..Len(z) : i < j => i + 1 < j + 1
  BY ONLY <1>1
<1>5. Waiting(z, now, ep, br)
  BY ONLY <1>2, <1>4, Waiting(q, now, ep, br) DEF Waiting
<1>6. Ahead(Head(q), z, now, ep, br)
  BY ONLY <1>1, <1>2, <1>3, Waiting(q, now, ep, br) DEF Waiting, Ahead
<1>7. ASSUME NEW m, Ahead(m, q, now, ep, br)
      PROVE  Ahead(m, z, now, ep, br) /\ (m # NoMessage => Steady(m, Head(q)))
  BY ONLY <1>1, <1>2, <1>3, <1>7 DEF Ahead
<1> QED BY ONLY <1>1, <1>5, <1>6, <1>7 DEF z

\* A message offered now is behind all the others.
LEMMA AppendWaits ==
  ASSUME NEW q \in Seq(DtMessage), NEW gap \in Nat, NEW now \in Nat \ {0}, NEW ep \in Nat,
         NEW br \in Nat, Waiting(q, now, ep, br), NEW n,
         n = [time |-> now, epoch |-> <<ep, gap>>, breaks |-> br]
  PROVE  /\ Append(q, n) \in Seq(DtMessage) /\ Waiting(Append(q, n), now + 1, ep, br)
         /\ \A m \in DtMessage \cup {NoMessage} :
              Ahead(m, q, now, ep, br) => Ahead(m, Append(q, n), now + 1, ep, br)
<1> DEFINE z == Append(q, n)
<1>1. n \in DtMessage
  BY DEF DtMessage
<1>2. /\ z \in Seq(DtMessage) /\ Len(z) = Len(q) + 1 /\ Len(q) \in Nat
      /\ \A i \in 1..Len(q) : z[i] = q[i]
      /\ z[Len(q) + 1] = n
  BY <1>1, AppendProperties, LenProperties
<1> HIDE DEF z
<1>3. Moves(now, ep, br, now + 1, ep, br)
  BY DEF Moves
<1>4. Waiting(q, now + 1, ep, br)
  BY <1>3, WaitingStays
<1>5. ASSUME NEW m \in DtMessage, Recent(m, now, ep, br) PROVE Steady(m, n)
  BY <1>5 DEF Recent, Steady, DtMessage
<1>6. Recent(n, now + 1, ep, br)
  BY DEF Recent
<1>7. \A i \in 1..Len(z) : i \in 1..Len(q) \/ i = Len(q) + 1
  BY ONLY <1>2
<1>8. \A i \in 1..Len(q) : q[i] \in DtMessage /\ Recent(q[i], now, ep, br)
  BY ElementOfSeq DEF Waiting
<1>9. \A i \in 1..Len(q) : Steady(q[i], n)
  BY ONLY <1>5, <1>8
<1>10. \A i, j \in 1..Len(z) : i < j => i \in 1..Len(q)
  BY ONLY <1>2
<1>11. Waiting(z, now + 1, ep, br)
  <2>1. \A i \in 1..Len(z) : Recent(z[i], now + 1, ep, br)
    BY ONLY <1>2, <1>4, <1>6, <1>7 DEF Waiting
  <2>2. \A i, j \in 1..Len(z) : i < j => Steady(z[i], z[j])
    BY ONLY <1>2, <1>4, <1>7, <1>9, <1>10 DEF Waiting
  <2> QED BY ONLY <2>1, <2>2 DEF Waiting
<1>12. ASSUME NEW m \in DtMessage \cup {NoMessage}, Ahead(m, q, now, ep, br)
       PROVE  Ahead(m, z, now + 1, ep, br)
  <2>1. Ahead(m, q, now + 1, ep, br)
    BY <1>3, <1>12, AheadStays
  <2>2. m # NoMessage => Steady(m, n)
    BY <1>5, <1>12 DEF Ahead
  <2> QED BY ONLY <1>2, <1>7, <2>1, <2>2 DEF Ahead
<1> QED BY ONLY <1>2, <1>11, <1>12 DEF z

\* An empty queue.
LEMMA NoneWait ==
  ASSUME NEW now, NEW ep, NEW br
  PROVE  <<>> \in Seq(DtMessage) /\ Waiting(<<>>, now, ep, br)
<1>1. 1..Len(<<>>) = {} /\ <<>> \in Seq(DtMessage)
  OBVIOUS
<1> QED BY <1>1 DEF Waiting

\* A message that is not there is ahead of everything.
LEMMA NobodyAhead == \A q, now, ep, br : Ahead(NoMessage, q, now, ep, br)
  BY DEF Ahead

\* Only the clock, the tuning and what breaks the samples move.
LEMMA DtClock ==
  ASSUME DtInv, Moves(dtNow, dtEpoch, dtBreaks, dtNow', dtEpoch', dtBreaks'),
         dtGap' \in Nat, UNCHANGED <<dtQueue, dtWork>>
  PROVE  DtInv'
<1>1. /\ dtQueue \in Seq(DtMessage) /\ dtPart \in DtMessage \cup {NoMessage}
      /\ dtPrevious \in DtMessage \cup {NoMessage} /\ dtContinuity \in Nat /\ dtNow \in Nat \ {0}
  BY DEF DtInv, DtTyped
<1>2. UNCHANGED <<dtQueue, dtPart, dtPrevious, dtContinuity>>
  BY DEF dtWork
<1>3. /\ Ahead(dtPrevious, dtQueue, dtNow', dtEpoch', dtBreaks')
      /\ Ahead(dtPart, dtQueue, dtNow', dtEpoch', dtBreaks')
      /\ Waiting(dtQueue, dtNow', dtEpoch', dtBreaks')
  BY <1>1, AheadStays, WaitingStays DEF DtInv
<1>4. DtTyped'
  BY <1>1, <1>2 DEF DtTyped, Moves
<1> QED BY <1>2, <1>3, <1>4 DEF DtInv

\* Init and every step keep the invariant.
LEMMA DtInitInv == DtInit => DtInv
  BY NoneWait, NobodyAhead DEF DtInit, DtInv, DtTyped

\* Every step of the detectors.
LEMMA DtNextInv == DtInv /\ [DtNext]_dtVars => DtInv'
<1> SUFFICES ASSUME DtInv, [DtNext]_dtVars PROVE DtInv'
  OBVIOUS
<1>1. /\ dtQueue \in Seq(DtMessage) /\ dtPart \in DtMessage \cup {NoMessage}
      /\ dtPrevious \in DtMessage \cup {NoMessage} /\ dtNow \in Nat \ {0}
      /\ dtEpoch \in Nat /\ dtGap \in Nat /\ dtBreaks \in Nat /\ dtContinuity \in Nat
  BY DEF DtInv, DtTyped
<1>2. CASE DtObserve
  <2>1. PICK pause \in 0..1, retuned \in BOOLEAN :
          /\ dtNow' = dtNow + pause
          /\ dtEpoch' = dtEpoch + (IF retuned THEN 1 ELSE 0)
          /\ dtBreaks' = dtBreaks + (IF pause = 1 \/ retuned THEN 1 ELSE 0)
    BY <1>2 DEF DtObserve
  <2>2. UNCHANGED <<dtGap, dtQueue, dtWork>>
    BY <1>2 DEF DtObserve
  <2>3. Moves(dtNow, dtEpoch, dtBreaks, dtNow', dtEpoch', dtBreaks')
    <3>1. CASE retuned
      BY ONLY <1>1, <2>1, <3>1 DEF Moves
    <3>2. CASE ~retuned
      BY ONLY <1>1, <2>1, <3>2 DEF Moves
    <3> QED BY ONLY <3>1, <3>2
  <2> QED BY <1>1, <2>2, <2>3, DtClock
<1>3. CASE DtUnhealthy
  <2>1. Moves(dtNow, dtEpoch, dtBreaks, dtNow', dtEpoch', dtBreaks')
    BY <1>1, <1>3 DEF DtUnhealthy, Moves
  <2> QED BY <1>1, <1>3, <2>1, DtClock DEF DtUnhealthy
<1>4. CASE DtObserved
  <2>1. Moves(dtNow, dtEpoch, dtBreaks, dtNow', dtEpoch', dtBreaks')
    BY <1>1, <1>4 DEF DtObserved, Moves
  <2> QED BY <1>1, <1>4, <2>1, DtClock DEF DtObserved
<1>5. CASE DtSubmitStopped \/ DtSubmitDropped
  <2>1. Moves(dtNow, dtEpoch, dtBreaks, dtNow', dtEpoch', dtBreaks')
    BY <1>1, <1>5 DEF DtSubmitStopped, DtSubmitDropped, NextMessage, Moves
  <2>2. dtGap' \in Nat /\ UNCHANGED <<dtQueue, dtWork>>
    BY <1>1, <1>5 DEF DtSubmitStopped, DtSubmitDropped
  <2> QED BY <2>1, <2>2, DtClock
<1>6. CASE DtSubmitRunning \/ DtStop \/ DtReady \/ DtFails \/ UNCHANGED dtVars
  <2>1. UNCHANGED <<dtQueue, dtWork, dtGap, dtNow, dtEpoch, dtBreaks>>
    BY <1>6 DEF DtSubmitRunning, DtStop, DtReady, DtFails, dtVars, dtScan
  <2>2. Moves(dtNow, dtEpoch, dtBreaks, dtNow', dtEpoch', dtBreaks')
    BY <1>1, <2>1 DEF Moves
  <2> QED BY <1>1, <2>1, <2>2, DtClock
<1>7. CASE DtSubmitQueued
  <2> DEFINE n == [time |-> dtNow, epoch |-> <<dtEpoch, dtGap>>, breaks |-> dtBreaks]
  <2>1. /\ dtQueue' = Append(dtQueue, n) /\ dtNow' = dtNow + 1
        /\ UNCHANGED <<dtGap, dtEpoch, dtBreaks, dtWork>>
    BY <1>7 DEF DtSubmitQueued, NextMessage
  <2>2. /\ Append(dtQueue, n) \in Seq(DtMessage)
        /\ Waiting(Append(dtQueue, n), dtNow + 1, dtEpoch, dtBreaks)
        /\ \A m \in DtMessage \cup {NoMessage} :
             Ahead(m, dtQueue, dtNow, dtEpoch, dtBreaks) =>
               Ahead(m, Append(dtQueue, n), dtNow + 1, dtEpoch, dtBreaks)
    BY <1>1, AppendWaits DEF DtInv
  <2> HIDE DEF n
  <2>3. UNCHANGED <<dtPart, dtPrevious, dtContinuity>>
    BY <2>1 DEF dtWork
  <2> QED BY <1>1, <2>1, <2>2, <2>3 DEF DtInv, DtTyped
<1>8. CASE DtJoined
  <2>1. dtQueue' = <<>> /\ UNCHANGED <<dtGap, dtNow, dtEpoch, dtBreaks, dtPart, dtPrevious,
                                       dtContinuity>>
    BY <1>8 DEF DtJoined, dtScan, dtWork
  <2>2. \A m : Ahead(m, dtQueue, dtNow, dtEpoch, dtBreaks) =>
                 Ahead(m, <<>>, dtNow, dtEpoch, dtBreaks)
    BY DEF Ahead
  <2> QED BY <1>1, <2>1, <2>2, NoneWait DEF DtInv, DtTyped
<1>9. CASE DtStart
  <2>1. /\ dtQueue' = <<>> /\ dtGap' = 0 /\ dtPart' = NoMessage /\ dtPrevious' = NoMessage
        /\ dtContinuity' = 0 /\ UNCHANGED <<dtNow, dtEpoch, dtBreaks>>
    BY <1>9 DEF DtStart, dtScan
  <2> QED BY <1>1, <2>1, NoneWait, NobodyAhead DEF DtInv, DtTyped
<1>10. CASE DtTake
  <2>1. UNCHANGED <<dtGap, dtNow, dtEpoch, dtBreaks, dtPrevious, dtContinuity>>
    BY <1>10 DEF DtTake, dtScan
  <2>2. CASE UNCHANGED <<dtPart, dtQueue>>
    BY <2>1, <2>2 DEF DtInv, DtTyped
  <2>3. CASE dtQueue # <<>> /\ dtPart' = Head(dtQueue) /\ dtQueue' = Tail(dtQueue)
    <3>1. /\ Head(dtQueue) \in DtMessage /\ Tail(dtQueue) \in Seq(DtMessage)
          /\ Waiting(Tail(dtQueue), dtNow, dtEpoch, dtBreaks)
          /\ Ahead(Head(dtQueue), Tail(dtQueue), dtNow, dtEpoch, dtBreaks)
          /\ \A m : Ahead(m, dtQueue, dtNow, dtEpoch, dtBreaks) =>
               /\ Ahead(m, Tail(dtQueue), dtNow, dtEpoch, dtBreaks)
               /\ m # NoMessage => Steady(m, Head(dtQueue))
      BY <1>1, <2>3, TailWaits DEF DtInv
    <3> QED BY <1>1, <2>1, <2>3, <3>1 DEF DtInv, DtTyped
  <2> QED BY <1>10, <2>2, <2>3 DEF DtTake
<1>11. CASE DtAnalyse
  <2>1. /\ dtContinuity' \in Nat /\ dtPrevious' = dtPart /\ dtPart' = NoMessage
        /\ UNCHANGED <<dtQueue, dtGap, dtNow, dtEpoch, dtBreaks>>
    BY <1>1, <1>11 DEF DtAnalyse, dtScan
  <2> QED BY <1>1, <2>1, NobodyAhead DEF DtInv, DtTyped
<1>12. CASE DtEnds
  <2>1. /\ dtContinuity' = 0 /\ dtPrevious' = NoMessage /\ dtPart' = NoMessage
        /\ UNCHANGED <<dtQueue, dtGap, dtNow, dtEpoch, dtBreaks>>
    BY <1>12 DEF DtEnds, dtScan
  <2> QED BY <1>1, <2>1, NobodyAhead DEF DtInv, DtTyped
<1> QED BY <1>2, <1>3, <1>4, <1>5, <1>6, <1>7, <1>8, <1>9, <1>10, <1>11, <1>12
        DEF DtNext, DtOfferStep, DtUiStep, DtThreadStep

\* Detector::run (drones/detector.cpp): between two messages the decoder joins, nothing
\* was dropped, omitted or broken, for any limits.
THEOREM DtJoinsUnbrokenHolds == DtInit /\ [][DtNext]_dtVars => DtJoinsUnbroken
<1> DEFINE Joins == NoMessage \notin {dtPrevious, dtPrevious'} /\ dtContinuity' = dtContinuity
                    => dtPrevious'.breaks = dtPrevious.breaks
<1>1. DtInv /\ [DtNext]_dtVars => [Joins]_dtVars
  <2> SUFFICES ASSUME DtInv, DtNext, NoMessage \notin {dtPrevious, dtPrevious'},
                      dtContinuity' = dtContinuity
               PROVE  dtPrevious'.breaks = dtPrevious.breaks
    OBVIOUS
  <2>1. CASE DtAnalyse
    <3>1. dtContinuity \in Nat
      BY DEF DtInv, DtTyped
    <3>2. ~Discontinuity /\ dtPrevious' = dtPart
      BY <2>1, <3>1 DEF DtAnalyse
    <3>3. dtPart.epoch = dtPrevious.epoch /\ dtPart.time = dtPrevious.time + 1
      BY <3>2 DEF Discontinuity
    <3>4. Steady(dtPrevious, dtPart)
      BY <3>2 DEF DtInv
    <3> QED BY ONLY <3>2, <3>3, <3>4 DEF Steady
  <2>2. CASE DtStart \/ DtEnds
    BY <2>2 DEF DtStart, DtEnds
  <2>3. CASE UNCHANGED dtPrevious
    BY <2>3
  <2> QED BY <2>1, <2>2, <2>3 DEF DtNext, DtOfferStep, DtUiStep, DtThreadStep, DtObserve,
             DtUnhealthy, DtObserved, DtSubmitStopped, DtSubmitRunning, DtSubmitDropped,
             DtSubmitQueued, DtStop, DtJoined, DtReady, DtTake, DtFails, dtWork
<1> QED BY <1>1, DtInitInv, DtNextInv, PTL DEF DtJoinsUnbroken

-----------------------------------------------------------------------------
(* The bench receiver *)

\* What run() last read is what was set, unless a new setting waits; the device has
\* what was read when a round begins, and when it works.
BrInv ==
  brSide = "rx" =>
    /\ brThread \in {"connect", "top", "apply", "work"} /\ ~brDirty => brRead.gain = brGain
    /\ brThread = "top" /\ ~brStop => brRadio = brRead.gain
    /\ brThread = "apply" /\ ~brRead.dirty => brRadio = brRead.gain
    /\ brThread = "work" => brRadio = brRead.gain

\* Every step of the GUI and of run() keeps it.
LEMMA BrNextInv == BrInv /\ [BrNext]_brVars => BrInv'
<1> SUFFICES ASSUME BrInv, [BrNext]_brVars, brSide = "rx" PROVE BrInv'
  BY DEF BrInv, BrNext, BrThreadStep, BrConnect, BrReconnect, BrDisconnect, BrJoined, BrRejoined,
         BrSetGain, BrSendOnce, BrPeriod, BrReadConfig, BrConnected, BrAttemptFails,
         BrAttemptsOver, BrTopReceive, BrApply, BrTopSend, BrWorked, BrLeave, brVars
<1>1. CASE BrConnect \/ BrRejoined \/ BrReadConfig \/ BrConnected \/ BrLeave
  <2>1. brThread' \in {"read", "connect", "top", "ended"}
    BY <1>1 DEF BrConnect, BrStart, BrRejoined, BrReadConfig, BrConnected, BrLeave
  <2>2. CASE BrReadConfig
    BY <2>2 DEF BrReadConfig, BrInv
  <2>3. CASE BrConnected
    BY <2>3 DEF BrConnected, BrAttempt, BrAt, BrInv
  <2>4. CASE BrConnect \/ BrRejoined \/ BrLeave
    BY <2>4 DEF BrConnect, BrStart, BrRejoined, BrLeave, BrInv
  <2> QED BY <1>1, <2>2, <2>3, <2>4
<1>2. CASE BrReconnect \/ BrDisconnect \/ BrSendOnce \/ BrPeriod
  BY <1>2 DEF BrReconnect, BrDisconnect, BrSendOnce, BrPeriod, brGains, brThreads, BrInv
<1>3. CASE BrJoined \/ BrWorked \/ BrAttemptFails
  BY <1>3 DEF BrJoined, BrWorked, BrAttemptFails, BrAttempt, BrAt, brGains, BrInv
<1>4. CASE BrSetGain
  BY <1>4 DEF BrSetGain, brThreads, BrInv
<1>5. CASE BrAttemptsOver
  \* It is left to the top without a device only after a stop.
  <2>1. brTries = 0 => brStop
    BY <1>5, BenchAssumption DEF BrAttemptsOver
  <2> QED BY <1>5, <2>1 DEF BrAttemptsOver, BrAt, brGains, BrInv
<1>6. CASE BrTopReceive
  BY <1>6 DEF BrTopReceive, BrAt, BrInv
<1>7. CASE BrApply
  BY <1>7 DEF BrApply, BrAt, BrInv
<1>8. CASE BrTopSend
  BY <1>8 DEF BrTopSend
<1>9. CASE UNCHANGED brVars
  BY <1>9 DEF brVars, brGains, brThreads, BrInv
<1> QED BY <1>1, <1>2, <1>3, <1>4, <1>5, <1>6, <1>7, <1>8, <1>9 DEF BrNext, BrThreadStep

\* BenchCapture::run: a capture begins with the gain that stood when its round began.
THEOREM BrGainTrueHolds == BrSpec => BrGainTrue
<1>1. BrInit => BrInv
  BY DEF BrInit, BrInv
<1>2. BrInv' => (brSide' = "rx" /\ brThread' = "work" => brRadio' = brRead'.gain)
  BY DEF BrInv
<1>3. [BrNext]_brVars => [brSide' = brSide]_brVars
  BY DEF BrNext, BrThreadStep, BrConnect, BrReconnect, BrDisconnect, BrJoined, BrRejoined,
         BrSetGain, BrSendOnce, BrPeriod, BrReadConfig, BrConnected, BrAttemptFails,
         BrAttemptsOver, BrTopReceive, BrApply, BrTopSend, BrWorked, BrLeave, brVars
<1>4. BrInv' /\ [BrNext]_brVars =>
        [brSide = "rx" /\ brThread' = "work" => brRadio' = brRead'.gain]_brVars
  BY <1>2, <1>3
<1> QED BY <1>1, <1>4, BrNextInv, PTL DEF BrSpec, BrGainTrue

-----------------------------------------------------------------------------
(* The model inference *)

\* What was captured since the last broken capture, on the source observed last or
\* on none since it was forgotten.
OneSource(of, gaps, key) == of.gaps = gaps /\ key \in {of.source, NoSource}

\* A job or an entry whose generation is the present one is of the present stretch.
Present(x, gen, gaps, key) ==
  x.gen \in Nat /\ x.gen <= gen /\ (x.gen = gen => OneSource(x.of, gaps, key))

MlInv ==
  /\ mlGen \in Nat /\ mlGaps \in Nat
  /\ mlGen = 0 => mlGaps = 0 /\ mlKey = NoSource
  /\ mlObserve.gen \in Nat /\ mlObserve.gen <= mlGen
  /\ mlObserve.at = "lock" =>
       mlObserve.of.source \in Sources /\ (mlObserve.gen = mlGen => mlObserve.of.gaps = mlGaps)
  /\ mlObserve.at = "copy" => mlObserve.of.gaps = mlGaps /\ mlKey = mlObserve.of.source
  /\ Present(mlPending, mlGen, mlGaps, mlKey) /\ Present(mlWorking, mlGen, mlGaps, mlKey)
  /\ \A r \in mlHistory : Present(r, mlGen, mlGaps, mlKey)

\* A later generation, or the same one with the source kept or forgotten.
LEMMA PresentStays ==
  ASSUME NEW x, NEW gen \in Nat, NEW gaps, NEW key, Present(x, gen, gaps, key),
         NEW gen2 \in Nat, NEW gaps2, NEW key2,
         gen < gen2 \/ (gen2 = gen /\ gaps2 = gaps /\ key2 \in {key, NoSource})
  PROVE  Present(x, gen2, gaps2, key2)
  BY DEF Present, OneSource

\* When there is no job.
LEMMA NoJobPresent == MlInv => Present(NoJob, mlGen, mlGaps, mlKey)
  BY DEF MlInv, Present, OneSource, NoJob, NoCaptureSeen

\* The generation moves on, or the source is kept or forgotten: jobs and entries stay
\* as present as they were, or are present no more.
LEMMA MlJobsStay ==
  ASSUME MlInv, mlGen' \in Nat,
         mlGen < mlGen' \/ (mlGen' = mlGen /\ mlGaps' = mlGaps /\ mlKey' \in {mlKey, NoSource}),
         mlHistory' \subseteq mlHistory
  PROVE  /\ Present(mlPending, mlGen', mlGaps', mlKey')
         /\ Present(mlWorking, mlGen', mlGaps', mlKey')
         /\ \A r \in mlHistory' : Present(r, mlGen', mlGaps', mlKey')
<1>1. mlGen \in Nat
  BY DEF MlInv
<1>2. \A x : Present(x, mlGen, mlGaps, mlKey) => Present(x, mlGen', mlGaps', mlKey')
  BY <1>1, PresentStays
<1> QED BY <1>2 DEF MlInv

\* The GUI's calls, none of which stops the copy of observe() from being present.
LEMMA MlCallsKeep ==
  ASSUME MlInv, MlCall \/ MlCallGoesOn
  PROVE  MlInv'
<1>1. UNCHANGED <<mlPending, mlWorking, mlObserve, mlGaps>> /\ mlHistory' \subseteq mlHistory
  BY DEF MlCall, MlCallGoesOn, MlStart, MlReset, MlLaunch, MlStop, MlStopNotify, MlInvalidate,
         MlInvalidateLocked, mlState
<1>2. /\ mlGen \in Nat
      /\ \/ mlGen' = mlGen + 1 /\ mlKey' = mlKey
         \/ mlGen' = mlGen /\ mlKey' = mlKey
         \/ mlGen' = mlGen /\ mlKey' = NoSource /\ mlObserve.at # "copy"
  BY DEF MlInv, MlCall, MlCallGoesOn, MlStart, MlReset, MlLaunch, MlStop, MlStopNotify,
         MlInvalidate, MlInvalidateLocked, MlMutexFree, mlState, mlAtomics
<1>3. mlGen' \in Nat /\ (mlGen < mlGen' \/ mlGen' = mlGen)
  BY ONLY <1>2
<1>4. /\ Present(mlPending, mlGen', mlGaps', mlKey')
      /\ Present(mlWorking, mlGen', mlGaps', mlKey')
      /\ \A r \in mlHistory' : Present(r, mlGen', mlGaps', mlKey')
  BY <1>1, <1>2, <1>3, MlJobsStay
<1> QED BY <1>1, <1>2, <1>3, <1>4 DEF MlInv

\* observe() begins: what it takes is of the present stretch, or it breaks the stretch.
LEMMA MlObserveKeeps ==
  ASSUME MlInv, Observe
  PROVE  MlInv'
<1>1. UNCHANGED <<mlPending, mlWorking, mlHistory, mlKey>> /\ mlObserve.at = "idle"
  BY DEF Observe, mlState
<1>2. /\ mlGen \in Nat /\ mlGaps \in Nat /\ mlObserve.gen \in Nat /\ mlObserve.gen <= mlGen
      /\ mlGen = 0 => mlGaps = 0 /\ mlKey = NoSource
  BY DEF MlInv
<1>3. CASE mlGen' = mlGen + 1 /\ mlGaps' = mlGaps + 1 /\ mlObserve' = mlObserve
  <2>1. mlGen' \in Nat /\ mlGaps' \in Nat /\ mlGen < mlGen' /\ mlGen' # 0
        /\ mlObserve'.gen \in Nat /\ mlObserve'.gen <= mlGen' /\ mlObserve'.at = "idle"
    BY ONLY <1>1, <1>2, <1>3
  <2>2. /\ Present(mlPending, mlGen', mlGaps', mlKey')
        /\ Present(mlWorking, mlGen', mlGaps', mlKey')
        /\ \A r \in mlHistory' : Present(r, mlGen', mlGaps', mlKey')
    BY <1>1, <2>1, MlJobsStay
  <2> QED BY <1>1, <2>1, <2>2 DEF MlInv
<1>4. CASE /\ UNCHANGED <<mlGen, mlGaps>>
           /\ \E source \in Sources :
                mlObserve' = [at |-> "lock", gen |-> mlGen,
                  of |-> [source |-> source, gaps |-> mlGaps, called |-> mlInvalid.called]]
  <2>1. /\ mlObserve'.at = "lock" /\ mlObserve'.gen = mlGen
        /\ mlObserve'.of.source \in Sources /\ mlObserve'.of.gaps = mlGaps
    BY <1>4
  <2> QED BY <1>1, <1>2, <1>4, <2>1 DEF MlInv
<1> QED BY <1>3, <1>4 DEF Observe

\* observe() goes on: a new source makes everything older stale.
LEMMA MlObserverKeeps ==
  ASSUME MlInv, MlObserver
  PROVE  MlInv'
<1>2. /\ mlGen \in Nat /\ mlGaps \in Nat /\ mlObserve.gen \in Nat /\ mlObserve.gen <= mlGen
      /\ mlGen = 0 => mlGaps = 0 /\ mlKey = NoSource
  BY DEF MlInv
<1>3. CASE ObserveDropped
  <2>1. UNCHANGED <<mlPending, mlWorking, mlHistory, mlKey, mlGen, mlGaps>>
        /\ mlObserve'.at = "idle" /\ mlObserve'.gen = 0
    BY <1>3 DEF ObserveDropped, NotObserving, mlState, mlAtomics
  <2> QED BY <1>2, <2>1 DEF MlInv
<1>4. CASE ObserveChecked
  <2>1. /\ mlObserve.at = "lock" /\ mlObserve.gen = mlGen /\ mlKey' = mlObserve.of.source
        /\ UNCHANGED <<mlPending, mlWorking, mlGaps>>
        /\ \/ /\ mlObserve.of.source # mlKey /\ mlGen' = mlGen + 1 /\ mlHistory' = {}
           \/ /\ mlObserve.of.source = mlKey /\ UNCHANGED <<mlGen, mlHistory>>
        /\ mlObserve' = NotObserving \/ mlObserve' = [mlObserve EXCEPT !.at = "copy"]
    BY <1>4 DEF ObserveChecked, ForgetOld
  <2>2. mlObserve.of.gaps = mlGaps
    BY <2>1 DEF MlInv
  <2>3. mlGen' \in Nat /\ (mlGen' = 0 => mlGaps' = 0 /\ mlKey' = NoSource)
        /\ (mlGen < mlGen' \/ (mlGen' = mlGen /\ mlGaps' = mlGaps /\ mlKey' \in {mlKey, NoSource}))
        /\ mlHistory' \subseteq mlHistory
    BY ONLY <1>2, <2>1
  <2>4. /\ Present(mlPending, mlGen', mlGaps', mlKey')
        /\ Present(mlWorking, mlGen', mlGaps', mlKey')
        /\ \A r \in mlHistory' : Present(r, mlGen', mlGaps', mlKey')
    BY <2>3, MlJobsStay
  <2>5. CASE mlObserve' = NotObserving
    <3>1. mlObserve'.at = "idle" /\ mlObserve'.gen = 0
      BY <2>5 DEF NotObserving
    <3> QED BY <1>2, <2>1, <2>3, <2>4, <3>1 DEF MlInv
  <2>6. CASE mlObserve' = [mlObserve EXCEPT !.at = "copy"]
    <3>1. mlObserve'.at # "lock" /\ mlObserve'.gen = mlObserve.gen /\ mlObserve'.of = mlObserve.of
      BY ONLY <2>6, <2>1, MlInv DEF MlInv
    <3> QED BY <1>2, <2>1, <2>2, <2>3, <2>4, <3>1 DEF MlInv
  <2> QED BY <2>1, <2>5, <2>6
<1>5. CASE ObserveQueued
  <2>1. /\ mlObserve.at = "copy" /\ mlObserve'.at = "idle" /\ mlObserve'.gen = 0
        /\ mlPending'.gen = mlGen /\ mlPending'.of = mlObserve.of
        /\ UNCHANGED <<mlWorking, mlHistory, mlKey, mlGen, mlGaps>>
    BY <1>5 DEF ObserveQueued, NotObserving, mlAtomics
  <2>2. mlObserve.of.gaps = mlGaps /\ mlKey = mlObserve.of.source
    BY <2>1 DEF MlInv
  <2>3. Present(mlPending', mlGen, mlGaps, mlKey)
    BY <1>2, <2>1, <2>2 DEF Present, OneSource
  <2> QED BY <1>2, <2>1, <2>3 DEF MlInv
<1> QED BY <1>3, <1>4, <1>5 DEF MlObserver

\* run(): it takes the pending job, drops the one it had, or enters a result of it.
LEMMA MlThreadKeeps ==
  ASSUME MlInv, MlThread
  PROVE  MlInv'
<1>1. UNCHANGED <<mlPending, mlObserve, mlKey, mlGen, mlGaps>>
  BY DEF MlThread, RunReady, RunLoop, RunBlocks, RunSleeps, RunTakes, RunInterval, RunAnswered,
         RunFails, RunEnds, mlRest, mlAtomics
<1>2. /\ Present(mlPending, mlGen, mlGaps, mlKey) /\ Present(mlWorking, mlGen, mlGaps, mlKey)
      /\ Present(NoJob, mlGen, mlGaps, mlKey)
  BY NoJobPresent DEF MlInv
<1>3. Present(mlWorking', mlGen, mlGaps, mlKey)
  <2>1. \/ mlWorking' \in {mlWorking, mlPending, NoJob}
        \/ mlWorking' = [mlWorking EXCEPT !.left = mlWorking.left - 1]
    BY DEF MlThread, RunReady, RunLoop, RunBlocks, RunSleeps, RunTakes, RunInterval, RunAnswered,
           RunFails, RunEnds
  <2>2. CASE mlWorking' = [mlWorking EXCEPT !.left = mlWorking.left - 1]
    <3>1. mlWorking'.gen = mlWorking.gen /\ mlWorking'.of = mlWorking.of
      BY ONLY <2>2
    <3> QED BY ONLY <1>2, <3>1 DEF Present
  <2> QED BY <1>2, <2>1, <2>2
<1>4. \A r \in mlHistory' : Present(r, mlGen, mlGaps, mlKey)
  <2>1. \/ mlHistory' = mlHistory
        \/ mlHistory' = mlHistory \cup {[gen |-> mlWorking.gen, of |-> mlWorking.of]}
    BY DEF MlThread, RunReady, RunLoop, RunBlocks, RunSleeps, RunTakes, RunInterval, RunAnswered,
           RunFails, RunEnds
  <2>2. Present([gen |-> mlWorking.gen, of |-> mlWorking.of], mlGen, mlGaps, mlKey)
    BY <1>2 DEF Present
  <2> QED BY <2>1, <2>2 DEF MlInv
<1> QED BY <1>1, <1>2, <1>3, <1>4 DEF MlInv

\* Inference::snapshot: what is shown as current was captured after the last broken
\* capture and on the source observed last, for any sources and any number of calls.
THEOREM MlOneSourceHolds == MlSpec => []MlOneSource
<1>1. MlInit => MlInv
  BY DEF MlInit, MlInv, Present, OneSource, NoJob, NoCaptureSeen, NotObserving
<1>2. MlInv /\ [MlNext]_mlVars => MlInv'
  <2>1. MlInv /\ UNCHANGED mlVars => MlInv'
    BY DEF MlInv, mlVars, mlState, mlAtomics
  <2> QED BY <2>1, MlCallsKeep, MlObserveKeeps, MlObserverKeeps, MlThreadKeeps DEF MlNext
<1>3. MlInv => MlOneSource
  BY DEF MlInv, MlOneSource, Shown, Present, OneSource
<1> QED BY <1>1, <1>2, <1>3, PTL DEF MlSpec

-----------------------------------------------------------------------------
(* The cyclostationary shadow worker *)

SlotRecs == [state : {"free", "queued", "working"}, seq : Nat, epoch : Nat, begun : Nat]
Results == [seq : Nat, epoch : Nat, begun : Nat]
Clients == [running : BOOLEAN, requests : Nat, faults : Nat]
Busy == {"launch", "send", "receive", "publish"}

SwTyped ==
  /\ {swEnabled, swStopping} \subseteq BOOLEAN /\ swEpoch \in Nat
  /\ slots \in [Slots -> SlotRecs] /\ latest \in Results
  /\ swStats \in [submitted : Nat, measured : Nat, discarded : Nat]
  /\ job \in Slots \cup {NoSlot}
  /\ client \in Clients
  /\ swCapture \in [at : {"none", "read", "taken", "signal"}, epoch : Nat, begun : Nat]
  /\ {swChanges, swLate, misbehaved} \subseteq Nat

\* The slot at work is the worker's, while it is busy.
OneJob ==
  /\ \A s \in Slots : slots[s].state = "working" <=> s = job
  /\ job # NoSlot <=> swWorker \in Busy

\* The child is sent one request at a time, the worker's; its faults are its own.
OneRequest ==
  /\ swWorker = "receive" => pipe = <<slots[job].seq>>
  /\ swWorker # "receive" => pipe = <<>>
  /\ swWorker # "publish" => outcome = "none"
  /\ client.faults <= misbehaved
  /\ outcome = "exhausted" => misbehaved > RestartLimit

\* Where the operator's call is: until it has stored enabled_ the worker is off; and
\* when it is off nothing is queued and nothing shown, a disabling call apart.
OffState ==
  /\ swUi \in {"disable", "disable_join", "enable", "enable_join", "enable_store"} => ~swEnabled
  /\ swUi = "enable" => swWorker = "none"
  /\ ~swEnabled /\ swUi # "disable" => latest = NoResult /\ In("queued") = {}

\* What has the present epoch began after the last change.
Begun(x, ep, changes) == x.epoch <= ep /\ (x.epoch = ep => x.begun = changes)

FreshState ==
  /\ \A s \in Slots : slots[s].state # "free" => Begun(slots[s], swEpoch, swChanges)
  /\ swCapture.epoch <= swEpoch
  /\ swCapture.at \in {"taken", "signal"} => Begun(swCapture, swEpoch, swChanges)
  /\ SwFresh

SwInv == SwTyped /\ OneJob /\ OneRequest /\ OffState /\ FreshState /\ SwAccounted

-----------------------------------------------------------------------------
\* The slots that count as accepted and not yet done with.
PendingIn(f) == {s \in Slots : f[s].state \in {"queued", "working"}}
QueuedIn(f) == {s \in Slots : f[s].state = "queued"}

\* What the properties count is what these two sets hold.
LEMMA InPending == /\ In("queued") \cup In("working") = PendingIn(slots)
                   /\ In("queued") = QueuedIn(slots)
  BY DEF In, PendingIn, QueuedIn

\* Both sets are finite: they have a size.
LEMMA SlotsCount ==
  ASSUME NEW f
  PROVE  /\ IsFiniteSet(PendingIn(f)) /\ IsFiniteSet(QueuedIn(f))
         /\ Cardinality(PendingIn(f)) \in Nat /\ Cardinality(QueuedIn(f)) \in Nat
<1>1. PendingIn(f) \subseteq Slots /\ QueuedIn(f) \subseteq Slots /\ IsFiniteSet(Slots)
  BY ShadowAssumption DEF PendingIn, QueuedIn
<1>2. IsFiniteSet(PendingIn(f)) /\ IsFiniteSet(QueuedIn(f))
  BY <1>1, FS_Subset
<1> QED BY <1>2, FS_CardinalityType

\* The job and the queued slots make up what is pending.
LEMMA PendingSplit ==
  ASSUME NEW f, NEW j, \A s \in Slots : f[s].state = "working" <=> s = j
  PROVE  Cardinality(PendingIn(f)) = Cardinality(QueuedIn(f)) + (IF j \in Slots THEN 1 ELSE 0)
<1>1. CASE j \in Slots
  <2>1. PendingIn(f) = QueuedIn(f) \cup {j} /\ j \notin QueuedIn(f)
    BY <1>1 DEF PendingIn, QueuedIn
  <2>2. Cardinality(QueuedIn(f) \cup {j}) = Cardinality(QueuedIn(f)) + 1
    BY <2>1, SlotsCount, FS_AddElement
  <2> QED BY ONLY <1>1, <2>1, <2>2
<1>2. CASE j \notin Slots
  <2>1. PendingIn(f) = QueuedIn(f)
    BY <1>2 DEF PendingIn, QueuedIn
  <2> QED BY ONLY <1>2, <2>1, SlotsCount
<1> QED BY <1>1, <1>2

\* A slot more, or one less.
LEMMA OneMore ==
  ASSUME NEW f, NEW g, NEW s \in Slots, PendingIn(g) = PendingIn(f) \cup {s}, s \notin PendingIn(f)
  PROVE  Cardinality(PendingIn(g)) = Cardinality(PendingIn(f)) + 1
  BY SlotsCount, FS_AddElement

\* A wake-up does not change what the worker has in hand.
LEMMA WokenIs ==
  /\ Woken \in Busy <=> swWorker \in Busy
  /\ \A w \in {"receive", "publish", "none"} : Woken = w <=> swWorker = w
  BY DEF Woken, Busy

\* A slot that is replaced, all that are queued freed, all freed: they are slots still.
LEMMA SlotsTyped ==
  ASSUME slots \in [Slots -> SlotRecs]
  PROVE  /\ FreeSlot \in SlotRecs
         /\ \A s \in Slots, r \in SlotRecs : [slots EXCEPT ![s] = r] \in [Slots -> SlotRecs]
         /\ [s \in Slots |-> IF slots[s].state = "queued" THEN FreeSlot ELSE slots[s]]
              \in [Slots -> SlotRecs]
         /\ [s \in Slots |-> FreeSlot] \in [Slots -> SlotRecs]
<1>1. FreeSlot \in SlotRecs
  BY DEF FreeSlot, SlotRecs
<1> QED BY <1>1

\* The counters stay numbers.
LEMMA StatsTyped ==
  ASSUME NEW S \in [submitted : Nat, measured : Nat, discarded : Nat], NEW n \in Nat
  PROVE  /\ [S EXCEPT !.submitted = @ + 1] \in [submitted : Nat, measured : Nat, discarded : Nat]
         /\ [S EXCEPT !.measured = @ + 1] \in [submitted : Nat, measured : Nat, discarded : Nat]
         /\ [S EXCEPT !.discarded = @ + n] \in [submitted : Nat, measured : Nat, discarded : Nat]
         /\ [S EXCEPT !.discarded = @ + 1] \in [submitted : Nat, measured : Nat, discarded : Nat]
         /\ [S EXCEPT !.discarded = @ + 1 + n]
              \in [submitted : Nat, measured : Nat, discarded : Nat]
  OBVIOUS

\* The client of a child that was started, kept, replaced or terminated.
LEMMA ClientTyped ==
  ASSUME NEW c \in Clients
  PROVE  /\ [c EXCEPT !.running = FALSE] \in Clients
         /\ [c EXCEPT !.running = TRUE, !.requests = 0] \in Clients
         /\ [c EXCEPT !.running = FALSE, !.requests = 0] \in Clients
         /\ [c EXCEPT !.requests = c.requests + 1] \in Clients
         /\ [c EXCEPT !.running = FALSE, !.faults = c.faults + 1] \in Clients
<1>1. c.requests + 1 \in Nat /\ c.faults + 1 \in Nat
  BY DEF Clients
<1>2. [c EXCEPT !.running = FALSE] \in Clients
  BY DEF Clients
<1>3. [c EXCEPT !.running = TRUE, !.requests = 0] \in Clients
  BY DEF Clients
<1>4. [c EXCEPT !.running = FALSE, !.requests = 0] \in Clients
  BY DEF Clients
<1>5. [c EXCEPT !.requests = c.requests + 1] \in Clients
  BY <1>1 DEF Clients
<1>6. [c EXCEPT !.running = FALSE, !.faults = c.faults + 1] \in Clients
  BY <1>1 DEF Clients
<1> QED BY ONLY <1>2, <1>3, <1>4, <1>5, <1>6

\* What the scan side does keeps the types.
LEMMA ScanTyped == SwTyped /\ SwScan => SwTyped'
<1> SUFFICES ASSUME SwTyped, SwScan PROVE SwTyped'
  OBVIOUS
<1>1. /\ swCapture \in [at : {"none", "read", "taken", "signal"}, epoch : Nat, begun : Nat]
      /\ swEpoch \in Nat /\ swChanges \in Nat /\ swLate \in Nat
      /\ swStats \in [submitted : Nat, measured : Nat, discarded : Nat]
      /\ slots \in [Slots -> SlotRecs]
  BY DEF SwTyped
<1>2. swCapture' \in [at : {"none", "read", "taken", "signal"}, epoch : Nat, begun : Nat]
  <2>1. CASE CaptureEpoch
    <3>1. PICK ep \in {swEpoch, 0} : swCapture' = [at |-> "read", epoch |-> ep, begun |-> 0]
      BY <2>1 DEF CaptureEpoch
    <3> QED BY ONLY <1>1, <3>1
  <2>2. CASE CaptureBegin
    BY <1>1, <2>2 DEF CaptureBegin
  <2>3. CASE TrySubmit
    BY <1>1, <2>3 DEF TrySubmit
  <2>4. CASE swCapture' = NoCapture
    BY <2>4 DEF NoCapture
  <2> QED BY <2>1, <2>2, <2>3, <2>4 DEF SwScan, SubmitRefused, SubmitLate, SubmitSignal
<1>3. UNCHANGED <<swEnabled, swStopping, swEpoch, latest, job, client, swChanges, misbehaved>>
  BY DEF SwScan, CaptureEpoch, CaptureBegin, SubmitRefused, SubmitLate, TrySubmit,
         SubmitSignal, swShared
<1>4. /\ slots' \in [Slots -> SlotRecs] /\ swLate' \in Nat
      /\ swStats' \in [submitted : Nat, measured : Nat, discarded : Nat]
  <2>1. CASE SubmitLate
    BY <1>1, <2>1, StatsTyped DEF SubmitLate
  <2>2. CASE TrySubmit
    <3>1. PICK s \in Slots : slots' = [slots EXCEPT ![s] =
            [state |-> "queued", seq |-> swStats.submitted + 1, epoch |-> swEpoch,
             begun |-> swCapture.begun]]
      BY <2>2 DEF TrySubmit, In
    <3>2. [state |-> "queued", seq |-> swStats.submitted + 1, epoch |-> swEpoch,
           begun |-> swCapture.begun] \in SlotRecs
      BY <1>1 DEF SlotRecs
    <3>3. slots' \in [Slots -> SlotRecs]
      BY ONLY <1>1, <3>1, <3>2, SlotsTyped
    <3> QED BY <1>1, <2>2, <3>3, StatsTyped DEF TrySubmit
  <2>3. CASE CaptureEpoch \/ CaptureBegin \/ SubmitRefused \/ SubmitSignal
    BY <1>1, <2>3 DEF CaptureEpoch, CaptureBegin, SubmitRefused, SubmitSignal, swShared
  <2> QED BY <2>1, <2>2, <2>3 DEF SwScan
<1> QED BY <1>2, <1>3, <1>4 DEF SwTyped

\* So does the operator.
LEMMA CallTyped == SwTyped /\ (SwCall \/ SwCallGoesOn) => SwTyped'
<1> SUFFICES ASSUME SwTyped, SwCall \/ SwCallGoesOn PROVE SwTyped'
  OBVIOUS
<1> DEFINE queued == Cardinality(In("queued"))
<1>1. /\ {swEnabled, swStopping} \subseteq BOOLEAN /\ swEpoch \in Nat /\ swChanges \in Nat
      /\ swStats \in [submitted : Nat, measured : Nat, discarded : Nat]
      /\ slots \in [Slots -> SlotRecs] /\ latest \in Results /\ misbehaved \in Nat
      /\ client \in Clients
  BY DEF SwTyped
<1>2. queued \in Nat
  BY InPending, SlotsCount
<1> HIDE DEF queued
<1>3. UNCHANGED <<job, swCapture, swLate>>
  BY DEF SwCall, SwCallGoesOn, Invalidate, DisableCall, EnableCall, DisableLocked, DisableJoin,
         EnableJoin, EnableStart, EnableStore, EnableNotify, swShared
<1>4. /\ slots' \in {slots, [s \in Slots |-> FreeSlot],
                     [s \in Slots |-> IF slots[s].state = "queued" THEN FreeSlot ELSE slots[s]]}
      /\ latest' \in {latest, NoResult}
      /\ swStats' = swStats \/ swStats' = [swStats EXCEPT !.discarded = @ + queued]
      /\ client' \in {client, NoClient} /\ misbehaved' \in {misbehaved, 0}
      /\ swEpoch' \in {swEpoch, swEpoch + 1} /\ swChanges' \in {swChanges, swChanges + 1}
  BY DEF SwCall, SwCallGoesOn, Invalidate, DisableCall, EnableCall, DisableLocked, DisableJoin,
         EnableJoin, EnableStart, EnableStore, EnableNotify, swShared, FreeQueued, queued
<1>5. /\ swEnabled' = swEnabled \/ swEnabled' = FALSE \/ swEnabled' = TRUE
      /\ swStopping' = swStopping \/ swStopping' = FALSE \/ swStopping' = TRUE
  BY DEF SwCall, SwCallGoesOn, Invalidate, DisableCall, EnableCall, DisableLocked, DisableJoin,
         EnableJoin, EnableStart, EnableStore, EnableNotify, swShared
<1>6. slots' \in [Slots -> SlotRecs]
  BY ONLY <1>1, <1>4, SlotsTyped
<1>7. latest' \in Results /\ client' \in Clients
  <2>1. NoResult \in Results /\ NoClient \in Clients
    BY DEF Results, NoResult, NoClient, Clients
  <2> QED BY ONLY <1>1, <1>4, <2>1
<1>8. swStats' \in [submitted : Nat, measured : Nat, discarded : Nat]
  BY ONLY <1>1, <1>2, <1>4, StatsTyped
<1>9. misbehaved' \in Nat /\ swEpoch' \in Nat /\ swChanges' \in Nat
  BY ONLY <1>1, <1>4
<1>10. {swEnabled, swStopping}' \subseteq BOOLEAN
  BY ONLY <1>1, <1>5
<1> QED BY <1>3, <1>6, <1>7, <1>8, <1>9, <1>10 DEF SwTyped

\* A busy worker has a slot.
LEMMA JobIs ==
  ASSUME SwTyped, OneJob, swWorker \in Busy
  PROVE  job \in Slots /\ slots[job] \in SlotRecs /\ slots[job].state = "working"
  BY DEF SwTyped, OneJob

\* So does the worker thread, and a wake-up nobody asked for.
LEMMA WorkerTyped == SwTyped /\ OneJob /\ (SwWorkerStep \/ SwSpuriousWake) => SwTyped'
<1> SUFFICES ASSUME SwTyped, OneJob, SwWorkerStep \/ SwSpuriousWake PROVE SwTyped'
  OBVIOUS
<1> DEFINE queued == Cardinality(In("queued"))
<1>1. /\ {swEnabled, swStopping} \subseteq BOOLEAN /\ swEpoch \in Nat
      /\ swStats \in [submitted : Nat, measured : Nat, discarded : Nat]
      /\ slots \in [Slots -> SlotRecs] /\ latest \in Results /\ misbehaved \in Nat
      /\ client \in Clients
      /\ job \in Slots \cup {NoSlot}
  BY DEF SwTyped
<1>2. queued \in Nat
  BY InPending, SlotsCount
<1> HIDE DEF queued
<1>3. UNCHANGED <<swStopping, swEpoch, swCapture, swChanges, swLate>>
  BY DEF SwWorkerStep, SwSpuriousWake, Boot, BootSleep, WorkerWait, WorkerStop, TakeOldest, Launch,
         Send, Receive, Publish, swShared, uiVars
<1>5. CASE Publish
  <2>1. job \in Slots /\ slots[job] \in SlotRecs
    BY <1>5, JobIs DEF Publish, Busy
  <2>2. /\ job' = NoSlot /\ UNCHANGED <<client, misbehaved>>
        /\ swEnabled' = swEnabled \/ swEnabled' = FALSE
    BY <1>5 DEF Publish
  <2>3. /\ slots' = [slots EXCEPT ![job] = FreeSlot] \/ slots' = [s \in Slots |-> FreeSlot]
        /\ \/ latest' = [seq |-> slots[job].seq, epoch |-> slots[job].epoch,
                         begun |-> slots[job].begun]
           \/ latest' \in {latest, NoResult}
        /\ \/ swStats' = [swStats EXCEPT !.measured = @ + 1]
           \/ swStats' = [swStats EXCEPT !.discarded = @ + 1]
           \/ swStats' = [swStats EXCEPT !.discarded = @ + 1 + queued]
    BY <1>5 DEF Publish, queued
  <2>4. slots' \in [Slots -> SlotRecs]
    BY ONLY <1>1, <2>1, <2>3, SlotsTyped
  <2>5. latest' \in Results
    BY ONLY <1>1, <2>1, <2>3 DEF Results, SlotRecs, NoResult
  <2>6. swStats' \in [submitted : Nat, measured : Nat, discarded : Nat]
    BY ONLY <1>1, <1>2, <2>3, StatsTyped
  <2> QED BY <1>1, <1>3, <2>2, <2>4, <2>5, <2>6 DEF SwTyped
<1>6. CASE ~Publish
  <2>1. UNCHANGED <<swEnabled, latest, swStats>>
    BY <1>6 DEF SwWorkerStep, SwSpuriousWake, Boot, BootSleep, WorkerWait, WorkerStop, TakeOldest,
           Launch, Send, Receive, swShared
  <2>2. slots' \in [Slots -> SlotRecs] /\ job' \in Slots \cup {NoSlot}
    <3>1. CASE TakeOldest
      <4>1. PICK s \in Slots : slots' = [slots EXCEPT ![s].state = "working"] /\ job' = s
        BY <3>1 DEF TakeOldest, In
      <4>2. slots[s] \in SlotRecs
        BY ONLY <1>1
      <4>3. [slots[s] EXCEPT !.state = "working"] \in SlotRecs
        BY ONLY <4>2 DEF SlotRecs
      <4> QED BY ONLY <1>1, <4>1, <4>3
    <3>2. CASE UNCHANGED <<slots, job>>
      BY <1>1, <3>2
    <3> QED BY <1>6, <3>1, <3>2 DEF SwWorkerStep, SwSpuriousWake, Boot, BootSleep, WorkerWait,
               WorkerStop, Launch, Send, Receive, swShared
  <2>3. /\ [client EXCEPT !.running = FALSE] \in Clients
        /\ [client EXCEPT !.running = TRUE, !.requests = 0] \in Clients
        /\ [client EXCEPT !.running = FALSE, !.requests = 0] \in Clients
        /\ [client EXCEPT !.requests = client.requests + 1] \in Clients
        /\ [client EXCEPT !.running = FALSE, !.faults = client.faults + 1] \in Clients
    BY ONLY <1>1, ClientTyped
  <2>4. client' \in Clients /\ misbehaved' \in Nat
    <3>0. misbehaved' = misbehaved \/ misbehaved' = misbehaved + 1 => misbehaved' \in Nat
      BY ONLY <1>1
    <3>1. CASE Launch
      <4>1. /\ \/ client' = client
               \/ client' = [client EXCEPT !.running = FALSE]
               \/ client' = [client EXCEPT !.running = TRUE, !.requests = 0]
               \/ client' = [client EXCEPT !.running = FALSE, !.faults = client.faults + 1]
            /\ misbehaved' = misbehaved \/ misbehaved' = misbehaved + 1
        BY <3>1 DEF Launch, OnFault, OnCancelled
      <4> QED BY ONLY <1>1, <2>3, <3>0, <4>1
    <3>2. CASE Receive
      <4>1. /\ \/ client' = [client EXCEPT !.running = FALSE]
               \/ client' = [client EXCEPT !.running = FALSE, !.requests = 0]
               \/ client' = [client EXCEPT !.requests = client.requests + 1]
               \/ client' = [client EXCEPT !.running = FALSE, !.faults = client.faults + 1]
            /\ misbehaved' = misbehaved \/ misbehaved' = misbehaved + 1
        BY <3>2 DEF Receive, Answered, OnFault, OnCancelled
      <4> QED BY ONLY <1>1, <2>3, <3>0, <4>1
    <3>3. CASE WorkerStop
      <4>1. client' = [client EXCEPT !.running = FALSE] /\ misbehaved' = misbehaved
        BY <3>3 DEF WorkerStop
      <4> QED BY ONLY <1>1, <2>3, <3>0, <4>1
    <3>4. CASE UNCHANGED <<client, misbehaved>>
      BY ONLY <1>1, <3>4
    <3>5. Launch \/ Receive \/ WorkerStop \/ UNCHANGED <<client, misbehaved>>
      BY <1>6 DEF SwWorkerStep, SwSpuriousWake, Boot, BootSleep, WorkerWait, TakeOldest, Send
    <3> QED BY ONLY <3>1, <3>2, <3>3, <3>4, <3>5
  <2> QED BY <1>1, <1>3, <2>1, <2>2, <2>4 DEF SwTyped
<1> QED BY <1>5, <1>6

\* The worker has one slot in hand, and the right one.
LEMMA OneJobKept == SwTyped /\ OneJob /\ OffState /\ SwNext => OneJob'
<1> SUFFICES ASSUME SwTyped, OneJob, OffState, SwNext PROVE OneJob'
  OBVIOUS
<1>1. slots \in [Slots -> SlotRecs] /\ NoSlot \notin Slots /\ job \in Slots \cup {NoSlot}
  BY ShadowAssumption DEF SwTyped
<1>2. FreeSlot.state = "free"
  BY DEF FreeSlot
<1>3. CASE TrySubmit
  <2>1. PICK s \in Slots : /\ slots[s].state = "free"
                           /\ slots' = [slots EXCEPT ![s] =
                                [state |-> "queued", seq |-> swStats.submitted + 1,
                                 epoch |-> swEpoch, begun |-> swCapture.begun]]
    BY <1>3 DEF TrySubmit, In
  <2>2. \A t \in Slots : slots'[t].state = "working" <=> slots[t].state = "working"
    BY ONLY <1>1, <2>1
  <2> QED BY <1>3, <2>2 DEF TrySubmit, OneJob
<1>4. CASE Invalidate \/ DisableLocked
  <2>1. slots' = [s \in Slots |-> IF slots[s].state = "queued" THEN FreeSlot ELSE slots[s]]
    BY <1>4 DEF Invalidate, DisableLocked, FreeQueued
  <2>2. \A t \in Slots : slots'[t].state = "working" <=> slots[t].state = "working"
    BY ONLY <1>1, <1>2, <2>1
  <2>3. job' = job /\ (swWorker' \in Busy <=> swWorker \in Busy)
    BY <1>4, WokenIs DEF Invalidate, DisableLocked
  <2> QED BY ONLY <2>2, <2>3, OneJob DEF OneJob
<1>5. CASE DisableJoin \/ EnableJoin
  <2>1. slots' = [s \in Slots |-> FreeSlot] /\ job' = job /\ swWorker' = "none"
        /\ swWorker \in {"none", "exit"}
    BY <1>5 DEF DisableJoin, EnableJoin
  <2>2. job = NoSlot
    BY <2>1 DEF OneJob, Busy
  <2> QED BY ONLY <1>1, <1>2, <2>1, <2>2 DEF OneJob, Busy
<1>6. CASE TakeOldest
  <2>1. PICK s \in Slots : slots' = [slots EXCEPT ![s].state = "working"] /\ job' = s
    BY <1>6 DEF TakeOldest, In
  <2>2. swWorker' = "launch" /\ job = NoSlot
    BY <1>6 DEF TakeOldest, OneJob, Busy
  <2>3. \A t \in Slots : slots'[t].state = "working" <=> t = s
    <3>1. \A t \in Slots : slots[t].state # "working"
      BY ONLY <1>1, <2>2, OneJob DEF OneJob
    <3>2. slots'[s].state = "working"
      BY ONLY <1>1, <2>1 DEF SlotRecs
    <3> QED BY ONLY <1>1, <2>1, <3>1, <3>2
  <2> QED BY ONLY <1>1, <2>1, <2>2, <2>3 DEF OneJob, Busy
<1>7. CASE Publish
  <2>1. job \in Slots
    BY <1>7, JobIs DEF Publish, Busy
  <2>2. /\ slots' = [slots EXCEPT ![job] = FreeSlot] \/ slots' = [s \in Slots |-> FreeSlot]
        /\ job' = NoSlot /\ swWorker' \in {"wait", "exit"}
    BY <1>7 DEF Publish
  <2>3. \A t \in Slots : slots'[t].state # "working"
    <3>1. \A t \in Slots : slots[t].state = "working" => t = job
      BY DEF OneJob
    <3> QED BY ONLY <1>1, <1>2, <2>1, <2>2, <3>1
  <2> QED BY ONLY <1>1, <2>2, <2>3 DEF OneJob, Busy
<1>8. CASE UNCHANGED <<slots, job>> /\ (swWorker' \in Busy <=> swWorker \in Busy)
  BY ONLY <1>8, OneJob DEF OneJob
<1>9. CASE EnableStart
  <2>1. swWorker = "none" /\ swWorker' \in {"none", "boot"} /\ UNCHANGED <<slots, job>>
    BY <1>9 DEF EnableStart, OffState
  <2> QED BY <1>8, <2>1 DEF Busy
<1>10. CASE Boot \/ BootSleep \/ WorkerWait \/ WorkerStop
  <2>1. UNCHANGED <<slots, job>> /\ swWorker \notin Busy /\ swWorker' \notin Busy
    BY <1>10 DEF Boot, BootSleep, WorkerWait, WorkerStop, swShared, Busy
  <2> QED BY <1>8, <2>1
<1>11. CASE Launch \/ Send \/ Receive
  <2>1. UNCHANGED <<slots, job>> /\ swWorker \in Busy /\ swWorker' \in Busy
    BY <1>11 DEF Launch, Send, Receive, swShared, Busy
  <2> QED BY <1>8, <2>1
<1>12. CASE CaptureEpoch \/ CaptureBegin \/ SubmitRefused \/ SubmitLate \/ DisableCall
            \/ EnableStore
  <2>1. UNCHANGED <<slots, job, swWorker>>
    BY <1>12 DEF CaptureEpoch, CaptureBegin, SubmitRefused, SubmitLate, DisableCall, EnableStore,
                 swShared
  <2> QED BY <1>8, <2>1
<1>13. CASE SubmitSignal \/ EnableCall \/ EnableNotify \/ SwSpuriousWake
  <2>1. UNCHANGED <<slots, job>> /\ swWorker' \in {swWorker, Woken}
    BY <1>13 DEF SubmitSignal, EnableCall, EnableNotify, SwSpuriousWake, swShared
  <2> QED BY <1>8, <2>1, WokenIs
<1> QED BY <1>3, <1>4, <1>5, <1>6, <1>7, <1>9, <1>10, <1>11, <1>12, <1>13
        DEF SwNext, SwScan, SwCall, SwCallGoesOn, SwWorkerStep

\* A queue of one: its head, and nothing behind it.
LEMMA OneInIt == \A x : Head(<<x>>) = x /\ Tail(<<x>>) = <<>>
<1> TAKE x
<1>1. <<x>> \in Seq({x}) /\ <<x>> # <<>> /\ Len(<<x>>) = 1 /\ Head(<<x>>) = x
  OBVIOUS
<1>2. Tail(<<x>>) \in Seq({x}) /\ Len(Tail(<<x>>)) = 0
  BY <1>1, HeadTailProperties
<1>3. Tail(<<x>>) = <<>>
  BY <1>2, EmptySeq
<1> QED BY <1>1, <1>3

\* What the other threads do leaves the request at work, and its child, alone.
LEMMA RequestStays ==
  ASSUME SwTyped, OneJob, OneRequest, OffState, SwScan \/ SwCall \/ SwCallGoesOn
  PROVE  OneRequest'
<1>1. slots \in [Slots -> SlotRecs] /\ client \in Clients /\ misbehaved \in Nat
  BY DEF SwTyped
<1>2. CASE EnableStart /\ swWorker' = "boot"
  <2>1. swWorker = "none"
    BY <1>2 DEF EnableStart, OffState
  <2>2. /\ client' = NoClient /\ pipe' = <<>> /\ misbehaved' = 0 /\ outcome' = outcome
        /\ outcome = "none"
    BY <1>2, <2>1 DEF EnableStart, OneRequest
  <2>3. NoClient.faults = 0
    BY DEF NoClient
  <2> QED BY ONLY <1>2, <2>2, <2>3 DEF OneRequest
<1>3. CASE /\ ~(EnableStart /\ swWorker' = "boot")
           /\ UNCHANGED <<client, pipe, misbehaved, outcome, job>>
  <2>1. swWorker' = swWorker \/ swWorker' = Woken \/ swWorker' = "none"
    BY <1>3 DEF SwScan, SwCall, SwCallGoesOn, CaptureEpoch, CaptureBegin, SubmitRefused,
           SubmitLate, TrySubmit, SubmitSignal, Invalidate, DisableCall, EnableCall, DisableLocked,
           DisableJoin, EnableJoin, EnableStart, EnableStore, EnableNotify, swShared
  <2>2. swWorker' = "none" => swWorker \in {"none", "exit"}
    BY WokenIs DEF SwScan, SwCall, SwCallGoesOn, CaptureEpoch, CaptureBegin, SubmitRefused,
           SubmitLate, TrySubmit, SubmitSignal, Invalidate, DisableCall, EnableCall, DisableLocked,
           DisableJoin, EnableJoin, EnableStart, EnableStore, EnableNotify, swShared
  <2>3. (swWorker' = "receive" <=> swWorker = "receive")
        /\ (swWorker' = "publish" <=> swWorker = "publish")
    BY <2>1, <2>2, WokenIs
  <2>4. swWorker = "receive" => slots'[job].seq = slots[job].seq
    <3> SUFFICES ASSUME swWorker = "receive" PROVE slots'[job].seq = slots[job].seq
      OBVIOUS
    <3>1. job \in Slots /\ slots[job].state = "working"
      BY JobIs DEF Busy
    <3>2. CASE TrySubmit
      <4>1. PICK s, r : /\ s \in Slots /\ slots[s].state = "free"
                       /\ slots' = [slots EXCEPT ![s] = r]
        BY <3>2 DEF TrySubmit, In
      <4> QED BY ONLY <1>1, <3>1, <4>1
    <3>3. CASE Invalidate \/ DisableLocked
      <4>1. slots' = [s \in Slots |-> IF slots[s].state = "queued" THEN FreeSlot ELSE slots[s]]
        BY <3>3 DEF Invalidate, DisableLocked, FreeQueued
      <4> QED BY ONLY <3>1, <4>1
    <3>4. CASE slots' = slots
      BY ONLY <3>4
    <3>5. TrySubmit \/ Invalidate \/ DisableLocked \/ slots' = slots
      BY DEF SwScan, SwCall, SwCallGoesOn, CaptureEpoch, CaptureBegin, SubmitRefused, SubmitLate,
             SubmitSignal, DisableCall, EnableCall, DisableJoin, EnableJoin, EnableStart,
             EnableStore, EnableNotify, swShared
    <3> QED BY <3>2, <3>3, <3>4, <3>5
  <2> QED BY ONLY <1>3, <2>3, <2>4, OneRequest DEF OneRequest
<1> QED BY <1>2, <1>3 DEF SwScan, SwCall, SwCallGoesOn, CaptureEpoch, CaptureBegin, SubmitRefused,
        SubmitLate, TrySubmit, SubmitSignal, Invalidate, DisableCall, EnableCall, DisableLocked,
        DisableJoin, EnableJoin, EnableStart, EnableStore, EnableNotify, swShared

\* The worker's own steps: it sends one request and takes one answer; a child that
\* did not answer it is gone, and a fault is counted when there was one.
LEMMA RequestKept ==
  ASSUME SwTyped, OneJob, OneRequest, SwWorkerStep \/ SwSpuriousWake
  PROVE  OneRequest'
<1>1. client \in Clients /\ misbehaved \in Nat /\ RestartLimit \in Nat
      /\ client.faults \in Nat /\ client.faults <= misbehaved
  BY ShadowAssumption DEF SwTyped, Clients, OneRequest
<1>2. CASE Boot \/ BootSleep \/ WorkerWait \/ WorkerStop \/ TakeOldest \/ SwSpuriousWake
  <2>1. /\ swWorker \notin {"receive", "publish"} /\ swWorker' \notin {"receive", "publish"}
        /\ UNCHANGED <<outcome, misbehaved>> /\ (pipe' = pipe \/ pipe' = <<>>)
    BY <1>2, WokenIs DEF Boot, BootSleep, WorkerWait, WorkerStop, TakeOldest, SwSpuriousWake,
       Woken
  <2>2. client'.faults = client.faults
    BY <1>1, <1>2 DEF Boot, BootSleep, WorkerWait, WorkerStop, TakeOldest, SwSpuriousWake, Clients
  <2> QED BY ONLY <2>1, <2>2, OneRequest DEF OneRequest
<1>3. CASE Send
  <2>1. /\ swWorker = "send" /\ swWorker' = "receive" /\ pipe' = Append(pipe, slots[job].seq)
        /\ UNCHANGED <<slots, job, outcome, client, misbehaved>>
    BY <1>3 DEF Send, swShared
  <2>2. pipe = <<>>
    BY <2>1 DEF OneRequest
  <2>3. pipe' = <<slots[job].seq>>
    BY ONLY <2>1, <2>2
  <2> QED BY ONLY <2>1, <2>3, OneRequest DEF OneRequest
<1>4. CASE Launch \/ Receive
  <2>1. /\ swWorker \in {"launch", "receive"} /\ UNCHANGED <<slots, job>> /\ outcome = "none"
        /\ swWorker = "launch" => pipe = <<>>
        /\ swWorker = "receive" => Head(pipe) = slots[job].seq /\ Tail(pipe) = <<>>
    <3>1. swWorker = "receive" => pipe = <<slots[job].seq>>
      BY DEF OneRequest
    <3>2. swWorker = "receive" => Head(pipe) = slots[job].seq /\ Tail(pipe) = <<>>
      BY <3>1, OneInIt
    <3>3. swWorker \in {"launch", "receive"} /\ UNCHANGED <<slots, job>>
      BY <1>4 DEF Launch, Receive, swShared
    <3> QED BY ONLY <3>2, <3>3, OneRequest DEF OneRequest
  <2>2. /\ pipe' = <<>> /\ swWorker' \in {"send", "publish"}
        /\ swWorker' = "send" => outcome' = outcome
    BY <1>4, <2>1 DEF Launch, Receive, OnCancelled, OnFault, Answered
  <2>3. CASE misbehaved' = misbehaved /\ outcome' # "exhausted" /\ client'.faults = client.faults
    BY ONLY <1>1, <2>1, <2>2, <2>3, OneRequest DEF OneRequest
  <2>4. CASE OnFault /\ misbehaved' = misbehaved + 1
    <3>1. client'.faults = client.faults + 1
      BY <1>1, <2>4 DEF OnFault, Clients
    <3>2. outcome' = "exhausted" => client.faults + 1 > RestartLimit
      BY <2>4 DEF OnFault
    <3>3. swWorker' # "send"
      BY <1>4, <1>1, <2>4, <2>1 DEF Launch, Receive
    <3> QED BY ONLY <1>1, <2>1, <2>2, <2>4, <3>1, <3>2, <3>3 DEF OneRequest
  <2>5. (misbehaved' = misbehaved /\ outcome' # "exhausted" /\ client'.faults = client.faults)
        \/ (OnFault /\ misbehaved' = misbehaved + 1)
    <3>1. CASE Launch
      BY <1>1, <2>1, <3>1 DEF Launch, OnCancelled, Clients
    <3>2. CASE Receive
      BY <1>1, <2>1, <3>2 DEF Receive, OnCancelled, Answered, Clients
    <3> QED BY <1>4, <3>1, <3>2
  <2> QED BY <2>3, <2>4, <2>5
<1>5. CASE Publish
  <2>1. /\ swWorker = "publish" /\ swWorker' \notin {"receive", "publish"} /\ outcome' = "none"
        /\ UNCHANGED <<pipe, client, misbehaved>>
    BY <1>5 DEF Publish
  <2> QED BY ONLY <2>1, OneRequest DEF OneRequest
<1> QED BY <1>2, <1>3, <1>4, <1>5 DEF SwWorkerStep

\* The operator's call, and what is left when the worker is off.
LEMMA OffKept == SwTyped /\ OffState /\ SwNext => OffState'
<1> SUFFICES ASSUME SwTyped, OffState, SwNext PROVE OffState'
  OBVIOUS
<1> DEFINE Calling == {"disable", "disable_join", "enable", "enable_join", "enable_store"}
           None(f) == \A s \in Slots : f[s].state # "queued"
<1>0. /\ In("queued") = {} <=> None(slots)
      /\ (In("queued") = {})' <=> None(slots')
  BY DEF In
<1>1. /\ swUi \in Calling => ~swEnabled
      /\ swUi = "enable" => swWorker = "none"
      /\ ~swEnabled /\ swUi # "disable" => latest = NoResult /\ None(slots)
      /\ slots \in [Slots -> SlotRecs] /\ FreeSlot.state = "free"
  BY <1>0 DEF OffState, SwTyped, FreeSlot
<1>2. swUi' = "enable" => swWorker' = "none"
  <2>1. CASE EnableCall \/ EnableJoin
    BY <2>1 DEF EnableCall, EnableJoin
  <2>2. CASE SwWorkerStep
    BY <1>1, <2>2 DEF SwWorkerStep, Boot, BootSleep, WorkerWait, WorkerStop, TakeOldest, Launch,
       Send, Receive, Publish, uiVars
  <2>3. CASE swUi' = swUi /\ (swWorker' = swWorker \/ swWorker' = Woken)
    BY <1>1, <2>3, WokenIs
  <2>4. CASE swUi' # "enable"
    BY <2>4
  <2> QED BY <2>1, <2>2, <2>3, <2>4 DEF SwNext, SwScan, SwCall, SwCallGoesOn, CaptureEpoch,
             CaptureBegin, SubmitRefused, SubmitLate, TrySubmit, SubmitSignal, Invalidate,
             DisableCall, DisableLocked, DisableJoin, EnableStart, EnableStore, EnableNotify,
             SwSpuriousWake
<1>3. swUi' \in Calling => ~swEnabled'
  <2>1. CASE SwScan \/ SwSpuriousWake
    BY <1>1, <2>1 DEF SwScan, CaptureEpoch, CaptureBegin, SubmitRefused, SubmitLate, TrySubmit,
       SubmitSignal, SwSpuriousWake, swShared
  <2>2. CASE SwCall \/ SwCallGoesOn
    BY <1>1, <2>2 DEF SwCall, SwCallGoesOn, Invalidate, DisableCall, EnableCall, DisableLocked,
       DisableJoin, EnableJoin, EnableStart, EnableStore, EnableNotify, swShared
  <2>3. CASE SwWorkerStep
    BY <1>1, <2>3 DEF SwWorkerStep, Boot, BootSleep, WorkerWait, WorkerStop, TakeOldest, Launch,
       Send, Receive, Publish, uiVars, swShared
  <2> QED BY <2>1, <2>2, <2>3 DEF SwNext
<1>4. ~swEnabled' /\ swUi' # "disable" => latest' = NoResult /\ None(slots')
  <2> SUFFICES ASSUME ~swEnabled', swUi' # "disable" PROVE latest' = NoResult /\ None(slots')
    OBVIOUS
  <2>1. CASE Invalidate \/ DisableLocked
    <3>1. slots' = [s \in Slots |-> IF slots[s].state = "queued" THEN FreeSlot ELSE slots[s]]
      BY <2>1 DEF Invalidate, DisableLocked, FreeQueued
    <3>2. None(slots')
      BY ONLY <1>1, <3>1
    <3> QED BY <2>1, <3>2 DEF Invalidate, DisableLocked, FreeQueued
  <2>2. CASE DisableJoin \/ EnableJoin
    <3>1. slots' = [s \in Slots |-> FreeSlot] /\ latest' = latest
          /\ swUi # "disable" /\ ~swEnabled
      BY <1>1, <2>2 DEF DisableJoin, EnableJoin
    <3>2. None(slots')
      BY ONLY <1>1, <3>1
    <3> QED BY <1>1, <3>1, <3>2
  <2>3. CASE TakeOldest
    <3>1. ~swEnabled /\ swUi # "disable" /\ latest' = latest /\ In("queued") # {}
      BY <2>3 DEF TakeOldest, uiVars
    <3> QED BY <1>0, <1>1, <3>1
  <2>4. CASE Publish
    <3>1. CASE swEnabled
      <4>1. slots' = [s \in Slots |-> FreeSlot] /\ latest' = NoResult
        BY <2>4, <3>1 DEF Publish
      <4> QED BY ONLY <1>1, <4>1
    <3>2. CASE ~swEnabled
      <4>1. /\ latest' \in {latest, NoResult}
            /\ slots' = [slots EXCEPT ![job] = FreeSlot] \/ slots' = [s \in Slots |-> FreeSlot]
            /\ latest = NoResult /\ None(slots)
        BY <1>1, <2>4, <3>2 DEF Publish, Publishable, uiVars
      <4> QED BY ONLY <1>1, <4>1
    <3> QED BY <3>1, <3>2
  <2>5. CASE UNCHANGED <<slots, latest>> /\ ~swEnabled /\ swUi # "disable"
    BY <1>1, <2>5
  <2>6. CASE DisableCall \/ TrySubmit \/ SubmitLate \/ EnableStore
    BY <2>6 DEF DisableCall, TrySubmit, SubmitLate, EnableStore
  <2> QED BY <2>1, <2>2, <2>3, <2>4, <2>5, <2>6 DEF SwNext, SwScan, SwCall, SwCallGoesOn,
             SwWorkerStep, CaptureEpoch, CaptureBegin, SubmitRefused, SubmitSignal, EnableCall,
             EnableStart, EnableNotify, SwSpuriousWake, swShared, Boot, BootSleep, WorkerWait,
             WorkerStop, Launch, Send, Receive, uiVars
<1> HIDE DEF None
<1> QED BY ONLY <1>0, <1>2, <1>3, <1>4 DEF OffState

\* A later epoch: nothing has it yet.
LEMMA BegunBefore ==
  ASSUME NEW x, NEW ep \in Nat, NEW n, NEW n2, x.epoch \in Nat, x.epoch <= ep
  PROVE  Begun(x, ep + 1, n2)
  BY DEF Begun

\* What the scan side does to the captures and the slots.
LEMMA FreshScan ==
  ASSUME SwTyped, FreshState, SwScan
  PROVE  FreshState'
<1>1. /\ slots \in [Slots -> SlotRecs] /\ swEpoch \in Nat /\ swChanges \in Nat
      /\ UNCHANGED <<swEpoch, swChanges, latest>>
  BY DEF SwTyped, SwScan, CaptureEpoch, CaptureBegin, SubmitRefused, SubmitLate, TrySubmit,
     SubmitSignal, swShared
<1>2. swCapture'.epoch <= swEpoch
      /\ (swCapture'.at \in {"taken", "signal"} => Begun(swCapture', swEpoch, swChanges))
  <2>1. CASE CaptureEpoch
    <3>1. PICK ep \in {swEpoch, 0} : swCapture' = [at |-> "read", epoch |-> ep, begun |-> 0]
      BY <2>1 DEF CaptureEpoch
    <3> QED BY ONLY <1>1, <3>1
  <2>2. CASE CaptureBegin
    <3>1. /\ swCapture' = [swCapture EXCEPT !.at = "taken", !.begun = swChanges]
          /\ swCapture \in [at : {"none", "read", "taken", "signal"}, epoch : Nat, begun : Nat]
      BY <2>2 DEF CaptureBegin, SwTyped
    <3>2. swCapture'.epoch = swCapture.epoch /\ swCapture'.begun = swChanges
      BY ONLY <3>1
    <3> QED BY ONLY <3>2, FreshState DEF FreshState, Begun
  <2>3. CASE TrySubmit
    <3>1. /\ swCapture' = [swCapture EXCEPT !.at = "signal"] /\ swCapture.at = "taken"
          /\ swCapture \in [at : {"none", "read", "taken", "signal"}, epoch : Nat, begun : Nat]
      BY <2>3 DEF TrySubmit, SwTyped
    <3>2. swCapture'.epoch = swCapture.epoch /\ swCapture'.begun = swCapture.begun
      BY ONLY <3>1
    <3> QED BY ONLY <3>1, <3>2, FreshState DEF FreshState, Begun
  <2>4. CASE swCapture' = NoCapture
    BY ONLY <1>1, <2>4 DEF NoCapture
  <2> QED BY <2>1, <2>2, <2>3, <2>4 DEF SwScan, SubmitRefused, SubmitLate, SubmitSignal
<1>3. \A s \in Slots : slots'[s].state # "free" => Begun(slots'[s], swEpoch, swChanges)
  <2>1. CASE TrySubmit
    <3> DEFINE new == [state |-> "queued", seq |-> swStats.submitted + 1, epoch |-> swEpoch,
                       begun |-> swCapture.begun]
    <3>1. PICK s \in Slots : slots' = [slots EXCEPT ![s] = new]
      BY <2>1 DEF TrySubmit, In
    <3>2. swCapture.at = "taken" /\ swCapture.epoch = swEpoch
      BY <2>1 DEF TrySubmit
    <3>3. Begun(new, swEpoch, swChanges)
      BY <1>1, <3>2 DEF FreshState, Begun
    <3>4. \A t \in Slots : slots[t].state # "free" => Begun(slots[t], swEpoch, swChanges)
      BY DEF FreshState
    <3> HIDE DEF new
    <3> QED BY ONLY <1>1, <3>1, <3>3, <3>4
  <2>2. CASE slots' = slots
    BY <2>2 DEF FreshState
  <2> QED BY <2>1, <2>2 DEF SwScan, CaptureEpoch, CaptureBegin, SubmitRefused, SubmitLate,
             SubmitSignal, swShared
<1> QED BY ONLY <1>1, <1>2, <1>3, FreshState DEF FreshState, SwFresh

\* What the operator does: a new epoch makes everything older, a change as well.
LEMMA FreshCall ==
  ASSUME SwTyped, OffState, FreshState, SwCall \/ SwCallGoesOn
  PROVE  FreshState'
<1> DEFINE Fresh(f) == \A s \in Slots :
             f[s].state # "free" => f[s].epoch \in Nat /\ f[s].epoch <= swEpoch
<1>1. /\ slots \in [Slots -> SlotRecs] /\ swEpoch \in Nat /\ swChanges \in Nat
      /\ swCapture.epoch \in Nat /\ swCapture.epoch <= swEpoch
      /\ swCapture' = swCapture /\ FreeSlot.state = "free" /\ Fresh(slots)
  <2>1. slots \in [Slots -> SlotRecs] /\ swEpoch \in Nat /\ swChanges \in Nat
        /\ swCapture.epoch \in Nat
    BY DEF SwTyped
  <2>2. Fresh(slots)
    BY ONLY <2>1, FreshState DEF FreshState, SlotRecs, Begun
  <2>3. swCapture' = swCapture
    BY DEF SwCall, SwCallGoesOn, Invalidate, DisableCall, EnableCall, DisableLocked, DisableJoin,
       EnableJoin, EnableStart, EnableStore, EnableNotify
  <2> QED BY <2>1, <2>2, <2>3 DEF FreshState, FreeSlot
<1>2. CASE Invalidate \/ DisableLocked
  <2>1. /\ slots' = [s \in Slots |-> IF slots[s].state = "queued" THEN FreeSlot ELSE slots[s]]
        /\ swEpoch' = swEpoch + 1 /\ latest' = NoResult
    BY <1>2 DEF Invalidate, DisableLocked, FreeQueued
  <2>2. Fresh(slots')
    BY ONLY <1>1, <2>1
  <2> QED BY ONLY <1>1, <2>1, <2>2 DEF FreshState, SwFresh, Begun
<1>3. CASE EnableStart /\ swEpoch' = swEpoch + 1
  <2>1. slots' = slots /\ latest' = latest /\ latest = NoResult
    BY <1>3 DEF EnableStart, OffState
  <2> QED BY ONLY <1>1, <1>3, <2>1 DEF FreshState, SwFresh, Begun
<1>4. CASE UNCHANGED <<swEpoch, swChanges, latest>>
  <2>1. \A s \in Slots : slots'[s].state # "free" => slots'[s] = slots[s]
    <3>1. slots' = slots \/ slots' = [s \in Slots |-> FreeSlot]
      BY <1>1, <1>4 DEF SwCall, SwCallGoesOn, Invalidate, DisableCall, EnableCall, DisableLocked,
         DisableJoin, EnableJoin, EnableStart, EnableStore, EnableNotify, swShared
    <3> QED BY ONLY <1>1, <3>1
  <2> QED BY ONLY <1>1, <1>4, <2>1, FreshState DEF FreshState, SwFresh
<1> QED BY <1>2, <1>3, <1>4 DEF SwCall, SwCallGoesOn, DisableCall, EnableCall, DisableJoin,
        EnableJoin, EnableStart, EnableStore, EnableNotify, swShared

\* What the worker does: it shows what it measured when the epoch is still the same.
LEMMA FreshWorker ==
  ASSUME SwTyped, OneJob, FreshState, SwWorkerStep \/ SwSpuriousWake
  PROVE  FreshState'
<1>1. slots \in [Slots -> SlotRecs] /\ FreeSlot.state = "free"
  BY DEF SwTyped, FreeSlot
<1>2. UNCHANGED <<swEpoch, swChanges, swCapture>>
  BY DEF SwWorkerStep, SwSpuriousWake, Boot, BootSleep, WorkerWait, WorkerStop, TakeOldest, Launch,
     Send, Receive, Publish, swShared, uiVars
<1>3. \A s \in Slots : slots'[s].state # "free" =>
        slots[s].state # "free" /\ slots'[s].epoch = slots[s].epoch
        /\ slots'[s].begun = slots[s].begun
  <2>1. CASE TakeOldest
    <3>1. PICK s \in Slots : slots' = [slots EXCEPT ![s].state = "working"]
                             /\ slots[s].state # "free"
      BY <2>1 DEF TakeOldest, In
    <3> QED BY ONLY <1>1, <3>1 DEF SlotRecs
  <2>2. CASE Publish
    <3>1. slots' = [slots EXCEPT ![job] = FreeSlot] \/ slots' = [s \in Slots |-> FreeSlot]
      BY <2>2 DEF Publish
    <3> QED BY ONLY <1>1, <3>1
  <2>3. CASE slots' = slots
    BY ONLY <2>3
  <2> QED BY <2>1, <2>2, <2>3 DEF SwWorkerStep, SwSpuriousWake, Boot, BootSleep, WorkerWait,
             WorkerStop, Launch, Send, Receive, swShared
<1>4. SwFresh'
  <2>1. CASE Publish /\ Publishable
    <3>1. /\ latest'.begun = slots[job].begun /\ latest'.epoch = slots[job].epoch
          /\ slots[job].epoch = swEpoch
      BY <2>1 DEF Publish, Publishable
    <3>2. job \in Slots /\ slots[job].state = "working"
      BY <2>1, JobIs DEF Publish, Busy
    <3>3. Begun(slots[job], swEpoch, swChanges)
      BY ONLY <3>2, FreshState DEF FreshState
    <3> QED BY ONLY <1>2, <3>1, <3>3 DEF SwFresh, Begun
  <2>2. CASE latest' \in {latest, NoResult}
    BY ONLY <1>2, <2>2, FreshState DEF FreshState, SwFresh
  <2> QED BY <2>1, <2>2 DEF SwWorkerStep, SwSpuriousWake, Boot, BootSleep, WorkerWait,
             WorkerStop, TakeOldest, Launch, Send, Receive, Publish, swShared
<1> QED BY ONLY <1>2, <1>3, <1>4, FreshState DEF FreshState, Begun

\* The counters a step moves, and by how much: new - old.
Moved(sub, late, mea, dis) ==
  /\ swStats'.submitted = swStats.submitted + sub /\ swLate' = swLate + late
  /\ swStats'.measured = swStats.measured + mea /\ swStats'.discarded = swStats.discarded + dis

\* The books stay right when what is pending shrinks by what was counted.
LEMMA BooksStay ==
  ASSUME SwTyped, SwTyped', SwAccounted,
         NEW sub \in Nat, NEW late \in Nat, NEW mea \in Nat, NEW dis \in Nat,
         Moved(sub, late, mea, dis),
         Cardinality(PendingIn(slots')) + mea + dis = Cardinality(PendingIn(slots)) + sub + late
  PROVE  SwAccounted'
<1> DEFINE before == Cardinality(PendingIn(slots))
           after == Cardinality(PendingIn(slots'))
<1>1. swStats.submitted + swLate = swStats.measured + swStats.discarded + before
  BY InPending DEF SwAccounted
<1>2. /\ swStats.submitted \in Nat /\ swLate \in Nat
      /\ swStats.measured \in Nat /\ swStats.discarded \in Nat
      /\ before \in Nat /\ after \in Nat
  BY SlotsCount DEF SwTyped
<1>3. after + mea + dis = before + sub + late
  OBVIOUS
<1>4. (In("queued") \cup In("working"))' = PendingIn(slots')
  BY DEF In, PendingIn
<1> HIDE DEF before, after
<1>5. swStats'.submitted + swLate' = swStats'.measured + swStats'.discarded + after
  <2>1. sub \in Nat /\ late \in Nat /\ mea \in Nat /\ dis \in Nat
    OBVIOUS
  <2>2. /\ swStats'.submitted = swStats.submitted + sub /\ swLate' = swLate + late
        /\ swStats'.measured = swStats.measured + mea
        /\ swStats'.discarded = swStats.discarded + dis
    BY ONLY Moved(sub, late, mea, dis) DEF Moved
  <2> QED BY ONLY <1>1, <1>2, <1>3, <2>1, <2>2
<1> QED BY ONLY <1>4, <1>5 DEF SwAccounted, after

\* What is accepted, freed and finished is counted.
LEMMA AccountedKept ==
  ASSUME SwTyped, SwTyped', OneJob, OffState, SwAccounted, SwNext
  PROVE  SwAccounted'
<1> DEFINE before == Cardinality(PendingIn(slots))
           after == Cardinality(PendingIn(slots'))
           queued == Cardinality(QueuedIn(slots))
<1>1. /\ slots \in [Slots -> SlotRecs] /\ swLate \in Nat /\ FreeSlot.state = "free"
      /\ swStats \in [submitted : Nat, measured : Nat, discarded : Nat]
      /\ NoSlot \notin Slots
  BY ShadowAssumption DEF SwTyped, FreeSlot
<1>2. before \in Nat /\ after \in Nat /\ queued \in Nat
  BY SlotsCount
<1>3. before = queued + (IF job \in Slots THEN 1 ELSE 0)
  BY PendingSplit DEF OneJob
<1>4. (\A s \in Slots : slots'[s].state = "free") => after = 0
  <2> SUFFICES ASSUME \A s \in Slots : slots'[s].state = "free" PROVE after = 0
    OBVIOUS
  <2>1. PendingIn(slots') = {}
    BY DEF PendingIn
  <2> QED BY <2>1, FS_EmptySet
<1>5. CASE SubmitLate
  <2>1. Moved(0, 1, 0, 1) /\ slots' = slots
    BY <1>1, <1>5 DEF SubmitLate, Moved
  <2> QED BY <1>2, <2>1, BooksStay
<1>6. CASE TrySubmit
  <2>1. Moved(1, 0, 0, 0)
    BY <1>1, <1>6 DEF TrySubmit, Moved
  <2>2. PICK s \in Slots :
          /\ slots[s].state = "free"
          /\ slots' = [slots EXCEPT ![s] =
               [state |-> "queued", seq |-> swStats.submitted + 1, epoch |-> swEpoch,
                begun |-> swCapture.begun]]
    BY <1>6 DEF TrySubmit, In
  <2>3. PendingIn(slots') = PendingIn(slots) \cup {s} /\ s \notin PendingIn(slots)
    BY ONLY <1>1, <2>2 DEF PendingIn
  <2>4. after = before + 1
    BY <2>3, OneMore
  <2> QED BY <1>2, <2>1, <2>4, BooksStay
<1>7. CASE Invalidate \/ DisableLocked
  <2>1. /\ slots' = [s \in Slots |-> IF slots[s].state = "queued" THEN FreeSlot ELSE slots[s]]
        /\ swStats' = [swStats EXCEPT !.discarded = @ + Cardinality(In("queued"))]
        /\ swLate' = swLate
    BY <1>7 DEF Invalidate, DisableLocked, FreeQueued
  <2>2. Moved(0, 0, 0, queued)
    BY <1>1, <1>2, <2>1, InPending DEF Moved
  <2>3. /\ \A s \in Slots : slots'[s].state = "working" <=> s = job
        /\ QueuedIn(slots') = {}
    BY ONLY <1>1, <2>1, OneJob DEF OneJob, QueuedIn
  <2>4. after = IF job \in Slots THEN 1 ELSE 0
    <3>1. Cardinality(QueuedIn(slots')) = 0
      BY <2>3, FS_EmptySet
    <3>2. after = Cardinality(QueuedIn(slots')) + (IF job \in Slots THEN 1 ELSE 0)
      BY <2>3, PendingSplit
    <3> QED BY ONLY <3>1, <3>2
  <2> QED BY <1>2, <1>3, <2>2, <2>4, BooksStay
<1>8. CASE DisableJoin \/ EnableJoin
  <2>1. /\ slots' = [s \in Slots |-> FreeSlot] /\ Moved(0, 0, 0, 0)
        /\ swWorker \in {"none", "exit"} /\ swUi \in {"disable_join", "enable_join"}
    BY <1>1, <1>8 DEF DisableJoin, EnableJoin, Moved
  <2>2. job \notin Slots /\ In("queued") = {}
    BY <1>1, <2>1 DEF OneJob, Busy, OffState
  <2>3. before = 0
    BY <1>3, <2>2, InPending, FS_EmptySet
  <2>4. after = 0
    BY <1>1, <1>4, <2>1
  <2> QED BY <2>1, <2>3, <2>4, BooksStay
<1>9. CASE TakeOldest
  <2>1. PICK s \in Slots : /\ slots[s].state = "queued"
                           /\ slots' = [slots EXCEPT ![s].state = "working"]
    BY <1>9 DEF TakeOldest, In
  <2>2. PendingIn(slots') = PendingIn(slots)
    BY ONLY <1>1, <2>1 DEF PendingIn, SlotRecs
  <2>3. Moved(0, 0, 0, 0)
    BY <1>1, <1>9 DEF TakeOldest, Moved, uiVars
  <2> QED BY <1>2, <2>2, <2>3, BooksStay
<1>10. CASE Publish
  <2>1. job \in Slots /\ slots[job].state = "working" /\ swLate' = swLate
    BY <1>10, JobIs DEF Publish, Busy, uiVars
  <2>2. CASE slots' = [slots EXCEPT ![job] = FreeSlot] /\ (Moved(0, 0, 1, 0) \/ Moved(0, 0, 0, 1))
    <3>1. PendingIn(slots) = PendingIn(slots') \cup {job} /\ job \notin PendingIn(slots')
      BY ONLY <1>1, <2>1, <2>2 DEF PendingIn
    <3>2. before = after + 1
      BY <2>1, <3>1, OneMore
    <3>3. Moved(0, 0, 1, 0) => SwAccounted'
      BY <1>2, <3>2, BooksStay
    <3>4. Moved(0, 0, 0, 1) => SwAccounted'
      BY <1>2, <3>2, BooksStay
    <3> QED BY <2>2, <3>3, <3>4
  <2>3. CASE slots' = [s \in Slots |-> FreeSlot] /\ Moved(0, 0, 0, 1 + queued)
    <3>1. after = 0
      BY <1>1, <1>4, <2>3
    <3>2. before = queued + 1
      BY <1>3, <2>1
    <3> QED BY <1>2, <2>3, <3>1, <3>2, BooksStay
  <2>4. \/ slots' = [slots EXCEPT ![job] = FreeSlot] /\ (Moved(0, 0, 1, 0) \/ Moved(0, 0, 0, 1))
        \/ slots' = [s \in Slots |-> FreeSlot] /\ Moved(0, 0, 0, 1 + queued)
    BY <1>1, <1>2, <1>10, <2>1, InPending DEF Publish, Moved
  <2> QED BY <2>2, <2>3, <2>4
<1>11. CASE UNCHANGED <<slots, swStats, swLate>>
  BY <1>11 DEF SwAccounted, In
<1> QED BY <1>5, <1>6, <1>7, <1>8, <1>9, <1>10, <1>11 DEF SwNext, SwScan, SwCall, SwCallGoesOn,
        SwWorkerStep, CaptureEpoch, CaptureBegin, SubmitRefused, SubmitSignal, DisableCall,
        EnableCall, EnableStart, EnableStore, EnableNotify, SwSpuriousWake, swShared, Boot,
        BootSleep, WorkerWait, WorkerStop, Launch, Send, Receive, uiVars

\* Nothing has begun.
LEMMA SwInitInv == SwInit => SwInv
<1> SUFFICES ASSUME SwInit PROVE SwInv
  OBVIOUS
<1>1. FreeSlot \in SlotRecs /\ FreeSlot.state = "free" /\ NoResult \in Results
      /\ NoClient \in Clients /\ NoClient.faults = 0
      /\ NoCapture \in [at : {"none", "read", "taken", "signal"}, epoch : Nat, begun : Nat]
      /\ NoCapture.at = "none" /\ NoCapture.epoch = 0
  BY DEF FreeSlot, SlotRecs, NoResult, Results, NoClient, Clients, NoCapture
<1>2. \A s \in Slots : slots[s].state = "free"
  BY <1>1 DEF SwInit
<1>3. SwTyped
  BY <1>1 DEF SwInit, SwTyped
<1>4. OneJob /\ OneRequest /\ OffState
  BY <1>1, <1>2, ShadowAssumption DEF SwInit, OneJob, OneRequest, OffState, Busy, In
<1>5. FreshState
  BY <1>1, <1>2 DEF SwInit, FreshState, SwFresh, Begun
<1>6. SwAccounted
  <2>1. In("queued") \cup In("working") = {}
    BY <1>2 DEF In
  <2>2. Cardinality(In("queued") \cup In("working")) = 0
    BY <2>1, FS_EmptySet
  <2> QED BY <2>2 DEF SwInit, SwAccounted
<1> QED BY <1>3, <1>4, <1>5, <1>6 DEF SwInv

\* Every step keeps it.
LEMMA SwNextInv == SwInv /\ [SwNext]_swVars => SwInv'
<1> SUFFICES ASSUME SwInv, [SwNext]_swVars PROVE SwInv'
  OBVIOUS
<1>1. SwTyped /\ OneJob /\ OneRequest /\ OffState /\ FreshState /\ SwAccounted
  BY DEF SwInv
<1>2. CASE SwNext
  <2>1. SwTyped'
    BY <1>1, <1>2, ScanTyped, CallTyped, WorkerTyped DEF SwNext
  <2>2. OneJob' /\ OffState'
    BY <1>1, <1>2, OneJobKept, OffKept
  <2>3. OneRequest'
    BY <1>1, <1>2, RequestStays, RequestKept DEF SwNext
  <2>4. FreshState'
    BY <1>1, <1>2, FreshScan, FreshCall, FreshWorker DEF SwNext
  <2>5. SwAccounted'
    BY <1>1, <1>2, <2>1, AccountedKept
  <2> QED BY <2>1, <2>2, <2>3, <2>4, <2>5 DEF SwInv
<1>3. CASE UNCHANGED swVars
  <2>1. UNCHANGED <<swEnabled, swStopping, swEpoch, slots, latest, swStats, swWorker, job,
                    outcome, client, pipe, swUi, swCapture, swChanges, swLate, misbehaved>>
    BY <1>3 DEF swVars, swShared
  <2> QED BY ONLY <1>1, <2>1 DEF SwInv, SwTyped, OneJob, OneRequest, OffState, FreshState,
             SwFresh, SwAccounted, In
<1> QED BY <1>2, <1>3

\* ShadowWorker (cyclostationary/shadow_worker.cpp): what is shown began after the last
\* change, and every accepted capture is pending, shown or counted, for any number of
\* slots, captures, calls and faults.
THEOREM SwSafeHolds == SwInit /\ [][SwNext]_swVars => []SwSafe
<1>1. SwInv => SwSafe
  BY DEF SwInv, FreshState, SwSafe
<1> QED BY <1>1, SwInitInv, SwNextInv, PTL

\* ShadowWorker::run: it gives itself up only after more faults than the restart limit.
THEOREM SwGivesUpHolds == SwInit /\ [][SwNext]_swVars => SwGivesUp
<1> DEFINE GivesUp == swWorker = "publish" /\ swWorker' = "exit" => misbehaved > RestartLimit
<1>1. SwInv /\ [SwNext]_swVars => [GivesUp]_swVars
  <2> SUFFICES ASSUME SwInv, SwNext, swWorker = "publish", swWorker' = "exit"
               PROVE  misbehaved > RestartLimit
    OBVIOUS
  <2>1. outcome = "exhausted"
    BY WokenIs DEF SwNext, SwScan, SwCall, SwCallGoesOn, SwWorkerStep, CaptureEpoch, CaptureBegin,
       SubmitRefused, SubmitLate, TrySubmit, SubmitSignal, Invalidate, DisableCall, DisableLocked,
       DisableJoin, EnableCall, EnableJoin, EnableStart, EnableStore, EnableNotify,
       SwSpuriousWake, swShared, Boot, BootSleep, WorkerWait, WorkerStop, TakeOldest, Launch, Send,
       Receive, Publish
  <2> QED BY <2>1 DEF SwInv, OneRequest
<1> QED BY <1>1, SwInitInv, SwNextInv, PTL DEF SwGivesUp

=============================================================================
