------------------------- MODULE LoraSecurityProofs -------------------------
(***************************************************************************)
(* Theorems about LoraSecurity: for any queue, any number of channels and  *)
(* any bound, every batch is accounted for once and the timeline is true.  *)
(*                                                                         *)
(* The timeline needs an invariant about what is still to be taken in: the *)
(* batches held and queued and the capture being submitted follow each     *)
(* other in time, session and skew, channels of one capture apart; and     *)
(* there is a time T, the end of what was heard last, such that everything *)
(* heard lies before T, all that is to come lies at or after T or is a     *)
(* channel of the capture that ended at T, and the device time at which    *)
(* the context ends is not before T for any capture it can be joined to.   *)
(*                                                                         *)
(* And about LoraRules: for any devices, channels and limits, what the     *)
(* engine counts adds up.  The sum of a tally is a fold that takes its     *)
(* members in an order of its own; here it is shown that any member can be *)
(* taken first, so that putting and merging change the sum as they should. *)
(***************************************************************************)
EXTENDS LoraSecurity, LoraRules, Iteration, FiniteSetTheorems, SequenceTheorems, TLAPS

Captures == [session : Nat, start : Nat, length : Nat, skew : Nat,
             kind : {"whole", "broken", "untimed"}, centre : Nat]
Counts == [captures : Nat, rejected : Nat, lost : Nat, regressions : Nat]

Contexts == [session : Nat, end : Int, known : BOOLEAN, start : Int, centres : SUBSET Nat]
RoundsOf == [batches : Seq(Captures), loss : Nat, done : BOOLEAN,
             at : {"none", "wait", "loss", "ingest", "publish"}]

RadioTypes ==
  /\ lsVisit \in Captures
  /\ lsNow \in Nat /\ lsSession \in Nat /\ lsBack \in Nat /\ lsSubmitted \in Nat

QueueTypes ==
  /\ lsMode \in {"off", "on", "stopping"} /\ lsStarts \in Nat
  /\ lsQueue \in Seq(Captures) /\ lsLoss \in Nat

RoundTypes == lsRound \in RoundsOf /\ Len(lsRound.batches) <= 1

MonitorTypes ==
  /\ lsShown \in Counts /\ lsCounts \in Counts /\ lsContext \in Contexts
  /\ lsDead \in Nat /\ lsHeard \in SUBSET Nat

LsTypeOK == RadioTypes /\ QueueTypes /\ RoundTypes /\ MonitorTypes

\* The batch of this round that was not taken in yet, and all that wait.
Held == IF lsRound.at \in {"loss", "ingest"} THEN lsRound.batches ELSE <<>>
Waiting == Held \o lsQueue

\* A consumer that has ended left nothing behind; its last round left the
\* queue empty for good, since nothing is submitted any more.
Rounds ==
  /\ lsRound.at = "none" =>
       lsMode # "on" /\ lsQueue = <<>> /\ lsLoss = 0 /\ lsShown = lsCounts
  /\ lsMode = "off" => lsRound.at = "none"
  /\ lsMode # "on" => lsVisit.centre = 0
  /\ lsRound.done /\ lsRound.at # "none" =>
       lsMode = "stopping" /\ lsQueue = <<>> /\ lsLoss = 0

-----------------------------------------------------------------------------
(* The timeline *)

Until(c) == c.start + c.length
Times(c) == c.start .. (Until(c) - 1)

\* b comes after a: later, or a lower channel of the same capture.
Follows(a, b) ==
  /\ a.session <= b.session /\ a.skew <= b.skew
  /\ \/ Until(a) <= b.start
     \/ /\ a.session = b.session /\ a.start = b.start /\ a.length = b.length
        /\ a.skew = b.skew /\ b.centre < a.centre

\* c may be taken in when everything heard ended before T.
Joins(T, c) ==
  /\ c.start >= 1 /\ c.length >= 1 /\ Until(c) <= lsNow
  /\ lsContext.session <= c.session /\ c.session <= lsSession /\ c.skew <= lsBack
  /\ T <= c.start \/ (Until(c) = T /\ Times(c) \subseteq lsHeard)
  /\ lsContext.known /\ lsContext.session = c.session =>
       /\ T <= lsContext.end + c.skew
       /\ lsBack = 0 /\ c.start < T =>
            lsContext.start = c.start /\ \A k \in lsContext.centres : c.centre < k

ContextTrue(T) ==
  /\ lsContext.session <= lsSession
  /\ lsContext.known =>
       /\ lsContext.start < lsContext.end
       /\ lsContext.session = lsSession => T <= lsContext.end + lsBack
       /\ lsBack = 0 => lsContext.end <= T

\* The times before T that no capture in H covers.
Unheard(T, H) == (1..(T - 1)) \ H

HeardBefore(T) ==
  /\ 1 <= T /\ T <= lsNow /\ lsHeard \subseteq 1..(T - 1)
  /\ lsDead <= Cardinality(Unheard(T, lsHeard))

InOrder ==
  /\ \A i, j \in 1..Len(Waiting) : i < j => Follows(Waiting[i], Waiting[j])
  /\ lsVisit.centre > 0 => \A i \in 1..Len(Waiting) : Follows(Waiting[i], lsVisit)

ToCome(T) ==
  /\ \A i \in 1..Len(Waiting) : Joins(T, Waiting[i])
  /\ lsVisit.centre > 0 => Joins(T, lsVisit)

TrueAt(T) == HeardBefore(T) /\ ContextTrue(T) /\ ToCome(T)

Timeline ==
  /\ InOrder
  /\ lsCounts.regressions > 0 => lsBack > 0
  /\ \E T \in Nat : TrueAt(T)

IInv == LsTypeOK /\ Rounds /\ LsAccounted /\ Timeline

-----------------------------------------------------------------------------
(* Lemmas *)

\* Zero counts, no capture and no context have their types.
LEMMA StartTypes ==
  LsZero \in Counts /\ LsNoCapture \in Captures /\ LsNoContext \in Contexts
BY DEF LsZero, Counts, LsNoCapture, Captures, LsNoContext, Contexts

\* K is what was heard before T and the time from a to b, which follows.
HeardThen(K, H, T, a, b) ==
  /\ T \in Nat /\ a \in Nat /\ b \in Nat /\ 1 <= T /\ T <= a /\ a <= b
  /\ H \in SUBSET (1..(T - 1)) /\ K = H \cup (a..(b - 1))

\* What is heard before T and not after leaves the time between unheard.
LEMMA UnheardGrows ==
  ASSUME NEW T, NEW a, NEW b, NEW H, NEW K, HeardThen(K, H, T, a, b)
  PROVE  Cardinality(Unheard(b, K)) = Cardinality(Unheard(T, H)) + (a - T)
<1> USE DEF HeardThen
<1> DEFINE Old == (1..(T - 1)) \ H
           Gap == T..(a - 1)
<1>1. Unheard(b, K) = Old \cup Gap /\ Unheard(T, H) = Old
  BY DEF Unheard
<1>2. IsFiniteSet(1..(T - 1)) /\ IsFiniteSet(Gap) /\ Cardinality(Gap) = a - T
  BY FS_Interval
<1>3. IsFiniteSet(Old)
  BY <1>2, FS_Subset
<1>4. Cardinality(Old) \in Nat
  BY <1>3, FS_CardinalityType
<1>5. Old \cap Gap = {}
  OBVIOUS
<1>6. Cardinality(Old \cap Gap) = 0
  BY <1>5, FS_EmptySet
<1>7. Cardinality(Old \cup Gap) = Cardinality(Old) + Cardinality(Gap) - Cardinality(Old \cap Gap)
  BY <1>2, <1>3, FS_Union
<1>8. Cardinality(Old \cup Gap) = Cardinality(Old) + (a - T)
  BY <1>2, <1>4, <1>6, <1>7
<1> QED BY <1>1, <1>8

\* What is unheard before T is unheard before any later time.
LEMMA UnheardMore ==
  ASSUME NEW T \in Nat, NEW b \in Nat, NEW H, T <= b
  PROVE  Cardinality(Unheard(T, H)) <= Cardinality(Unheard(b, H))
<1>1. IsFiniteSet(1..(b - 1))
  BY FS_Interval
<1>2. IsFiniteSet(Unheard(b, H)) /\ Unheard(T, H) \subseteq Unheard(b, H)
  BY <1>1, FS_Subset DEF Unheard
<1> QED BY <1>2, FS_Subset

\* A batch put in front of a queue.
LEMMA InFront ==
  ASSUME NEW S, NEW h \in S, NEW q \in Seq(S)
  PROVE  /\ <<h>> \o q \in Seq(S) /\ Len(<<h>> \o q) = Len(q) + 1
         /\ (<<h>> \o q)[1] = h
         /\ \A i \in 1..Len(q) : (<<h>> \o q)[i + 1] = q[i]
BY SMT

\* The oldest batch taken off and put in front again.
LEMMA HeadInFront ==
  ASSUME NEW S, NEW q \in Seq(S), q # <<>>
  PROVE  <<Head(q)>> \o Tail(q) = q
BY HeadTailProperties, SMT

\* Nothing in front of a queue.
LEMMA NothingInFront ==
  ASSUME NEW S, NEW q \in Seq(S)
  PROVE  <<>> \o q = q
BY SMT

-----------------------------------------------------------------------------
(* Types, rounds and the account *)

\* What comes from the radio keeps its type.
LEMMA RadioTypesKept == RadioTypes /\ [LsNext]_lsVars => RadioTypes'
<1> SUFFICES ASSUME RadioTypes, [LsNext]_lsVars PROVE RadioTypes'
  OBVIOUS
<1> USE DEF RadioTypes, lsMonitor, lsRadio
<1>1. CASE LsCapture
  BY <1>1, LoraSecurityAssumption DEF LsCapture, Captures
<1>2. CASE LsClockBack \/ LsReconnect
  BY <1>2 DEF LsClockBack, LsReconnect
<1>3. CASE LsSubmit
  <2>1. lsVisit' = [lsVisit EXCEPT !.centre = lsVisit.centre - 1] /\ lsVisit.centre > 0
    BY <1>3 DEF LsSubmit
  <2>2. lsVisit.centre \in Nat /\ lsVisit.centre - 1 \in Nat
    BY ONLY <2>1, RadioTypes DEF RadioTypes, Captures
  <2>3. lsVisit' \in Captures
    BY ONLY <2>1, <2>2, RadioTypes DEF RadioTypes, Captures
  <2>4. lsSubmitted' = lsSubmitted + 1 /\ UNCHANGED <<lsNow, lsSession, lsBack>>
    BY <1>3 DEF LsSubmit
  <2> QED BY ONLY <2>3, <2>4, RadioTypes DEF RadioTypes
<1>4. CASE LsStart \/ LsStop \/ LsStopped
  BY <1>4 DEF LsStart, LsStop, LsStopped
<1>5. CASE LsConsume
  BY <1>5 DEF LsConsume, LsTake, LsNoteLoss, LsIngest, LsReject, LsOnlyLoss, LsPublish
<1>6. CASE UNCHANGED lsVars
  BY <1>6 DEF lsVars
<1> QED BY <1>1, <1>2, <1>3, <1>4, <1>5, <1>6 DEF LsNext

\* What waits in the queue keeps its type.
LEMMA QueueTypesKept == RadioTypes /\ QueueTypes /\ [LsNext]_lsVars => QueueTypes'
<1> SUFFICES ASSUME RadioTypes, QueueTypes, [LsNext]_lsVars PROVE QueueTypes'
  OBVIOUS
<1> USE DEF QueueTypes, lsMonitor, lsRadio
<1>1. CASE LsCapture \/ LsClockBack \/ LsReconnect
  BY <1>1 DEF LsCapture, LsClockBack, LsReconnect
<1>2. CASE LsSubmit
  <2>1. Append(lsQueue, lsVisit) \in Seq(Captures) /\ lsLoss + 1 \in Nat
    BY AppendProperties DEF RadioTypes
  <2> QED BY <1>2, <2>1 DEF LsSubmit
<1>3. CASE LsStart \/ LsStop \/ LsStopped
  BY <1>3 DEF LsStart, LsStop, LsStopped
<1>4. CASE LsTake
  BY <1>4, HeadTailProperties DEF LsTake
<1>5. CASE LsNoteLoss \/ LsIngest \/ LsReject \/ LsOnlyLoss \/ LsPublish
  BY <1>5 DEF LsNoteLoss, LsIngest, LsReject, LsOnlyLoss, LsPublish
<1>6. CASE UNCHANGED lsVars
  BY <1>6 DEF lsVars
<1> QED BY <1>1, <1>2, <1>3, <1>4, <1>5, <1>6 DEF LsNext, LsConsume

\* What the consumer has taken keeps its type.
LEMMA RoundTypesKept == QueueTypes /\ RoundTypes /\ [LsNext]_lsVars => RoundTypes'
<1> SUFFICES ASSUME QueueTypes, RoundTypes, [LsNext]_lsVars PROVE RoundTypes'
  OBVIOUS
<1> USE DEF RoundTypes, RoundsOf, lsMonitor, lsRadio
<1>1. CASE LsCapture \/ LsClockBack \/ LsReconnect \/ LsSubmit
  BY <1>1 DEF LsCapture, LsClockBack, LsReconnect, LsSubmit
<1>2. CASE LsStart
  <2>1. lsRound' = [batches |-> <<>>, loss |-> 0, done |-> FALSE, at |-> "wait"]
    BY <1>2 DEF LsStart, LsIdle
  <2> QED BY <2>1, EmptySeq
<1>7. CASE LsStop \/ LsStopped
  BY <1>7 DEF LsStop, LsStopped
<1>3. CASE LsTake
  <2>1. LsOldest \in Seq(Captures) /\ Len(LsOldest) <= 1
    BY HeadTailProperties DEF LsOldest, QueueTypes
  <2> QED BY <1>3, <2>1 DEF LsTake, QueueTypes
<1>4. CASE LsNoteLoss \/ LsIngest \/ LsReject \/ LsOnlyLoss
  BY <1>4 DEF LsNoteLoss, LsIngest, LsReject, LsOnlyLoss
<1>5. CASE LsPublish
  <2>1. PICK p \in {"none", "wait"} :
          lsRound' = [batches |-> <<>>, loss |-> 0, done |-> FALSE, at |-> p]
    BY <1>5 DEF LsPublish, LsIdle
  <2> QED BY <2>1, EmptySeq
<1>6. CASE UNCHANGED lsVars
  BY <1>6 DEF lsVars
<1> QED BY <1>1, <1>2, <1>3, <1>4, <1>5, <1>6, <1>7 DEF LsNext, LsConsume

\* What a capture does to the context and the dead time.
LEMMA IngestTypes ==
  ASSUME MonitorTypes, NEW c \in Captures
  PROVE  /\ c.start \in Nat /\ c.length \in Nat /\ c.skew \in Nat /\ c.session \in Nat
         /\ c.centre \in Nat
         /\ LsDeviceTime(c) \in Int /\ LsEnd(c) \in Int
         /\ LsGapBefore(c) \in Nat /\ LsContextAfter(c) \in Contexts
<1>1. /\ c.start \in Nat /\ c.length \in Nat /\ c.skew \in Nat /\ c.session \in Nat
      /\ c.centre \in Nat
  BY DEF Captures
<1>2. LsDeviceTime(c) \in Int /\ LsEnd(c) \in Int
  BY <1>1 DEF LsDeviceTime, LsEnd
<1>3. LsGapBefore(c) \in Nat
  BY <1>2 DEF LsGapBefore, MonitorTypes, Contexts
<1>4. LsContextAfter(c) \in Contexts
  BY <1>1, <1>2, StartTypes DEF LsContextAfter, MonitorTypes, Contexts
<1> QED BY <1>1, <1>2, <1>3, <1>4

\* What a capture does to the counts.
LEMMA IngestCounts ==
  ASSUME LsIngest, lsCounts \in Counts
  PROVE  /\ lsCounts' \in Counts
         /\ lsCounts'.captures = lsCounts.captures + 1
         /\ lsCounts'.rejected = lsCounts.rejected /\ lsCounts'.lost = lsCounts.lost
         /\ lsCounts'.regressions > 0 =>
              lsCounts.regressions > 0 \/ LsRegressed(Head(lsRound.batches))
<1> DEFINE n == IF LsRegressed(Head(lsRound.batches)) THEN 1 ELSE 0
<1>1. lsCounts' = [lsCounts EXCEPT !.captures = @ + 1, !.regressions = @ + n]
  BY DEF LsIngest
<1>2. n \in Nat /\ (n > 0 => LsRegressed(Head(lsRound.batches)))
  OBVIOUS
<1> HIDE DEF n
<1>3. /\ lsCounts' \in Counts
      /\ lsCounts'.captures = lsCounts.captures + 1
      /\ lsCounts'.rejected = lsCounts.rejected /\ lsCounts'.lost = lsCounts.lost
      /\ lsCounts'.regressions = lsCounts.regressions + n
  <2>1. lsCounts' = [captures |-> lsCounts.captures + 1, rejected |-> lsCounts.rejected,
                     lost |-> lsCounts.lost, regressions |-> lsCounts.regressions + n]
    BY <1>1 DEF Counts
  <2> QED BY <1>2, <2>1 DEF Counts
<1>4. lsCounts.regressions \in Nat
  BY DEF Counts
<1> QED BY <1>2, <1>3, <1>4

\* What a loss does to the counts.
LEMMA LossCounts ==
  ASSUME LsNoteLoss, lsCounts \in Counts, lsRound.loss \in Nat
  PROVE  /\ lsCounts' \in Counts
         /\ lsCounts'.captures = lsCounts.captures /\ lsCounts'.rejected = lsCounts.rejected
         /\ lsCounts'.lost = lsCounts.lost + lsRound.loss
         /\ lsCounts'.regressions = lsCounts.regressions
<1>1. CASE lsRound.loss = 0
  BY <1>1 DEF LsNoteLoss, Counts
<1>2. CASE lsRound.loss # 0
  BY <1>2 DEF LsNoteLoss, Counts
<1> QED BY <1>1, <1>2

\* What a batch that is rejected does to the counts.
LEMMA RejectCounts ==
  ASSUME LsReject, lsCounts \in Counts
  PROVE  /\ lsCounts' \in Counts
         /\ lsCounts'.captures = lsCounts.captures /\ lsCounts'.lost = lsCounts.lost
         /\ lsCounts'.rejected = lsCounts.rejected + 1
         /\ lsCounts'.regressions = lsCounts.regressions
BY DEF LsReject, Counts

\* What the monitor keeps about itself keeps its type.
LEMMA MonitorTypesKept == RoundTypes /\ MonitorTypes /\ [LsNext]_lsVars => MonitorTypes'
<1> SUFFICES ASSUME RoundTypes, MonitorTypes, [LsNext]_lsVars PROVE MonitorTypes'
  OBVIOUS
<1> USE DEF lsMonitor, lsRadio
<1>1. CASE LsCapture \/ LsClockBack \/ LsReconnect \/ LsSubmit \/ LsStart \/ LsStop \/ LsStopped
  BY <1>1 DEF LsCapture, LsClockBack, LsReconnect, LsSubmit, LsStart, LsStop, LsStopped,
              MonitorTypes
<1>2. CASE LsNoteLoss
  <2>1. lsCounts' \in Counts
    BY <1>2, LossCounts DEF MonitorTypes, RoundTypes, RoundsOf
  <2> QED BY <1>2, <2>1, StartTypes DEF LsNoteLoss, MonitorTypes
<1>3. CASE LsIngest
  <2> DEFINE c == Head(lsRound.batches)
  <2>1. c \in Captures
    BY <1>3, HeadTailProperties DEF LsIngest, RoundTypes, RoundsOf
  <2>2. lsCounts' \in Counts
    BY <1>3, IngestCounts DEF MonitorTypes
  <2>3. c.start..(c.start + c.length - 1) \in SUBSET Nat
    BY <2>1, IngestTypes
  <2> QED BY <1>3, <2>1, <2>2, <2>3, IngestTypes DEF LsIngest, MonitorTypes
<1>4. CASE LsReject
  <2>1. lsCounts' \in Counts
    BY <1>4, RejectCounts DEF MonitorTypes
  <2> QED BY <1>4, <2>1, StartTypes DEF LsReject, MonitorTypes
<1>5. CASE LsTake \/ LsOnlyLoss \/ LsPublish
  BY <1>5 DEF LsTake, LsOnlyLoss, LsPublish, MonitorTypes
<1>6. CASE UNCHANGED lsVars
  BY <1>6 DEF lsVars, MonitorTypes
<1> QED BY <1>1, <1>2, <1>3, <1>4, <1>5, <1>6 DEF LsNext, LsConsume

\* All of them together.
LEMMA TypesKept == LsTypeOK /\ [LsNext]_lsVars => LsTypeOK'
BY RadioTypesKept, QueueTypesKept, RoundTypesKept, MonitorTypesKept DEF LsTypeOK

\* The rounds of the consumer follow each other.
LEMMA RoundsKept == LsTypeOK /\ Rounds /\ [LsNext]_lsVars => Rounds'
<1> SUFFICES ASSUME LsTypeOK, Rounds, [LsNext]_lsVars PROVE Rounds'
  OBVIOUS
<1> USE DEF Rounds, lsMonitor, lsRadio
<1>1. CASE LsCapture \/ LsClockBack \/ LsReconnect
  BY <1>1 DEF LsCapture, LsClockBack, LsReconnect
<1>2. CASE LsSubmit
  BY <1>2 DEF LsSubmit
<1>3. CASE LsStart
  BY <1>3 DEF LsStart, LsIdle
<1>4. CASE LsStop \/ LsStopped
  BY <1>4 DEF LsStop, LsStopped
<1>5. CASE LsTake
  BY <1>5 DEF LsTake, LsTypeOK, RoundTypes, RoundsOf
<1>6. CASE LsNoteLoss \/ LsIngest \/ LsReject \/ LsOnlyLoss
  BY <1>6 DEF LsNoteLoss, LsIngest, LsReject, LsOnlyLoss, LsTypeOK, RoundTypes, RoundsOf
<1>7. CASE LsPublish
  BY <1>7 DEF LsPublish, LsIdle, LsTypeOK, RoundTypes, RoundsOf
<1>8. CASE UNCHANGED lsVars
  BY <1>8 DEF lsVars
<1> QED BY <1>1, <1>2, <1>3, <1>4, <1>5, <1>6, <1>7, <1>8 DEF LsNext, LsConsume

\* What is still waiting is held in this round or queued.
LEMMA WaitingCounts ==
  ASSUME LsTypeOK
  PROVE  /\ Held \in Seq(Captures) /\ Waiting \in Seq(Captures)
         /\ Len(Held) \in Nat /\ Len(lsQueue) \in Nat
         /\ Len(Waiting) = Len(Held) + Len(lsQueue)
BY ConcatProperties DEF LsTypeOK, QueueTypes, RoundTypes, RoundsOf, Held, Waiting

\* A sequence of at most one entry that is not empty has one.
LEMMA OneEntry ==
  ASSUME NEW S, NEW q \in Seq(S), q # <<>>, Len(q) <= 1
  PROVE  Len(q) = 1
<1>1. Len(q) \in Nat \ {0}
  BY EmptySeq
<1> QED BY <1>1

\* A round holds one batch or none.
LEMMA OneHeld ==
  ASSUME LsTypeOK, Held # <<>>
  PROVE  Len(Held) = 1
<1>1. Held \in Seq(Captures) /\ Len(Held) <= 1
  BY WaitingCounts DEF LsTypeOK, RoundTypes, Held
<1> QED BY <1>1, OneEntry

\* Counting in: what is added to one count is added to the sum.
LEMMA AccountKept ==
  LsTypeOK /\ LsTypeOK' /\ Rounds /\ Rounds' /\ LsAccounted /\ [LsNext]_lsVars => LsAccounted'
<1> SUFFICES ASSUME LsTypeOK, LsTypeOK', Rounds, Rounds', LsAccounted, [LsNext]_lsVars
             PROVE  LsAccounted'
  OBVIOUS
<1> DEFINE
      Counted == lsCounts.captures + lsCounts.rejected + lsCounts.lost
      Taken == IF lsRound.at = "loss" THEN lsRound.loss ELSE 0
      Whole == lsSubmitted = Counted + Taken + Len(Held) + Len(lsQueue) + lsLoss
<1>1. /\ Counted \in Nat /\ Taken \in Nat /\ Len(Held) \in Nat /\ Len(lsQueue) \in Nat
      /\ lsLoss \in Nat /\ lsSubmitted \in Nat
  <2>1. Counted \in Nat
    BY DEF LsTypeOK, MonitorTypes, Counts
  <2>2. Taken \in Nat
    BY DEF LsTypeOK, RoundTypes, RoundsOf
  <2> QED BY <2>1, <2>2, WaitingCounts DEF LsTypeOK, RadioTypes, QueueTypes
<1>2. Whole
  BY DEF LsAccounted, Held
<1>3. Whole'
  <2> USE <1>1, <1>2 DEF lsMonitor, lsRadio
  <2>1. CASE LsCapture \/ LsClockBack \/ LsReconnect
    BY <2>1 DEF LsCapture, LsClockBack, LsReconnect, Held
  <2>2. CASE LsSubmit
    <3>1. Len(Append(lsQueue, lsVisit)) = Len(lsQueue) + 1
      BY AppendProperties DEF LsTypeOK, QueueTypes, RadioTypes
    <3>2. Counted' = Counted /\ Taken' = Taken /\ Held' = Held /\ lsSubmitted' = lsSubmitted + 1
      BY <2>2 DEF LsSubmit, Held
    <3>3. \/ lsLoss' = lsLoss + 1 /\ lsQueue' = lsQueue
          \/ lsQueue' = Append(lsQueue, lsVisit) /\ lsLoss' = lsLoss
      BY <2>2 DEF LsSubmit
    <3> HIDE DEF Counted, Taken
    <3>4. CASE lsLoss' = lsLoss + 1 /\ lsQueue' = lsQueue
      BY SMTT(60), <3>2, <3>4
    <3>5. CASE lsQueue' = Append(lsQueue, lsVisit) /\ lsLoss' = lsLoss
      BY SMTT(60), <3>1, <3>2, <3>5
    <3> QED BY ONLY <3>3, <3>4, <3>5
  <2>3. CASE LsStart
    BY <2>3 DEF LsStart, LsIdle, Held, Rounds
  <2>4. CASE LsStop \/ LsStopped
    BY <2>4 DEF LsStop, LsStopped, Held
  <2>5. CASE LsTake
    <3>1. Counted' = Counted /\ lsSubmitted' = lsSubmitted
      BY <2>5 DEF LsTake
    <3>2. Taken = 0 /\ Held = <<>>
      BY <2>5 DEF LsTake, Held
    <3>3. Taken' = lsLoss /\ Held' = LsOldest /\ lsLoss' = 0
      BY <2>5 DEF LsTake, Held
    <3>4. Len(LsOldest) + Len(lsQueue') = Len(lsQueue)
      <4>1. lsQueue \in Seq(Captures)
        BY DEF LsTypeOK, QueueTypes
      <4>2. lsQueue' = IF lsQueue = <<>> THEN <<>> ELSE Tail(lsQueue)
        BY ONLY <2>5, Zenon DEF LsTake
      <4> QED BY ONLY <4>1, <4>2, HeadTailProperties DEF LsOldest
    <3>5. Len(LsOldest) \in Nat /\ Len(lsQueue') \in Nat
      BY <3>3, WaitingCounts, LenProperties DEF LsTypeOK, QueueTypes, LsOldest
    <3>6. Len(Held) = 0
      BY <3>2
    <3> HIDE DEF Counted, Taken
    <3> QED BY ONLY <1>1, <1>2, <3>1, <3>2, <3>3, <3>4, <3>5, <3>6
  <2>6. CASE LsNoteLoss
    <3>1. Counted' = Counted + lsRound.loss
      <4>1. lsCounts \in Counts /\ lsRound.loss \in Nat
        BY DEF LsTypeOK, MonitorTypes, RoundTypes, RoundsOf
      <4>2. /\ lsCounts.captures \in Nat /\ lsCounts.rejected \in Nat /\ lsCounts.lost \in Nat
        BY <4>1 DEF Counts
      <4>3. /\ lsCounts'.captures = lsCounts.captures /\ lsCounts'.rejected = lsCounts.rejected
            /\ lsCounts'.lost = lsCounts.lost + lsRound.loss
        BY ONLY <2>6, <4>1, LossCounts
      <4>4. Counted' = lsCounts.captures + lsCounts.rejected + (lsCounts.lost + lsRound.loss)
        BY <4>3
      <4> QED BY SMTT(30), <4>1, <4>2, <4>4
    <3>2. Taken = lsRound.loss /\ Taken' = 0 /\ Held' = Held
      BY <2>6 DEF LsNoteLoss, Held, LsTypeOK, RoundTypes, RoundsOf
    <3>3. lsSubmitted' = lsSubmitted /\ lsQueue' = lsQueue /\ lsLoss' = lsLoss
      BY <2>6 DEF LsNoteLoss
    <3> HIDE DEF Counted, Taken
    <3>4. Len(Held') = Len(Held) /\ Len(lsQueue') = Len(lsQueue)
      BY ONLY <3>2, <3>3, Zenon
    <3>5. Counted' + Taken' = Counted + Taken
      BY ONLY <1>1, <3>1, <3>2
    <3>6. Counted' \in Nat /\ Taken' \in Nat
      BY ONLY <1>1, <3>1, <3>2
    <3> QED BY ONLY <1>1, <1>2, <3>3, <3>4, <3>5, <3>6
  <2>7. CASE LsIngest \/ LsReject
    <3>1. Counted' = Counted + 1
      <4>1. lsCounts \in Counts
        BY DEF LsTypeOK, MonitorTypes
      <4>2. /\ lsCounts.captures \in Nat /\ lsCounts.rejected \in Nat /\ lsCounts.lost \in Nat
        BY <4>1 DEF Counts
      <4>3. \/ /\ lsCounts'.captures = lsCounts.captures + 1
               /\ lsCounts'.rejected = lsCounts.rejected /\ lsCounts'.lost = lsCounts.lost
            \/ /\ lsCounts'.captures = lsCounts.captures
               /\ lsCounts'.rejected = lsCounts.rejected + 1 /\ lsCounts'.lost = lsCounts.lost
        BY ONLY <2>7, <4>1, IngestCounts, RejectCounts
      <4> QED BY ONLY <4>2, <4>3
    <3>2. Taken = 0 /\ Taken' = 0 /\ Held = lsRound.batches /\ Held' = <<>>
      BY <2>7 DEF LsIngest, LsReject, Held, LsTypeOK, RoundTypes, RoundsOf
    <3>3. Len(Held) = 1
      BY <2>7, <3>2, OneHeld DEF LsIngest, LsReject
    <3> QED BY <2>7, <3>1, <3>2, <3>3 DEF LsIngest, LsReject
  <2>8. CASE LsOnlyLoss \/ LsPublish
    <3>1. Taken = 0 /\ Taken' = 0 /\ Len(Held) = 0 /\ Len(Held') = 0
      BY <2>8 DEF LsOnlyLoss, LsPublish, LsIdle, Held, LsTypeOK, RoundTypes, RoundsOf
    <3> QED BY <2>8, <3>1 DEF LsOnlyLoss, LsPublish
  <2>9. CASE UNCHANGED lsVars
    BY <2>9 DEF lsVars, Held
  <2> QED BY <2>1, <2>2, <2>3, <2>4, <2>5, <2>6, <2>7, <2>8, <2>9 DEF LsNext, LsConsume
<1>4. (lsMode = "off" => lsQueue = <<>> /\ lsLoss = 0 /\ lsShown = lsCounts /\ lsRound.at = "none")'
  BY DEF Rounds
<1>5. (Counted \in Nat)'
  BY DEF LsTypeOK, MonitorTypes, Counts
<1> QED BY <1>3, <1>4, <1>5 DEF LsAccounted, Held

-----------------------------------------------------------------------------
(* The timeline *)

\* The fields of what has a type.
LEMMA Fields ==
  ASSUME NEW c \in Captures
  PROVE  /\ c.session \in Nat /\ c.start \in Nat /\ c.length \in Nat /\ c.skew \in Nat
         /\ c.centre \in Nat /\ Until(c) \in Nat
         /\ LsDeviceTime(c) = c.start - c.skew /\ LsEnd(c) = Until(c) - c.skew
<1>1. /\ c.session \in Nat /\ c.start \in Nat /\ c.length \in Nat /\ c.skew \in Nat
      /\ c.centre \in Nat
  BY DEF Captures
<1> QED BY <1>1 DEF Until, LsDeviceTime, LsEnd

\* The fields of a context.
LEMMA ContextFields ==
  ASSUME LsTypeOK
  PROVE  /\ lsContext.session \in Nat /\ lsContext.end \in Int /\ lsContext.start \in Int
         /\ lsContext.known \in BOOLEAN
         /\ lsContext.centres \in SUBSET Nat
         /\ lsNow \in Nat /\ lsSession \in Nat /\ lsBack \in Nat /\ lsVisit \in Captures
         /\ lsDead \in Nat
  BY DEF LsTypeOK, MonitorTypes, RadioTypes, Contexts

\* The context after a capture, field by field.
LEMMA ContextAfterFields ==
  ASSUME LsTypeOK, NEW c \in Captures
  PROVE  /\ c.kind = "untimed" =>
              LsContextAfter(c) =
                (IF lsContext.session = c.session THEN LsNoContext ELSE lsContext)
         /\ c.kind # "untimed" /\ LsSibling(c) =>
              /\ LsContextAfter(c).session = lsContext.session
              /\ LsContextAfter(c).start = lsContext.start
              /\ LsContextAfter(c).centres = lsContext.centres \cup {c.centre}
              /\ LsContextAfter(c).known => lsContext.known
              /\ LsContextAfter(c).end =
                   (IF lsContext.end < LsEnd(c) THEN LsEnd(c) ELSE lsContext.end)
         /\ c.kind # "untimed" /\ ~LsSibling(c) =>
              /\ LsContextAfter(c).session = c.session
              /\ LsContextAfter(c).start = LsDeviceTime(c)
              /\ LsContextAfter(c).centres = {c.centre}
              /\ LsContextAfter(c).end = LsEnd(c)
<1>1. lsContext \in Contexts
  BY DEF LsTypeOK, MonitorTypes
<1>2. ASSUME c.kind # "untimed", LsSibling(c)
      PROVE  LsContextAfter(c) =
               [session |-> lsContext.session,
                end |-> IF lsContext.end < LsEnd(c) THEN LsEnd(c) ELSE lsContext.end,
                known |-> lsContext.known /\ c.kind # "broken",
                start |-> lsContext.start, centres |-> lsContext.centres \cup {c.centre}]
  BY <1>1, <1>2 DEF LsContextAfter, Contexts
<1>3. ASSUME c.kind # "untimed", ~LsSibling(c)
      PROVE  LsContextAfter(c) =
               [session |-> c.session, end |-> LsEnd(c), known |-> c.kind # "broken",
                start |-> LsDeviceTime(c), centres |-> {c.centre}]
  BY <1>3 DEF LsContextAfter
<1>4. c.kind = "untimed" =>
        LsContextAfter(c) = (IF lsContext.session = c.session THEN LsNoContext ELSE lsContext)
  BY DEF LsContextAfter
<1>5. c.kind # "untimed" /\ LsSibling(c) => (LsContextAfter(c).known => lsContext.known)
  <2>1. lsContext.known \in BOOLEAN
    BY <1>1 DEF Contexts
  <2>2. ASSUME c.kind # "untimed", LsSibling(c)
        PROVE  LsContextAfter(c).known = (lsContext.known /\ c.kind # "broken")
    BY <1>2, <2>2
  <2> QED BY <2>1, <2>2, Zenon
<1>6. c.kind # "untimed" /\ LsSibling(c) =>
        /\ LsContextAfter(c).session = lsContext.session
        /\ LsContextAfter(c).start = lsContext.start
        /\ LsContextAfter(c).centres = lsContext.centres \cup {c.centre}
        /\ LsContextAfter(c).end =
             (IF lsContext.end < LsEnd(c) THEN LsEnd(c) ELSE lsContext.end)
  BY <1>2
<1>7. c.kind # "untimed" /\ ~LsSibling(c) =>
        /\ LsContextAfter(c).session = c.session
        /\ LsContextAfter(c).start = LsDeviceTime(c)
        /\ LsContextAfter(c).centres = {c.centre}
        /\ LsContextAfter(c).end = LsEnd(c)
  BY <1>3
<1> QED BY <1>4, <1>5, <1>6, <1>7, Zenon

\* No gap is reported that is longer than the true time since T.
LEMMA GapBound ==
  ASSUME LsTypeOK, NEW T \in Nat, NEW c \in Captures, Joins(T, c)
  PROVE  /\ LsGapBefore(c) \in Nat
         /\ T <= c.start => LsGapBefore(c) <= c.start - T
         /\ c.start < T => LsGapBefore(c) = 0
<1> USE Fields, ContextFields
<1>1. CASE /\ c.kind # "untimed" /\ lsContext.session = c.session /\ ~LsSibling(c)
           /\ lsContext.known /\ LsDeviceTime(c) >= lsContext.end
  <2>1. LsGapBefore(c) = c.start - c.skew - lsContext.end
    BY <1>1 DEF LsGapBefore
  <2>2. T <= lsContext.end + c.skew /\ lsContext.end <= c.start - c.skew
    BY <1>1 DEF Joins
  <2> QED BY <2>1, <2>2
<1>2. CASE ~(/\ c.kind # "untimed" /\ lsContext.session = c.session /\ ~LsSibling(c)
             /\ lsContext.known /\ LsDeviceTime(c) >= lsContext.end)
  <2>1. LsGapBefore(c) = 0
    BY <1>2 DEF LsGapBefore
  <2> QED BY <2>1
<1> QED BY <1>1, <1>2

\* Without a step back of the clock none is reported.
LEMMA NoFalseRegression ==
  ASSUME LsTypeOK, NEW T \in Nat, NEW c \in Captures, Joins(T, c), ContextTrue(T),
         lsBack = 0, LsRegressed(c)
  PROVE  FALSE
<1> USE Fields, ContextFields
<1>1. /\ lsContext.session = c.session /\ ~LsSibling(c) /\ lsContext.known
      /\ LsDeviceTime(c) < lsContext.end
  BY DEF LsRegressed
<1>2. c.skew = 0 /\ LsDeviceTime(c) = c.start
  BY DEF Joins
<1>3. c.start < T
  BY <1>1, <1>2 DEF ContextTrue
<1>4. lsContext.start = c.start /\ c.centre \notin lsContext.centres
  <2>1. lsContext.start = c.start /\ \A k \in lsContext.centres : c.centre < k
    BY <1>1, <1>3 DEF Joins
  <2> QED BY <2>1
<1> QED BY <1>1, <1>2, <1>4 DEF LsSibling

\* What was heard, once c is.
LEMMA HeardAfter ==
  ASSUME LsTypeOK, NEW T \in Nat, NEW c \in Captures, Joins(T, c), HeardBefore(T),
         lsHeard' = lsHeard \cup Times(c), lsDead' = lsDead + LsGapBefore(c),
         lsNow' = lsNow
  PROVE  HeardBefore(Until(c))'
<1> USE Fields, ContextFields
<1>1. /\ 1 <= c.start /\ 1 <= c.length /\ Until(c) = c.start + c.length /\ Until(c) <= lsNow
      /\ 1 <= T /\ lsHeard \subseteq 1..(T - 1)
  BY DEF Joins, HeardBefore, Until
<1>2. lsDead <= Cardinality(Unheard(T, lsHeard))
  BY DEF HeardBefore
<1>3. Cardinality(Unheard(T, lsHeard)) \in Nat
  <2>1. IsFiniteSet(1..(T - 1))
    BY FS_Interval
  <2>2. IsFiniteSet(Unheard(T, lsHeard))
    BY <2>1, FS_Subset DEF Unheard
  <2> QED BY <2>2, FS_CardinalityType
<1>4. CASE T <= c.start
  <2>0. lsHeard' = lsHeard \cup (c.start..(Until(c) - 1))
    BY DEF Times
  <2>1. lsHeard' \subseteq 1..(Until(c) - 1)
    <3>1. \A t \in 1..(T - 1) : t \in 1..(Until(c) - 1)
      BY <1>1, <1>4
    <3>2. \A t \in c.start..(Until(c) - 1) : t \in 1..(Until(c) - 1)
      BY <1>1 DEF Until
    <3> QED BY <1>1, <2>0, <3>1, <3>2
  <2>2. Cardinality(Unheard(Until(c), lsHeard'))
          = Cardinality(Unheard(T, lsHeard)) + (c.start - T)
    <3> DEFINE a == c.start
               b == Until(c)
               K == lsHeard'
    <3>1. HeardThen(K, lsHeard, T, a, b)
      BY <1>1, <1>4, <2>0 DEF HeardThen
    <3> HIDE DEF a, b, K
    <3>2. Cardinality(Unheard(b, K)) = Cardinality(Unheard(T, lsHeard)) + (a - T)
      BY ONLY <3>1, UnheardGrows
    <3> QED BY <3>2 DEF a, b, K
  <2>3. LsGapBefore(c) \in Nat /\ LsGapBefore(c) <= c.start - T
    BY <1>4, GapBound
  <2>4. lsDead' <= Cardinality(Unheard(Until(c), lsHeard'))
    BY <1>1, <1>2, <1>3, <2>2, <2>3
  <2> QED BY <1>1, <2>1, <2>4 DEF HeardBefore
<1>5. CASE c.start < T
  <2>1. Until(c) = T /\ lsHeard' = lsHeard
    BY <1>5 DEF Joins
  <2>2. lsDead' = lsDead
    BY <1>5, GapBound
  <2> QED BY <1>1, <1>2, <2>1, <2>2 DEF HeardBefore
<1> QED BY <1>4, <1>5

\* The context, once c is taken in.
LEMMA ContextAfter ==
  ASSUME LsTypeOK, LsTypeOK', NEW T \in Nat, NEW c \in Captures, Joins(T, c), ContextTrue(T),
         lsContext' = LsContextAfter(c), UNCHANGED <<lsSession, lsBack>>
  PROVE  ContextTrue(Until(c))'
<1> USE Fields, ContextFields, ContextAfterFields
<1>1. /\ c.skew <= lsBack /\ c.session <= lsSession /\ lsContext.session <= c.session
      /\ T <= Until(c) /\ Until(c) = c.start + c.length /\ 1 <= c.length
  BY DEF Joins, Until
<1>2. CASE c.kind = "untimed"
  <2>1. lsContext' = LsNoContext \/ (lsContext' = lsContext /\ lsContext.session < c.session)
    BY <1>1, <1>2
  <2> QED BY <1>1, <2>1 DEF ContextTrue, LsNoContext
<1>3. CASE c.kind # "untimed" /\ LsSibling(c)
  <2>1. /\ lsContext'.session = c.session /\ lsContext'.start = lsContext.start
        /\ lsContext'.known => lsContext.known
        /\ lsContext.end <= lsContext'.end /\ Until(c) - c.skew <= lsContext'.end
        /\ lsContext'.end = lsContext.end \/ lsContext'.end = Until(c) - c.skew
        /\ lsContext'.end \in Int
    BY <1>3 DEF LsSibling
  <2> QED BY <1>1, <2>1 DEF ContextTrue
<1>4. CASE c.kind # "untimed" /\ ~LsSibling(c)
  <2>1. /\ lsContext'.session = c.session /\ lsContext'.start = c.start - c.skew
        /\ lsContext'.end = Until(c) - c.skew
    BY <1>4
  <2> QED BY <1>1, <2>1 DEF ContextTrue
<1> QED BY <1>2, <1>3, <1>4

\* What follows c can be taken in once c is.
LEMMA JoinsAfter ==
  ASSUME LsTypeOK, LsTypeOK', NEW T \in Nat, NEW c \in Captures, NEW d \in Captures,
         Joins(T, c), Joins(T, d), Follows(c, d), ContextTrue(T),
         lsHeard' = lsHeard \cup Times(c), lsContext' = LsContextAfter(c),
         UNCHANGED <<lsNow, lsSession, lsBack>>
  PROVE  Joins(Until(c), d)'
<1> USE Fields, ContextFields, ContextAfterFields
<1>1. /\ c.skew <= d.skew /\ c.session <= d.session /\ lsContext.session <= c.session
      /\ T <= Until(c) /\ Until(c) = c.start + c.length /\ 1 <= c.length
      /\ Until(d) = d.start + d.length
  BY DEF Joins, Follows, Until
<1>2. /\ d.start >= 1 /\ d.length >= 1 /\ Until(d) <= lsNow'
      /\ d.session <= lsSession' /\ d.skew <= lsBack'
  BY DEF Joins
<1>3. Until(c) <= d.start
        \/ (c.start = d.start /\ Until(d) = Until(c) /\ d.centre < c.centre /\ c.skew = d.skew)
  BY <1>1 DEF Follows
<1>4. Until(c) <= d.start \/ (Until(d) = Until(c) /\ Times(d) \subseteq lsHeard')
  BY <1>3 DEF Times
<1>5. lsContext'.session <= d.session
  BY <1>1 DEF LsNoContext, LsSibling
<1>6. ASSUME lsContext'.known, lsContext'.session = d.session
      PROVE  /\ Until(c) <= lsContext'.end + d.skew
             /\ lsBack' = 0 /\ d.start < Until(c) =>
                  lsContext'.start = d.start /\ \A k \in lsContext'.centres : d.centre < k
  <2>1. c.kind # "untimed"
    <3>1. SUFFICES ASSUME c.kind = "untimed" PROVE FALSE
      OBVIOUS
    <3>2. CASE lsContext.session = c.session
      BY <1>6, <3>1, <3>2 DEF LsNoContext
    <3>3. CASE lsContext.session # c.session
      BY <1>1, <1>6, <3>1, <3>3
    <3> QED BY <3>2, <3>3
  <2>2. CASE LsSibling(c)
    <3>1. /\ lsContext'.start = lsContext.start /\ lsContext.known
          /\ lsContext'.centres = lsContext.centres \cup {c.centre}
          /\ Until(c) - c.skew <= lsContext'.end /\ lsContext'.end \in Int
      BY <1>6, <2>1, <2>2
    <3>2. lsContext.session = c.session /\ lsContext.start = c.start - c.skew
      BY <2>2 DEF LsSibling
    <3>3. ASSUME lsBack' = 0, d.start < Until(c)
          PROVE  lsContext'.start = d.start /\ \A k \in lsContext'.centres : d.centre < k
      <4>1. c.skew = 0 /\ d.start = c.start /\ d.centre < c.centre
        BY <1>1, <1>2, <1>3, <3>3
      <4>2. lsContext.start < lsContext.end /\ lsContext.end <= T
        BY <3>1, <3>3 DEF ContextTrue
      <4>3. d.start < T
        BY <3>2, <4>1, <4>2
      <4>4. lsContext.session = d.session
        BY <1>3, <3>3, <3>2 DEF Follows
      <4>5. \A k \in lsContext.centres : d.centre < k
        BY <3>1, <3>3, <4>3, <4>4 DEF Joins
      <4> QED BY <3>1, <3>2, <4>1, <4>5
    <3> QED BY <1>1, <3>1, <3>3
  <2>3. CASE ~LsSibling(c)
    <3>1. /\ lsContext'.start = c.start - c.skew /\ lsContext'.centres = {c.centre}
          /\ lsContext'.end = Until(c) - c.skew
      BY <2>1, <2>3
    <3>2. ASSUME lsBack' = 0, d.start < Until(c)
          PROVE  lsContext'.start = d.start /\ \A k \in lsContext'.centres : d.centre < k
      BY <1>1, <1>2, <1>3, <3>1, <3>2
    <3> QED BY <1>1, <3>1, <3>2
  <2> QED BY <2>2, <2>3
<1> QED BY <1>2, <1>4, <1>5, <1>6 DEF Joins, Times

\* All steps but those that submit or take in a batch leave what waits as it is.
LEMMA WaitingKept ==
  ASSUME LsTypeOK, Rounds,
         \/ LsCapture \/ LsClockBack \/ LsReconnect \/ LsStart \/ LsStop \/ LsStopped
         \/ LsTake \/ LsNoteLoss \/ LsOnlyLoss \/ LsPublish \/ UNCHANGED lsVars
  PROVE  Waiting' = Waiting
<1> USE DEF lsMonitor, lsRadio
<1>1. lsQueue \in Seq(Captures) /\ lsRound \in RoundsOf
  BY DEF LsTypeOK, QueueTypes, RoundTypes
<1>2. CASE \/ LsCapture \/ LsClockBack \/ LsReconnect \/ LsStop \/ LsStopped \/ UNCHANGED lsVars
  BY <1>2 DEF LsCapture, LsClockBack, LsReconnect, LsStop, LsStopped, lsVars, Waiting, Held
<1>3. CASE LsStart
  BY <1>3 DEF LsStart, LsIdle, Rounds, Waiting, Held
<1>4. CASE LsTake
  <2>1. Held = <<>> /\ Held' = LsOldest
    BY <1>4 DEF LsTake, Held
  <2>2. LsOldest \o lsQueue' = lsQueue
    BY <1>1, <1>4, HeadInFront, NothingInFront DEF LsTake, LsOldest
  <2>3. <<>> \o lsQueue = lsQueue
    BY <1>1, NothingInFront
  <2> QED BY <2>1, <2>2, <2>3 DEF Waiting
<1>5. CASE LsNoteLoss
  <2>1. Held' = Held
    BY <1>1, <1>5 DEF LsNoteLoss, Held, RoundsOf
  <2> QED BY <1>5, <2>1 DEF LsNoteLoss, Waiting
<1>6. CASE LsOnlyLoss \/ LsPublish
  <2>1. Held' = Held
    BY <1>1, <1>6 DEF LsOnlyLoss, LsPublish, LsIdle, Held, RoundsOf
  <2> QED BY <1>6, <2>1 DEF LsOnlyLoss, LsPublish, Waiting
<1> QED BY <1>2, <1>3, <1>4, <1>5, <1>6

\* A batch submitted is lost or waits behind all others.
LEMMA WaitingSubmit ==
  ASSUME LsTypeOK, LsSubmit
  PROVE  \/ Waiting' = Waiting
         \/ /\ Len(Waiting') = Len(Waiting) + 1 /\ Waiting'[Len(Waiting) + 1] = lsVisit
            /\ \A i \in 1..Len(Waiting) : Waiting'[i] = Waiting[i]
<1>1. Held' = Held
  BY DEF LsSubmit, Held, lsMonitor
<1>2. CASE lsQueue' = lsQueue
  BY <1>1, <1>2 DEF Waiting
<1>3. CASE lsQueue' = Append(lsQueue, lsVisit)
  <2> DEFINE h == Held
             q == lsQueue
             v == lsVisit
  <2>1. h \in Seq(Captures) /\ q \in Seq(Captures) /\ v \in Captures
    BY WaitingCounts DEF LsTypeOK, QueueTypes, RadioTypes
  <2>2. Waiting = h \o q /\ Waiting' = h \o Append(q, v)
    BY <1>1, <1>3 DEF Waiting
  <2> HIDE DEF h, q, v
  <2>3. h \o Append(q, v) = Append(h \o q, v)
    BY <2>1
  <2>4. h \o q \in Seq(Captures)
    BY <2>1
  <2>5. /\ Len(Append(h \o q, v)) = Len(h \o q) + 1
        /\ Append(h \o q, v)[Len(h \o q) + 1] = v
        /\ \A i \in 1..Len(h \o q) : Append(h \o q, v)[i] = (h \o q)[i]
    BY <2>1, <2>4, AppendProperties
  <2> QED BY <2>2, <2>3, <2>5 DEF v
<1> QED BY <1>2, <1>3 DEF LsSubmit

\* The batch taken in is the first of what waits.
LEMMA WaitingIngest ==
  ASSUME LsTypeOK, LsIngest \/ LsReject
  PROVE  /\ Head(lsRound.batches) \in Captures
         /\ Len(Waiting) = Len(Waiting') + 1 /\ Len(Waiting') \in Nat
         /\ Waiting[1] = Head(lsRound.batches)
         /\ \A i \in 1..Len(Waiting') : Waiting[i + 1] = Waiting'[i]
<1> DEFINE b == lsRound.batches
           q == lsQueue
<1>1. /\ b \in Seq(Captures) /\ b # <<>> /\ Len(b) <= 1 /\ q \in Seq(Captures)
      /\ Held = b /\ Held' = <<>> /\ lsQueue' = q
  BY DEF LsIngest, LsReject, Held, LsTypeOK, QueueTypes, RoundTypes, RoundsOf
<1>2. Waiting = b \o q /\ Waiting' = q
  BY <1>1, NothingInFront DEF Waiting
<1> HIDE DEF b, q
<1>3. Len(b) = 1
  BY <1>1, OneEntry
<1>4. Head(b) \in Captures /\ b = <<Head(b)>>
  BY <1>1, <1>3, HeadTailProperties
<1>5. /\ Len(<<Head(b)>> \o q) = Len(q) + 1 /\ (<<Head(b)>> \o q)[1] = Head(b)
      /\ \A i \in 1..Len(q) : (<<Head(b)>> \o q)[i + 1] = q[i]
  BY <1>1, <1>4, InFront
<1>6. Len(q) \in Nat
  BY <1>1, LenProperties
<1> QED BY <1>2, <1>4, <1>5, <1>6 DEF b

\* Time, sessions and steps back only go on; forgetting the context is safe.
LEMMA JoinsKept ==
  ASSUME LsTypeOK, NEW T \in Nat, NEW c \in Captures, Joins(T, c),
         lsNow <= lsNow', lsSession <= lsSession', lsBack <= lsBack', LsTypeOK',
         lsHeard' = lsHeard, lsContext' \in {lsContext, LsNoContext}
  PROVE  Joins(T, c)'
<1> USE Fields, ContextFields
<1>1. /\ lsNow' \in Nat /\ lsSession' \in Nat /\ lsBack' \in Nat
  BY DEF LsTypeOK, RadioTypes
<1>2. CASE lsContext' = lsContext
  BY <1>1, <1>2 DEF Joins, Times
<1>3. CASE lsContext' = LsNoContext
  BY <1>1, <1>3 DEF Joins, Times, LsNoContext
<1> QED BY <1>2, <1>3

\* So does what was heard stay heard and the context true.
LEMMA PastKept ==
  ASSUME LsTypeOK, NEW T \in Nat, HeardBefore(T), ContextTrue(T),
         lsNow <= lsNow', lsSession <= lsSession', lsBack <= lsBack', LsTypeOK',
         lsHeard' = lsHeard, lsDead' = lsDead, lsContext' \in {lsContext, LsNoContext}
  PROVE  HeardBefore(T)' /\ ContextTrue(T)'
<1> USE ContextFields
<1>1. /\ lsNow' \in Nat /\ lsSession' \in Nat /\ lsBack' \in Nat
  BY DEF LsTypeOK, RadioTypes
<1>2. HeardBefore(T)'
  BY <1>1 DEF HeardBefore
<1>3. CASE lsContext' = lsContext
  <2>1. (lsContext.session <= lsSession)'
    BY <1>1, <1>3 DEF ContextTrue
  <2>2. ASSUME lsContext'.known
        PROVE  /\ lsContext'.start < lsContext'.end
               /\ lsContext'.session = lsSession' => T <= lsContext'.end + lsBack'
               /\ lsBack' = 0 => lsContext'.end <= T
    BY <1>1, <1>3, <2>2 DEF ContextTrue
  <2> QED BY <1>2, <2>1, <2>2 DEF ContextTrue
<1>4. CASE lsContext' = LsNoContext
  <2>1. lsContext'.session = 0 /\ ~lsContext'.known
    BY <1>4 DEF LsNoContext
  <2> QED BY <1>1, <1>2, <2>1 DEF ContextTrue
<1> QED BY <1>2, <1>3, <1>4

\* What waits is a sequence of captures.
LEMMA WaitingTypes ==
  ASSUME LsTypeOK
  PROVE  Len(Waiting) \in Nat /\ \A i \in 1..Len(Waiting) : Waiting[i] \in Captures
<1>1. Waiting \in Seq(Captures)
  BY WaitingCounts
<1> QED BY <1>1, LenProperties, ElementOfSeq

\* A step that keeps what waits and the visit, or ends it, keeps the timeline.
LEMMA TimelineRests ==
  ASSUME LsTypeOK, LsTypeOK', Timeline, Waiting' = Waiting,
         lsVisit' = lsVisit \/ lsVisit'.centre = 0,
         lsNow <= lsNow', lsSession <= lsSession', lsBack <= lsBack',
         lsCounts'.regressions = lsCounts.regressions,
         lsHeard' = lsHeard, lsDead' = lsDead, lsContext' \in {lsContext, LsNoContext}
  PROVE  Timeline'
<1>1. PICK T \in Nat : TrueAt(T)
  BY DEF Timeline
<1>2. HeardBefore(T)' /\ ContextTrue(T)'
  BY <1>1, PastKept DEF TrueAt
<1>3. ToCome(T)'
  <2>1. ASSUME NEW i \in 1..Len(Waiting) PROVE Joins(T, Waiting[i])'
    <3>1. Waiting[i] \in Captures /\ Joins(T, Waiting[i])
      BY <1>1, WaitingTypes DEF TrueAt, ToCome
    <3> DEFINE w == Waiting[i]
    <3>2. w \in Captures /\ Joins(T, w) /\ Waiting'[i] = w
      BY <3>1
    <3> HIDE DEF w
    <3>3. PICK c \in Captures : c = w
      BY <3>2
    <3>4. Joins(T, c)'
      BY <3>2, <3>3, JoinsKept
    <3>5. c = Waiting'[i]
      BY <3>2, <3>3
    <3> QED BY <3>4, <3>5 DEF Joins, Until, Times
  <2>2. ASSUME lsVisit'.centre > 0 PROVE Joins(T, lsVisit)'
    BY <1>1, <2>2, JoinsKept, ContextFields DEF TrueAt, ToCome
  <2> QED BY <2>1, <2>2 DEF ToCome
<1>4. InOrder'
  BY DEF Timeline, InOrder
<1>5. (lsCounts.regressions > 0 => lsBack > 0)'
  BY ContextFields DEF Timeline, LsTypeOK, RadioTypes
<1> QED BY <1>2, <1>3, <1>4, <1>5 DEF Timeline, TrueAt

\* A new capture comes after all that waits and joins whatever was heard.
LEMMA TimelineCapture ==
  ASSUME LsTypeOK, LsTypeOK', Rounds, Timeline, LsCapture
  PROVE  Timeline'
<1> USE DEF lsMonitor, lsRadio
<1>1. PICK T \in Nat : TrueAt(T)
  BY DEF Timeline
<1>2. /\ Waiting' = Waiting /\ lsHeard' = lsHeard /\ lsDead' = lsDead /\ lsContext' = lsContext
      /\ lsSession' = lsSession /\ lsBack' = lsBack /\ lsCounts' = lsCounts
  BY WaitingKept DEF LsCapture
<1>3. /\ lsNow <= lsVisit'.start /\ lsVisit'.length >= 1 /\ Until(lsVisit)' = lsNow'
      /\ lsVisit'.session = lsSession /\ lsVisit'.skew = lsBack /\ lsNow <= lsNow'
  BY ContextFields DEF LsCapture, Until
<1>9. /\ lsNow <= lsNow' /\ lsSession <= lsSession' /\ lsBack <= lsBack'
      /\ lsContext' \in {lsContext, LsNoContext}
  BY <1>2, <1>3, ContextFields
<1>4. HeardBefore(T)' /\ ContextTrue(T)'
  BY <1>1, <1>2, <1>3, PastKept, ContextFields DEF TrueAt
<1>5. ASSUME NEW i \in 1..Len(Waiting) PROVE Joins(T, Waiting[i])' /\ Follows(Waiting[i], lsVisit)'
  <2>1. PICK c \in Captures : c = Waiting[i] /\ Joins(T, c)
    BY <1>1, WaitingTypes DEF TrueAt, ToCome
  <2>2. Joins(T, c)'
    BY <1>2, <1>9, <2>1, JoinsKept
  <2>3. /\ c.session <= lsSession /\ c.skew <= lsBack /\ Until(c) <= lsNow
    BY <2>1 DEF Joins
  <2>4. Follows(c, lsVisit')
    <3>1. Until(c) \in Nat /\ lsNow \in Nat /\ lsVisit'.start \in Nat
      BY Fields, ContextFields DEF LsTypeOK, RadioTypes, Captures
    <3>2. Until(c) <= lsVisit'.start
      BY <1>3, <2>3, <3>1
    <3> QED BY <1>3, <2>3, <3>2 DEF Follows
  <2>5. c = Waiting'[i]
    BY <1>2, <2>1
  <2> QED BY <2>2, <2>4, <2>5 DEF Joins, Until, Times, Follows
<1>6. Joins(T, lsVisit)'
  <2>1. 1 <= T /\ T <= lsNow
    BY <1>1 DEF TrueAt, HeardBefore
  <2>2. /\ lsContext.session <= lsSession
        /\ lsContext.known /\ lsContext.session = lsSession => T <= lsContext.end + lsBack
    BY <1>1 DEF TrueAt, ContextTrue
  <2>3. lsVisit'.start \in Nat
    BY DEF LsTypeOK, RadioTypes, Captures
  <2>4. T <= lsVisit'.start /\ 1 <= lsVisit'.start /\ ~(lsVisit'.start < T)
    BY <1>3, <2>1, <2>3, ContextFields
  <2>5. Until(lsVisit)' <= lsNow'
    BY <1>3 DEF LsTypeOK, RadioTypes
  <2>6. /\ (lsContext.session <= lsVisit.session)' /\ (lsVisit.session <= lsSession)'
        /\ (lsVisit.skew <= lsBack)'
        /\ (lsContext.known /\ lsContext.session = lsVisit.session
              => T <= lsContext.end + lsVisit.skew)'
    BY <1>2, <1>3, <2>2, ContextFields
  <2> QED BY <1>3, <2>4, <2>5, <2>6 DEF Joins
<1>7. InOrder'
  BY <1>2, <1>5 DEF InOrder, Timeline
<1>8. ToCome(T)'
  BY <1>2, <1>5, <1>6 DEF ToCome
<1> QED BY <1>2, <1>4, <1>7, <1>8 DEF Timeline, TrueAt

\* The next channel of the capture follows the one submitted.
LEMMA TimelineSubmit ==
  ASSUME LsTypeOK, LsTypeOK', Timeline, LsSubmit
  PROVE  Timeline'
<1> USE DEF lsMonitor, lsRadio
<1>1. PICK T \in Nat : TrueAt(T)
  BY DEF Timeline
<1>2. /\ lsNow' = lsNow /\ lsHeard' = lsHeard /\ lsDead' = lsDead /\ lsContext' = lsContext
      /\ lsSession' = lsSession /\ lsBack' = lsBack /\ lsCounts' = lsCounts
  BY DEF LsSubmit
<1>13. /\ lsNow <= lsNow' /\ lsSession <= lsSession' /\ lsBack <= lsBack'
       /\ lsContext' \in {lsContext, LsNoContext}
  BY <1>2, ContextFields
<1>3. HeardBefore(T)' /\ ContextTrue(T)'
  BY <1>1, <1>2, PastKept, ContextFields DEF TrueAt
<1>4. /\ lsVisit.centre > 0 /\ lsVisit.centre \in Nat /\ lsVisit'.centre = lsVisit.centre - 1
      /\ lsVisit'.session = lsVisit.session /\ lsVisit'.start = lsVisit.start
      /\ lsVisit'.length = lsVisit.length /\ lsVisit'.skew = lsVisit.skew
      /\ lsVisit'.centre \in Nat
  BY DEF LsSubmit, LsTypeOK, RadioTypes, Captures
<1>5. Joins(T, lsVisit)
  BY <1>1, <1>4 DEF TrueAt, ToCome
<1>6. Joins(T, lsVisit)'
  BY <1>2, <1>4, <1>5, ContextFields DEF Joins, Until, Times
<1>7. Follows(lsVisit, lsVisit')
  BY <1>4, ContextFields, Fields DEF Follows
<1>8. \A c \in Captures : Follows(c, lsVisit) => Follows(c, lsVisit')
  BY <1>4, Fields DEF Follows, Until
<1>9. Len(Waiting) \in Nat
  BY WaitingTypes
<1>10. ASSUME NEW i \in 1..Len(Waiting), Waiting'[i] = Waiting[i]
       PROVE  Joins(T, Waiting[i])' /\ Follows(Waiting[i], lsVisit)'
  <2>1. PICK c \in Captures : c = Waiting[i] /\ Joins(T, c) /\ Follows(c, lsVisit)
    BY <1>1, <1>4, WaitingTypes DEF TrueAt, ToCome, Timeline, InOrder
  <2>2. Joins(T, c)'
    BY <1>2, <1>13, <2>1, JoinsKept
  <2>3. Follows(c, lsVisit')
    BY <1>8, <2>1
  <2>4. c = Waiting'[i]
    BY <1>10, <2>1
  <2> QED BY <2>2, <2>3, <2>4 DEF Joins, Until, Times, Follows
<1>11. CASE Waiting' = Waiting
  <2>1. InOrder'
    BY <1>10, <1>11 DEF InOrder, Timeline
  <2>2. ToCome(T)'
    BY <1>6, <1>10, <1>11 DEF ToCome
  <2> QED BY <1>2, <1>3, <2>1, <2>2 DEF Timeline, TrueAt
<1>12. CASE /\ Len(Waiting') = Len(Waiting) + 1 /\ Waiting'[Len(Waiting) + 1] = lsVisit
            /\ \A i \in 1..Len(Waiting) : Waiting'[i] = Waiting[i]
  <2>1. ASSUME NEW i \in 1..Len(Waiting')
        PROVE  Joins(T, Waiting[i])' /\ Follows(Waiting[i], lsVisit)'
    <3>1. CASE i \in 1..Len(Waiting)
      BY <1>10, <1>12, <3>1
    <3>2. CASE i = Len(Waiting) + 1
      <4>1. Waiting'[i] = lsVisit
        BY <1>12, <3>2
      <4>2. Joins(T, lsVisit)'
        BY <1>6
      <4>3. PICK v \in Captures : v = lsVisit
        BY ContextFields
      <4>4. Joins(T, v)'
        BY <1>2, <1>5, <1>13, <4>3, JoinsKept
      <4> QED BY <1>7, <4>1, <4>3, <4>4 DEF Joins, Until, Times, Follows
    <3> QED BY <1>9, <1>12, <3>1, <3>2
  <2>2. ASSUME NEW i \in 1..Len(Waiting'), NEW j \in 1..Len(Waiting'), i < j
        PROVE  Follows(Waiting'[i], Waiting'[j])
    <3>1. i \in 1..Len(Waiting) /\ Waiting'[i] = Waiting[i]
      BY <1>9, <1>12, <2>2
    <3>2. CASE j \in 1..Len(Waiting)
      BY <1>12, <2>2, <3>1, <3>2 DEF Timeline, InOrder
    <3>3. CASE j = Len(Waiting) + 1
      BY <1>4, <1>12, <3>1, <3>3 DEF Timeline, InOrder
    <3> QED BY <1>9, <1>12, <3>2, <3>3
  <2>3. InOrder'
    BY <2>1, <2>2 DEF InOrder
  <2>4. ToCome(T)'
    BY <1>6, <2>1 DEF ToCome
  <2> QED BY <1>2, <1>3, <2>3, <2>4 DEF Timeline, TrueAt
<1> QED BY <1>11, <1>12, WaitingSubmit

\* What follows the batch taken in or rejected still follows in order.
LEMMA OrderKept ==
  ASSUME LsTypeOK, InOrder, LsIngest \/ LsReject
  PROVE  InOrder'
<1>1. /\ Len(Waiting) = Len(Waiting') + 1 /\ Len(Waiting') \in Nat
      /\ \A i \in 1..Len(Waiting') : Waiting[i + 1] = Waiting'[i]
  BY WaitingIngest
<1>2. lsVisit' = lsVisit
  BY DEF LsIngest, LsReject, lsRadio
<1>3. ASSUME NEW i \in 1..Len(Waiting'), NEW j \in 1..Len(Waiting'), i < j
      PROVE  Follows(Waiting'[i], Waiting'[j])
  <2>1. i + 1 \in 1..Len(Waiting) /\ j + 1 \in 1..Len(Waiting) /\ i + 1 < j + 1
    BY <1>1, <1>3
  <2>2. Follows(Waiting[i + 1], Waiting[j + 1])
    BY <2>1 DEF InOrder
  <2> QED BY <1>1, <2>2
<1>4. ASSUME NEW i \in 1..Len(Waiting'), lsVisit.centre > 0
      PROVE  Follows(Waiting'[i], lsVisit)
  <2>1. i + 1 \in 1..Len(Waiting)
    BY <1>1
  <2>2. Follows(Waiting[i + 1], lsVisit)
    BY <1>4, <2>1 DEF InOrder
  <2> QED BY <1>1, <2>2
<1> QED BY <1>2, <1>3, <1>4 DEF InOrder

\* A capture taken in moves the end of what was heard to its own end.
LEMMA TimelineIngest ==
  ASSUME LsTypeOK, LsTypeOK', Timeline, LsIngest
  PROVE  Timeline'
<1>1. PICK T \in Nat : TrueAt(T)
  BY DEF Timeline
<1>2. PICK c \in Captures :
        /\ c = Head(lsRound.batches) /\ Waiting[1] = c
        /\ lsHeard' = lsHeard \cup Times(c) /\ lsDead' = lsDead + LsGapBefore(c)
        /\ lsContext' = LsContextAfter(c)
  <2> DEFINE h == Head(lsRound.batches)
  <2>1. h \in Captures /\ Waiting[1] = h
    BY WaitingIngest
  <2>2. lsDead' = lsDead + LsGapBefore(h) /\ lsContext' = LsContextAfter(h)
    BY DEF LsIngest
  <2>3. lsHeard' = lsHeard \cup (h.start .. (h.start + h.length - 1))
    BY DEF LsIngest
  <2> HIDE DEF h
  <2>4. Times(h) = h.start .. (h.start + h.length - 1)
    BY <2>1, Fields DEF Times, Until
  <2> QED BY <2>1, <2>2, <2>3, <2>4 DEF h
<1>3. /\ Len(Waiting) = Len(Waiting') + 1 /\ Len(Waiting') \in Nat
      /\ \A i \in 1..Len(Waiting') : Waiting[i + 1] = Waiting'[i]
  BY WaitingIngest
<1>4. UNCHANGED <<lsNow, lsSession, lsBack, lsVisit>>
  BY DEF LsIngest, lsRadio
<1>5. Joins(T, c) /\ HeardBefore(T) /\ ContextTrue(T)
  <2>1. 1 \in 1..Len(Waiting)
    BY <1>3
  <2>2. Joins(T, Waiting[1])
    BY <1>1, <2>1 DEF TrueAt, ToCome
  <2> QED BY <1>1, <1>2, <2>2 DEF TrueAt
<1> DEFINE U == Until(c)
<1>6. U \in Nat
  BY Fields
<1>7. HeardBefore(U)' /\ ContextTrue(U)'
  BY <1>2, <1>4, <1>5, HeardAfter, ContextAfter
<1>8. ASSUME NEW d \in Captures, Joins(T, d), Follows(c, d)
      PROVE  Joins(U, d)'
  BY <1>2, <1>4, <1>5, <1>8, JoinsAfter
<1>9. ASSUME NEW i \in 1..Len(Waiting')
      PROVE  Joins(U, Waiting[i])'
  <2>1. i + 1 \in 1..Len(Waiting) /\ 1 \in 1..Len(Waiting) /\ 1 < i + 1
    BY <1>3
  <2>2. PICK d \in Captures : d = Waiting[i + 1] /\ Joins(T, d) /\ Follows(c, d)
    BY <1>1, <1>2, <2>1, WaitingTypes DEF TrueAt, ToCome, Timeline, InOrder
  <2>3. Joins(U, d)'
    BY <1>8, <2>2
  <2>4. d = Waiting'[i]
    BY <1>3, <2>2
  <2> HIDE DEF U
  <2> QED BY <2>3, <2>4 DEF Joins, Until, Times
<1>10. ASSUME lsVisit.centre > 0
       PROVE  Joins(U, lsVisit)'
  <2>1. 1 \in 1..Len(Waiting)
    BY <1>3
  <2>2. PICK d \in Captures : d = lsVisit /\ Joins(T, d) /\ Follows(c, d)
    BY <1>1, <1>2, <1>10, <2>1, ContextFields DEF TrueAt, ToCome, Timeline, InOrder
  <2>3. Joins(U, d)'
    BY <1>8, <2>2
  <2>4. d = lsVisit'
    BY <1>4, <2>2
  <2> HIDE DEF U
  <2> QED BY <2>3, <2>4 DEF Joins, Until, Times
<1> HIDE DEF U
<1>11. ToCome(U)'
  BY <1>4, <1>9, <1>10 DEF ToCome
<1>12. InOrder'
  BY OrderKept DEF Timeline
<1>13. (lsCounts.regressions > 0 => lsBack > 0)'
  <2>1. CASE lsCounts.regressions > 0
    BY <1>4, <2>1 DEF Timeline
  <2>2. CASE LsRegressed(c)
    <3>1. lsBack # 0
      BY <1>5, <2>2, NoFalseRegression
    <3> QED BY <1>4, <3>1, ContextFields
  <2> QED BY <1>2, <2>1, <2>2, IngestCounts DEF LsTypeOK, MonitorTypes
<1> QED BY <1>6, <1>7, <1>11, <1>12, <1>13 DEF Timeline, TrueAt

\* A batch that is rejected leaves no context behind.
LEMMA TimelineReject ==
  ASSUME LsTypeOK, LsTypeOK', Timeline, LsReject
  PROVE  Timeline'
<1>1. PICK T \in Nat : TrueAt(T)
  BY DEF Timeline
<1>2. /\ Len(Waiting) = Len(Waiting') + 1 /\ Len(Waiting') \in Nat
      /\ \A i \in 1..Len(Waiting') : Waiting[i + 1] = Waiting'[i]
  BY WaitingIngest
<1>3. /\ UNCHANGED <<lsNow, lsSession, lsBack, lsVisit>>
      /\ lsHeard' = lsHeard /\ lsDead' = lsDead /\ lsContext' = LsNoContext
  BY DEF LsReject, lsRadio
<1>4. /\ lsNow <= lsNow' /\ lsSession <= lsSession' /\ lsBack <= lsBack'
      /\ lsContext' \in {lsContext, LsNoContext}
  BY <1>3, ContextFields
<1>5. HeardBefore(T)' /\ ContextTrue(T)'
  BY <1>1, <1>3, <1>4, PastKept DEF TrueAt
<1>6. ASSUME NEW d \in Captures, Joins(T, d) PROVE Joins(T, d)'
  BY <1>3, <1>4, <1>6, JoinsKept
<1>7. ASSUME NEW i \in 1..Len(Waiting') PROVE Joins(T, Waiting[i])'
  <2>1. PICK d \in Captures : d = Waiting[i + 1] /\ Joins(T, d)
    BY <1>1, <1>2, WaitingTypes DEF TrueAt, ToCome
  <2>2. Joins(T, d)' /\ d = Waiting'[i]
    BY <1>2, <1>6, <2>1
  <2> QED BY <2>2 DEF Joins, Until, Times
<1>8. ASSUME lsVisit.centre > 0 PROVE Joins(T, lsVisit)'
  <2>1. PICK d \in Captures : d = lsVisit /\ Joins(T, d)
    BY <1>1, <1>8, ContextFields DEF TrueAt, ToCome
  <2>2. Joins(T, d)' /\ d = lsVisit'
    BY <1>3, <1>6, <2>1
  <2> QED BY <2>2 DEF Joins, Until, Times
<1>9. ToCome(T)'
  BY <1>3, <1>7, <1>8 DEF ToCome
<1>10. InOrder'
  BY OrderKept DEF Timeline
<1>11. (lsCounts.regressions > 0 => lsBack > 0)'
  BY <1>3, RejectCounts DEF Timeline, LsTypeOK, MonitorTypes
<1> QED BY <1>5, <1>9, <1>10, <1>11 DEF Timeline, TrueAt

\* Every step keeps the timeline.
LEMMA TimelineKept ==
  LsTypeOK /\ LsTypeOK' /\ Rounds /\ Timeline /\ [LsNext]_lsVars => Timeline'
<1> SUFFICES ASSUME LsTypeOK, LsTypeOK', Rounds, Timeline, [LsNext]_lsVars PROVE Timeline'
  OBVIOUS
<1>1. CASE LsCapture
  BY <1>1, TimelineCapture
<1>2. CASE LsSubmit
  BY <1>2, TimelineSubmit
<1>3. CASE LsIngest
  BY <1>3, TimelineIngest
<1>4. CASE LsReject
  BY <1>4, TimelineReject
<1>5. CASE \/ LsClockBack \/ LsReconnect \/ LsStart \/ LsStop \/ LsStopped
           \/ LsTake \/ LsNoteLoss \/ LsOnlyLoss \/ LsPublish \/ UNCHANGED lsVars
  <2>1. Waiting' = Waiting
    BY <1>5, WaitingKept
  <2>2. /\ lsVisit' = lsVisit /\ lsNow' = lsNow /\ lsHeard' = lsHeard /\ lsDead' = lsDead
        /\ lsSession' \in {lsSession, lsSession + 1} /\ lsBack' \in {lsBack, lsBack + 1}
    BY <1>5 DEF LsClockBack, LsReconnect, LsStart, LsStop, LsStopped, LsTake, LsNoteLoss,
                LsOnlyLoss, LsPublish, lsVars, lsMonitor, lsRadio
  <2>3. lsContext' \in {lsContext, LsNoContext}
    BY <1>5 DEF LsClockBack, LsReconnect, LsStart, LsStop, LsStopped, LsTake, LsNoteLoss,
                LsOnlyLoss, LsPublish, lsVars, lsMonitor, lsRadio
  <2>4. lsCounts'.regressions = lsCounts.regressions
    <3>1. CASE LsNoteLoss
      BY <3>1, LossCounts DEF LsTypeOK, MonitorTypes, RoundTypes, RoundsOf
    <3>2. CASE ~LsNoteLoss
      BY <1>5, <3>2 DEF LsClockBack, LsReconnect, LsStart, LsStop, LsStopped, LsTake,
                        LsOnlyLoss, LsPublish, lsVars, lsMonitor, lsRadio
    <3> QED BY <3>1, <3>2
  <2>5. lsNow <= lsNow' /\ lsSession <= lsSession' /\ lsBack <= lsBack'
    BY <2>2, ContextFields
  <2> QED BY <2>1, <2>2, <2>3, <2>4, <2>5, TimelineRests
<1> QED BY <1>1, <1>2, <1>3, <1>4, <1>5 DEF LsNext, LsConsume

-----------------------------------------------------------------------------
(* Theorems *)

\* Nothing has been submitted at first.
LEMMA InitHolds == LsInit => IInv
<1> SUFFICES ASSUME LsInit PROVE IInv
  OBVIOUS
<1> USE DEF LsInit
<1>1. LsTypeOK
  BY StartTypes, EmptySeq DEF LsTypeOK, RadioTypes, QueueTypes, RoundTypes, RoundsOf, MonitorTypes,
                              LsIdle
<1>2. Held = <<>> /\ Waiting = <<>> /\ Len(Waiting) = 0
  BY DEF Held, Waiting, LsIdle
<1>3. Rounds
  BY DEF Rounds, LsIdle, LsNoCapture
<1>4. LsAccounted
  BY DEF LsAccounted, LsZero, LsIdle
<1>5. TrueAt(1)
  <2>1. HeardBefore(1)
    <3>1. Unheard(1, lsHeard) = {}
      BY DEF Unheard
    <3>2. Cardinality(Unheard(1, lsHeard)) = 0
      BY <3>1, FS_EmptySet
    <3> QED BY <3>2 DEF HeardBefore
  <2>2. ContextTrue(1)
    BY DEF ContextTrue, LsNoContext
  <2>3. ToCome(1)
    BY <1>2 DEF ToCome, LsNoCapture
  <2> QED BY <2>1, <2>2, <2>3 DEF TrueAt
<1>6. Timeline
  BY <1>2, <1>5 DEF Timeline, InOrder, LsNoCapture, LsZero
<1> QED BY <1>1, <1>3, <1>4, <1>6 DEF IInv

\* Every step keeps the invariant.
LEMMA NextHolds == IInv /\ [LsNext]_lsVars => IInv'
BY TypesKept, RoundsKept, AccountKept, TimelineKept DEF IInv

\* The inductive invariant: every batch is accounted for and the timeline is
\* true of what was heard (submit, run and State::ingest of LoraSecurityMonitor).
THEOREM Invariance == LsSpec => []IInv
BY InitHolds, NextHolds, PTL DEF LsSpec

\* What the timeline says of the past until T it says of all time.
LEMMA TimelineIsTrue == IInv => LsTimelineTrue
<1> SUFFICES ASSUME IInv PROVE LsTimelineTrue
  OBVIOUS
<1>1. PICK T \in Nat : TrueAt(T)
  BY DEF IInv, Timeline
<1>2. LsTypeOK /\ lsNow \in Nat /\ lsDead \in Nat
  BY ContextFields DEF IInv
<1>3. T <= lsNow /\ lsDead <= Cardinality(Unheard(T, lsHeard))
  BY <1>1 DEF TrueAt, HeardBefore
<1>4. Cardinality(Unheard(T, lsHeard)) <= Cardinality(Unheard(lsNow, lsHeard))
  BY <1>2, <1>3, UnheardMore
<1>5. ASSUME NEW b \in Nat PROVE Cardinality(Unheard(b, lsHeard)) \in Nat
  <2>1. IsFiniteSet(1..(b - 1))
    BY FS_Interval
  <2>2. IsFiniteSet(Unheard(b, lsHeard))
    BY <2>1, FS_Subset DEF Unheard
  <2> QED BY <2>2, FS_CardinalityType
<1>6. lsDead <= Cardinality(Unheard(lsNow, lsHeard))
  BY <1>2, <1>3, <1>4, <1>5
<1> QED BY <1>6 DEF LsTimelineTrue, Unheard, IInv, Timeline

\* Whatever is lost, rejected, broken, without a time or set back, the coverage
\* the LoRa monitor reports can be relied on: every batch the scan thread
\* submitted is counted once, and no unsampled time and no step back of the
\* clock is reported that was none (lora_security.cpp:158-258).
THEOREM LsCoverageTrueHolds == LsSpec => []LsCoverageTrue
<1>1. IInv => LsCoverageTrue
  BY TimelineIsTrue DEF IInv, LsCoverageTrue
<1> QED BY <1>1, Invariance, PTL

-----------------------------------------------------------------------------
(* LoraRules: what the engine counts adds up.  First the sum of a tally *)

\* The member taken next.
Some(s) == CHOOSE x \in s : TRUE

\* One step of the sum of f over s, of which g has the smaller sums.
SumStep(g, f, s) == IF s = {} THEN 0 ELSE f[Some(s)] + g[s \ {Some(s)}]

\* g has the sums of f over the subsets of its domain.
Sums(g, f) == g = [s \in SUBSET DOMAIN f |-> SumStep(g, f, s)]

\* A step finds its member in the set, and leaves a smaller set.
LEMMA SomeIs ==
  ASSUME NEW D, IsFiniteSet(D), NEW s \in SUBSET D, s # {}
  PROVE  /\ Some(s) \in s /\ s \ {Some(s)} \in SUBSET D
         /\ Cardinality(s) \in Nat /\ Cardinality(s \ {Some(s)}) = Cardinality(s) - 1
<1>1. Some(s) \in s
  BY DEF Some
<1>2. IsFiniteSet(s)
  BY FS_Subset
<1>3. Cardinality(s) \in Nat
  BY <1>2, FS_CardinalityType
<1>4. Cardinality(s \ {Some(s)}) = Cardinality(s) - 1
  BY <1>1, <1>2, FS_RemoveElement
<1> QED BY <1>1, <1>3, <1>4

\* A step depends on the smaller sums only.
LEMMA SumStepSame ==
  ASSUME NEW D, IsFiniteSet(D), NEW s \in SUBSET D, NEW f, NEW g, NEW h,
         \A r \in SUBSET D : Cardinality(r) < Cardinality(s) => g[r] = h[r]
  PROVE  SumStep(g, f, s) = SumStep(h, f, s)
<1>1. CASE s = {}
  BY <1>1 DEF SumStep
<1>2. CASE s # {}
  <2>1. s \ {Some(s)} \in SUBSET D /\ Cardinality(s \ {Some(s)}) < Cardinality(s)
    BY <1>2, SomeIs
  <2> QED BY <1>2, <2>1 DEF SumStep
<1> QED BY <1>1, <1>2

\* A step adds natural numbers.
LEMMA SumStepIsNat ==
  ASSUME NEW D, IsFiniteSet(D), NEW s \in SUBSET D, NEW f \in [D -> Nat],
         NEW g \in [SUBSET D -> Nat]
  PROVE  SumStep(g, f, s) \in Nat
<1>1. CASE s = {}
  BY <1>1 DEF SumStep
<1>2. CASE s # {}
  <2>1. f[Some(s)] \in Nat /\ g[s \ {Some(s)}] \in Nat
    BY <1>2, SomeIs
  <2> QED BY <1>2, <2>1 DEF SumStep
<1> QED BY <1>1, <1>2

\* The sums up to a size.
SumsTo(g, f, D, n) ==
  /\ g \in [SUBSET D -> Nat]
  /\ \A s \in SUBSET D : Cardinality(s) <= n => g[s] = SumStep(g, f, s)

\* The sums up to a size give those of the next.
LEMMA SumsGoOn ==
  ASSUME NEW D, IsFiniteSet(D), NEW f \in [D -> Nat], NEW n \in Nat \ {0}, NEW g,
         SumsTo(g, f, D, n - 1)
  PROVE  \E h : SumsTo(h, f, D, n)
<1> DEFINE h == [s \in SUBSET D |-> IF Cardinality(s) = n THEN SumStep(g, f, s) ELSE g[s]]
<1>1. /\ g \in [SUBSET D -> Nat]
      /\ \A s \in SUBSET D : Cardinality(s) <= n - 1 => g[s] = SumStep(g, f, s)
  BY DEF SumsTo
<1>2. \A s \in SUBSET D : Cardinality(s) \in Nat
  BY FS_Subset, FS_CardinalityType
<1>3. h \in [SUBSET D -> Nat]
  BY <1>1, SumStepIsNat
<1>4. \A s \in SUBSET D : Cardinality(s) # n => h[s] = g[s]
  OBVIOUS
<1>5. \A s \in SUBSET D : Cardinality(s) = n => h[s] = SumStep(g, f, s)
  OBVIOUS
<1> HIDE DEF h
<1>6. ASSUME NEW s \in SUBSET D, Cardinality(s) <= n
      PROVE  h[s] = SumStep(h, f, s)
  <2>1. \A r \in SUBSET D : Cardinality(r) < Cardinality(s) => g[r] = h[r]
    BY <1>2, <1>4, <1>6
  <2>2. SumStep(g, f, s) = SumStep(h, f, s)
    BY <2>1, SumStepSame
  <2>3. h[s] = SumStep(g, f, s)
    <3>1. CASE Cardinality(s) = n
      BY <1>5, <3>1
    <3>2. CASE Cardinality(s) # n
      <4>1. Cardinality(s) <= n - 1
        BY <1>2, <1>6, <3>2
      <4> QED BY <1>1, <1>4, <3>2, <4>1
    <3> QED BY <3>1, <3>2
  <2> QED BY <2>2, <2>3
<1>7. SumsTo(h, f, D, n)
  BY <1>3, <1>6 DEF SumsTo
<1> QED BY <1>7

\* There are sums.
LEMMA SumsExist ==
  ASSUME NEW D, IsFiniteSet(D), NEW f \in [D -> Nat]
  PROVE  \E g : Sums(g, f)
<1> DEFINE N == Cardinality(D)
           S == {n \in 0..N : \E g : SumsTo(g, f, D, n)}
<1>1. N \in Nat
  BY FS_CardinalityType
<1>2. 0 \in S
  <2> DEFINE g == [s \in SUBSET D |-> 0]
  <2>1. ASSUME NEW s \in SUBSET D, Cardinality(s) <= 0 PROVE g[s] = SumStep(g, f, s)
    <3>1. IsFiniteSet(s) /\ Cardinality(s) \in Nat
      BY FS_Subset, FS_CardinalityType
    <3>2. s = {}
      BY <2>1, <3>1, FS_EmptySet
    <3> QED BY <3>2 DEF SumStep
  <2>2. g \in [SUBSET D -> Nat]
    OBVIOUS
  <2> HIDE DEF g
  <2>3. SumsTo(g, f, D, 0)
    BY <2>1, <2>2 DEF SumsTo
  <2>4. 0 \in 0..N
    BY <1>1
  <2> QED BY <2>3, <2>4
<1>3. ASSUME NEW n \in 1..N, n - 1 \in S PROVE n \in S
  <2>1. n \in Nat \ {0} /\ n \in 0..N
    BY <1>1
  <2>2. PICK g : SumsTo(g, f, D, n - 1)
    BY <1>3
  <2>3. \E h : SumsTo(h, f, D, n)
    BY <2>1, <2>2, SumsGoOn
  <2> QED BY <2>1, <2>3
<1>4. N \in S
  <2> HIDE DEF S
  <2>1. \A n \in 0..N : n \in S
    BY <1>1, <1>2, <1>3, UpTo
  <2>2. N \in 0..N
    BY <1>1
  <2> QED BY <2>1, <2>2
<1>5. PICK g : SumsTo(g, f, D, N)
  BY <1>4
<1>6. g \in [SUBSET D -> Nat] /\ \A s \in SUBSET D : Cardinality(s) <= N => g[s] = SumStep(g, f, s)
  BY <1>5 DEF SumsTo
<1>7. \A s \in SUBSET D : Cardinality(s) <= N
  BY FS_Subset
<1>8. g = [s \in SUBSET D |-> g[s]] /\ DOMAIN f = D
  BY <1>6
<1>9. \A s \in SUBSET D : g[s] = SumStep(g, f, s)
  BY ONLY <1>6, <1>7
<1>10. Sums(g, f)
  BY ONLY <1>8, <1>9 DEF Sums
<1> QED BY <1>10

\* What sums are: natural numbers, and any member can be taken first.
SumsWell(g, f, D) ==
  \A s \in SUBSET D : g[s] \in Nat /\ \A y \in s : g[s] = f[y] + g[s \ {y}]

LEMMA SumsAre ==
  ASSUME NEW D, IsFiniteSet(D), NEW f \in [D -> Nat], NEW g, Sums(g, f)
  PROVE  g[{}] = 0 /\ SumsWell(g, f, D)
<1> DEFINE N == Cardinality(D)
           Well(s) == g[s] \in Nat /\ \A y \in s : g[s] = f[y] + g[s \ {y}]
           S == {n \in 0..N : \A s \in SUBSET D : Cardinality(s) <= n => Well(s)}
<1>1. N \in Nat /\ \A s \in SUBSET D : Cardinality(s) \in Nat /\ Cardinality(s) <= N
  BY FS_Subset, FS_CardinalityType
<1>2. \A s \in SUBSET D : g[s] = SumStep(g, f, s)
  BY DEF Sums
<1>3. g[{}] = 0
  BY <1>2 DEF SumStep
<1>4. 0 \in S
  <2>1. ASSUME NEW s \in SUBSET D, Cardinality(s) <= 0 PROVE Well(s)
    <3>1. IsFiniteSet(s) /\ Cardinality(s) \in Nat
      BY FS_Subset, FS_CardinalityType
    <3>2. s = {}
      BY <2>1, <3>1, FS_EmptySet
    <3> QED BY <1>3, <3>2
  <2>2. 0 \in 0..N
    BY <1>1
  <2> QED BY <2>1, <2>2
<1>5. ASSUME NEW n \in 1..N, n - 1 \in S PROVE n \in S
  <2>1. n \in 0..N
    BY <1>1
  <2>2. \A s \in SUBSET D : Cardinality(s) <= n - 1 => Well(s)
    BY <1>5
  <2>3. ASSUME NEW s \in SUBSET D, Cardinality(s) <= n PROVE Well(s)
    <3>1. CASE s = {}
      BY <1>3, <3>1
    <3>2. CASE s # {}
      <4> DEFINE x == Some(s)
      <4>1. /\ x \in s /\ s \ {x} \in SUBSET D /\ Cardinality(s) \in Nat
            /\ Cardinality(s \ {x}) = Cardinality(s) - 1
        BY <3>2, SomeIs
      <4>2. g[s] = f[x] + g[s \ {x}]
        BY <1>2, <3>2 DEF SumStep
      <4> HIDE DEF x
      <4>3. Cardinality(s \ {x}) <= n - 1
        BY <2>3, <4>1
      <4>4. Well(s \ {x})
        BY <2>2, <4>1, <4>3
      <4>5. g[s] \in Nat /\ f[x] \in Nat
        BY <4>1, <4>2, <4>4
      <4>6. ASSUME NEW y \in s, y # x PROVE g[s] = f[y] + g[s \ {y}]
        <5>1. y \in s \ {x}
          BY <4>6
        <5>2. g[s \ {x}] = f[y] + g[(s \ {x}) \ {y}]
          BY <4>4, <5>1
        <5>3. s \ {y} \in SUBSET D /\ x \in s \ {y} /\ (s \ {y}) \ {x} = (s \ {x}) \ {y}
          BY <4>1, <4>6
        <5>4. Cardinality(s \ {y}) <= n - 1
          <6>1. IsFiniteSet(s)
            BY FS_Subset
          <6>2. Cardinality(s \ {y}) = Cardinality(s) - 1
            BY <6>1, FS_RemoveElement
          <6> QED BY <2>3, <4>1, <6>2
        <5>5. Well(s \ {y})
          BY <2>2, <5>3, <5>4
        <5>6. g[s \ {y}] = f[x] + g[(s \ {x}) \ {y}]
          BY <5>3, <5>5
        <5>7. f[y] \in Nat
          OBVIOUS
        <5>8. g[(s \ {x}) \ {y}] \in Nat
          <6> DEFINE r == (s \ {x}) \ {y}
          <6>1. r \in SUBSET D /\ IsFiniteSet(s \ {x})
            BY <4>1, FS_Subset
          <6>2. Cardinality(r) = Cardinality(s \ {x}) - 1
            BY <5>1, <6>1, FS_RemoveElement
          <6>3. Cardinality(r) <= n - 1
            BY <1>1, <4>1, <4>3, <6>1, <6>2
          <6> HIDE DEF r
          <6>4. Well(r)
            BY <2>2, <6>1, <6>3
          <6> QED BY <6>4 DEF r
        <5> QED BY ONLY <4>2, <4>5, <5>2, <5>6, <5>7, <5>8
      <4> QED BY <4>1, <4>2, <4>5, <4>6
    <3> QED BY <3>1, <3>2
  <2> QED BY <2>1, <2>3
<1>6. N \in S
  <2> HIDE DEF S
  <2>1. \A n \in 0..N : n \in S
    BY <1>1, <1>4, <1>5, UpTo
  <2>2. N \in 0..N
    BY <1>1
  <2> QED BY <2>1, <2>2
<1>7. \A s \in SUBSET D : Well(s)
  BY <1>1, <1>6
<1> QED BY <1>3, <1>7 DEF SumsWell

\* The sums of functions that agree agree.
LEMMA SumsSame ==
  ASSUME NEW D, IsFiniteSet(D), NEW f \in [D -> Nat], NEW g, Sums(g, f),
         NEW E, IsFiniteSet(E), NEW e \in [E -> Nat], NEW h, Sums(h, e),
         E \subseteq D, \A x \in E : f[x] = e[x]
  PROVE  g[E] = h[E]
<1> DEFINE N == Cardinality(E)
           S == {n \in 0..N : \A s \in SUBSET E : Cardinality(s) <= n => g[s] = h[s]}
<1>1. N \in Nat /\ \A s \in SUBSET E : Cardinality(s) \in Nat /\ Cardinality(s) <= N
  BY FS_Subset, FS_CardinalityType
<1>2. /\ \A s \in SUBSET D : g[s] = SumStep(g, f, s)
      /\ \A s \in SUBSET E : h[s] = SumStep(h, e, s)
  BY DEF Sums
<1>3. g[{}] = 0 /\ h[{}] = 0
  BY <1>2 DEF SumStep
<1>4. 0 \in S
  <2>1. ASSUME NEW s \in SUBSET E, Cardinality(s) <= 0 PROVE g[s] = h[s]
    <3>1. IsFiniteSet(s) /\ Cardinality(s) \in Nat
      BY FS_Subset, FS_CardinalityType
    <3>2. s = {}
      BY <2>1, <3>1, FS_EmptySet
    <3> QED BY <1>3, <3>2
  <2>2. 0 \in 0..N
    BY <1>1
  <2> QED BY <2>1, <2>2
<1>5. ASSUME NEW n \in 1..N, n - 1 \in S PROVE n \in S
  <2>1. n \in 0..N
    BY <1>1
  <2>2. \A s \in SUBSET E : Cardinality(s) <= n - 1 => g[s] = h[s]
    BY <1>5
  <2>3. ASSUME NEW s \in SUBSET E, Cardinality(s) <= n PROVE g[s] = h[s]
    <3>1. CASE s = {}
      BY <1>3, <3>1
    <3>2. CASE s # {}
      <4> DEFINE x == Some(s)
      <4>1. /\ x \in s /\ s \ {x} \in SUBSET E /\ Cardinality(s) \in Nat
            /\ Cardinality(s \ {x}) = Cardinality(s) - 1
        BY <3>2, SomeIs
      <4>2. g[s] = f[x] + g[s \ {x}] /\ h[s] = e[x] + h[s \ {x}]
        BY <1>2, <3>2 DEF SumStep
      <4> HIDE DEF x
      <4>3. Cardinality(s \ {x}) <= n - 1
        BY <2>3, <4>1
      <4>4. g[s \ {x}] = h[s \ {x}] /\ f[x] = e[x]
        BY <2>2, <4>1, <4>3
      <4> QED BY <4>2, <4>4
    <3> QED BY <3>1, <3>2
  <2> QED BY <2>1, <2>3
<1>6. N \in S
  <2> HIDE DEF S
  <2>1. \A n \in 0..N : n \in S
    BY <1>1, <1>4, <1>5, UpTo
  <2>2. N \in 0..N
    BY <1>1
  <2> QED BY <2>1, <2>2
<1>7. E \in SUBSET E /\ Cardinality(E) <= N
  BY <1>1
<1> QED BY <1>6, <1>7

\* The sum of a tally.
Total(f) == FoldFunction(LAMBDA a, b : a + b, 0, f)

\* It is what the sums are over the whole domain.
LEMMA TotalIs ==
  ASSUME NEW D, IsFiniteSet(D), NEW f \in [D -> Nat], NEW h, Sums(h, f)
  PROVE  Total(f) = h[D]
<1> DEFINE g == CHOOSE iter : iter = [s \in SUBSET DOMAIN f |->
                  IF s = {} THEN 0
                  ELSE LET x == CHOOSE x \in s : TRUE IN f[x] + iter[s \ {x}]]
<1>1. Total(f) = g[DOMAIN f]
  BY DEF Total, FoldFunction, FoldFunctionOnSet, MapThenFoldSet
<1>2. h = [s \in SUBSET DOMAIN f |->
             IF s = {} THEN 0
             ELSE LET x == CHOOSE x \in s : TRUE IN f[x] + h[s \ {x}]]
  BY Zenon DEF Sums, SumStep, Some
<1>3. g = [s \in SUBSET DOMAIN f |->
             IF s = {} THEN 0
             ELSE LET x == CHOOSE x \in s : TRUE IN f[x] + g[s \ {x}]]
  BY <1>2, Zenon
<1> HIDE DEF g
<1>4. Sums(g, f)
  BY <1>3, Zenon DEF Sums, SumStep, Some
<1>5. g[D] = h[D]
  BY <1>4, SumsSame
<1> QED BY <1>1, <1>5

\* What is taken out of a tally is taken off its sum.
LEMMA TotalRemove ==
  ASSUME NEW D, IsFiniteSet(D), NEW f \in [D -> Nat], NEW y \in D
  PROVE  /\ Total(f) \in Nat /\ Total(Restrict(f, D \ {y})) \in Nat
         /\ Total(f) = f[y] + Total(Restrict(f, D \ {y}))
<1> DEFINE E == D \ {y}
           e == Restrict(f, E)
<1>1. IsFiniteSet(E) /\ e \in [E -> Nat] /\ E \subseteq D /\ \A x \in E : f[x] = e[x]
  <2>1. IsFiniteSet(E)
    BY FS_RemoveElement
  <2>2. e \in [E -> Nat] /\ \A x \in E : f[x] = e[x]
    BY DEF Restrict
  <2> QED BY <2>1, <2>2
<1> HIDE DEF e, E
<1>2. PICK g : Sums(g, f)
  BY SumsExist
<1>3. PICK h : Sums(h, e)
  BY <1>1, SumsExist
<1>4. SumsWell(g, f, D)
  BY <1>2, SumsAre
<1>5. g[D] \in Nat /\ g[E] \in Nat /\ g[D] = f[y] + g[E]
  BY <1>1, <1>4 DEF SumsWell, E
<1>6. g[E] = h[E]
  BY <1>1, <1>2, <1>3, SumsSame
<1>7. Total(f) = g[D] /\ Total(e) = h[E]
  BY <1>1, <1>2, <1>3, TotalIs
<1>8. Total(f) \in Nat /\ Total(e) \in Nat /\ Total(f) = f[y] + Total(e)
  BY <1>5, <1>6, <1>7
<1> QED BY ONLY <1>8 DEF e, E

\* The sum of nothing.
LEMMA TotalNone == Total(<<>>) = 0
<1>1. <<>> \in [{} -> Nat]
  OBVIOUS
<1>2. IsFiniteSet({})
  BY FS_EmptySet
<1>3. PICK g : Sums(g, <<>>)
  BY <1>1, <1>2, SumsExist
<1>4. g[{}] = 0
  BY <1>1, <1>2, <1>3, SumsAre
<1>5. Total(<<>>) = g[{}]
  BY <1>1, <1>2, <1>3, TotalIs
<1> QED BY <1>4, <1>5

\* What a member of the domain has; nothing outside.
At(f, k) == IF k \in DOMAIN f THEN f[k] ELSE 0

\* What putting v at k makes of a tally over D.
PutAdds(f, D, k, v) ==
  /\ IsFiniteSet(D \cup {k}) /\ Put(f, k, v) \in [D \cup {k} -> Nat]
  /\ Total(f) \in Nat /\ Total(Put(f, k, v)) \in Nat /\ At(f, k) \in Nat
  /\ Total(Put(f, k, v)) = Total(f) - At(f, k) + v

\* Putting a value in the place of another.
LEMMA TotalPut ==
  ASSUME NEW D, IsFiniteSet(D), NEW f \in [D -> Nat], NEW k, NEW v \in Nat
  PROVE  PutAdds(f, D, k, v)
<1> DEFINE p == Put(f, k, v)
           E == D \cup {k}
<1>1. IsFiniteSet(E) /\ p \in [E -> Nat] /\ k \in E /\ p[k] = v
  <2>1. IsFiniteSet(E)
    BY FS_AddElement
  <2>2. p \in [E -> Nat] /\ p[k] = v
    BY DEF Put
  <2> QED BY <2>1, <2>2
<1>2. Restrict(p, E \ {k}) = Restrict(f, D \ {k})
  <2>1. E \ {k} = D \ {k}
    OBVIOUS
  <2>2. \A x \in D \ {k} : p[x] = f[x]
    BY DEF Put
  <2> HIDE DEF p, E
  <2> QED BY ONLY <2>1, <2>2 DEF Restrict
<1> HIDE DEF p, E
<1>3. /\ Total(p) \in Nat /\ Total(Restrict(p, E \ {k})) \in Nat
      /\ Total(p) = p[k] + Total(Restrict(p, E \ {k}))
  BY ONLY <1>1, TotalRemove
<1>4. CASE k \in D
  <2>1. /\ Total(f) \in Nat /\ Total(Restrict(f, D \ {k})) \in Nat
        /\ Total(f) = f[k] + Total(Restrict(f, D \ {k}))
    BY ONLY <1>4, TotalRemove, IsFiniteSet(D), f \in [D -> Nat]
  <2>2. At(f, k) = f[k] /\ f[k] \in Nat
    BY <1>4 DEF At
  <2>3. Total(p) = Total(f) - At(f, k) + v /\ At(f, k) \in Nat
    BY ONLY <1>1, <1>2, <1>3, <2>1, <2>2, v \in Nat
  <2> QED BY ONLY <1>1, <1>3, <2>1, <2>3 DEF p, E, PutAdds
<1>5. CASE k \notin D
  <2>1. D \ {k} = D /\ Restrict(f, D) = f
    BY <1>5 DEF Restrict
  <2>2. At(f, k) = 0
    BY <1>5 DEF At
  <2>3. Total(f) = Total(Restrict(p, E \ {k}))
    BY ONLY <1>2, <2>1
  <2>4. /\ Total(p) = Total(f) - At(f, k) + v /\ At(f, k) \in Nat
        /\ Total(f) \in Nat
    BY ONLY <1>1, <1>3, <2>2, <2>3, v \in Nat
  <2> QED BY ONLY <1>1, <1>3, <2>4 DEF p, E, PutAdds
<1> QED BY <1>4, <1>5

-----------------------------------------------------------------------------
(* A tally of clusters *)

\* A device's tally adds up: typed, and its parts make its total.
TallyOk(r) ==
  /\ DOMAIN r = {"clusters", "total", "ts"}
  /\ IsFiniteSet(DOMAIN r.clusters) /\ r.clusters \in [DOMAIN r.clusters -> Nat]
  /\ r.total \in Nat /\ r.total = Total(r.clusters)

\* A frame of a cluster counts on.
LEMMA TallyCounts ==
  ASSUME NEW r, TallyOk(r), NEW c, NEW t
  PROVE  TallyOk([clusters |-> Put(r.clusters, c, At(r.clusters, c) + 1),
                  total |-> r.total + 1, ts |-> t])
<1> DEFINE f == r.clusters
           D == DOMAIN f
           v == At(f, c) + 1
           p == Put(f, c, v)
           new == [clusters |-> p, total |-> r.total + 1, ts |-> t]
<1>1. IsFiniteSet(D) /\ f \in [D -> Nat] /\ r.total \in Nat /\ r.total = Total(f)
  BY DEF TallyOk
<1>2. DOMAIN new = {"clusters", "total", "ts"} /\ new.clusters = p /\ new.total = r.total + 1
  OBVIOUS
<1>3. v \in Nat
  BY <1>1 DEF At
<1> HIDE DEF new, p, v, f, D
<1>4. /\ IsFiniteSet(D \cup {c}) /\ p \in [D \cup {c} -> Nat]
      /\ Total(f) \in Nat /\ Total(p) \in Nat /\ At(f, c) \in Nat
      /\ Total(p) = Total(f) - At(f, c) + v
  <2>1. IsFiniteSet(D) /\ f \in [D -> Nat] /\ v \in Nat
    BY <1>1, <1>3
  <2>2. PutAdds(f, D, c, v)
    BY ONLY <2>1, TotalPut
  <2> QED BY ONLY <2>2 DEF p, PutAdds
<1>5. DOMAIN p = D \cup {c}
  BY <1>4
<1>6. Total(p) = r.total + 1 /\ r.total + 1 \in Nat
  BY ONLY <1>1, <1>4 DEF v
<1>7. TallyOk(new)
  BY ONLY <1>2, <1>4, <1>5, <1>6 DEF TallyOk
<1> QED BY ONLY <1>7 DEF new, p, v, f

\* Merging two of its clusters.
LEMMA TallyMerges ==
  ASSUME NEW r, TallyOk(r), NEW from, NEW to, from # to
  PROVE  TallyOk(Remap(r, from, to))
<1> DEFINE f == r.clusters
           D == DOMAIN f
           v == At(f, to) + f[from]
           p == Put(f, to, v)
           E == D \cup {to}
           q == Restrict(p, E \ {from})
           new == [r EXCEPT !.clusters = q]
<1>1. /\ IsFiniteSet(D) /\ f \in [D -> Nat] /\ r.total \in Nat /\ r.total = Total(f)
      /\ DOMAIN r = {"clusters", "total", "ts"}
  BY DEF TallyOk
<1>2. CASE from \notin D
  BY <1>2 DEF Remap
<1>3. CASE from \in D
  <2>1. Remap(r, from, to) = new
    BY <1>3 DEF Remap, At
  <2>2. DOMAIN new = {"clusters", "total", "ts"} /\ new.clusters = q /\ new.total = r.total
    BY <1>1
  <2>3. v \in Nat /\ f[from] \in Nat
    BY <1>1, <1>3 DEF At
  <2>4. p[from] = f[from] /\ from \in E
    BY <1>3 DEF Put
  <2> HIDE DEF new, q, p, v, f, D
  <2>5. /\ IsFiniteSet(E) /\ p \in [E -> Nat]
        /\ Total(f) \in Nat /\ Total(p) \in Nat /\ At(f, to) \in Nat
        /\ Total(p) = Total(f) - At(f, to) + v
    <3>1. IsFiniteSet(D) /\ f \in [D -> Nat] /\ v \in Nat
      BY <1>1, <2>3
    <3>2. PutAdds(f, D, to, v)
      BY ONLY <3>1, TotalPut
    <3> QED BY ONLY <3>2 DEF p, E, PutAdds
  <2> HIDE DEF E
  <2>6. Total(q) \in Nat /\ Total(p) = p[from] + Total(q)
    BY ONLY <2>4, <2>5, TotalRemove DEF q
  <2>7. Total(q) = r.total
    BY ONLY <1>1, <2>3, <2>4, <2>5, <2>6 DEF v
  <2>8. DOMAIN q = E \ {from} /\ q \in [E \ {from} -> Nat]
    BY <2>5 DEF q, Restrict
  <2>9. IsFiniteSet(E \ {from})
    BY ONLY <2>5, FS_RemoveElement
  <2>10. TallyOk(new)
    BY ONLY <1>1, <2>2, <2>7, <2>8, <2>9 DEF TallyOk
  <2> QED BY <2>1, <2>10
<1> QED BY <1>2, <1>3

\* The tallies of the devices.
TalliesOk(rf) == \A d \in DOMAIN rf : TallyOk(rf[d])

\* Forgetting a device leaves the others as they are.
LEMMA BoundKeeps ==
  ASSUME NEW m, TalliesOk(m), NEW seen
  PROVE  TalliesOk(Bound(m, seen))
<1> DEFINE least == CHOOSE k \in DOMAIN m : \A j \in DOMAIN m : seen[k] <= seen[j]
<1>1. Bound(m, seen) = m \/ Bound(m, seen) = Restrict(m, DOMAIN m \ {least})
  BY DEF Bound
<1> HIDE DEF least
<1>2. TalliesOk(Restrict(m, DOMAIN m \ {least}))
  BY DEF TalliesOk, Restrict
<1> QED BY <1>1, <1>2

\* A device's tally put in its place.
LEMMA PutKeeps ==
  ASSUME NEW rf, TalliesOk(rf), NEW d, NEW r, TallyOk(r)
  PROVE  TalliesOk(Put(rf, d, r))
<1>1. DOMAIN Put(rf, d, r) = DOMAIN rf \cup {d}
  BY DEF Put
<1>2. \A x \in DOMAIN rf \cup {d} : Put(rf, d, r)[x] = IF x = d THEN r ELSE rf[x]
  BY DEF Put
<1> QED BY ONLY <1>1, <1>2, TalliesOk(rf), TallyOk(r) DEF TalliesOk

-----------------------------------------------------------------------------
(* The engine *)

Subjects == Device \cup {"all"}
Findings == [id : Nat, rule : Rules, subject : Subjects, open : BOOLEAN]

\* One open incident for a rule and a subject.
OneOpenIn(incidents) ==
  \A j, k \in DOMAIN incidents :
    /\ incidents[j].open /\ incidents[k].open
    /\ incidents[j].rule = incidents[k].rule /\ incidents[j].subject = incidents[k].subject
    => j = k

Books(incidents) == incidents \in Seq(Findings) /\ OneOpenIn(incidents)

EngineOk(e) ==
  /\ DOMAIN e = {"frames", "counters", "nonces", "rf", "joins", "floodUntil", "incidents",
                 "nextId"}
  /\ e.nextId \in Nat /\ Books(e.incidents) /\ TalliesOk(e.rf)

\* The fields that neither the incidents nor the tallies are in.
LEMMA FieldKeeps ==
  ASSUME NEW e, EngineOk(e), NEW x
  PROVE  /\ EngineOk([e EXCEPT !.frames = x]) /\ EngineOk([e EXCEPT !.counters = x])
         /\ EngineOk([e EXCEPT !.nonces = x]) /\ EngineOk([e EXCEPT !.joins = x])
         /\ EngineOk([e EXCEPT !.floodUntil = x])
         /\ TalliesOk(x) => EngineOk([e EXCEPT !.rf = x])
         /\ Books(x) => EngineOk([e EXCEPT !.incidents = x])
BY DEF EngineOk

\* Two fields at once.
LEMMA FieldsKeep ==
  ASSUME NEW e, EngineOk(e), NEW x, NEW y
  PROVE  /\ EngineOk([e EXCEPT !.joins = x, !.floodUntil = y])
         /\ Books(x) /\ y \in Nat => EngineOk([e EXCEPT !.incidents = x, !.nextId = y])
BY DEF EngineOk

\* A new incident at the front of a list that has none like it.
LEMMA FrontKeeps ==
  ASSUME NEW s, Books(s), NEW i \in Findings, OpenOf(s, i.rule, i.subject) = {}
  PROVE  Books(SubSeq(<<i>> \o s, 1, Min({MaxIncidents, Len(s) + 1})))
<1> DEFINE all == <<i>> \o s
           n == Min({MaxIncidents, Len(s) + 1})
           cut == SubSeq(all, 1, n)
<1>1. s \in Seq(Findings) /\ OneOpenIn(s) /\ Len(s) \in Nat /\ MaxIncidents \in Nat \ {0}
  BY RulesAssumption DEF Books
<1>2. n \in 1..(Len(s) + 1)
  <2>1. n = IF MaxIncidents <= Len(s) + 1 THEN MaxIncidents ELSE Len(s) + 1
    <3> DEFINE m == IF MaxIncidents <= Len(s) + 1 THEN MaxIncidents ELSE Len(s) + 1
    <3>1. m \in {MaxIncidents, Len(s) + 1} /\ \A y \in {MaxIncidents, Len(s) + 1} : m <= y
      BY <1>1
    <3>2. \A x \in {MaxIncidents, Len(s) + 1} :
            (\A y \in {MaxIncidents, Len(s) + 1} : x <= y) => x = m
      BY <1>1
    <3> HIDE DEF m
    <3>3. n \in {MaxIncidents, Len(s) + 1} /\ \A y \in {MaxIncidents, Len(s) + 1} : n <= y
      BY <3>1 DEF Min
    <3> QED BY <3>2, <3>3 DEF m
  <2> HIDE DEF n
  <2> QED BY <1>1, <2>1
<1> HIDE DEF n
<1>3. /\ all \in Seq(Findings) /\ Len(all) = Len(s) + 1 /\ all[1] = i
      /\ \A k \in 2..(Len(s) + 1) : all[k] = s[k - 1]
  BY <1>1
<1> HIDE DEF all
<1>4. cut \in Seq(Findings) /\ DOMAIN cut = 1..n /\ \A k \in 1..n : cut[k] = all[k]
  BY <1>1, <1>2, <1>3
<1> HIDE DEF cut
<1>5. \A k \in 2..n : cut[k] = s[k - 1] /\ k - 1 \in DOMAIN s
  BY <1>1, <1>2, <1>3, <1>4
<1>6. cut[1] = i /\ 1 \in 1..n /\ \A k \in 1..n : k = 1 \/ k \in 2..n
  BY <1>1, <1>2, <1>3, <1>4
<1>7. \A k \in DOMAIN s : ~(s[k].open /\ s[k].rule = i.rule /\ s[k].subject = i.subject)
  BY DEF OpenOf
<1>8. ASSUME NEW j \in 1..n, NEW k \in 1..n,
             cut[j].open, cut[k].open, cut[j].rule = cut[k].rule,
             cut[j].subject = cut[k].subject
      PROVE  j = k
  <2>1. CASE j = 1 /\ k = 1
    BY <2>1
  <2>2. CASE j = 1 /\ k \in 2..n
    BY ONLY <1>5, <1>6, <1>7, <1>8, <2>2
  <2>3. CASE k = 1 /\ j \in 2..n
    BY ONLY <1>5, <1>6, <1>7, <1>8, <2>3
  <2>4. CASE j \in 2..n /\ k \in 2..n
    <3>1. j - 1 = k - 1
      BY ONLY <1>1, <1>5, <1>8, <2>4 DEF OneOpenIn
    <3> QED BY <1>2, <3>1
  <2> QED BY <1>6, <2>1, <2>2, <2>3, <2>4
<1>9. OneOpenIn(cut)
  BY ONLY <1>4, <1>8 DEF OneOpenIn
<1> QED BY ONLY <1>4, <1>9 DEF Books, cut, all, n

\* A finding counts on or opens an incident.
LEMMA RaiseKeeps ==
  ASSUME NEW e, EngineOk(e), NEW rule \in Rules, NEW subject \in Subjects
  PROVE  EngineOk(Raise(e, rule, subject))
<1> DEFINE s == e.incidents
           i == [id |-> e.nextId, rule |-> rule, subject |-> subject, open |-> TRUE]
           cut == SubSeq(<<i>> \o s, 1, Min({MaxIncidents, Len(s) + 1}))
<1>1. CASE OpenOf(s, rule, subject) # {}
  BY <1>1 DEF Raise
<1>2. CASE OpenOf(s, rule, subject) = {}
  <2>1. /\ DOMAIN e = {"frames", "counters", "nonces", "rf", "joins", "floodUntil",
                       "incidents", "nextId"}
        /\ e.nextId \in Nat /\ Books(s)
    BY DEF EngineOk
  <2>2. i \in Findings /\ i.rule = rule /\ i.subject = subject
    BY <2>1 DEF Findings
  <2>3. Raise(e, rule, subject) = Opened(e, rule, subject)
    BY <1>2 DEF Raise
  <2>4. Opened(e, rule, subject) = [e EXCEPT !.incidents = cut, !.nextId = e.nextId + 1]
    BY ONLY <2>1 DEF Opened
  <2> HIDE DEF i
  <2>5. Books(cut)
    BY ONLY <1>2, <2>1, <2>2, FrontKeeps
  <2> HIDE DEF cut
  <2>6. e.nextId + 1 \in Nat
    BY <2>1
  <2>7. EngineOk([e EXCEPT !.incidents = cut, !.nextId = e.nextId + 1])
    BY ONLY <2>5, <2>6, FieldsKeep, EngineOk(e)
  <2> QED BY ONLY <2>3, <2>4, <2>7
<1> QED BY <1>1, <1>2

\* The rules are rules.
LEMMA RulesAre ==
  /\ "replay" \in Rules /\ "fcnt_regression" \in Rules /\ "fcnt_reuse" \in Rules
  /\ "nonce_reuse" \in Rules /\ "join_flood" \in Rules /\ "rf_mismatch" \in Rules
  /\ Device \subseteq Subjects /\ "all" \in Subjects
BY DEF Rules, Subjects

\* Bytes of a frame, and frames.
FrameBytes == Device \X Nat \X Nat \X Int
HeardFrames == [dev : Device, bytes : FrameBytes, fcnt : Int, nonce : Int,
                cluster : Cluster \cup {None}, ts : Nat, ch : Int, rate : Int]

\* The counter rule raises an incident or none, and remembers the counter.
LEMMA CounterKeeps ==
  ASSUME NEW e, EngineOk(e), NEW f, f.dev \in Device
  PROVE  EngineOk(CounterRule(e, f))
<1>1. ASSUME NEW r, EngineOk(r), NEW x PROVE EngineOk([r EXCEPT !.counters = x])
  BY <1>1, FieldKeeps
<1>2. EngineOk(Raise(e, "fcnt_reuse", f.dev)) /\ EngineOk(Raise(e, "fcnt_regression", f.dev))
  BY RaiseKeeps, RulesAre
<1>3. ASSUME NEW A, NEW B PROVE
        EngineOk(IF A THEN Raise(e, "fcnt_reuse", f.dev)
                 ELSE IF B THEN Raise(e, "fcnt_regression", f.dev) ELSE e)
  BY <1>2
<1> QED BY ONLY <1>1, <1>3 DEF CounterRule

\* The nonce rule likewise.
LEMMA NonceKeeps ==
  ASSUME NEW e, EngineOk(e), NEW f, f.dev \in Device
  PROVE  EngineOk(NonceRule(e, f))
<1>1. ASSUME NEW r, EngineOk(r), NEW x PROVE EngineOk([r EXCEPT !.nonces = x])
  BY <1>1, FieldKeeps
<1>2. EngineOk(Raise(e, "nonce_reuse", f.dev))
  BY RaiseKeeps, RulesAre
<1>3. ASSUME NEW A PROVE EngineOk(IF A THEN Raise(e, "nonce_reuse", f.dev) ELSE e)
  BY <1>2
<1> QED BY ONLY <1>1, <1>3 DEF NonceRule

\* The flood rule likewise.
LEMMA FloodKeeps ==
  ASSUME NEW e, EngineOk(e), NEW f
  PROVE  EngineOk(FloodRule(e, f))
<1>1. EngineOk(Raise(e, "join_flood", "all"))
  BY RaiseKeeps, RulesAre
<1>2. \A x, y : EngineOk([Raise(e, "join_flood", "all") EXCEPT !.joins = x, !.floodUntil = y])
  BY ONLY <1>1, FieldsKeep
<1>3. \A x : EngineOk([e EXCEPT !.joins = x])
  BY FieldKeeps
<1> QED BY ONLY <1>2, <1>3 DEF FloodRule

\* The cluster rule counts the frame in its device's tally.
LEMMA ClusterKeeps ==
  ASSUME NEW e, EngineOk(e), NEW f, f.dev \in Device
  PROVE  EngineOk(ClusterRule(e, f))
<1> DEFINE r == IF f.dev \in DOMAIN e.rf THEN e.rf[f.dev]
                ELSE [clusters |-> <<>>, total |-> 0, ts |-> f.ts]
           before == IF f.cluster \in DOMAIN r.clusters THEN r.clusters[f.cluster] ELSE 0
           new == [clusters |-> Put(r.clusters, f.cluster, before + 1),
                   total |-> r.total + 1, ts |-> f.ts]
           all == Put(e.rf, f.dev, new)
           most == Max({0} \cup Range(r.clusters))
           dominant == {c \in DOMAIN r.clusters : r.clusters[c] = most}
           raised == IF /\ r.total >= BaselineMin /\ f.cluster \notin dominant
                        /\ 5 * most >= 4 * r.total
                     THEN Raise(e, "rf_mismatch", f.dev) ELSE e
<1>1. TallyOk(r)
  <2>1. TallyOk([clusters |-> <<>>, total |-> 0, ts |-> f.ts])
    <3> DEFINE z == [clusters |-> <<>>, total |-> 0, ts |-> f.ts]
    <3>1. DOMAIN z = {"clusters", "total", "ts"} /\ z.clusters = <<>> /\ z.total = 0
      OBVIOUS
    <3>2. DOMAIN <<>> = {} /\ <<>> \in [{} -> Nat] /\ IsFiniteSet({})
      BY FS_EmptySet
    <3> HIDE DEF z
    <3>3. TallyOk(z)
      BY ONLY <3>1, <3>2, TotalNone DEF TallyOk
    <3> QED BY <3>3 DEF z
  <2>2. \A d \in DOMAIN e.rf : TallyOk(e.rf[d])
    BY DEF EngineOk, TalliesOk
  <2> QED BY <2>1, <2>2
<1> HIDE DEF r
<1>2. TallyOk(new)
  <2>1. before = At(r.clusters, f.cluster)
    BY DEF At
  <2> HIDE DEF before
  <2> QED BY ONLY <1>1, <2>1, TallyCounts
<1> HIDE DEF new
<1>3. TalliesOk(e.rf)
  BY DEF EngineOk
<1>4. TalliesOk(all)
  BY ONLY <1>2, <1>3, PutKeeps
<1>5. \A s : TalliesOk(Bound(all, s))
  BY ONLY <1>4, BoundKeeps
<1>6. EngineOk(raised)
  BY RaiseKeeps, RulesAre
<1> HIDE DEF raised, all
<1>7. EngineOk([raised EXCEPT !.rf = Bound(all, [k \in DOMAIN all |-> all[k].ts])])
  BY ONLY <1>5, <1>6, FieldKeeps
<1> QED BY ONLY <1>7, Zenon DEF ClusterRule, raised, dominant, most, all, new, before, r

\* The rules in their order.
LEMMA IngestKeeps ==
  ASSUME NEW e, EngineOk(e), NEW f, f.dev \in Device, NEW seq
  PROVE  EngineOk(Ingest(e, f, seq))
<1>1. EngineOk(Raise(e, "replay", f.dev))
  BY RaiseKeeps, RulesAre
<1>2. ASSUME NEW r, EngineOk(r) PROVE EngineOk(SeeBytes(r, f, seq))
  <2>1. \A x : EngineOk([r EXCEPT !.frames = x])
    BY <1>2, FieldKeeps
  <2> QED BY ONLY <2>1 DEF SeeBytes
<1>3. ASSUME NEW r, EngineOk(r)
      PROVE  EngineOk(IF f.nonce = None THEN CounterRule(r, f)
                      ELSE FloodRule(NonceRule(r, f), f))
  BY <1>3, CounterKeeps, NonceKeeps, FloodKeeps
<1>4. ASSUME NEW r, EngineOk(r)
      PROVE  EngineOk(IF f.cluster = None THEN r ELSE ClusterRule(r, f))
  BY <1>4, ClusterKeeps
<1>5. ASSUME NEW A
      PROVE  EngineOk(SeeBytes(IF A THEN Raise(e, "replay", f.dev) ELSE e, f, seq))
  BY <1>1, <1>2
<1> QED BY ONLY <1>3, <1>4, <1>5 DEF Ingest

-----------------------------------------------------------------------------
(* A capture is committed; closed incidents are cleared *)

\* A row keeps the engine's books in order.
LEMMA RowKeeps ==
  ASSUME heard \in Seq(HeardFrames), NEW e, EngineOk(e), NEW i \in 1..Len(heard), NEW ch, NEW rate
  PROVE  EngineOk(IngestRow(e, i, ch, rate))
<1>1. heard[i] \in HeardFrames
  OBVIOUS
<1>2. heard[i].dev \in Device
  BY ONLY <1>1 DEF HeardFrames
<1>3. EngineOk(Ingest(e, heard[i], captures + ch))
  BY ONLY <1>2, IngestKeeps, EngineOk(e)
<1> QED BY ONLY <1>3, EngineOk(e) DEF IngestRow

\* What the engine is after the first rows, for a channel and hypothesis.
Committing(g, e, ch, rate, n) ==
  g = [i \in 0..n |-> IF i = 0 THEN e ELSE IngestRow(g[i - 1], i, ch, rate)]

\* There is such a function.
LEMMA CommittingExists ==
  ASSUME NEW n \in Nat, NEW e, NEW ch, NEW rate
  PROVE  \E g : Committing(g, e, ch, rate, n)
<1> DEFINE S == {m \in 0..n : \E g : Committing(g, e, ch, rate, m)}
<1>1. 0 \in S
  <2> DEFINE g == [i \in 0..0 |-> e]
  <2>1. Committing(g, e, ch, rate, 0)
    <3>1. \A i \in 0..0 : i = 0
      OBVIOUS
    <3> QED BY <3>1 DEF Committing
  <2>2. 0 \in 0..n
    OBVIOUS
  <2> QED BY <2>1, <2>2
<1>2. ASSUME NEW m \in 1..n, m - 1 \in S PROVE m \in S
  <2>1. PICK g : Committing(g, e, ch, rate, m - 1)
    BY <1>2
  <2> DEFINE new == IngestRow(g[m - 1], m, ch, rate)
             h == [i \in 0..m |-> IF i = m THEN new ELSE g[i]]
  <2>2. m # 0 /\ m \in Nat /\ m \in 0..m /\ m - 1 \in 0..m /\ m - 1 # m /\ m \in 0..n
    OBVIOUS
  <2>3. \A i \in 0..m : i # m => i \in 0..(m - 1)
    OBVIOUS
  <2>4. \A i \in 0..(m - 1) : g[i] = IF i = 0 THEN e ELSE IngestRow(g[i - 1], i, ch, rate)
    BY ONLY <2>1 DEF Committing
  <2> HIDE DEF new
  <2>5. h[m] = new /\ \A i \in 0..m : i # m => h[i] = g[i]
    BY <2>2
  <2>6. h = [i \in 0..m |-> h[i]]
    OBVIOUS
  <2> HIDE DEF h
  <2>7. ASSUME NEW i \in 0..m
        PROVE  h[i] = IF i = 0 THEN e ELSE IngestRow(h[i - 1], i, ch, rate)
    <3>1. CASE i = m
      <4>1. h[m - 1] = g[m - 1]
        BY ONLY <2>2, <2>5
      <4>2. h[m] = IngestRow(h[m - 1], m, ch, rate)
        BY ONLY <2>5, <4>1 DEF new
      <4> QED BY ONLY <2>2, <3>1, <4>2
    <3>2. CASE i # m /\ i = 0
      BY ONLY <2>3, <2>4, <2>5, <3>2, i \in 0..m
    <3>3. CASE i # m /\ i # 0
      <4>1. i - 1 \in 0..m /\ i - 1 # m /\ i \in 0..(m - 1)
        BY <3>3
      <4>2. h[i - 1] = g[i - 1] /\ h[i] = g[i]
        BY ONLY <2>5, <3>3, <4>1, i \in 0..m
      <4>3. g[i] = IngestRow(g[i - 1], i, ch, rate)
        BY ONLY <2>4, <3>3, <4>1
      <4> QED BY ONLY <3>3, <4>2, <4>3
    <3> QED BY ONLY <3>1, <3>2, <3>3
  <2>8. Committing(h, e, ch, rate, m)
    BY ONLY <2>6, <2>7 DEF Committing
  <2> QED BY ONLY <2>2, <2>8
<1> HIDE DEF S
<1>3. \A m \in 0..n : m \in S
  BY ONLY <1>1, <1>2, UpTo, n \in Nat
<1>4. n \in 0..n
  OBVIOUS
<1> QED BY <1>3, <1>4 DEF S

\* The rows of one hypothesis.
LEMMA CommitRateKeeps ==
  ASSUME heard \in Seq(HeardFrames), NEW e, EngineOk(e), NEW ch, NEW rate
  PROVE  EngineOk(CommitRate(e, ch, rate))
<1> DEFINE n == Len(heard)
           after == CHOOSE g : g = [i \in 0..Len(heard) |->
                      IF i = 0 THEN e ELSE IngestRow(g[i - 1], i, ch, rate)]
           S == {i \in 0..n : EngineOk(after[i])}
<1>1. n \in Nat
  OBVIOUS
<1>2. CommitRate(e, ch, rate) = after[n]
  BY DEF CommitRate
<1>3. PICK f : Committing(f, e, ch, rate, n)
  BY <1>1, CommittingExists
<1>4. f = [i \in 0..Len(heard) |->
             IF i = 0 THEN e ELSE IngestRow(f[i - 1], i, ch, rate)]
  BY ONLY <1>3 DEF Committing
<1>5. after = [i \in 0..Len(heard) |->
                 IF i = 0 THEN e ELSE IngestRow(after[i - 1], i, ch, rate)]
  BY ONLY <1>4, Zenon
<1> HIDE DEF after
<1>6. \A i \in 0..n : after[i] = IF i = 0 THEN e ELSE IngestRow(after[i - 1], i, ch, rate)
  BY ONLY <1>5
<1> HIDE DEF n
<1>7. 0 \in S
  <2>1. 0 \in 0..n
    BY <1>1
  <2>2. after[0] = e
    BY ONLY <1>6, <2>1
  <2> QED BY <2>1, <2>2
<1>8. ASSUME NEW i \in 1..n, i - 1 \in S PROVE i \in S
  <2>1. i \in 0..n /\ i # 0 /\ EngineOk(after[i - 1])
    BY <1>1, <1>8
  <2>2. after[i] = IngestRow(after[i - 1], i, ch, rate)
    BY ONLY <1>6, <2>1
  <2>3. EngineOk(after[i])
    BY ONLY <1>1, <2>1, <2>2, RowKeeps, heard \in Seq(HeardFrames), i \in 1..n DEF n
  <2> QED BY ONLY <2>1, <2>3
<1> HIDE DEF S
<1>9. \A i \in 0..n : i \in S
  BY ONLY <1>1, <1>7, <1>8, UpTo
<1>10. n \in 0..n
  BY <1>1
<1>11. EngineOk(after[n])
  BY ONLY <1>9, <1>10 DEF S
<1> QED BY ONLY <1>2, <1>11

\* What the engine is after the first hypotheses of a channel.
RatesCommitting(g, e, ch, n) ==
  g = [i \in 0..n |-> IF i = 0 THEN e ELSE CommitRate(g[i - 1], ch, i)]

\* There is such a function.
LEMMA RatesCommittingExists ==
  ASSUME NEW n \in Nat, NEW e, NEW ch
  PROVE  \E g : RatesCommitting(g, e, ch, n)
<1> DEFINE S == {m \in 0..n : \E g : RatesCommitting(g, e, ch, m)}
<1>1. 0 \in S
  <2> DEFINE g == [i \in 0..0 |-> e]
  <2>1. RatesCommitting(g, e, ch, 0)
    <3>1. \A i \in 0..0 : i = 0
      OBVIOUS
    <3> QED BY <3>1 DEF RatesCommitting
  <2>2. 0 \in 0..n
    OBVIOUS
  <2> QED BY <2>1, <2>2
<1>2. ASSUME NEW m \in 1..n, m - 1 \in S PROVE m \in S
  <2>1. PICK g : RatesCommitting(g, e, ch, m - 1)
    BY <1>2
  <2> DEFINE new == CommitRate(g[m - 1], ch, m)
             h == [i \in 0..m |-> IF i = m THEN new ELSE g[i]]
  <2>2. m # 0 /\ m \in Nat /\ m \in 0..m /\ m - 1 \in 0..m /\ m - 1 # m /\ m \in 0..n
    OBVIOUS
  <2>3. \A i \in 0..m : i # m => i \in 0..(m - 1)
    OBVIOUS
  <2>4. \A i \in 0..(m - 1) : g[i] = IF i = 0 THEN e ELSE CommitRate(g[i - 1], ch, i)
    BY ONLY <2>1 DEF RatesCommitting
  <2> HIDE DEF new
  <2>5. h[m] = new /\ \A i \in 0..m : i # m => h[i] = g[i]
    BY <2>2
  <2>6. h = [i \in 0..m |-> h[i]]
    OBVIOUS
  <2> HIDE DEF h
  <2>7. ASSUME NEW i \in 0..m
        PROVE  h[i] = IF i = 0 THEN e ELSE CommitRate(h[i - 1], ch, i)
    <3>1. CASE i = m
      <4>1. h[m - 1] = g[m - 1]
        BY ONLY <2>2, <2>5
      <4>2. h[m] = CommitRate(h[m - 1], ch, m)
        BY ONLY <2>5, <4>1 DEF new
      <4> QED BY ONLY <2>2, <3>1, <4>2
    <3>2. CASE i # m /\ i = 0
      BY ONLY <2>3, <2>4, <2>5, <3>2, i \in 0..m
    <3>3. CASE i # m /\ i # 0
      <4>1. i - 1 \in 0..m /\ i - 1 # m /\ i \in 0..(m - 1)
        BY <3>3
      <4>2. h[i - 1] = g[i - 1] /\ h[i] = g[i]
        BY ONLY <2>5, <3>3, <4>1, i \in 0..m
      <4>3. g[i] = CommitRate(g[i - 1], ch, i)
        BY ONLY <2>4, <3>3, <4>1
      <4> QED BY ONLY <3>3, <4>2, <4>3
    <3> QED BY ONLY <3>1, <3>2, <3>3
  <2>8. RatesCommitting(h, e, ch, m)
    BY ONLY <2>6, <2>7 DEF RatesCommitting
  <2> QED BY ONLY <2>2, <2>8
<1> HIDE DEF S
<1>3. \A m \in 0..n : m \in S
  BY ONLY <1>1, <1>2, UpTo, n \in Nat
<1>4. n \in 0..n
  OBVIOUS
<1> QED BY <1>3, <1>4 DEF S

\* A channel, hypothesis by hypothesis.
LEMMA CommitKeeps ==
  ASSUME heard \in Seq(HeardFrames), NEW e, EngineOk(e), NEW ch
  PROVE  EngineOk(Commit(e, ch))
<1> DEFINE n == Rates
           after == CHOOSE g : g = [rate \in 0..Rates |->
                      IF rate = 0 THEN e ELSE CommitRate(g[rate - 1], ch, rate)]
           S == {i \in 0..n : EngineOk(after[i])}
<1>1. n \in Nat
  BY RulesAssumption
<1>2. Commit(e, ch) = after[n]
  BY DEF Commit
<1>3. PICK f : RatesCommitting(f, e, ch, n)
  BY <1>1, RatesCommittingExists
<1>4. f = [rate \in 0..Rates |->
             IF rate = 0 THEN e ELSE CommitRate(f[rate - 1], ch, rate)]
  BY ONLY <1>3 DEF RatesCommitting
<1>5. after = [rate \in 0..Rates |->
                 IF rate = 0 THEN e ELSE CommitRate(after[rate - 1], ch, rate)]
  BY ONLY <1>4, Zenon
<1> HIDE DEF after
<1>6. \A i \in 0..n : after[i] = IF i = 0 THEN e ELSE CommitRate(after[i - 1], ch, i)
  BY ONLY <1>5
<1> HIDE DEF n
<1>7. 0 \in S
  <2>1. 0 \in 0..n
    BY <1>1
  <2>2. after[0] = e
    BY ONLY <1>6, <2>1
  <2> QED BY <2>1, <2>2
<1>8. ASSUME NEW i \in 1..n, i - 1 \in S PROVE i \in S
  <2>1. i \in 0..n /\ i # 0 /\ EngineOk(after[i - 1])
    BY <1>1, <1>8
  <2>2. after[i] = CommitRate(after[i - 1], ch, i)
    BY ONLY <1>6, <2>1
  <2>3. EngineOk(after[i])
    BY ONLY <2>1, <2>2, CommitRateKeeps, heard \in Seq(HeardFrames)
  <2> QED BY ONLY <2>1, <2>3
<1> HIDE DEF S
<1>9. \A i \in 0..n : i \in S
  BY ONLY <1>1, <1>7, <1>8, UpTo
<1>10. n \in 0..n
  BY <1>1
<1>11. EngineOk(after[n])
  BY ONLY <1>9, <1>10 DEF S
<1> QED BY ONLY <1>2, <1>11

\* What the engine is after the first channels.
AllCommitting(g, n) ==
  g = [i \in 0..n |-> IF i = 0 THEN engine ELSE Commit(g[i - 1], i)]

\* There is such a function.
LEMMA AllCommittingExists ==
  ASSUME NEW n \in Nat
  PROVE  \E g : AllCommitting(g, n)
<1> DEFINE S == {m \in 0..n : \E g : AllCommitting(g, m)}
<1>1. 0 \in S
  <2> DEFINE g == [i \in 0..0 |-> engine]
  <2>1. AllCommitting(g, 0)
    <3>1. \A i \in 0..0 : i = 0
      OBVIOUS
    <3> QED BY <3>1 DEF AllCommitting
  <2>2. 0 \in 0..n
    OBVIOUS
  <2> QED BY <2>1, <2>2
<1>2. ASSUME NEW m \in 1..n, m - 1 \in S PROVE m \in S
  <2>1. PICK g : AllCommitting(g, m - 1)
    BY <1>2
  <2> DEFINE new == Commit(g[m - 1], m)
             h == [i \in 0..m |-> IF i = m THEN new ELSE g[i]]
  <2>2. m # 0 /\ m \in Nat /\ m \in 0..m /\ m - 1 \in 0..m /\ m - 1 # m /\ m \in 0..n
    OBVIOUS
  <2>3. \A i \in 0..m : i # m => i \in 0..(m - 1)
    OBVIOUS
  <2>4. \A i \in 0..(m - 1) : g[i] = IF i = 0 THEN engine ELSE Commit(g[i - 1], i)
    BY ONLY <2>1 DEF AllCommitting
  <2> HIDE DEF new
  <2>5. h[m] = new /\ \A i \in 0..m : i # m => h[i] = g[i]
    BY <2>2
  <2>6. h = [i \in 0..m |-> h[i]]
    OBVIOUS
  <2> HIDE DEF h
  <2>7. ASSUME NEW i \in 0..m
        PROVE  h[i] = IF i = 0 THEN engine ELSE Commit(h[i - 1], i)
    <3>1. CASE i = m
      <4>1. h[m - 1] = g[m - 1]
        BY ONLY <2>2, <2>5
      <4>2. h[m] = Commit(h[m - 1], m)
        BY ONLY <2>5, <4>1 DEF new
      <4> QED BY ONLY <2>2, <3>1, <4>2
    <3>2. CASE i # m /\ i = 0
      BY ONLY <2>3, <2>4, <2>5, <3>2, i \in 0..m
    <3>3. CASE i # m /\ i # 0
      <4>1. i - 1 \in 0..m /\ i - 1 # m /\ i \in 0..(m - 1)
        BY <3>3
      <4>2. h[i - 1] = g[i - 1] /\ h[i] = g[i]
        BY ONLY <2>5, <3>3, <4>1, i \in 0..m
      <4>3. g[i] = Commit(g[i - 1], i)
        BY ONLY <2>4, <3>3, <4>1
      <4> QED BY ONLY <3>3, <4>2, <4>3
    <3> QED BY ONLY <3>1, <3>2, <3>3
  <2>8. AllCommitting(h, m)
    BY ONLY <2>6, <2>7 DEF AllCommitting
  <2> QED BY ONLY <2>2, <2>8
<1> HIDE DEF S
<1>3. \A m \in 0..n : m \in S
  BY ONLY <1>1, <1>2, UpTo, n \in Nat
<1>4. n \in 0..n
  OBVIOUS
<1> QED BY <1>3, <1>4 DEF S

\* All the channels of the capture.
LEMMA CommitAllKeeps ==
  ASSUME heard \in Seq(HeardFrames), EngineOk(engine)
  PROVE  EngineOk(CommitAll)
<1> DEFINE n == Len(Channels)
           after == CHOOSE g : g = [ch \in 0..Len(Channels) |->
                      IF ch = 0 THEN engine ELSE Commit(g[ch - 1], ch)]
           S == {i \in 0..n : EngineOk(after[i])}
<1>1. n \in Nat
  BY RulesAssumption
<1>2. CommitAll = after[n]
  BY DEF CommitAll
<1>3. PICK f : AllCommitting(f, n)
  BY <1>1, AllCommittingExists
<1>4. f = [ch \in 0..Len(Channels) |->
             IF ch = 0 THEN engine ELSE Commit(f[ch - 1], ch)]
  BY ONLY <1>3 DEF AllCommitting
<1>5. after = [ch \in 0..Len(Channels) |->
                 IF ch = 0 THEN engine ELSE Commit(after[ch - 1], ch)]
  BY ONLY <1>4, Zenon
<1> HIDE DEF after
<1>6. \A i \in 0..n : after[i] = IF i = 0 THEN engine ELSE Commit(after[i - 1], i)
  BY ONLY <1>5
<1> HIDE DEF n
<1>7. 0 \in S
  <2>1. 0 \in 0..n
    BY <1>1
  <2>2. after[0] = engine
    BY ONLY <1>6, <2>1
  <2> QED BY <2>1, <2>2
<1>8. ASSUME NEW i \in 1..n, i - 1 \in S PROVE i \in S
  <2>1. i \in 0..n /\ i # 0 /\ EngineOk(after[i - 1])
    BY <1>1, <1>8
  <2>2. after[i] = Commit(after[i - 1], i)
    BY ONLY <1>6, <2>1
  <2>3. EngineOk(after[i])
    BY ONLY <2>1, <2>2, CommitKeeps, heard \in Seq(HeardFrames)
  <2> QED BY ONLY <2>1, <2>3
<1> HIDE DEF S
<1>9. \A i \in 0..n : i \in S
  BY ONLY <1>1, <1>7, <1>8, UpTo
<1>10. n \in 0..n
  BY <1>1
<1>11. EngineOk(after[n])
  BY ONLY <1>9, <1>10 DEF S
<1> QED BY ONLY <1>2, <1>11

\* The incidents kept of the first i: of those, with one open for a rule and a subject.
KeptOf(kept, incidents, i) ==
  /\ Books(kept)
  /\ \A j \in DOMAIN kept : \E m \in 1..i : kept[j] = incidents[m]

\* One more is kept.
LEMMA KeepOne ==
  ASSUME NEW s, Books(s), NEW i \in 1..Len(s), NEW kept, KeptOf(kept, s, i - 1)
  PROVE  KeptOf(IF s[i].open THEN Append(kept, s[i]) ELSE kept, s, i)
<1>1. /\ s \in Seq(Findings) /\ kept \in Seq(Findings) /\ OneOpenIn(s) /\ OneOpenIn(kept)
      /\ \A j \in DOMAIN kept : \E m \in 1..(i - 1) : kept[j] = s[m]
  BY DEF KeptOf, Books
<1>2. /\ DOMAIN s = 1..Len(s) /\ DOMAIN kept = 1..Len(kept) /\ Len(kept) \in Nat
      /\ Len(s) \in Nat /\ i \in DOMAIN s /\ s[i] \in Findings
  BY <1>1
<1>3. \A m \in 1..(i - 1) : m \in 1..i /\ m \in DOMAIN s /\ m # i
  BY <1>2
<1>4. CASE ~s[i].open
  <2>1. \A j \in DOMAIN kept : \E m \in 1..i : kept[j] = s[m]
    BY ONLY <1>1, <1>3
  <2> QED BY ONLY <1>1, <1>4, <2>1 DEF KeptOf, Books
<1>5. CASE s[i].open
  <2> DEFINE new == Append(kept, s[i])
             n == Len(kept) + 1
  <2>1. /\ new \in Seq(Findings) /\ DOMAIN new = 1..n /\ n \in 1..n
        /\ new[n] = s[i] /\ \A j \in 1..n : j # n => j \in DOMAIN kept /\ new[j] = kept[j]
    <3>1. /\ new \in Seq(Findings) /\ Len(new) = n /\ new[n] = s[i]
          /\ \A j \in 1..Len(kept) : new[j] = kept[j]
      BY <1>1, <1>2, AppendProperties
    <3> HIDE DEF new
    <3>2. n \in 1..n /\ \A j \in 1..n : j # n => j \in 1..Len(kept)
      BY <1>2
    <3>3. DOMAIN new = 1..n
      BY <3>1
    <3> QED BY ONLY <1>2, <3>1, <3>2, <3>3
  <2> HIDE DEF new, n
  <2>2. \A j \in DOMAIN new : \E m \in 1..i : new[j] = s[m]
    <3>1. i \in 1..i
      BY <1>2
    <3> QED BY ONLY <1>1, <1>3, <2>1, <3>1
  <2>3. \A j \in 1..n : j # n => ~(/\ new[j].open /\ new[j].rule = s[i].rule
                                   /\ new[j].subject = s[i].subject)
    <3> SUFFICES ASSUME NEW j \in 1..n, j # n
                 PROVE  ~(/\ new[j].open /\ new[j].rule = s[i].rule
                          /\ new[j].subject = s[i].subject)
      OBVIOUS
    <3>1. PICK m \in 1..(i - 1) : new[j] = s[m]
      BY <1>1, <2>1
    <3> QED BY ONLY <1>1, <1>2, <1>3, <1>5, <3>1 DEF OneOpenIn
  <2>4. \A j, k \in 1..n : j # n /\ k # n /\ new[j].open /\ new[k].open
                           /\ new[j].rule = new[k].rule /\ new[j].subject = new[k].subject
                           => j = k
    BY ONLY <1>1, <2>1 DEF OneOpenIn
  <2>5. OneOpenIn(new)
    BY ONLY <2>1, <2>3, <2>4 DEF OneOpenIn
  <2>6. KeptOf(new, s, i)
    BY ONLY <2>1, <2>2, <2>5 DEF KeptOf, Books
  <2> QED BY ONLY <1>5, <2>6 DEF new
<1> QED BY ONLY <1>4, <1>5

\* Clearing leaves the books in order.
LEMMA OpenOnlyKeeps ==
  ASSUME NEW s, Books(s)
  PROVE  Books(OpenOnly(s))
<1> DEFINE n == Len(s)
           M == Seq(Findings)
           step == [p \in (1..n) \X M |-> IF s[p[1]].open THEN Append(p[2], s[p[1]]) ELSE p[2]]
           kept == CHOOSE g : g = [i \in 0..Len(s) |->
                     IF i = 0 THEN <<>>
                     ELSE IF s[i].open THEN Append(g[i - 1], s[i]) ELSE g[i - 1]]
           S == {i \in 0..n : KeptOf(kept[i], s, i)}
<1>1. n \in Nat /\ \A i \in 1..n : s[i] \in Findings
  BY DEF Books
<1>2. OpenOnly(s) = kept[n]
  BY DEF OpenOnly
<1>3. PICK f : Iterates(f, <<>>, step, n)
  BY <1>1, IteratesExists
<1>4. /\ \A i \in 1..n, x \in M :
           step[<<i, x>>] = IF s[i].open THEN Append(x, s[i]) ELSE x
      /\ <<>> \in M
      /\ \A i \in 1..n, x \in M : (IF s[i].open THEN Append(x, s[i]) ELSE x) \in M
  BY <1>1
<1> HIDE DEF M, step
<1>5. /\ f \in [0..n -> M] /\ f[0] = <<>>
      /\ \A i \in 1..n : f[i] = step[<<i, f[i - 1]>>]
  <2> HIDE DEF n
  <2>1. StepsWithin(step, n, M)
    BY ONLY <1>4 DEF StepsWithin
  <2> QED BY ONLY <1>1, <1>3, <1>4, <2>1, IteratesTyped
<1>6. f = [i \in 0..Len(s) |->
             IF i = 0 THEN <<>>
             ELSE IF s[i].open THEN Append(f[i - 1], s[i]) ELSE f[i - 1]]
  <2>1. ASSUME NEW i \in 0..n
        PROVE  f[i] = IF i = 0 THEN <<>>
                      ELSE IF s[i].open THEN Append(f[i - 1], s[i]) ELSE f[i - 1]
    <3>1. CASE i = 0
      BY <1>5, <3>1
    <3>2. CASE i # 0
      <4>1. i \in 1..n /\ i - 1 \in 0..n
        BY <1>1, <3>2
      <4> HIDE DEF n
      <4>2. f[i] = step[<<i, f[i - 1]>>] /\ f[i - 1] \in M
        BY ONLY <1>5, <4>1
      <4> QED BY ONLY <1>4, <3>2, <4>1, <4>2
    <3> QED BY <3>1, <3>2
  <2>2. f = [i \in 0..n |-> f[i]]
    BY <1>5
  <2> QED BY ONLY <2>1, <2>2
<1>7. kept = [i \in 0..Len(s) |->
                IF i = 0 THEN <<>>
                ELSE IF s[i].open THEN Append(kept[i - 1], s[i]) ELSE kept[i - 1]]
  BY ONLY <1>6, Zenon
<1> HIDE DEF kept
<1>8. \A i \in 0..n : kept[i] = IF i = 0 THEN <<>>
                                ELSE IF s[i].open THEN Append(kept[i - 1], s[i]) ELSE kept[i - 1]
  BY ONLY <1>7
<1>9. 0 \in S
  <2>1. 0 \in 0..n
    BY <1>1
  <2> HIDE DEF n
  <2>2. kept[0] = <<>>
    BY ONLY <1>8, <2>1
  <2>3. KeptOf(<<>>, s, 0)
    BY DEF KeptOf, Books, OneOpenIn
  <2> QED BY <2>1, <2>2, <2>3
<1>10. ASSUME NEW i \in 1..n, i - 1 \in S PROVE i \in S
  <2>1. i \in 0..n /\ i # 0 /\ KeptOf(kept[i - 1], s, i - 1)
    BY <1>1, <1>10
  <2>2. kept[i] = IF s[i].open THEN Append(kept[i - 1], s[i]) ELSE kept[i - 1]
    BY ONLY <1>8, <2>1
  <2>3. KeptOf(kept[i], s, i)
    BY ONLY <2>1, <2>2, KeepOne, Books(s), i \in 1..n
  <2> QED BY ONLY <2>1, <2>3
<1> HIDE DEF S, n
<1>11. \A i \in 0..n : i \in S
  BY ONLY <1>1, <1>9, <1>10, UpTo
<1>12. n \in 0..n
  BY <1>1
<1>13. KeptOf(kept[n], s, n)
  BY ONLY <1>11, <1>12 DEF S
<1> QED BY ONLY <1>2, <1>13 DEF KeptOf

-----------------------------------------------------------------------------
(* The state *)

Devices == [next : Nat, epoch : Nat, missed : Nat, nonce : Nat]

\* What a device counts stays a number.
LEMMA DeviceCounts ==
  ASSUME NEW s \in Devices, NEW n \in Nat, NEW m \in Nat
  PROVE  /\ [s EXCEPT !.next = n, !.missed = m] \in Devices
         /\ [s EXCEPT !.nonce = n, !.missed = m] \in Devices
         /\ [s EXCEPT !.next = 0, !.nonce = 0, !.epoch = n] \in Devices
BY DEF Devices

\* The engine's books are in order; so is what it will be given.
BooksInv ==
  /\ EngineOk(engine) /\ heard \in Seq(HeardFrames)
  /\ sent \in [Device -> Devices] /\ last \in [Device -> SUBSET HeardFrames] /\ now \in Nat

\* A frame that is heard or missed leaves a sequence of frames, and a count of those missed.
LEMMA HearingKeeps ==
  ASSUME heard \in Seq(HeardFrames), sent \in [Device -> Devices], now \in Nat,
         NEW d \in Device, NEW f \in HeardFrames, NEW things,
         Hears(f, things) \/ Misses(d, things)
  PROVE  heard' \in Seq(HeardFrames) /\ MissedNow(d) \in Nat
<1>1. ASSUME Hears(f, things) PROVE heard' \in Seq(HeardFrames)
  <2>1. PICK place \in Places :
          heard' = Append(heard, [f EXCEPT !.ts = now, !.ch = place.ch, !.rate = place.rate])
    BY <1>1, Zenon DEF Hears
  <2>2. place.ch \in Int /\ place.rate \in Int
    <3>1. Len(Channels) \in Nat /\ Rates \in Nat
      BY RulesAssumption
    <3> QED BY ONLY <3>1, place \in Places DEF Places
  <2>3. [f EXCEPT !.ts = now, !.ch = place.ch, !.rate = place.rate] \in HeardFrames
    BY ONLY <2>2, f \in HeardFrames, now \in Nat DEF HeardFrames
  <2> QED BY ONLY <2>1, <2>3, AppendProperties, heard \in Seq(HeardFrames)
<1>2. ASSUME Misses(d, things) PROVE heard' \in Seq(HeardFrames)
  BY <1>2 DEF Misses
<1>3. heard' \in Seq(HeardFrames)
  BY ONLY <1>1, <1>2, Hears(f, things) \/ Misses(d, things)
<1>4. sent[d].missed \in Nat
  <2>1. sent[d] \in Devices
    OBVIOUS
  <2> QED BY ONLY <2>1 DEF Devices
<1>5. MissedNow(d) \in Nat
  BY ONLY <1>4 DEF MissedNow
<1> QED BY ONLY <1>3, <1>5

\* A frame on the air.
LEMMA SendKeeps ==
  ASSUME BooksInv, NEW d \in Device, Send(d)
  PROVE  BooksInv'
<1>1. PICK c \in Cluster \cup {None} :
        LET s == sent[d]
            f == [dev |-> d, bytes |-> Alike(d, s.epoch, s.next, None),
                  fcnt |-> s.next % Width, nonce |-> None, cluster |-> c,
                  ts |-> now, ch |-> 1, rate |-> 1]
            things == {"frames"} \cup (IF c = None THEN {} ELSE {"tags"})
        IN  /\ Hears(f, things) \/ Misses(d, things)
            /\ sent' = [sent EXCEPT ![d].next = @ + 1, ![d].missed = MissedNow(d)]
            /\ last' = [last EXCEPT ![d] = {f}]
            /\ UNCHANGED <<engine, captures, now, resets, joined, swapped>>
  BY Zenon DEF Send
<1> DEFINE f == [dev |-> d, bytes |-> Alike(d, sent[d].epoch, sent[d].next, None),
                 fcnt |-> sent[d].next % Width, nonce |-> None, cluster |-> c,
                 ts |-> now, ch |-> 1, rate |-> 1]
           things == {"frames"} \cup (IF c = None THEN {} ELSE {"tags"})
<1>2. /\ EngineOk(engine) /\ heard \in Seq(HeardFrames) /\ sent \in [Device -> Devices]
      /\ last \in [Device -> SUBSET HeardFrames] /\ now \in Nat
  BY DEF BooksInv
<1>3. /\ Hears(f, things) \/ Misses(d, things)
      /\ sent' = [sent EXCEPT ![d].next = @ + 1, ![d].missed = MissedNow(d)]
      /\ last' = [last EXCEPT ![d] = {f}]
      /\ engine' = engine /\ now' = now
  BY ONLY <1>1
<1>4. f \in HeardFrames
  <2>1. sent[d] \in Devices
    BY <1>2
  <2>2. sent[d].epoch \in Nat /\ sent[d].next \in Nat
    BY ONLY <2>1 DEF Devices
  <2>3. Width \in Nat \ {0}
    BY RulesAssumption
  <2>4. sent[d].next % Width \in Int /\ None \in Int
    BY <2>2, <2>3 DEF None
  <2>5. Alike(d, sent[d].epoch, sent[d].next, None) \in FrameBytes
    BY ONLY <2>2, <2>4, d \in Device DEF Alike, FrameBytes
  <2> QED BY ONLY <1>2, <2>4, <2>5, d \in Device, c \in Cluster \cup {None} DEF HeardFrames
<1> HIDE DEF f, things
<1>5. heard' \in Seq(HeardFrames) /\ MissedNow(d) \in Nat
  BY ONLY <1>2, <1>3, <1>4, HearingKeeps, d \in Device
<1>6. last' \in [Device -> SUBSET HeardFrames]
  BY ONLY <1>2, <1>3, <1>4
<1>7. sent' \in [Device -> Devices]
  <2> DEFINE s == sent[d]
             n == s.next + 1
             m == MissedNow(d)
             x == [s EXCEPT !.next = n, !.missed = m]
  <2>1. s \in Devices
    BY <1>2
  <2>2. n \in Nat /\ m \in Nat
    <3>1. s.next \in Nat
      BY ONLY <2>1 DEF Devices
    <3> HIDE DEF s
    <3> QED BY ONLY <1>5, <3>1
  <2>3. x \in Devices
    BY ONLY <2>1, <2>2, DeviceCounts
  <2>4. sent' = [sent EXCEPT ![d] = x]
    BY ONLY <1>2, <1>3
  <2> HIDE DEF x
  <2> QED BY ONLY <1>2, <2>3, <2>4
<1>8. EngineOk(engine)'
  BY ONLY <1>2, <1>3
<1> QED BY ONLY <1>2, <1>3, <1>5, <1>6, <1>7, <1>8 DEF BooksInv

\* A join request.
LEMMA JoinKeeps ==
  ASSUME BooksInv, NEW d \in Device, Join(d)
  PROVE  BooksInv'
<1> DEFINE f == [dev |-> d, bytes |-> Alike(d, sent[d].epoch, 0, sent[d].nonce),
                 fcnt |-> None, nonce |-> sent[d].nonce, cluster |-> None,
                 ts |-> now, ch |-> 1, rate |-> 1]
<1>2. /\ EngineOk(engine) /\ heard \in Seq(HeardFrames) /\ sent \in [Device -> Devices]
      /\ last \in [Device -> SUBSET HeardFrames] /\ now \in Nat
  BY DEF BooksInv
<1>3. /\ Hears(f, {"joins"}) \/ Misses(d, {"joins"})
      /\ sent' = [sent EXCEPT ![d].nonce = @ + 1, ![d].missed = MissedNow(d)]
      /\ last' = [last EXCEPT ![d] = {f}]
      /\ engine' = engine /\ now' = now
  BY DEF Join
<1>4. f \in HeardFrames
  <2>1. sent[d] \in Devices
    BY <1>2
  <2>2. sent[d].epoch \in Nat /\ sent[d].nonce \in Nat
    BY ONLY <2>1 DEF Devices
  <2>3. None \in Int /\ sent[d].nonce \in Int
    BY <2>2 DEF None
  <2>4. Alike(d, sent[d].epoch, 0, sent[d].nonce) \in FrameBytes
    BY ONLY <2>2, <2>3, d \in Device DEF Alike, FrameBytes
  <2> QED BY ONLY <1>2, <2>3, <2>4, d \in Device DEF HeardFrames
<1> HIDE DEF f
<1>5. heard' \in Seq(HeardFrames) /\ MissedNow(d) \in Nat
  BY ONLY <1>2, <1>3, <1>4, HearingKeeps, d \in Device
<1>6. last' \in [Device -> SUBSET HeardFrames]
  BY ONLY <1>2, <1>3, <1>4
<1>7. sent' \in [Device -> Devices]
  <2> DEFINE s == sent[d]
             n == s.nonce + 1
             m == MissedNow(d)
             x == [s EXCEPT !.nonce = n, !.missed = m]
  <2>1. s \in Devices
    BY <1>2
  <2>2. n \in Nat /\ m \in Nat
    <3>1. s.nonce \in Nat
      BY ONLY <2>1 DEF Devices
    <3> HIDE DEF s
    <3> QED BY ONLY <1>5, <3>1
  <2>3. x \in Devices
    BY ONLY <2>1, <2>2, DeviceCounts
  <2>4. sent' = [sent EXCEPT ![d] = x]
    BY ONLY <1>2, <1>3
  <2> HIDE DEF x
  <2> QED BY ONLY <1>2, <2>3, <2>4
<1>8. EngineOk(engine)'
  BY ONLY <1>2, <1>3
<1> QED BY ONLY <1>2, <1>3, <1>5, <1>6, <1>7, <1>8 DEF BooksInv

\* A copy.
LEMMA RepeatKeeps ==
  ASSUME BooksInv, NEW d \in Device, Repeat(d)
  PROVE  BooksInv'
<1>1. PICK f \in last[d] :
        /\ Hears(f, {"copies"})
        /\ UNCHANGED <<engine, sent, last, captures, now, resets, swapped>>
  BY Zenon DEF Repeat
<1>2. /\ EngineOk(engine) /\ heard \in Seq(HeardFrames) /\ sent \in [Device -> Devices]
      /\ last \in [Device -> SUBSET HeardFrames] /\ now \in Nat
  BY DEF BooksInv
<1>3. f \in HeardFrames
  BY ONLY <1>1, <1>2, d \in Device
<1>4. heard' \in Seq(HeardFrames)
  BY ONLY <1>1, <1>2, <1>3, HearingKeeps, d \in Device
<1>5. EngineOk(engine)'
  BY ONLY <1>1, <1>2
<1> QED BY ONLY <1>1, <1>2, <1>4, <1>5 DEF BooksInv

\* A device restarts.
LEMMA ResetKeeps ==
  ASSUME BooksInv, NEW d \in Device, Reset(d)
  PROVE  BooksInv'
<1>1. PICK fresh \in {0, 1} :
        /\ sent' = [sent EXCEPT ![d].next = 0, ![d].nonce = 0, ![d].epoch = @ + fresh]
        /\ last' = [last EXCEPT ![d] = {}]
        /\ UNCHANGED <<engine, heard, captures, now, joined, swapped>>
  BY Zenon DEF Reset
<1>2. /\ EngineOk(engine) /\ heard \in Seq(HeardFrames) /\ sent \in [Device -> Devices]
      /\ last \in [Device -> SUBSET HeardFrames] /\ now \in Nat
  BY DEF BooksInv
<1>3. sent' \in [Device -> Devices]
  <2> DEFINE s == sent[d]
             n == s.epoch + fresh
             x == [s EXCEPT !.next = 0, !.nonce = 0, !.epoch = n]
  <2>1. s \in Devices
    BY <1>2
  <2>2. n \in Nat
    <3>1. s.epoch \in Nat
      BY ONLY <2>1 DEF Devices
    <3> HIDE DEF s
    <3> QED BY ONLY <3>1, fresh \in {0, 1}
  <2>3. x \in Devices
    BY ONLY <2>1, <2>2, DeviceCounts
  <2>4. sent' = [sent EXCEPT ![d] = x]
    BY ONLY <1>1, <1>2
  <2> HIDE DEF x
  <2> QED BY ONLY <1>2, <2>3, <2>4
<1>4. last' \in [Device -> SUBSET HeardFrames]
  BY ONLY <1>1, <1>2
<1>5. EngineOk(engine)' /\ heard' \in Seq(HeardFrames) /\ now' \in Nat
  BY ONLY <1>1, <1>2
<1> QED BY ONLY <1>3, <1>4, <1>5 DEF BooksInv

\* The operator acknowledges an incident.
LEMMA AcknowledgeKeeps ==
  ASSUME EngineOk(engine), NEW id, Acknowledge(id)
  PROVE  EngineOk(engine')
<1>1. PICK k \in DOMAIN engine.incidents :
        engine' = [engine EXCEPT !.incidents[k].open = FALSE]
  BY Zenon DEF Acknowledge
<1> DEFINE s == engine.incidents
           t == [s EXCEPT ![k] = [@ EXCEPT !.open = FALSE]]
<1>2. /\ s \in Seq(Findings) /\ OneOpenIn(s) /\ k \in DOMAIN s
      /\ DOMAIN engine = {"frames", "counters", "nonces", "rf", "joins", "floodUntil",
                          "incidents", "nextId"}
  BY DEF EngineOk, Books
<1>3. engine' = [engine EXCEPT !.incidents = t]
  BY ONLY <1>1, <1>2
<1> HIDE DEF s
<1>4. s[k] \in Findings
  BY <1>2
<1>5. /\ [s[k] EXCEPT !.open = FALSE] \in Findings
      /\ [s[k] EXCEPT !.open = FALSE].open = FALSE
  BY ONLY <1>4 DEF Findings
<1>6. t \in Seq(Findings) /\ DOMAIN t = DOMAIN s
  BY ONLY <1>2, <1>5
<1>7. \A j \in DOMAIN s : t[j] = IF j = k THEN [s[k] EXCEPT !.open = FALSE] ELSE s[j]
  BY ONLY <1>2
<1> HIDE DEF t
<1>8. OneOpenIn(t)
  <2>1. ~t[k].open
    BY ONLY <1>2, <1>5, <1>7
  <2>2. \A j \in DOMAIN s : j # k => t[j] = s[j]
    BY ONLY <1>7
  <2> QED BY ONLY <1>2, <1>6, <2>1, <2>2 DEF OneOpenIn
<1>9. Books(t)
  BY ONLY <1>6, <1>8 DEF Books
<1> QED BY ONLY <1>3, <1>9, FieldKeeps, EngineOk(engine)

\* The operator clears the closed incidents.
LEMMA ClearKeeps ==
  ASSUME EngineOk(engine), ClearClosed
  PROVE  EngineOk(engine')
<1>1. engine' = [engine EXCEPT !.incidents = OpenOnly(engine.incidents)]
  BY DEF ClearClosed
<1>2. Books(OpenOnly(engine.incidents))
  BY OpenOnlyKeeps DEF EngineOk
<1> QED BY ONLY <1>1, <1>2, FieldKeeps, EngineOk(engine)

\* The operator merges two clusters.
LEMMA RemapKeeps ==
  ASSUME EngineOk(engine), NEW from, NEW to, RemapCluster(from, to)
  PROVE  EngineOk(engine')
<1> DEFINE rf == [d \in DOMAIN engine.rf |-> Remap(engine.rf[d], from, to)]
<1>1. engine' = [engine EXCEPT !.rf = rf] /\ from # to
  BY DEF RemapCluster
<1>2. \A d \in DOMAIN engine.rf : TallyOk(engine.rf[d])
  BY DEF EngineOk, TalliesOk
<1>3. \A d \in DOMAIN engine.rf : TallyOk(Remap(engine.rf[d], from, to))
  BY <1>1, <1>2, TallyMerges
<1>4. TalliesOk(rf)
  BY ONLY <1>3 DEF TalliesOk
<1> HIDE DEF rf
<1> QED BY ONLY <1>1, <1>4, FieldKeeps, EngineOk(engine)

\* The invariant implies that the books add up.
LEMMA BooksFromInv ==
  ASSUME BooksInv
  PROVE  BooksAddUp
<1>1. OneOpenIn(engine.incidents) /\ TalliesOk(engine.rf)
  BY DEF BooksInv, EngineOk, Books
<1>2. OneOpenPerSubject
  BY ONLY <1>1 DEF OneOpenIn, OneOpenPerSubject
<1>3. \A d \in DOMAIN engine.rf : engine.rf[d].total = Total(engine.rf[d].clusters)
  BY ONLY <1>1 DEF TalliesOk, TallyOk
<1>4. TallyAddsUp
  BY ONLY <1>3 DEF TallyAddsUp, Total
<1> QED BY ONLY <1>2, <1>4 DEF BooksAddUp

\* It holds at the beginning.
LEMMA BooksInit ==
  ASSUME Init
  PROVE  BooksInv
<1>1. EngineOk(NewEngine)
  <2>1. /\ DOMAIN NewEngine = {"frames", "counters", "nonces", "rf", "joins", "floodUntil",
                               "incidents", "nextId"}
        /\ NewEngine.nextId \in Nat /\ NewEngine.incidents = <<>> /\ NewEngine.rf = <<>>
    BY DEF NewEngine
  <2>2. Books(<<>>)
    BY DEF Books, OneOpenIn
  <2>3. TalliesOk(<<>>)
    BY DEF TalliesOk
  <2> QED BY ONLY <2>1, <2>2, <2>3 DEF EngineOk
<1>2. engine = NewEngine /\ heard = <<>> /\ now = 0
  BY DEF Init
<1>3. sent \in [Device -> Devices]
  BY DEF Init, Devices
<1>4. last \in [Device -> SUBSET HeardFrames]
  BY DEF Init
<1>5. heard \in Seq(HeardFrames) /\ now \in Nat
  BY <1>2
<1> QED BY ONLY <1>1, <1>2, <1>3, <1>4, <1>5 DEF BooksInv

\* Every step keeps it.
LEMMA BooksNext ==
  ASSUME BooksInv, [Next]_vars
  PROVE  BooksInv'
<1>1. CASE \E d \in Device : Send(d) \/ Join(d) \/ Repeat(d) \/ Reset(d)
  BY <1>1, SendKeeps, JoinKeeps, RepeatKeeps, ResetKeeps
<1>2. CASE Tick
  BY <1>2 DEF Tick, BooksInv
<1>3. CASE EndCapture
  <2>1. EngineOk(engine) /\ heard \in Seq(HeardFrames)
    BY DEF BooksInv
  <2>2. EngineOk(CommitAll)
    BY ONLY <2>1, CommitAllKeeps
  <2>3. engine' = CommitAll /\ heard' = <<>> /\ sent' = sent /\ last' = last /\ now' = now
    BY <1>3 DEF EndCapture
  <2>4. EngineOk(engine')
    BY ONLY <2>2, <2>3
  <2>5. <<>> \in Seq(HeardFrames)
    OBVIOUS
  <2> QED BY ONLY <2>3, <2>4, <2>5, BooksInv DEF BooksInv
<1>4. ASSUME EngineOk(engine'), UNCHANGED <<sent, last, heard, now>>
      PROVE  BooksInv'
  BY ONLY <1>4, BooksInv DEF BooksInv
<1>5. EngineOk(engine)
  BY DEF BooksInv
<1>6. CASE \E i \in 1..(engine.nextId - 1) : Acknowledge(i)
  <2>1. PICK i \in 1..(engine.nextId - 1) : Acknowledge(i)
    BY <1>6
  <2>2. UNCHANGED <<sent, last, heard, now>>
    BY <2>1 DEF Acknowledge
  <2> QED BY <1>4, <1>5, <2>1, <2>2, AcknowledgeKeeps
<1>7. CASE ClearClosed
  <2>1. UNCHANGED <<sent, last, heard, now>>
    BY <1>7 DEF ClearClosed
  <2> QED BY <1>4, <1>5, <1>7, <2>1, ClearKeeps
<1>8. CASE \E c1, c2 \in Cluster : RemapCluster(c1, c2)
  <2>1. PICK c1 \in Cluster, c2 \in Cluster : RemapCluster(c1, c2)
    BY <1>8
  <2>2. UNCHANGED <<sent, last, heard, now>>
    BY <2>1 DEF RemapCluster
  <2> QED BY <1>4, <1>5, <2>1, <2>2, RemapKeeps
<1>9. CASE UNCHANGED vars
  BY <1>9 DEF vars, BooksInv
<1> QED BY ONLY <1>1, <1>2, <1>3, <1>6, <1>7, <1>8, <1>9, [Next]_vars DEF Next

\* One incident is open for a rule and a subject at most, and every device's tally of
\* clusters adds up to the frames tallied, for any devices, channels and limits, however
\* incidents are acknowledged and cleared and clusters merged while captures end.
THEOREM BooksAddUpHolds == Spec => []BooksAddUp
<1>1. Init => BooksInv
  BY BooksInit
<1>2. BooksInv /\ [Next]_vars => BooksInv'
  BY BooksNext
<1>3. BooksInv => BooksAddUp
  BY BooksFromInv
<1> QED BY <1>1, <1>2, <1>3, PTL DEF Spec
=============================================================================
