--------------------------- MODULE ScannerProofs ---------------------------
(***************************************************************************)
(* Theorems about the scan thread: in the band modes (Scanner), for any    *)
(* plans, any number of captures of a step and any thresholds and bounds,  *)
(* and in the coordinated mode (Coordinated), for any schedules and bounds. *)
(*                                                                         *)
(* The records of a run are at all times in three places: those submitted, *)
(* those of the jobs the lane still has, and those of the step the scan    *)
(* thread is in; put together in that order they are the records in the    *)
(* order they have without a lane.  At most two jobs are in the lane, the  *)
(* steps and the marker of one cycle.  Outside Wi-Fi cycles it is idle.    *)
(*                                                                         *)
(* Of the coordinated mode: a slot remembers every centre its cursor went  *)
(* by in the last cycles, the one under way included; and what sub-GHz     *)
(* visits find goes through lane, finds and registry in the order of the   *)
(* cycles, the last visit of a cycle being the one that commits it.        *)
(***************************************************************************)
EXTENDS Scanner, Coordinated, Iteration, SequenceTheorems, TLAPS

\* The captures of a job are numbers; a job without a marker shows no count.
LaneJobs == [empties : Seq(Int), fulls : Seq(Int), marker : Nat, upTo : Nat]

Spents == [steps : Nat, listens : Nat, modes : Nat, runs : Nat, saves : Nat]

ControlTypes ==
  pending \in Nat /\ count \in Nat /\ spent \in Spents

LaneTypes ==
  /\ laneOn \in BOOLEAN /\ phase \in {"open", "closing", "stopped"}
  /\ accepted \in Seq(LaneJobs) /\ started \in Seq(LaneJobs) /\ completed \in Nat

RecordTypes ==
  /\ taken \in Nat /\ held \in BOOLEAN
  /\ empties \in Seq(Int) /\ fulls \in Seq(Int)
  /\ submitted \in Seq(Int) /\ inOrder \in Seq(Int)
  /\ published \in [count : Nat, upTo : Nat]

LoraTypes == committed \in Seq(Nat) /\ detections \in Seq(Nat)

-----------------------------------------------------------------------------
(* The lane *)

Idle == Len(accepted) = completed

\* The jobs start in the order they were accepted, one at a time.
LaneOrder ==
  /\ completed <= Len(started) /\ Len(started) <= completed + 1
  /\ Len(started) <= Len(accepted) /\ Len(accepted) <= completed + 2
  /\ \A i \in 1..Len(started) : started[i] = accepted[i]
  /\ ~laneOn \/ phase = "stopped" => Idle

-----------------------------------------------------------------------------
(* The LoRa captures *)

\* The task is there while a capture is processed; a request to save that was
\* taken is answered by the decoding that follows.
Saves ==
  /\ task = "none" <=> pending = 0
  /\ saving => task = "decode"
  /\ SaveServed
  /\ pc \in {"listen", "process"} => spent.listens > 0

\* Where the scan thread is tells which band it is on and what is under way.
Underway ==
  /\ pc \in {"listen", "process", "await"} => band = "sub"
  /\ band \notin WiFiBand /\ pc # "settle" => Idle
  /\ pending # 0 \/ pc = "coordinated" => Idle
  /\ pc \in {"coordinated", "closing", "leave", "off", "connect"} => pending = 0
  /\ band # "sub" /\ pc \in {"step", "capture", "close_lane", "record", "hand_over", "commit",
                             "publish"} => pending = 0
  /\ pc \in {"off", "connect", "leave"} => ~laneOn
  /\ ~monitorOn => pc = "off"

\* The captures known of, in the order they were or will be committed.
KnownOf(c, d, p) == c \o d \o (IF p = 0 THEN <<>> ELSE <<p>>)
Known == KnownOf(committed, detections, pending)
Taking == IF pc \in {"listen", "process"} THEN 1 ELSE 0
OneTo(n) == [k \in 1..n |-> k]

LoraKnown ==
  /\ pc \notin {"await", "commit"} => detections = <<>>
  /\ Known = OneTo(spent.listens - Taking)

-----------------------------------------------------------------------------
(* The records *)

InStep == pc \in {"capture", "close_lane", "record", "hand_over"}

\* The records of the step the scan thread is in.
Here ==
  IF ~InStep \/ band = "sub" THEN <<>>
  ELSE IF pc = "hand_over" THEN empties \o fulls ELSE empties

RecordsOf(j) == j.empties \o j.fulls

\* The records of the jobs that wait in a lane.
TodoOf(jobs, done) ==
  IF Len(jobs) = done THEN <<>>
  ELSE IF Len(jobs) = done + 1 THEN RecordsOf(jobs[done + 1])
       ELSE RecordsOf(jobs[done + 1]) \o RecordsOf(jobs[done + 2])
Todo == TodoOf(accepted, completed)

\* A marker in the lane counts records up to its own place in it.
MarkersTrue(sent, jobs, done) ==
  /\ Len(jobs) >= done + 1 =>
       jobs[done + 1].upTo <= Len(sent) + Len(RecordsOf(jobs[done + 1]))
  /\ Len(jobs) = done + 2 =>
       jobs[done + 2].upTo <= Len(sent) + Len(RecordsOf(jobs[done + 1]))
                                           + Len(RecordsOf(jobs[done + 2]))

InPlaces ==
  /\ inOrder = (submitted \o Todo) \o Here
  /\ InStep /\ ~LaneStep => empties = <<>>
  /\ pc = "close_lane" => LaneStep
  /\ pc \in {"capture", "close_lane", "record"} => taken < SubCaptures

Counted ==
  /\ published.upTo <= Len(submitted)
  /\ MarkersTrue(submitted, accepted, completed)

IInv ==
  /\ ControlTypes /\ LaneTypes /\ RecordTypes /\ LoraTypes
  /\ LaneOrder /\ Saves /\ Underway /\ LoraKnown /\ InPlaces /\ Counted

-----------------------------------------------------------------------------
(* Types *)

\* Sequences made from sequences.
LEMMA AppendTypes ==
  ASSUME NEW S, NEW q \in Seq(S), NEW x \in S
  PROVE  Append(q, x) \in Seq(S) /\ <<x>> \in Seq(S)
BY AppendProperties

\* And one put behind the other.
LEMMA ConcatTypes ==
  ASSUME NEW S, NEW a \in Seq(S), NEW b \in Seq(S)
  PROVE  a \o b \in Seq(S)
BY ConcatProperties

\* What is spent is spent once.
LEMMA SpendOnce ==
  ASSUME spent \in Spents, NEW w \in {"steps", "listens", "modes", "runs", "saves"}, Spend(w)
  PROVE  /\ spent' \in Spents
         /\ spent'.listens = spent.listens + (IF w = "listens" THEN 1 ELSE 0)
<1>1. spent' = [spent EXCEPT ![w] = @ + 1]
  BY DEF Spend
<1>2. CASE w = "listens"
  <2>1. spent' = [spent EXCEPT !.listens = @ + 1]
    BY <1>1, <1>2
  <2> QED BY <1>2, <2>1 DEF Spents
<1>3. CASE w = "steps"
  <2>1. spent' = [spent EXCEPT !.steps = @ + 1]
    BY <1>1, <1>3
  <2> QED BY <1>3, <2>1 DEF Spents
<1>4. CASE w = "modes"
  <2>1. spent' = [spent EXCEPT !.modes = @ + 1]
    BY <1>1, <1>4
  <2> QED BY <1>4, <2>1 DEF Spents
<1>5. CASE w = "runs"
  <2>1. spent' = [spent EXCEPT !.runs = @ + 1]
    BY <1>1, <1>5
  <2> QED BY <1>5, <2>1 DEF Spents
<1>6. CASE w = "saves"
  <2>1. spent' = [spent EXCEPT !.saves = @ + 1]
    BY <1>1, <1>6
  <2> QED BY <1>6, <2>1 DEF Spents
<1> QED BY <1>2, <1>3, <1>4, <1>5, <1>6

\* The budgets are spent by the steps, the listens and the operator.
LEMMA SpentKept ==
  ASSUME spent \in Spents, [Next]_vars
  PROVE  /\ spent' \in Spents
         /\ \/ spent'.listens = spent.listens
            \/ EndSteps /\ pc' = "listen" /\ spent'.listens = spent.listens + 1
<1> USE DEF control, stepVars, cycle, lane, lora, radio, save, records
<1>1. CASE Start \/ (\E m \in Mode : SetActiveBand(m)) \/ RequestSave \/ BeginStep
  <2>1. PICK w \in {"steps", "modes", "runs", "saves"} : Spend(w)
    BY <1>1 DEF Start, SetActiveBand, RequestSave, BeginStep
  <2>2. spent' \in Spents /\ spent'.listens = spent.listens + 0
    BY <2>1, SpendOnce
  <2> QED BY <2>2 DEF Spents
<1>2. CASE EndSteps
  <2>1. CASE spent' = spent
    BY <2>1
  <2>2. CASE Spend("listens") /\ pc' = "listen"
    BY <1>2, <2>2, SpendOnce
  <2> QED BY <1>2, <2>1, <2>2 DEF EndSteps
<1>3. CASE \/ Connect \/ BeginCycle \/ Settle \/ BeginCoordinated \/ LeaveCoordinated
           \/ LaneClosed \/ Record \/ HandOver \/ Process \/ Await \/ Commit \/ EndCycle
           \/ Reconnect \/ LeaveLoop \/ Leave
  BY <1>3 DEF Connect, BeginCycle, Settle, BeginCoordinated, LeaveCoordinated, LaneClosed,
              Record, HandOver, Process, Await, Commit, EndCycle, Reconnect, LeaveLoop, Leave
<1>4. CASE \/ \E got, fits \in BOOLEAN : Capture(got, fits)
           \/ \E got \in BOOLEAN : Listen(got)
           \/ LoraTask \/ LaneThread \/ StopCall \/ StopReturn \/ UNCHANGED vars
  BY <1>4 DEF Capture, Listen, LoraTask, TakeRequest, Decode, LaneThread, LaneStart,
              RunWifiLaneJob, LaneStop, StopCall, StopReturn, vars
<1> QED BY <1>1, <1>2, <1>3, <1>4 DEF Next, ScanThread, Operator

\* The capture being processed is the last one listened to.
LEMMA PendingKept == [Next]_vars => pending' \in {0, pending, spent.listens}
<1> SUFFICES ASSUME [Next]_vars PROVE pending' \in {0, pending, spent.listens}
  OBVIOUS
<1> USE DEF lora
<1>1. CASE Connect \/ BeginCycle \/ Settle \/ BeginCoordinated \/ LeaveCoordinated
  BY <1>1 DEF Connect, BeginCycle, Settle, BeginCoordinated, LeaveCoordinated, Drain
<1>2. CASE BeginStep \/ LaneClosed \/ Record \/ HandOver \/ EndSteps
  BY <1>2 DEF BeginStep, LaneClosed, Record, HandOver, EndSteps
<1>3. CASE Process \/ Await \/ Commit \/ EndCycle \/ Reconnect \/ LeaveLoop \/ Leave
  BY <1>3 DEF Process, Await, Commit, EndCycle, Reconnect, LeaveLoop, Leave, Drain
<1>4. ASSUME NEW got \in BOOLEAN, NEW fits \in BOOLEAN, Capture(got, fits) \/ Listen(got)
      PROVE  pending' = pending
  BY <1>4 DEF Capture, Listen
<1>5. CASE LoraTask \/ LaneThread \/ Operator \/ UNCHANGED vars
  BY <1>5 DEF LoraTask, TakeRequest, Decode, LaneThread, LaneStart, RunWifiLaneJob, LaneStop,
              Operator, Start, StopCall, StopReturn, RequestSave, SetActiveBand, vars
<1> QED BY <1>1, <1>2, <1>3, <1>4, <1>5 DEF Next, ScanThread

\* The cycles counted.
LEMMA CountKept == [Next]_vars => count' \in {0, count, count + 1}
<1> SUFFICES ASSUME [Next]_vars PROVE count' \in {0, count, count + 1}
  OBVIOUS
<1> USE DEF cycle
<1>1. CASE Connect \/ BeginCycle \/ Settle \/ BeginCoordinated \/ LeaveCoordinated
  BY <1>1 DEF Connect, BeginCycle, Settle, BeginCoordinated, LeaveCoordinated
<1>2. CASE BeginStep \/ LaneClosed \/ Record \/ HandOver \/ EndSteps
  BY <1>2 DEF BeginStep, LaneClosed, Record, HandOver, EndSteps
<1>3. CASE Process \/ Await \/ Commit \/ EndCycle \/ Reconnect \/ LeaveLoop \/ Leave
  BY <1>3 DEF Process, Await, Commit, EndCycle, Reconnect, LeaveLoop, Leave
<1>4. ASSUME NEW got \in BOOLEAN, NEW fits \in BOOLEAN, Capture(got, fits) \/ Listen(got)
      PROVE  count' = count
  BY <1>4 DEF Capture, Listen
<1>5. CASE LoraTask \/ LaneThread \/ Operator \/ UNCHANGED vars
  BY <1>5 DEF LoraTask, TakeRequest, Decode, LaneThread, LaneStart, RunWifiLaneJob, LaneStop,
              Operator, Start, StopCall, StopReturn, RequestSave, SetActiveBand, vars
<1> QED BY <1>1, <1>2, <1>3, <1>4, <1>5 DEF Next, ScanThread

\* The numbers stay numbers.
LEMMA ControlTypesKept == ControlTypes /\ [Next]_vars => ControlTypes'
<1> SUFFICES ASSUME ControlTypes, [Next]_vars PROVE ControlTypes'
  OBVIOUS
<1>1. spent' \in Spents /\ spent.listens \in Nat /\ pending \in Nat /\ count \in Nat
  BY SpentKept DEF ControlTypes, Spents
<1> QED BY <1>1, PendingKept, CountKept DEF ControlTypes

\* What is committed and what is detected stay sequences of captures.
LEMMA LoraTypesKept == ControlTypes /\ LoraTypes /\ [Next]_vars => LoraTypes'
<1> SUFFICES ASSUME ControlTypes, LoraTypes, [Next]_vars PROVE LoraTypes'
  OBVIOUS
<1>1. pending \in Nat
  BY DEF ControlTypes
<1> USE <1>1, EmptySeq, AppendProperties
    DEF LoraTypes, control, stepVars, cycle, lane, lora, radio, save, records
<1>2. CASE Drain
  BY <1>2 DEF Drain
<1>3. CASE Process \/ Await
  <2>1. detections' \in {detections, Append(detections, pending)} /\ committed' = committed
    BY ONLY <1>3 DEF Process, Await
  <2> DEFINE d == Append(detections, pending)
  <2>2. d \in Seq(Nat)
    BY AppendTypes
  <2>3. detections' \in {detections, d}
    BY ONLY <2>1
  <2> HIDE DEF d
  <2> QED BY <2>1, <2>2, <2>3
<1>4. CASE Commit
  <2>1. committed \o detections \in Seq(Nat)
    BY ConcatProperties
  <2> QED BY <1>4, <2>1 DEF Commit
<1>5. CASE UNCHANGED <<detections, committed>>
  BY <1>5
<1>6. CASE \/ Connect \/ BeginCycle \/ Settle \/ BeginCoordinated \/ LeaveCoordinated
           \/ BeginStep \/ LaneClosed \/ Record \/ HandOver \/ EndSteps
  BY <1>2, <1>5, <1>6 DEF Connect, BeginCycle, Settle, BeginCoordinated, LeaveCoordinated,
                          BeginStep, LaneClosed, Record, HandOver, EndSteps
<1>7. CASE \/ EndCycle \/ Reconnect \/ LeaveLoop \/ Leave
           \/ (\E got, fits \in BOOLEAN : Capture(got, fits))
           \/ \E got \in BOOLEAN : Listen(got)
  BY <1>2, <1>5, <1>7 DEF EndCycle, Reconnect, LeaveLoop, Leave, Capture, Listen
<1>8. CASE LoraTask \/ LaneThread \/ Operator \/ UNCHANGED vars
  BY <1>5, <1>8 DEF LoraTask, TakeRequest, Decode, LaneThread, LaneStart, RunWifiLaneJob, LaneStop,
                    Operator, Start, StopCall, StopReturn, RequestSave, SetActiveBand, vars
<1> QED BY <1>3, <1>4, <1>6, <1>7, <1>8 DEF Next, ScanThread

\* The records of a step have their types.
LEMMA RecordTypesKept ==
  ControlTypes /\ LaneTypes /\ RecordTypes /\ LaneOrder /\ [Next]_vars => RecordTypes'
<1> SUFFICES ASSUME ControlTypes, LaneTypes, RecordTypes, LaneOrder, [Next]_vars
             PROVE  RecordTypes'
  OBVIOUS
<1> USE DEF stepVars, records
<1>1. CASE Record
  <2>1. Seqno \in Int
    <3>1. spent.steps \in Int /\ SubCaptures \in Int /\ taken \in Int
      BY ScannerAssumption DEF ControlTypes, Spents, RecordTypes
    <3>2. (spent.steps - 1) * SubCaptures \in Int
      BY ONLY <3>1
    <3> QED BY ONLY <3>1, <3>2 DEF Seqno
  <2> DEFINE n == Seqno
  <2>9. n \in Int
    BY <2>1
  <2>2. /\ empties' \in {empties, Append(empties, n)}
        /\ fulls' \in {fulls, Append(fulls, 0), Append(fulls, n)}
        /\ submitted' \in {submitted, Append(submitted, n)}
        /\ held' = held /\ published' = published /\ taken' = taken + 1
    BY ONLY <1>1 DEF Record, stepVars, records
  <2> DEFINE A == IF band # "sub" /\ ~held THEN <<n>> ELSE <<>>
             B == IF band # "sub" /\ taken' = SubCaptures THEN fulls' ELSE <<>>
             En == Append(empties, n)
             F0 == Append(fulls, 0)
             Fn == Append(fulls, n)
             Sn == Append(submitted, n)
  <2>3. inOrder' = (inOrder \o A) \o B
    BY ONLY <1>1 DEF Record, stepVars, records
  <2>4. /\ empties' \in {empties, En} /\ fulls' \in {fulls, F0, Fn}
        /\ submitted' \in {submitted, Sn}
    BY ONLY <2>2
  <2> HIDE DEF n
  <2>5. /\ En \in Seq(Int) /\ F0 \in Seq(Int) /\ Fn \in Seq(Int) /\ Sn \in Seq(Int)
        /\ <<n>> \in Seq(Int)
    <3>1. /\ n \in Int /\ 0 \in Int
          /\ empties \in Seq(Int) /\ fulls \in Seq(Int) /\ submitted \in Seq(Int)
      BY ONLY <2>9, RecordTypes DEF RecordTypes
    <3>2. En \in Seq(Int) /\ <<n>> \in Seq(Int)
      BY ONLY <3>1, AppendTypes
    <3>3. F0 \in Seq(Int)
      BY ONLY <3>1, AppendTypes
    <3>4. Fn \in Seq(Int)
      BY ONLY <3>1, AppendTypes
    <3>5. Sn \in Seq(Int)
      BY ONLY <3>1, AppendTypes
    <3> QED BY ONLY <3>2, <3>3, <3>4, <3>5
  <2> HIDE DEF En, F0, Fn, Sn
  <2>6. fulls' \in Seq(Int) /\ empties' \in Seq(Int) /\ submitted' \in Seq(Int)
    BY <2>4, <2>5 DEF RecordTypes
  <2>7. A \in Seq(Int) /\ B \in Seq(Int)
    BY <2>5, <2>6, EmptySeq
  <2> HIDE DEF A, B
  <2>8. inOrder' \in Seq(Int)
    BY <2>3, <2>7, ConcatTypes DEF RecordTypes
  <2> QED BY <2>2, <2>6, <2>8 DEF RecordTypes
<1>2. CASE RunWifiLaneJob
  <2> DEFINE j == started[Len(started)]
  <2>1. j \in LaneJobs
    BY <1>2, LenProperties, ElementOfSeq DEF RunWifiLaneJob, Lane!Complete, LaneTypes
  <2>2. /\ submitted' = submitted \o j.empties \o j.fulls
        /\ published' \in {published, [count |-> j.marker, upTo |-> j.upTo]}
        /\ UNCHANGED <<taken, held, empties, fulls, inOrder>>
    BY <1>2 DEF RunWifiLaneJob
  <2> HIDE DEF j
  <2>3. submitted' \in Seq(Int)
    BY <2>1, <2>2, ConcatProperties DEF RecordTypes, LaneJobs
  <2> QED BY <2>1, <2>2, <2>3 DEF RecordTypes, LaneJobs
<1>3. CASE BeginStep \/ LaneClosed \/ HandOver
  <2>1. /\ taken' \in {0, taken} /\ held' = held
        /\ empties' \in {<<>>, empties} /\ fulls' \in {<<>>, fulls}
        /\ submitted' \in {submitted, submitted \o empties, submitted \o fulls}
        /\ inOrder' = inOrder /\ published' = published
    BY ONLY <1>3 DEF BeginStep, LaneClosed, HandOver, stepVars, records
  <2> DEFINE E == submitted \o empties
             F == submitted \o fulls
  <2>2. E \in Seq(Int) /\ F \in Seq(Int)
    BY ConcatTypes DEF RecordTypes
  <2>3. submitted' \in {submitted, E, F}
    BY ONLY <2>1
  <2> HIDE DEF E, F
  <2>4. submitted' \in Seq(Int)
    BY <2>2, <2>3 DEF RecordTypes
  <2>5. empties' \in Seq(Int) /\ fulls' \in Seq(Int)
    <3>1. <<>> \in Seq(Int) /\ empties \in Seq(Int) /\ fulls \in Seq(Int)
      BY ONLY RecordTypes DEF RecordTypes
    <3>2. empties' \in {<<>>, empties} /\ fulls' \in {<<>>, fulls}
      BY ONLY <2>1
    <3> QED BY ONLY <3>1, <3>2
  <2>6. taken' \in Nat
    BY ONLY <2>1, RecordTypes DEF RecordTypes
  <2>7. UNCHANGED <<held, inOrder, published>>
    BY ONLY <2>1
  <2> QED BY ONLY <2>4, <2>5, <2>6, <2>7, RecordTypes DEF RecordTypes
<1>4. CASE EndCycle \/ BeginCoordinated
  <2>1. /\ UNCHANGED <<taken, held, empties, fulls, submitted, inOrder>>
        /\ published' \in {published, Taken, [published EXCEPT !.count = 0]}
    BY ONLY <1>4 DEF EndCycle, Publish, BeginCoordinated, stepVars, records
  <2>2. Taken \in [count : Nat, upTo : Nat]
    BY LenProperties DEF Taken, ControlTypes, RecordTypes
  <2>3. [published EXCEPT !.count = 0] \in [count : Nat, upTo : Nat]
    BY DEF RecordTypes
  <2> HIDE DEF Taken
  <2> QED BY ONLY <2>1, <2>2, <2>3, RecordTypes DEF RecordTypes
<1>5. CASE Connect \/ BeginCycle \/ Settle \/ LeaveCoordinated \/ EndSteps
  BY <1>5 DEF Connect, BeginCycle, Settle, LeaveCoordinated, EndSteps, RecordTypes
<1>6. CASE Process \/ Await \/ Commit \/ Reconnect \/ LeaveLoop \/ Leave
  BY <1>6 DEF Process, Await, Commit, Reconnect, LeaveLoop, Leave, RecordTypes
<1>7. ASSUME NEW got \in BOOLEAN, NEW fits \in BOOLEAN, Capture(got, fits) \/ Listen(got)
      PROVE  RecordTypes'
  BY <1>7 DEF Capture, Listen, RecordTypes
<1>8. CASE LoraTask \/ LaneStart \/ LaneStop
  BY <1>8 DEF LoraTask, TakeRequest, Decode, LaneStart, LaneStop, RecordTypes
<1>9. CASE Operator \/ UNCHANGED vars
  BY <1>9 DEF Operator, Start, StopCall, StopReturn, RequestSave, SetActiveBand, vars, RecordTypes
<1> QED BY <1>1, <1>2, <1>3, <1>4, <1>5, <1>6, <1>7, <1>8, <1>9 DEF Next, ScanThread, LaneThread

\* The steps that leave the lane as it is, and the lane there or not.
LEMMA LaneUntouched ==
  ASSUME \/ BeginCycle \/ Settle \/ BeginCoordinated \/ LeaveCoordinated \/ BeginStep
         \/ Record \/ EndSteps \/ Process \/ Await \/ Commit \/ Reconnect
         \/ (\E got \in BOOLEAN : Listen(got)) \/ LoraTask \/ Operator \/ UNCHANGED vars
  PROVE  UNCHANGED <<laneOn, accepted, started, completed, phase>>
<1>1. CASE BeginCycle \/ Settle \/ BeginCoordinated \/ LeaveCoordinated \/ BeginStep
  BY <1>1 DEF BeginCycle, Settle, BeginCoordinated, LeaveCoordinated, BeginStep, lane
<1>2. CASE Record \/ EndSteps \/ Process \/ Await \/ Commit \/ Reconnect
  BY <1>2 DEF Record, EndSteps, Process, Await, Commit, Reconnect, lane
<1>3. CASE (\E got \in BOOLEAN : Listen(got)) \/ LoraTask \/ Operator \/ UNCHANGED vars
  BY <1>3 DEF Listen, LoraTask, TakeRequest, Decode, Operator, Start, StopCall, StopReturn,
              RequestSave, SetActiveBand, vars, lane
<1> QED BY <1>1, <1>2, <1>3

\* What is handed to the lane.
LEMMA JobTypes ==
  ASSUME ControlTypes, RecordTypes
  PROVE  /\ Job(empties, fulls, 0, 0) \in LaneJobs
         /\ Job(<<>>, <<>>, count, Len(inOrder)) \in LaneJobs
<1>1. <<>> \in Seq(Int) /\ empties \in Seq(Int) /\ fulls \in Seq(Int)
  BY DEF RecordTypes
<1>2. count \in Nat /\ Len(inOrder) \in Nat
  BY LenProperties DEF RecordTypes, ControlTypes
<1> QED BY ONLY <1>1, <1>2 DEF Job, LaneJobs

\* The steps that do something with the lane: what they do.
LEMMA LaneSteps ==
  ASSUME [Next]_vars
  PROVE  \/ UNCHANGED <<laneOn, accepted, started, completed, phase>>
         \/ /\ Connect /\ accepted' = <<>> /\ started' = <<>> /\ completed' = 0
            /\ phase' = "open" /\ laneOn' \in BOOLEAN
         \/ /\ laneOn /\ phase = "open" /\ phase' = "closing"
            /\ UNCHANGED <<laneOn, accepted, started, completed>>
         \/ /\ \/ LaneClosed \/ Leave
            /\ phase = "stopped" \/ pc = "leave"
            /\ laneOn' = FALSE /\ UNCHANGED <<accepted, started, completed, phase>>
         \/ /\ laneOn /\ phase = "open"
            /\ \E j \in {Job(empties, fulls, 0, 0), Job(<<>>, <<>>, count, Len(inOrder))} :
                 accepted' = Append(accepted, j)
            /\ Outstanding < 1 \/ Outstanding < 2
            /\ UNCHANGED <<laneOn, started, completed, phase>>
         \/ /\ Lane!Start \/ Lane!Complete \/ Lane!Stop
            /\ UNCHANGED laneOn
<1> USE DEF lane
<1>1. CASE Connect
  BY <1>1 DEF Connect
<1>2. CASE LaneClosed \/ Leave
  BY <1>2 DEF LaneClosed, Leave, LaneGone
<1>3. CASE HandOver
  <2>1. CASE LaneStep
    <3>1. Outstanding < 1 /\ Lane!Accept(Job(empties, fulls, 0, 0)) /\ laneOn' = laneOn
      BY <1>3, <2>1 DEF HandOver
    <3> QED BY <2>1, <3>1 DEF Lane!Accept, LaneStep
  <2>2. CASE ~LaneStep
    BY <1>3, <2>2 DEF HandOver
  <2> QED BY <2>1, <2>2
<1>4. CASE EndCycle
  <2>1. CASE LaneStep
    <3>1. Outstanding < 2 /\ Lane!Accept(Job(<<>>, <<>>, count, Len(inOrder))) /\ laneOn' = laneOn
      BY <1>4, <2>1 DEF EndCycle, Publish
    <3> QED BY <2>1, <3>1 DEF Lane!Accept, LaneStep
  <2>2. CASE ~LaneStep
    BY <1>4, <2>2 DEF EndCycle, Publish
  <2> QED BY <2>1, <2>2
<1>5. ASSUME NEW got \in BOOLEAN, NEW fits \in BOOLEAN, Capture(got, fits)
      PROVE  \/ UNCHANGED <<laneOn, accepted, started, completed, phase>>
             \/ /\ laneOn /\ phase = "open" /\ phase' = "closing"
                /\ UNCHANGED <<laneOn, accepted, started, completed>>
  BY <1>5 DEF Capture, Lane!Close, LaneStep
<1>6. CASE LeaveLoop
  <2>1. laneOn' = laneOn /\ (IF laneOn THEN Lane!Close ELSE UNCHANGED lane)
    BY <1>6 DEF LeaveLoop
  <2>2. CASE laneOn
    BY <2>1, <2>2 DEF Lane!Close
  <2>3. CASE ~laneOn
    BY <2>1, <2>3
  <2> QED BY <2>2, <2>3
<1>7. CASE LaneThread
  BY <1>7 DEF LaneThread, LaneStart, RunWifiLaneJob, LaneStop
<1> QED BY <1>1, <1>2, <1>3, <1>4, <1>5, <1>6, <1>7, LaneUntouched DEF Next, ScanThread

\* What is in the lane stays a sequence of jobs.
LEMMA LaneTypesKept ==
  ControlTypes /\ LaneTypes /\ RecordTypes /\ LaneOrder /\ [Next]_vars => LaneTypes'
<1> SUFFICES ASSUME ControlTypes, LaneTypes, RecordTypes, LaneOrder, [Next]_vars
             PROVE  LaneTypes'
  OBVIOUS
<1>1. CASE \E j \in {Job(empties, fulls, 0, 0), Job(<<>>, <<>>, count, Len(inOrder))} :
             /\ accepted' = Append(accepted, j)
             /\ UNCHANGED <<laneOn, started, completed, phase>>
  <2>1. PICK j \in LaneJobs : accepted' = Append(accepted, j)
    BY <1>1, JobTypes
  <2> QED BY <1>1, <2>1, AppendTypes DEF LaneTypes
<1>2. CASE Lane!Start /\ UNCHANGED laneOn
  <2>1. Len(started) \in Nat /\ Len(accepted) \in Nat
    BY LenProperties DEF LaneTypes
  <2>2. accepted[Len(started) + 1] \in LaneJobs
    BY <1>2, <2>1, ElementOfSeq DEF LaneTypes, Lane!Start
  <2> QED BY <1>2, <2>2, AppendTypes DEF LaneTypes, Lane!Start
<1>3. CASE (Lane!Complete \/ Lane!Stop) /\ UNCHANGED laneOn
  BY <1>3 DEF LaneTypes, Lane!Complete, Lane!Stop
<1>4. CASE Connect /\ accepted' = <<>> /\ started' = <<>> /\ completed' = 0
           /\ phase' = "open" /\ laneOn' \in BOOLEAN
  BY <1>4 DEF LaneTypes
<1>5. CASE UNCHANGED <<accepted, started, completed>> /\ phase' \in {phase, "closing"}
           /\ laneOn' \in {laneOn, FALSE}
  BY <1>5 DEF LaneTypes
<1> QED BY LaneSteps, <1>1, <1>2, <1>3, <1>4, <1>5

\* The lane takes its jobs in order, and has no more than two of them.
LEMMA LaneOrderKept ==
  /\ ControlTypes /\ LaneTypes /\ RecordTypes /\ LaneOrder /\ Underway /\ [Next]_vars
  => LaneOrder'
<1> SUFFICES ASSUME ControlTypes, LaneTypes, RecordTypes, LaneOrder, Underway, [Next]_vars
             PROVE  LaneOrder'
  OBVIOUS
<1>1. /\ Len(started) \in Nat /\ Len(accepted) \in Nat /\ completed \in Nat
      /\ accepted \in Seq(LaneJobs) /\ started \in Seq(LaneJobs)
  BY LenProperties DEF LaneTypes
<1>2. ASSUME laneOn, phase = "open", Outstanding < 1 \/ Outstanding < 2,
             UNCHANGED <<laneOn, started, completed, phase>>,
             NEW j \in LaneJobs, accepted' = Append(accepted, j)
      PROVE  LaneOrder'
  <2>1. /\ Len(accepted') = Len(accepted) + 1
        /\ \A i \in 1..Len(accepted) : accepted'[i] = accepted[i]
    BY <1>1, <1>2, AppendProperties
  <2> QED BY <1>1, <1>2, <2>1 DEF LaneOrder, Idle, Outstanding
<1>3. CASE Lane!Start /\ UNCHANGED laneOn
  <2> DEFINE a == accepted[Len(started) + 1]
  <2>1. /\ completed = Len(started) /\ Len(started) < Len(accepted)
        /\ started' = Append(started, a)
        /\ UNCHANGED <<laneOn, accepted, completed, phase>>
    BY <1>3 DEF Lane!Start
  <2>2. a \in LaneJobs
    BY <1>1, <2>1, ElementOfSeq
  <2>3. a = accepted[Len(started) + 1]
    OBVIOUS
  <2> HIDE DEF a
  <2>4. /\ Len(started') = Len(started) + 1 /\ started'[Len(started) + 1] = a
        /\ \A i \in 1..Len(started) : started'[i] = started[i]
    BY <1>1, <2>1, <2>2, AppendProperties
  <2> QED BY <1>1, <2>1, <2>3, <2>4 DEF LaneOrder, Idle
<1>4. CASE (Lane!Complete \/ Lane!Stop) /\ UNCHANGED laneOn
  BY <1>1, <1>4 DEF LaneOrder, Idle, Lane!Complete, Lane!Stop
<1>5. CASE accepted' = <<>> /\ started' = <<>> /\ completed' = 0
  BY <1>5 DEF LaneOrder, Idle
<1>6. CASE UNCHANGED <<laneOn, accepted, started, completed>> /\ phase' \in {phase, "closing"}
  BY <1>1, <1>6 DEF LaneOrder, Idle
<1>7. CASE (phase = "stopped" \/ pc = "leave") /\ UNCHANGED <<accepted, started, completed>>
  BY <1>1, <1>7 DEF LaneOrder, Idle, Underway
<1> QED BY LaneSteps, JobTypes, <1>2, <1>3, <1>4, <1>5, <1>6, <1>7

\* A lane with nothing to do stays so until the scan thread hands it something.
LEMMA IdleKept ==
  ASSUME ControlTypes, LaneTypes, RecordTypes, LaneOrder, [Next]_vars, Idle
  PROVE  Idle' \/ (LaneStep /\ (HandOver \/ EndCycle))
<1>1. Len(started) \in Nat /\ Len(accepted) \in Nat /\ completed \in Nat
  BY LenProperties DEF LaneTypes
<1>2. CASE (HandOver \/ EndCycle) /\ ~LaneStep
  BY <1>2 DEF HandOver, EndCycle, Publish, lane, Idle
<1>3. CASE UNCHANGED <<accepted, completed>>
  BY <1>3 DEF Idle
<1>4. CASE Connect
  BY <1>4 DEF Connect, Idle
<1>5. CASE LaneThread
  <2>1. ~Lane!Complete
    BY <1>1 DEF Lane!Complete, LaneOrder, Idle
  <2>2. Lane!Start \/ Lane!Stop
    BY <1>5, <2>1 DEF LaneThread, LaneStart, RunWifiLaneJob, LaneStop
  <2> QED BY <1>3, <2>2 DEF Lane!Start, Lane!Stop
<1>6. CASE LaneClosed \/ Leave \/ LeaveLoop
  BY <1>3, <1>6 DEF LaneClosed, Leave, LeaveLoop, Lane!Close, lane
<1>7. ASSUME NEW got \in BOOLEAN, NEW fits \in BOOLEAN, Capture(got, fits)
      PROVE  UNCHANGED <<accepted, completed>>
  BY <1>7 DEF Capture, Lane!Close, lane
<1> QED BY <1>2, <1>3, <1>4, <1>5, <1>6, <1>7, LaneUntouched DEF Next, ScanThread

\* What is under way stays what the place of the scan thread tells.
LEMMA UnderwayKept ==
  /\ ControlTypes /\ LaneTypes /\ RecordTypes /\ LaneOrder /\ Underway /\ [Next]_vars
  => Underway'
<1> SUFFICES ASSUME ControlTypes, LaneTypes, RecordTypes, LaneOrder, Underway, [Next]_vars
             PROVE  Underway'
  OBVIOUS
<1>0. Idle => Idle' \/ (LaneStep /\ (HandOver \/ EndCycle))
  BY IdleKept
<1>1. "sub" \notin WiFiBand
  BY DEF WiFiBand
<1>2. LaneIdle => Idle
  BY LenProperties DEF LaneIdle, LaneOrder, Outstanding, Idle, LaneTypes
<1>3. CASE Connect
  <2>1. Idle'
    BY <1>3 DEF Connect, Idle
  <2> QED BY ONLY <1>3, <2>1, Underway DEF Connect, Underway, control, lora
<1>4. CASE BeginCycle
  <2>1. Idle' = Idle
    BY <1>4, LaneUntouched DEF Idle
  <2> QED BY ONLY <1>4, <2>1, Underway DEF BeginCycle, Underway, control, lora
<1>5. CASE Settle
  <2>1. Idle' = Idle
    BY <1>5, LaneUntouched DEF Idle
  <2> QED BY ONLY <1>2, <1>5, <2>1, Underway
          DEF Settle, LaneSettled, Drain, Underway, control, cycle, lora
<1>6. CASE BeginCoordinated \/ LeaveCoordinated
  <2>1. Idle' = Idle
    BY <1>6, LaneUntouched DEF Idle
  <2> QED BY ONLY <1>2, <1>6, <2>1, Underway
          DEF BeginCoordinated, LeaveCoordinated, Drain, Underway, control, cycle, lora
<1>7. CASE BeginStep \/ Record \/ EndSteps
  <2>1. Idle' = Idle
    BY <1>7, LaneUntouched DEF Idle
  <2> QED BY ONLY <1>7, <2>1, Underway
          DEF BeginStep, Record, EndSteps, Underway, control, cycle, lora
<1>8. CASE Process \/ Await \/ Commit \/ Reconnect
  <2>1. Idle' = Idle
    BY <1>8, LaneUntouched DEF Idle
  <2> QED BY ONLY <1>1, <1>8, <2>1, Underway
          DEF Process, Await, Commit, Reconnect, Underway, control, cycle, lora
<1>9. CASE LaneClosed \/ Leave \/ LeaveLoop
  <2>1. Idle => Idle'
    BY <1>0, <1>9 DEF LaneClosed, Leave, LeaveLoop, HandOver, EndCycle
  <2>2. CASE LaneClosed
    BY ONLY <2>1, <2>2, Underway DEF LaneClosed, Underway, control, cycle, lora
  <2>3. CASE Leave
    BY ONLY <2>1, <2>3, Underway DEF Leave, Underway, control, cycle, lora
  <2>4. CASE LeaveLoop
    <3>1. /\ pc = "top" /\ pc' \in {"closing", "leave"} /\ pending' = 0
          /\ (pc' = "leave" => ~laneOn) /\ laneOn' = laneOn
          /\ UNCHANGED <<band, monitorOn>>
      BY ONLY <2>4 DEF LeaveLoop, Drain, control, cycle
    <3> QED BY ONLY <2>1, <3>1, Underway DEF Underway
  <2> QED BY <1>9, <2>2, <2>3, <2>4
<1>10. CASE HandOver \/ EndCycle
  BY ONLY <1>0, <1>1, <1>10, Underway
     DEF HandOver, EndCycle, LaneStep, Underway, control, cycle, lora
<1>11. ASSUME NEW got \in BOOLEAN, NEW fits \in BOOLEAN, Capture(got, fits) \/ Listen(got)
       PROVE  Underway'
  <2>1. Idle => Idle'
    BY <1>0, <1>11 DEF Capture, Listen, HandOver, EndCycle
  <2> QED BY ONLY <1>11, <2>1, Underway DEF Capture, Listen, Underway, control, cycle, lora
<1>12. CASE LoraTask \/ LaneThread \/ UNCHANGED vars
  <2>1. Idle => Idle'
    BY <1>0, <1>12 DEF LoraTask, TakeRequest, Decode, LaneThread, LaneStart, RunWifiLaneJob,
                       LaneStop, vars, HandOver, EndCycle
  <2>2. UNCHANGED <<pc, band, pending, laneOn, monitorOn>>
    BY ONLY <1>12 DEF LoraTask, TakeRequest, Decode, LaneThread, LaneStart, RunWifiLaneJob,
                      LaneStop, vars, control, cycle, lora
  <2> QED BY ONLY <2>1, <2>2, Underway DEF Underway
<1>13. CASE Operator
  <2>1. Idle => Idle'
    BY <1>13, LaneUntouched DEF Idle
  <2>2. CASE Start
    BY ONLY <2>1, <2>2, Underway DEF Start, Underway, control, cycle, lora
  <2>3. CASE StopReturn
    BY ONLY <2>1, <2>3, Underway DEF StopReturn, Underway, control, cycle, lora
  <2>4. CASE StopCall \/ RequestSave \/ \E m \in Mode : SetActiveBand(m)
    <3>1. UNCHANGED <<pc, band, pending, laneOn, monitorOn>>
      BY ONLY <2>4 DEF StopCall, RequestSave, SetActiveBand, control, cycle, lora
    <3> QED BY ONLY <2>1, <3>1, Underway DEF Underway
  <2> QED BY <1>13, <2>2, <2>3, <2>4 DEF Operator
<1> QED BY <1>3, <1>4, <1>5, <1>6, <1>7, <1>8, <1>9, <1>10, <1>11, <1>12, <1>13
        DEF Next, ScanThread

\* A request to save waits for the directory to be taken or for its answer.
LEMMA SavesKept ==
  ControlTypes /\ Underway /\ Saves /\ [Next]_vars => Saves'
<1> SUFFICES ASSUME ControlTypes, Underway, Saves, [Next]_vars PROVE Saves'
  OBVIOUS
<1>1. spent.listens \in Nat /\ spent'.listens \in Nat
  BY SpentKept DEF ControlTypes, Spents
<1>2. (pc \in {"listen", "process"} => spent.listens > 0)'
  <2>1. CASE spent'.listens = spent.listens
    <3>1. pc' \in {"listen", "process"} => pc \in {"listen", "process"} \/ EndSteps
      <4>1. CASE Connect \/ BeginCycle \/ Settle \/ BeginCoordinated \/ LeaveCoordinated
        BY ONLY <4>1 DEF Connect, BeginCycle, Settle, BeginCoordinated, LeaveCoordinated
      <4>2. CASE BeginStep \/ LaneClosed \/ Record \/ HandOver
        BY ONLY <4>2 DEF BeginStep, LaneClosed, Record, HandOver
      <4>3. CASE Process \/ Await \/ Commit \/ EndCycle \/ Reconnect
        BY ONLY <4>3 DEF Process, Await, Commit, EndCycle, Reconnect
      <4>4. CASE LeaveLoop \/ Leave
        BY ONLY <4>4 DEF LeaveLoop, Leave
      <4>5. ASSUME NEW got \in BOOLEAN, NEW fits \in BOOLEAN, Capture(got, fits) \/ Listen(got)
            PROVE  pc' \in {"listen", "process"} => pc \in {"listen", "process"}
        BY ONLY <4>5 DEF Capture, Listen
      <4>6. CASE LoraTask \/ LaneThread \/ UNCHANGED vars
        BY ONLY <4>6 DEF LoraTask, TakeRequest, Decode, LaneThread, LaneStart, RunWifiLaneJob,
                         LaneStop, vars
      <4>7. CASE Operator
        BY ONLY <4>7 DEF Operator, Start, StopCall, StopReturn, RequestSave, SetActiveBand
      <4> QED BY <4>1, <4>2, <4>3, <4>4, <4>5, <4>6, <4>7 DEF Next, ScanThread
    <3>2. EndSteps /\ pc' \in {"listen", "process"} => Spend("listens")
      BY DEF EndSteps
    <3>3. Spend("listens") => spent'.listens = spent.listens + 1
      BY SpendOnce DEF ControlTypes
    <3> QED BY <1>1, <2>1, <3>1, <3>2, <3>3 DEF Saves
  <2>2. CASE spent'.listens = spent.listens + 1
    BY <1>1, <2>2
  <2> QED BY <2>1, <2>2, SpentKept DEF ControlTypes
<1>3. CASE UNCHANGED <<pending, task, saveDir, savePending, saving>>
  BY ONLY <1>2, <1>3, Saves DEF Saves, SaveServed
<1>4. CASE Drain /\ UNCHANGED save
  BY ONLY <1>2, <1>4, Saves DEF Drain, save, Saves, SaveServed
<1>5. CASE Process
  <2>1. /\ pending # 0 => task = "done"
        /\ pending' = spent.listens /\ task' = "take_request" /\ pc = "process"
        /\ UNCHANGED <<saveDir, savePending, saving>>
    BY ONLY <1>5 DEF Process, save
  <2>2. pending' # 0
    <3>1. pc = "process" /\ pending' = spent.listens
      BY ONLY <2>1
    <3>2. spent.listens > 0
      BY ONLY <3>1, Saves DEF Saves
    <3>3. spent.listens # 0
      BY ONLY <1>1, <3>2
    <3> QED BY ONLY <3>1, <3>3
  <2>3. ~saving /\ ~saving'
    BY ONLY <2>1, Saves DEF Saves
  <2>4. SaveServed'
    BY ONLY <2>1, Saves DEF Saves, SaveServed
  <2> QED BY ONLY <1>2, <2>1, <2>2, <2>3, <2>4 DEF Saves
<1>6. CASE Await
  <2>1. /\ task = "done" /\ pending' = 0 /\ task' = "none"
        /\ UNCHANGED <<saveDir, savePending, saving>>
    BY ONLY <1>6 DEF Await, save
  <2> QED BY ONLY <1>2, <2>1, Saves DEF Saves, SaveServed
<1>7. CASE TakeRequest
  <2>1. /\ task = "take_request" /\ task' = "decode" /\ saving' = saveDir
        /\ UNCHANGED <<pending, savePending>>
    BY ONLY <1>7 DEF TakeRequest
  <2> QED BY ONLY <1>2, <2>1, Saves DEF Saves, SaveServed
<1>8. CASE Decode
  <2>1. /\ task = "decode" /\ task' = "done" /\ saving' = FALSE
        /\ savePending' = (savePending /\ ~saving) /\ UNCHANGED <<pending, saveDir>>
    BY ONLY <1>8 DEF Decode
  <2>2. (task = "none" <=> pending = 0)' /\ ~saving'
    BY ONLY <2>1, Saves DEF Saves
  <2>3. savePending' => savePending /\ ~saving
    BY ONLY <2>1, Zenon
  <2>4. SaveServed'
    BY ONLY <2>1, <2>3, Saves DEF Saves, SaveServed
  <2> QED BY ONLY <1>2, <2>2, <2>4 DEF Saves
<1>9. CASE RequestSave \/ StopReturn
  <2>1. UNCHANGED <<pending, task, saving>> /\ (saveDir' \/ ~savePending')
    BY ONLY <1>9 DEF RequestSave, StopReturn, CancelSave, lora
  <2> QED BY ONLY <1>2, <2>1, Saves DEF Saves, SaveServed
<1>10. CASE Connect \/ BeginCycle \/ Settle \/ BeginCoordinated \/ LeaveCoordinated
  BY <1>3, <1>4, <1>10 DEF Connect, BeginCycle, Settle, BeginCoordinated, LeaveCoordinated,
                           save, lora
<1>11. CASE BeginStep \/ LaneClosed \/ Record \/ HandOver \/ EndSteps
  BY <1>3, <1>11 DEF BeginStep, LaneClosed, Record, HandOver, EndSteps, save, lora
<1>12. CASE Commit \/ EndCycle \/ Reconnect \/ LeaveLoop \/ Leave
  BY <1>3, <1>4, <1>12 DEF Commit, EndCycle, Reconnect, LeaveLoop, Leave, save, lora
<1>13. ASSUME NEW got \in BOOLEAN, NEW fits \in BOOLEAN, Capture(got, fits) \/ Listen(got)
       PROVE  Saves'
  BY <1>3, <1>13 DEF Capture, Listen, save, lora
<1>14. CASE LaneThread \/ Start \/ StopCall \/ (\E m \in Mode : SetActiveBand(m)) \/ UNCHANGED vars
  BY <1>3, <1>14 DEF LaneThread, LaneStart, RunWifiLaneJob, LaneStop, Start, StopCall,
                     SetActiveBand, vars, save, lora
<1> QED BY <1>5, <1>6, <1>7, <1>8, <1>9, <1>10, <1>11, <1>12, <1>13, <1>14
        DEF Next, ScanThread, LoraTask, Operator

-----------------------------------------------------------------------------
(* The LoRa captures *)

\* Sequences put together differently.
LEMMA Regroup ==
  ASSUME NEW S, NEW c \in Seq(S), NEW d \in Seq(S), NEW p \in S
  PROVE  /\ c \o <<>> = c /\ Append(<<>>, p) = <<p>>
         /\ c \o <<p>> = Append(c, p)
         /\ c \o Append(d, p) = Append(c \o d, p)
BY SMT

\* One more.
LEMMA OneToNext ==
  ASSUME NEW n \in Nat
  PROVE  Append(OneTo(n), n + 1) = OneTo(n + 1)
<1>1. OneTo(n) \in Seq(Nat) /\ Len(OneTo(n)) = n
  BY DEF OneTo
<1>2. /\ Len(Append(OneTo(n), n + 1)) = n + 1 /\ Append(OneTo(n), n + 1) \in Seq(Nat)
      /\ \A k \in 1..n : Append(OneTo(n), n + 1)[k] = OneTo(n)[k]
      /\ Append(OneTo(n), n + 1)[n + 1] = n + 1
  BY <1>1, AppendProperties
<1> QED BY <1>1, <1>2 DEF OneTo

\* What is known of, in each of its forms.
LEMMA KnownForms ==
  ASSUME NEW c \in Seq(Nat), NEW d \in Seq(Nat), NEW p \in Nat
  PROVE  /\ c \o d \in Seq(Nat) /\ c \o <<>> = c
         /\ p = 0 => KnownOf(c, d, p) = c \o d
         /\ p # 0 => KnownOf(c, d, p) = Append(c \o d, p)
<1> DEFINE q == c \o d
<1>1. q \in Seq(Nat) /\ c \o <<>> = c
  BY ConcatTypes, Regroup
<1>2. KnownOf(c, d, p) = q \o (IF p = 0 THEN <<>> ELSE <<p>>)
  BY DEF KnownOf
<1> HIDE DEF q
<1>3. q \o <<>> = q /\ q \o <<p>> = Append(q, p)
  BY ONLY <1>1, p \in Nat, Regroup
<1>4. /\ p = 0 => KnownOf(c, d, p) = q
      /\ p # 0 => KnownOf(c, d, p) = Append(q, p)
  BY ONLY <1>2, <1>3
<1> QED BY <1>1, <1>4 DEF q

\* A drain commits the capture being processed.
LEMMA DrainKnown ==
  ASSUME NEW c \in Seq(Nat), NEW p \in Nat
  PROVE  KnownOf(IF p # 0 THEN Append(c, p) ELSE c, <<>>, 0) = KnownOf(c, <<>>, p)
<1>1. <<>> \in Seq(Nat) /\ 0 \in Nat /\ c \o <<>> = c
  BY Regroup
<1>2. CASE p = 0
  BY <1>2
<1>3. CASE p # 0
  <2> DEFINE b == Append(c, p)
  <2>1. b \in Seq(Nat)
    BY AppendTypes
  <2>2. KnownOf(c, <<>>, p) = b
    <3>1. KnownOf(c, <<>>, p) = Append(c \o <<>>, p)
      BY <1>1, <1>3, KnownForms
    <3> QED BY <1>1, <3>1
  <2> HIDE DEF b
  <2>3. KnownOf(b, <<>>, 0) = b
    <3>1. KnownOf(b, <<>>, 0) = b \o <<>> /\ b \o <<>> = b
      BY <1>1, <2>1, KnownForms
    <3> QED BY <3>1
  <2> QED BY <1>3, <2>2, <2>3 DEF b
<1> QED BY <1>2, <1>3

\* A capture processed is detected.
LEMMA AwaitKnown ==
  ASSUME NEW c \in Seq(Nat), NEW d \in Seq(Nat), NEW p \in Nat, p # 0
  PROVE  KnownOf(c, Append(d, p), 0) = KnownOf(c, d, p)
<1>1. Append(d, p) \in Seq(Nat) /\ 0 \in Nat
  BY AppendTypes
<1>2. KnownOf(c, d, p) = Append(c \o d, p)
  BY KnownForms
<1>3. KnownOf(c, Append(d, p), 0) = c \o Append(d, p)
  BY <1>1, KnownForms
<1>4. c \o Append(d, p) = Append(c \o d, p)
  BY Regroup
<1> QED BY <1>2, <1>3, <1>4

\* A commit makes the detections known as before.
LEMMA CommitKnown ==
  ASSUME NEW c \in Seq(Nat), NEW d \in Seq(Nat), NEW p \in Nat
  PROVE  KnownOf(c \o d, <<>>, p) = KnownOf(c, d, p)
<1> DEFINE q == c \o d
<1>1. q \in Seq(Nat) /\ <<>> \in Seq(Nat)
  BY ConcatTypes
<1>2. KnownOf(c, d, p) = (IF p = 0 THEN q ELSE Append(q, p))
  BY KnownForms
<1> HIDE DEF q
<1>3. q \o <<>> = q
  BY <1>1, KnownForms
<1>4. KnownOf(q, <<>>, p) = (IF p = 0 THEN q \o <<>> ELSE Append(q \o <<>>, p))
  BY <1>1, KnownForms
<1> QED BY <1>2, <1>3, <1>4 DEF q

\* A capture begun is one more.
LEMMA ProcessKnown ==
  ASSUME NEW c \in Seq(Nat), NEW p \in Nat, NEW n \in Nat \ {0}
  PROVE  KnownOf(c, IF p # 0 THEN Append(<<>>, p) ELSE <<>>, n) = Append(KnownOf(c, <<>>, p), n)
<1> DEFINE d == IF p # 0 THEN Append(<<>>, p) ELSE <<>>
<1>1. d \in Seq(Nat) /\ <<>> \in Seq(Nat) /\ n # 0 /\ n \in Nat /\ 0 \in Nat
  BY AppendTypes
<1>2. KnownOf(c, <<>>, p) = KnownOf(c, d, 0)
  BY <1>1, AwaitKnown
<1> HIDE DEF d
<1>3. KnownOf(c, d, 0) = c \o d /\ KnownOf(c, d, n) = Append(c \o d, n)
  BY <1>1, KnownForms
<1> QED BY <1>2, <1>3 DEF d

\* Captures are known in the order they were taken, each once.
LEMMA LoraKept ==
  ASSUME ControlTypes, LoraTypes, ControlTypes', Underway, Saves, LoraKnown, [Next]_vars
  PROVE  LoraKnown'
<1>1. /\ committed \in Seq(Nat) /\ detections \in Seq(Nat) /\ pending \in Nat
      /\ spent.listens \in Nat /\ <<>> \in Seq(Nat)
  BY DEF LoraTypes, ControlTypes, Spents
<1>2. ASSUME UNCHANGED <<committed, detections, pending>>,
             pc' \in {"await", "commit"} \/ pc \notin {"await", "commit"},
             spent'.listens - Taking' = spent.listens - Taking
      PROVE  LoraKnown'
  BY ONLY <1>2, LoraKnown DEF LoraKnown, Known
<1>3. CASE Drain /\ pc \in {"top", "settle"} /\ spent' = spent
           /\ pc' \in {"coordinated", "closing", "leave", "step"}
  <2>1. /\ pending' = 0 /\ detections' = detections
        /\ committed' = IF pending # 0 THEN Append(committed, pending) ELSE committed
    BY ONLY <1>3 DEF Drain
  <2>2. detections = <<>>
    BY ONLY <1>3, LoraKnown DEF LoraKnown
  <2>3. Known' = Known
    BY ONLY <1>1, <2>1, <2>2, DrainKnown DEF Known
  <2>4. Taking' = Taking
    BY ONLY <1>3 DEF Taking
  <2> QED BY ONLY <1>3, <2>1, <2>2, <2>3, <2>4, LoraKnown DEF LoraKnown
<1>4. CASE Process
  <2>1. /\ pending' = spent.listens /\ committed' = committed /\ spent' = spent
        /\ detections' = IF pending # 0 THEN Append(detections, pending) ELSE detections
        /\ pc = "process" /\ pc' \in {"commit", "await"}
    BY ONLY <1>4 DEF Process
  <2>2. spent.listens \in Nat \ {0}
    <3>1. pc = "process"
      BY ONLY <2>1
    <3>2. spent.listens > 0
      BY ONLY <3>1, Saves DEF Saves
    <3> QED BY ONLY <1>1, <3>2
  <2>3. detections = <<>>
    BY ONLY <2>1, LoraKnown DEF LoraKnown
  <2> DEFINE n == spent.listens
  <2>4. Known' = Append(Known, n)
    <3>1. /\ Known' = KnownOf(committed, IF pending # 0 THEN Append(<<>>, pending) ELSE <<>>, n)
          /\ Known = KnownOf(committed, <<>>, pending)
      BY ONLY <2>1, <2>3 DEF Known
    <3>2. n \in Nat \ {0}
      BY ONLY <2>2
    <3> HIDE DEF n
    <3> QED BY ONLY <1>1, <3>1, <3>2, ProcessKnown
  <2>5. Taking = 1 /\ Taking' = 0
    BY ONLY <2>1 DEF Taking
  <2>6. n - 1 \in Nat /\ n = (n - 1) + 1 /\ spent'.listens - Taking' = n
    BY ONLY <2>1, <2>2, <2>5
  <2>7. Known = OneTo(n - 1)
    BY ONLY <2>5, LoraKnown DEF LoraKnown
  <2> HIDE DEF n
  <2>8. Append(OneTo(n - 1), n) = OneTo(n)
    BY ONLY <2>6, OneToNext
  <2>9. Known' = OneTo(spent'.listens - Taking')
    BY ONLY <2>4, <2>6, <2>7, <2>8
  <2> QED BY ONLY <2>1, <2>9 DEF LoraKnown
<1>5. CASE Await
  <2>1. /\ task = "done" /\ pending' = 0 /\ committed' = committed /\ spent' = spent
        /\ detections' = Append(detections, pending) /\ pc = "await" /\ pc' = "commit"
    BY ONLY <1>5 DEF Await
  <2>2. pending # 0
    BY ONLY <2>1, Saves DEF Saves
  <2>3. Known' = Known
    BY ONLY <1>1, <2>1, <2>2, AwaitKnown DEF Known
  <2>4. Taking' = Taking
    BY ONLY <2>1 DEF Taking
  <2> QED BY ONLY <2>1, <2>3, <2>4, LoraKnown DEF LoraKnown
<1>6. CASE Commit
  <2>1. /\ pending' = pending /\ committed' = committed \o detections /\ spent' = spent
        /\ detections' = <<>> /\ pc = "commit" /\ pc' = "publish"
    BY ONLY <1>6 DEF Commit
  <2>2. Known' = Known
    BY ONLY <1>1, <2>1, CommitKnown DEF Known
  <2>3. Taking' = Taking
    BY ONLY <2>1 DEF Taking
  <2> QED BY ONLY <2>1, <2>2, <2>3, LoraKnown DEF LoraKnown
<1>7. CASE EndSteps
  <2>1. /\ UNCHANGED <<committed, detections, pending>> /\ pc = "step"
        /\ \/ pc' = "listen" /\ Spend("listens")
           \/ pc' = "commit" /\ spent' = spent
    BY ONLY <1>7 DEF EndSteps, lora
  <2>2. Spend("listens") => spent'.listens = spent.listens + 1
    BY SpendOnce DEF ControlTypes
  <2>3. spent'.listens - Taking' = spent.listens - Taking
    BY ONLY <1>1, <2>1, <2>2 DEF Taking
  <2> QED BY ONLY <1>2, <2>1, <2>3
<1>8. ASSUME ~EndSteps, UNCHANGED <<committed, detections, pending>>,
             \/ pc' = pc
             \/ /\ pc \notin {"listen", "process", "await", "commit"}
                /\ pc' \notin {"listen", "process", "await", "commit"}
             \/ pc = "listen" /\ pc' = "process"
      PROVE  LoraKnown'
  <2>1. spent'.listens = spent.listens
    BY <1>8, SpentKept DEF ControlTypes
  <2>2. Taking' = Taking
    BY ONLY <1>8 DEF Taking
  <2> QED BY ONLY <1>2, <1>8, <2>1, <2>2
<1>9. CASE Connect \/ BeginCycle \/ LeaveCoordinated \/ BeginStep \/ LaneClosed
  BY <1>8, <1>9 DEF Connect, BeginCycle, LeaveCoordinated, BeginStep, LaneClosed, EndSteps, lora
<1>10. CASE Record \/ HandOver \/ EndCycle \/ Reconnect \/ Leave
  BY <1>8, <1>10 DEF Record, HandOver, EndCycle, Reconnect, Leave, EndSteps, lora
<1>11. CASE Settle \/ BeginCoordinated \/ LeaveLoop
  <2>1. CASE Drain
    BY <1>3, <1>11, <2>1 DEF Settle, BeginCoordinated, LeaveLoop
  <2>2. CASE Settle /\ band = "sub"
    BY <1>8, <2>2 DEF Settle, EndSteps, lora
  <2> QED BY <1>11, <2>1, <2>2 DEF Settle, BeginCoordinated, LeaveLoop
<1>12. ASSUME NEW got \in BOOLEAN, NEW fits \in BOOLEAN, Capture(got, fits) \/ Listen(got)
       PROVE  LoraKnown'
  <2>1. /\ UNCHANGED <<committed, detections, pending>>
        /\ \/ pc = "capture" /\ pc' \in {"close_lane", "record"}
           \/ pc = "listen" /\ pc' = "process"
    BY ONLY <1>12 DEF Capture, Listen, lora
  <2> QED BY <1>8, <2>1 DEF EndSteps
<1>13. CASE LoraTask \/ LaneThread \/ UNCHANGED vars
  <2>1. UNCHANGED <<committed, detections, pending, pc, spent>>
    BY ONLY <1>13 DEF LoraTask, TakeRequest, Decode, LaneThread, LaneStart, RunWifiLaneJob,
                      LaneStop, vars, lora
  <2> QED BY ONLY <2>1, LoraKnown DEF LoraKnown, Known, Taking
<1>14. CASE Operator
  <2>1. /\ UNCHANGED <<committed, detections, pending>>
        /\ pc' = pc \/ (pc' = "connect" /\ ~monitorOn)
    BY ONLY <1>14 DEF Operator, Start, StopCall, StopReturn, RequestSave, SetActiveBand, lora
  <2>2. pc' = pc \/ (pc' = "connect" /\ pc = "off")
    BY <2>1 DEF Underway
  <2>3. ~EndSteps
    BY <1>14, <2>2 DEF Operator, Start, StopCall, StopReturn, RequestSave, SetActiveBand, EndSteps
  <2> QED BY <1>8, <2>1, <2>2, <2>3
<1> QED BY <1>4, <1>5, <1>6, <1>7, <1>9, <1>10, <1>11, <1>12, <1>13, <1>14 DEF Next, ScanThread

\* So when the monitor is stopped all of them are committed.
LEMMA LoraFollows ==
  ASSUME ControlTypes, LoraTypes, Underway, LoraKnown
  PROVE  LoraInOrder
<1>1. Known = [k \in 1..(spent.listens - Taking) |-> k]
  BY DEF LoraKnown, OneTo
<1>2. ASSUME ~monitorOn PROVE Len(committed) = spent.listens
  <2>1. pc = "off" /\ pending = 0 /\ detections = <<>> /\ Taking = 0
    BY <1>2 DEF Underway, LoraKnown, Taking
  <2>2. committed \in Seq(Nat) /\ <<>> \in Seq(Nat) /\ 0 \in Nat /\ spent.listens \in Nat
    BY DEF LoraTypes, ControlTypes, Spents
  <2>3. Known = committed \o <<>> /\ committed \o <<>> = committed
    BY <2>1, <2>2, KnownForms DEF Known
  <2>4. committed = [k \in 1..spent.listens |-> k]
    BY <1>1, <2>1, <2>2, <2>3
  <2> QED BY <2>2, <2>4
<1> QED BY <1>1, <1>2 DEF LoraInOrder, Known, KnownOf, Taking

-----------------------------------------------------------------------------
(* The records *)

\* Sequences put together.
LEMMA Together ==
  ASSUME NEW a \in Seq(Int), NEW b \in Seq(Int), NEW c \in Seq(Int)
  PROVE  /\ a \o b \in Seq(Int) /\ Len(a \o b) = Len(a) + Len(b) /\ Len(a) \in Nat
         /\ (a \o b) \o c = a \o (b \o c)
         /\ a \o <<>> = a /\ <<>> \o a = a
<1>1. a \o b \in Seq(Int) /\ Len(a \o b) = Len(a) + Len(b) /\ Len(a) \in Nat
  BY ConcatProperties, LenProperties
<1>2. (a \o b) \o c = a \o (b \o c)
  BY ONLY a \in Seq(Int), b \in Seq(Int), c \in Seq(Int), SMTT(30)
<1>3. a \o <<>> = a /\ <<>> \o a = a
  BY SMT
<1> QED BY <1>1, <1>2, <1>3

\* Three sequences put together, in either order of putting.
LEMMA Associate ==
  ASSUME NEW a \in Seq(Int), NEW b \in Seq(Int), NEW c \in Seq(Int)
  PROVE  (a \o b) \o c = a \o (b \o c)
  BY ONLY SMTT(30), Together

\* A record put behind others.
LEMMA Behind ==
  ASSUME NEW a \in Seq(Int), NEW n \in Int
  PROVE  /\ Append(a, n) = a \o <<n>> /\ Append(a, n) \in Seq(Int) /\ <<n>> \in Seq(Int)
         /\ Len(Append(a, n)) = Len(a) + 1
BY AppendProperties, Regroup

\* The records of a job are a sequence.
LEMMA JobRecords ==
  ASSUME NEW j \in LaneJobs
  PROVE  /\ RecordsOf(j) \in Seq(Int) /\ Len(RecordsOf(j)) \in Nat
         /\ j.empties \in Seq(Int) /\ j.fulls \in Seq(Int) /\ j.upTo \in Nat
<1>1. j.empties \in Seq(Int) /\ j.fulls \in Seq(Int) /\ j.upTo \in Nat
  BY DEF LaneJobs
<1> QED BY <1>1, Together, LenProperties DEF RecordsOf

\* What the lane has to do is a sequence of records.
LEMMA TodoTypes ==
  ASSUME NEW jobs \in Seq(LaneJobs), NEW done \in Nat, done <= Len(jobs), Len(jobs) <= done + 2
  PROVE  TodoOf(jobs, done) \in Seq(Int) /\ Len(TodoOf(jobs, done)) \in Nat
<1>1. Len(jobs) \in Nat /\ <<>> \in Seq(Int)
  BY LenProperties
<1>2. CASE Len(jobs) = done
  BY <1>1, <1>2 DEF TodoOf
<1>3. CASE Len(jobs) = done + 1
  <2>1. jobs[done + 1] \in LaneJobs
    BY <1>3, ElementOfSeq
  <2> QED BY <1>1, <1>3, <2>1, JobRecords DEF TodoOf
<1>4. CASE Len(jobs) = done + 2
  <2>1. jobs[done + 1] \in LaneJobs /\ jobs[done + 2] \in LaneJobs
    BY <1>4, ElementOfSeq
  <2>2. TodoOf(jobs, done) = RecordsOf(jobs[done + 1]) \o RecordsOf(jobs[done + 2])
    BY <1>1, <1>4 DEF TodoOf
  <2> QED BY <2>1, <2>2, JobRecords, Together
<1> QED BY <1>1, <1>2, <1>3, <1>4

\* A job accepted adds its records at the end.
LEMMA TodoAccept ==
  ASSUME NEW jobs \in Seq(LaneJobs), NEW done \in Nat, done <= Len(jobs), Len(jobs) < done + 2,
         NEW j \in LaneJobs, NEW s \in Seq(Int), MarkersTrue(s, jobs, done),
         j.upTo <= Len(s) + Len(TodoOf(jobs, done)) + Len(RecordsOf(j))
  PROVE  /\ TodoOf(Append(jobs, j), done) = TodoOf(jobs, done) \o RecordsOf(j)
         /\ MarkersTrue(s, Append(jobs, j), done)
<1> DEFINE a == Append(jobs, j)
<1>1. /\ Len(jobs) \in Nat /\ Len(a) = Len(jobs) + 1 /\ a[Len(jobs) + 1] = j
      /\ \A i \in 1..Len(jobs) : a[i] = jobs[i]
  BY LenProperties, AppendProperties
<1>2. RecordsOf(j) \in Seq(Int) /\ <<>> \o RecordsOf(j) = RecordsOf(j) /\ Len(s) \in Nat
      /\ Len(RecordsOf(j)) \in Nat /\ j.upTo \in Nat
  BY JobRecords, Together
<1> HIDE DEF a
<1>3. CASE Len(jobs) = done
  <2>1. TodoOf(jobs, done) = <<>> /\ Len(TodoOf(jobs, done)) = 0
    BY <1>3 DEF TodoOf
  <2>2. TodoOf(a, done) = RecordsOf(j)
    BY <1>1, <1>3 DEF TodoOf
  <2>3. MarkersTrue(s, a, done)
    BY <1>1, <1>2, <1>3, <2>1 DEF MarkersTrue
  <2> QED BY <1>2, <2>1, <2>2, <2>3 DEF a
<1>4. CASE Len(jobs) = done + 1
  <2>1. a[done + 1] = jobs[done + 1] /\ a[done + 2] = j /\ jobs[done + 1] \in LaneJobs
    BY <1>1, <1>4, ElementOfSeq
  <2>2. TodoOf(jobs, done) = RecordsOf(jobs[done + 1])
    BY <1>4 DEF TodoOf
  <2>3. TodoOf(a, done) = RecordsOf(jobs[done + 1]) \o RecordsOf(j)
    BY <1>1, <1>4, <2>1 DEF TodoOf
  <2>4. MarkersTrue(s, a, done)
    BY <1>1, <1>4, <2>1, <2>2 DEF MarkersTrue
  <2> QED BY <2>2, <2>3, <2>4 DEF a
<1> QED BY <1>1, <1>3, <1>4

\* A job completed takes its records from the front.
LEMMA TodoComplete ==
  ASSUME NEW jobs \in Seq(LaneJobs), NEW done \in Nat, done < Len(jobs), Len(jobs) <= done + 2,
         NEW s \in Seq(Int), NEW t \in Seq(Int), MarkersTrue(s, jobs, done),
         Len(t) = Len(s) + Len(RecordsOf(jobs[done + 1]))
  PROVE  /\ TodoOf(jobs, done) = RecordsOf(jobs[done + 1]) \o TodoOf(jobs, done + 1)
         /\ MarkersTrue(t, jobs, done + 1) /\ jobs[done + 1].upTo <= Len(t)
<1>1. Len(jobs) \in Nat /\ Len(s) \in Nat /\ Len(t) \in Nat
  BY LenProperties
<1>2. jobs[done + 1] \in LaneJobs
  BY <1>1, ElementOfSeq
<1>3. /\ RecordsOf(jobs[done + 1]) \in Seq(Int)
      /\ RecordsOf(jobs[done + 1]) \o <<>> = RecordsOf(jobs[done + 1])
      /\ Len(RecordsOf(jobs[done + 1])) \in Nat
  BY <1>2, JobRecords, Together
<1>4. CASE Len(jobs) = done + 1
  <2>1. TodoOf(jobs, done) = RecordsOf(jobs[done + 1]) /\ TodoOf(jobs, done + 1) = <<>>
    BY <1>4 DEF TodoOf
  <2>2. MarkersTrue(t, jobs, done + 1) /\ jobs[done + 1].upTo <= Len(t)
    BY <1>1, <1>4 DEF MarkersTrue
  <2> QED BY <1>3, <2>1, <2>2
<1>5. CASE Len(jobs) = done + 2
  <2>1. /\ TodoOf(jobs, done) = RecordsOf(jobs[done + 1]) \o RecordsOf(jobs[done + 2])
        /\ TodoOf(jobs, done + 1) = RecordsOf(jobs[done + 2])
    BY <1>5 DEF TodoOf
  <2>2. jobs[done + 2] \in LaneJobs
    BY <1>5, ElementOfSeq
  <2>3. Len(RecordsOf(jobs[done + 2])) \in Nat /\ (done + 1) + 1 = done + 2
    BY <2>2, JobRecords
  <2>4. MarkersTrue(t, jobs, done + 1)
    <3>1. jobs[done + 2].upTo <= Len(s) + Len(RecordsOf(jobs[done + 1]))
                                        + Len(RecordsOf(jobs[done + 2]))
      BY ONLY <1>5, MarkersTrue(s, jobs, done) DEF MarkersTrue
    <3>2. jobs[done + 2].upTo <= Len(t) + Len(RecordsOf(jobs[done + 2]))
      BY ONLY <3>1, Len(t) = Len(s) + Len(RecordsOf(jobs[done + 1]))
    <3>3. Len(jobs) # (done + 1) + 2
      BY ONLY <1>5, done \in Nat
    <3> QED BY ONLY <2>3, <3>2, <3>3 DEF MarkersTrue
  <2>5. jobs[done + 1].upTo <= Len(t)
    BY ONLY <1>1, <1>5, MarkersTrue(s, jobs, done), done \in Nat,
            Len(t) = Len(s) + Len(RecordsOf(jobs[done + 1])) DEF MarkersTrue
  <2> QED BY <2>1, <2>4, <2>5
<1> QED BY <1>1, <1>4, <1>5

\* The sequences the records are in.
PlacesTyped ==
  /\ submitted \in Seq(Int) /\ inOrder \in Seq(Int) /\ empties \in Seq(Int)
  /\ fulls \in Seq(Int) /\ Todo \in Seq(Int) /\ Here \in Seq(Int) /\ <<>> \in Seq(Int)
  /\ completed \in Nat /\ Len(accepted) \in Nat /\ Len(submitted) \in Nat
  /\ published.upTo \in Nat /\ Len(inOrder) \in Nat
  /\ \/ Len(accepted) = completed \/ Len(accepted) = completed + 1
     \/ Len(accepted) = completed + 2
  /\ accepted \in Seq(LaneJobs)

\* The types make them so.
LEMMA PlacesTypes ==
  ASSUME LaneTypes, RecordTypes, LaneOrder
  PROVE  PlacesTyped
<1>1. /\ submitted \in Seq(Int) /\ inOrder \in Seq(Int) /\ empties \in Seq(Int)
      /\ fulls \in Seq(Int) /\ <<>> \in Seq(Int) /\ completed \in Nat /\ published.upTo \in Nat
      /\ accepted \in Seq(LaneJobs)
  BY DEF LaneTypes, RecordTypes
<1>2. Len(accepted) \in Nat /\ Len(submitted) \in Nat /\ Len(inOrder) \in Nat
  BY <1>1, LenProperties
<1>3. completed <= Len(accepted) /\ Len(accepted) <= completed + 2
  <2>1. Len(started) \in Nat
    BY LenProperties DEF LaneTypes
  <2> QED BY <1>1, <1>2, <2>1 DEF LaneOrder
<1>4. Todo \in Seq(Int)
  BY ONLY <1>1, <1>3, TodoTypes DEF Todo
<1>5. Here \in Seq(Int)
  <2> DEFINE b == empties \o fulls
  <2>1. b \in Seq(Int)
    BY ONLY <1>1, ConcatTypes
  <2>2. Here \in {<<>>, empties, b}
    BY ONLY Zenon DEF Here
  <2> HIDE DEF b
  <2> QED BY ONLY <1>1, <2>1, <2>2
<1>6. \/ Len(accepted) = completed \/ Len(accepted) = completed + 1
      \/ Len(accepted) = completed + 2
  BY ONLY <1>1, <1>2, <1>3
<1> QED BY ONLY <1>1, <1>2, <1>4, <1>5, <1>6 DEF PlacesTyped

\* A lane with nothing to do has no records and no marker.
LEMMA NothingToDo ==
  ASSUME NEW jobs, NEW done \in Nat, NEW s, Len(jobs) = done
  PROVE  TodoOf(jobs, done) = <<>> /\ MarkersTrue(s, jobs, done)
BY DEF TodoOf, MarkersTrue

\* More records make no marker wrong.
LEMMA MarkersStay ==
  ASSUME NEW s \in Seq(Int), NEW t \in Seq(Int), Len(s) <= Len(t), NEW jobs \in Seq(LaneJobs),
         NEW done \in Nat, Len(jobs) = done + 1 \/ Len(jobs) = done + 2 \/ Len(jobs) = done,
         MarkersTrue(s, jobs, done)
  PROVE  MarkersTrue(t, jobs, done)
<1>1. Len(s) \in Nat /\ Len(t) \in Nat
  BY LenProperties
<1>2. CASE Len(jobs) = done
  BY <1>2 DEF MarkersTrue
<1>3. CASE Len(jobs) = done + 1
  <2>1. jobs[done + 1] \in LaneJobs
    BY <1>3, ElementOfSeq
  <2>2. Len(RecordsOf(jobs[done + 1])) \in Nat /\ jobs[done + 1].upTo \in Nat
    BY <2>1, JobRecords
  <2> QED BY <1>1, <1>3, <2>2 DEF MarkersTrue
<1>4. CASE Len(jobs) = done + 2
  <2>1. jobs[done + 1] \in LaneJobs /\ jobs[done + 2] \in LaneJobs
    BY <1>4, ElementOfSeq
  <2>2. /\ Len(RecordsOf(jobs[done + 1])) \in Nat /\ jobs[done + 1].upTo \in Nat
        /\ Len(RecordsOf(jobs[done + 2])) \in Nat /\ jobs[done + 2].upTo \in Nat
    BY <2>1, JobRecords
  <2> QED BY ONLY <1>1, <1>4, <2>2, Len(s) <= Len(t), done \in Nat, MarkersTrue(s, jobs, done)
          DEF MarkersTrue
<1> QED BY <1>2, <1>3, <1>4

\* Steps that move no record.
LEMMA PlacesAlone ==
  ASSUME InPlaces, Counted,
         UNCHANGED <<submitted, inOrder, accepted, completed>>, published'.upTo = published.upTo,
         \/ UNCHANGED <<pc, band, laneOn, taken, empties, fulls>>
         \/ ~InStep /\ ~InStep'
         \/ pc = "step" /\ pc' = "capture" /\ empties' = <<>> /\ taken' = 0
         \/ /\ pc = "capture" /\ pc' \in {"close_lane", "record"}
            /\ pc' = "close_lane" => LaneStep
            /\ UNCHANGED <<band, laneOn, taken, empties>>
  PROVE  InPlaces' /\ Counted'
<1>1. Todo' = Todo
  BY Zenon DEF Todo
<1>2. Counted'
  <2>1. UNCHANGED <<submitted, accepted, completed>> /\ published'.upTo = published.upTo
    OBVIOUS
  <2> QED BY ONLY <2>1, Counted, Zenon DEF Counted
<1>3. UNCHANGED <<submitted, inOrder>>
  OBVIOUS
<1> DEFINE Rest == /\ InStep /\ ~LaneStep => empties = <<>>
                   /\ pc = "close_lane" => LaneStep
                   /\ pc \in {"capture", "close_lane", "record"} => taken < SubCaptures
<1>4. inOrder = (submitted \o Todo) \o Here /\ Rest
  BY ONLY InPlaces, Zenon DEF InPlaces
<1>5. ASSUME Here' = Here, Rest' PROVE InPlaces' /\ Counted'
  <2>1. inOrder' = (submitted' \o Todo') \o Here'
    BY ONLY <1>1, <1>3, <1>4, <1>5, Zenon
  <2> QED BY ONLY <1>2, <1>5, <2>1, Zenon DEF InPlaces
<1>6. CASE UNCHANGED <<pc, band, laneOn, taken, empties, fulls>>
  <2>1. Here' = Here
    BY ONLY <1>6, Zenon DEF Here, InStep
  <2>2. Rest'
    BY ONLY <1>4, <1>6, Zenon DEF InStep, LaneStep
  <2> QED BY ONLY <1>5, <2>1, <2>2
<1>7. CASE ~InStep /\ ~InStep'
  <2>1. Here' = Here
    BY ONLY <1>7, Zenon DEF Here
  <2>2. Rest'
    BY ONLY <1>7 DEF InStep
  <2> HIDE DEF Rest
  <2> QED BY ONLY <1>5, <2>1, <2>2
<1>8. CASE pc = "step" /\ pc' = "capture" /\ empties' = <<>> /\ taken' = 0
  <2>1. Here' = <<>>
    BY ONLY <1>8, Zenon DEF Here
  <2>2. Here = <<>>
    <3>1. ~InStep
      BY ONLY <1>8 DEF InStep
    <3> QED BY ONLY <3>1, Zenon DEF Here
  <2>3. Rest'
    BY ONLY <1>8, ScannerAssumption
  <2> HIDE DEF Rest
  <2> QED BY ONLY <1>5, <2>1, <2>2, <2>3
<1>9. CASE /\ pc = "capture" /\ pc' \in {"close_lane", "record"}
           /\ pc' = "close_lane" => LaneStep
           /\ UNCHANGED <<band, laneOn, taken, empties>>
  <2>1. Here' = Here
    <3>1. InStep /\ InStep' /\ pc # "hand_over" /\ pc' # "hand_over"
      BY ONLY <1>9 DEF InStep
    <3>2. band' = band /\ empties' = empties
      BY ONLY <1>9
    <3> QED BY ONLY <3>1, <3>2, Zenon DEF Here
  <2>2. Rest'
    BY ONLY <1>4, <1>9 DEF InStep, LaneStep
  <2> HIDE DEF Rest
  <2> QED BY ONLY <1>5, <2>1, <2>2
<1> QED BY ONLY <1>6, <1>7, <1>8, <1>9,
       \/ UNCHANGED <<pc, band, laneOn, taken, empties, fulls>>
       \/ ~InStep /\ ~InStep'
       \/ pc = "step" /\ pc' = "capture" /\ empties' = <<>> /\ taken' = 0
       \/ /\ pc = "capture" /\ pc' \in {"close_lane", "record"}
          /\ pc' = "close_lane" => LaneStep
          /\ UNCHANGED <<band, laneOn, taken, empties>>

\* The records kept for the lane are delivered when it has been closed.
LEMMA PlacesLaneClosed ==
  ASSUME LaneTypes, RecordTypes, LaneOrder, InPlaces, Counted, LaneClosed
  PROVE  InPlaces' /\ Counted'
<1>1. /\ submitted' = submitted \o empties /\ empties' = <<>> /\ pc = "close_lane"
      /\ phase = "stopped" /\ pc' = "record"
      /\ UNCHANGED <<inOrder, accepted, completed, published, taken, band>>
  BY ONLY LaneClosed DEF LaneClosed, LaneGone, stepVars, lane, cycle
<1>2. Len(accepted) = completed
  BY ONLY <1>1, LaneOrder DEF LaneOrder, Idle
<1>3. Todo = <<>> /\ Todo' = <<>> /\ MarkersTrue(submitted', accepted', completed')
  <2>1. TodoOf(accepted, completed) = <<>> /\ MarkersTrue(submitted', accepted, completed)
    BY ONLY <1>2, LaneTypes, NothingToDo DEF LaneTypes
  <2>2. accepted' = accepted /\ completed' = completed
    BY ONLY <1>1
  <2> QED BY ONLY <2>1, <2>2, Zenon DEF Todo
<1>4. band # "sub" /\ LaneStep
  BY ONLY <1>1, InPlaces DEF InPlaces, LaneStep, WiFiBand
<1>5. Here = empties
  <2>1. InStep /\ pc # "hand_over"
    BY ONLY <1>1 DEF InStep
  <2> QED BY ONLY <2>1, <1>4, Zenon DEF Here
<1>6. Here' = <<>>
  <2>1. pc' # "hand_over" /\ empties' = <<>>
    BY ONLY <1>1
  <2> QED BY ONLY <2>1, Zenon DEF Here
<1>7. PlacesTyped
  BY PlacesTypes
<1>8. inOrder' = (submitted' \o Todo') \o Here'
  <2> DEFINE s == submitted \o empties
  <2>1. submitted \o <<>> = submitted /\ s \in Seq(Int) /\ s \o <<>> = s
    BY ONLY <1>7, Together DEF PlacesTyped
  <2>2. inOrder = (submitted \o <<>>) \o empties
    BY ONLY <1>3, <1>5, InPlaces, Zenon DEF InPlaces
  <2>3. inOrder = s /\ submitted' = s /\ inOrder' = inOrder
    BY ONLY <2>1, <2>2, <1>1, Zenon
  <2>4. (s \o <<>>) \o <<>> = s
    BY ONLY <2>1, Zenon
  <2> HIDE DEF s
  <2> QED BY ONLY <1>3, <1>6, <2>3, <2>4, Zenon
<1>9. published'.upTo <= Len(submitted')
  <2>1. Len(submitted \o empties) = Len(submitted) + Len(empties) /\ Len(empties) \in Nat
    BY ONLY <1>7, Together DEF PlacesTyped
  <2>2. Len(submitted') = Len(submitted) + Len(empties) /\ published' = published
    BY ONLY <1>1, <2>1, Zenon
  <2> QED BY ONLY <1>7, <2>1, <2>2, Counted DEF Counted, PlacesTyped
<1>10. /\ InStep' /\ ~LaneStep' => empties' = <<>>
       /\ pc' = "close_lane" => LaneStep'
       /\ pc' \in {"capture", "close_lane", "record"} => taken' < SubCaptures
  BY ONLY <1>1, InPlaces DEF InPlaces
<1> QED
  BY ONLY <1>3, <1>8, <1>9, <1>10, Zenon DEF InPlaces, Counted

\* A marker and the count stay true when records are added behind.
LEMMA CountedStays ==
  ASSUME PlacesTyped, Counted, NEW x \in Seq(Int), submitted' = submitted \o x,
         UNCHANGED <<accepted, completed, published>>
  PROVE  Counted'
<1> DEFINE t == submitted \o x
<1>1. t \in Seq(Int) /\ Len(t) = Len(submitted) + Len(x) /\ Len(x) \in Nat
  BY ONLY PlacesTyped, x \in Seq(Int), Together DEF PlacesTyped
<1>2. submitted' = t /\ accepted' = accepted /\ completed' = completed /\ published' = published
  BY Zenon
<1> HIDE DEF t
<1>3. Len(submitted) <= Len(t) /\ published.upTo <= Len(t)
  BY ONLY <1>1, PlacesTyped, Counted DEF PlacesTyped, Counted
<1>4. MarkersTrue(t, accepted, completed)
  BY ONLY <1>1, <1>3, PlacesTyped, Counted, MarkersStay DEF PlacesTyped, Counted
<1> QED BY ONLY <1>2, <1>3, <1>4, Zenon DEF Counted

\* A capture is recorded: among those of the step, or submitted at once.
LEMMA PlacesRecord ==
  ASSUME ControlTypes, LaneTypes, RecordTypes, LaneOrder, Underway, InPlaces, Counted,
         RecordTypes', Record
  PROVE  InPlaces' /\ Counted'
<1> DEFINE n == Seqno
           A == IF band # "sub" /\ ~held THEN <<n>> ELSE <<>>
           B == IF band # "sub" /\ taken' = SubCaptures THEN fulls' ELSE <<>>
           S == submitted \o Todo
<1>1. /\ pc = "record" /\ taken' = taken + 1
      /\ UNCHANGED <<band, laneOn, accepted, completed, published>>
      /\ IF taken' < SubCaptures THEN pc' = "capture" ELSE pc' = "hand_over"
  BY ONLY Record DEF Record, cycle, lane
<1>2. inOrder' = (inOrder \o A) \o B
  BY ONLY Record DEF Record
<1>3. ASSUME band = "sub" PROVE empties' = empties /\ submitted' = submitted
  <2>1. ~LaneStep
    BY ONLY <1>3 DEF LaneStep, WiFiBand
  <2> QED BY ONLY Record, <1>3, <2>1 DEF Record
<1>4. band # "sub" /\ held => empties' = empties /\ submitted' = submitted
  BY ONLY Record DEF Record
<1>5. band # "sub" /\ ~held /\ LaneStep => empties' = Append(empties, n) /\ submitted' = submitted
  BY ONLY Record DEF Record
<1>6. band # "sub" /\ ~held /\ ~LaneStep => empties' = empties /\ submitted' = Append(submitted, n)
  BY ONLY Record DEF Record
<1>7. n \in Int
  <2>1. spent.steps \in Nat /\ SubCaptures \in Nat /\ taken \in Nat
    BY ONLY ScannerAssumption, ControlTypes, RecordTypes
       DEF ScannerAssumption, ControlTypes, Spents, RecordTypes
  <2> QED BY ONLY <2>1 DEF Seqno
<1>8. PlacesTyped
  BY PlacesTypes
<1>9. empties' \in Seq(Int) /\ fulls' \in Seq(Int)
  BY DEF RecordTypes
<1> HIDE DEF n
<1>10. A \in Seq(Int) /\ B \in Seq(Int) /\ S \in Seq(Int) /\ <<n>> \in Seq(Int)
  <2>1. <<n>> \in Seq(Int) /\ S \in Seq(Int)
    BY ONLY <1>7, <1>8, AppendTypes, ConcatTypes DEF PlacesTyped
  <2> HIDE DEF S
  <2> QED BY ONLY <2>1, <1>8, <1>9 DEF PlacesTyped
<1>11. Todo' = Todo
  BY ONLY <1>1, Zenon DEF Todo
<1>12. inOrder = S \o Here
  BY ONLY InPlaces, Zenon DEF InPlaces
<1>13. taken \in Nat /\ SubCaptures \in Nat /\ taken < SubCaptures
  BY ONLY <1>1, RecordTypes, ScannerAssumption, InPlaces DEF RecordTypes, InPlaces
<1>14. pc' = "hand_over" <=> taken' = SubCaptures
  <2>1. taken' = taken + 1 /\ (IF taken' < SubCaptures THEN pc' = "capture" ELSE pc' = "hand_over")
    BY ONLY <1>1
  <2> QED BY ONLY <1>13, <2>1
<1>15. pc' = "capture" => taken' < SubCaptures
  BY ONLY <1>1
<1>16. InStep /\ InStep' /\ pc # "hand_over" /\ pc' \notin {"close_lane", "record"}
  BY ONLY <1>1 DEF InStep
<1>17. (InStep /\ ~LaneStep => empties = <<>>)
  BY ONLY InPlaces, Zenon DEF InPlaces
<1> DEFINE Rest == /\ InStep /\ ~LaneStep => empties = <<>>
                   /\ pc = "close_lane" => LaneStep
                   /\ pc \in {"capture", "close_lane", "record"} => taken < SubCaptures
<1>18. Rest'
  <2>1. LaneStep' <=> LaneStep
    BY ONLY <1>1 DEF LaneStep
  <2>2. ~LaneStep => empties' = empties
    BY ONLY <1>3, <1>4, <1>6
  <2>3. InStep' /\ ~LaneStep' => empties' = <<>>
    BY ONLY <2>1, <2>2, <1>16, <1>17
  <2> QED BY ONLY <2>3, <1>15, <1>16
<1> HIDE DEF A, B, S, Rest
<1>19. CASE band = "sub"
  <2>1. A = <<>> /\ B = <<>> /\ Here = <<>> /\ Here' = <<>> /\ submitted' = submitted
    BY ONLY <1>1, <1>3, <1>19, Zenon DEF A, B, Here
  <2>2. inOrder \o <<>> = inOrder
    BY ONLY <1>8, Together DEF PlacesTyped
  <2>3. inOrder' = inOrder
    BY ONLY <1>2, <2>1, <2>2, Zenon
  <2>4. inOrder' = (submitted' \o Todo') \o Here'
    BY ONLY <1>11, <1>12, <2>1, <2>3, Zenon DEF S
  <2>5. submitted \o <<>> = submitted /\ <<>> \in Seq(Int)
    BY ONLY <1>8, Together DEF PlacesTyped
  <2>6. submitted' = submitted \o <<>>
    BY ONLY <2>1, <2>5, Zenon
  <2>7. Counted'
    BY ONLY <1>1, <1>8, <2>5, <2>6, Counted, CountedStays
  <2> QED BY ONLY <1>18, <2>4, <2>7, Zenon DEF InPlaces, Rest
<1>20. CASE band # "sub"
  <2>1. Here = empties
    BY ONLY <1>16, <1>20, Zenon DEF Here
  <2>2. Here' = empties' \o B
    <3>1. band' # "sub"
      BY ONLY <1>1, <1>20
    <3>2. CASE pc' = "hand_over"
      <4>1. B = fulls'
        BY ONLY <1>14, <1>20, <3>2, Zenon DEF B
      <4> QED BY ONLY <1>16, <3>1, <3>2, <4>1, Zenon DEF Here
    <3>3. CASE pc' # "hand_over"
      <4>1. B = <<>>
        BY ONLY <1>14, <3>3, Zenon DEF B
      <4>2. empties' \o <<>> = empties'
        BY ONLY <1>9, Together
      <4> QED BY ONLY <1>16, <3>1, <3>3, <4>1, <4>2, Zenon DEF Here
    <3> QED BY ONLY <3>2, <3>3
  <2> DEFINE T == submitted' \o Todo
  <2>3. (S \o empties) \o A = T \o empties' /\ T \in Seq(Int) /\ Counted'
    <3>1. CASE held
      <4>1. A = <<>> /\ empties' = empties /\ submitted' = submitted
        BY ONLY <1>4, <1>20, <3>1, Zenon DEF A
      <4>2. S \o empties \in Seq(Int)
        BY ONLY <1>8, <1>10, ConcatTypes DEF PlacesTyped
      <4>3. (S \o empties) \o <<>> = S \o empties
        BY ONLY <4>2, Together
      <4>4. submitted \o <<>> = submitted /\ <<>> \in Seq(Int)
        BY ONLY <1>8, Together DEF PlacesTyped
      <4>5. submitted' = submitted \o <<>>
        BY ONLY <4>1, <4>4, Zenon
      <4>6. Counted'
        BY ONLY <1>1, <1>8, <4>4, <4>5, Counted, CountedStays
      <4>7. T = S
        BY ONLY <4>1, Zenon DEF S
      <4> QED BY ONLY <1>10, <4>1, <4>3, <4>6, <4>7, Zenon
    <3>2. CASE ~held /\ LaneStep
      <4>1. A = <<n>> /\ empties' = Append(empties, n) /\ submitted' = submitted
        BY ONLY <1>5, <1>20, <3>2, Zenon DEF A
      <4>2. Append(empties, n) = empties \o <<n>>
        BY ONLY <1>7, <1>8, Behind DEF PlacesTyped
      <4>3. (S \o empties) \o <<n>> = S \o (empties \o <<n>>)
        <5>1. S \in Seq(Int) /\ empties \in Seq(Int) /\ <<n>> \in Seq(Int)
          BY ONLY <1>8, <1>10 DEF PlacesTyped
        <5> QED BY ONLY <5>1, Associate
      <4>4. submitted \o <<>> = submitted /\ <<>> \in Seq(Int)
        BY ONLY <1>8, Together DEF PlacesTyped
      <4>5. submitted' = submitted \o <<>>
        BY ONLY <4>1, <4>4, Zenon
      <4>6. Counted'
        BY ONLY <1>1, <1>8, <4>4, <4>5, Counted, CountedStays
      <4>7. T = S
        BY ONLY <4>1, Zenon DEF S
      <4> QED BY ONLY <1>10, <4>1, <4>2, <4>3, <4>6, <4>7, Zenon
    <3>3. CASE ~held /\ ~LaneStep
      <4>1. A = <<n>> /\ empties' = empties /\ submitted' = Append(submitted, n)
        BY ONLY <1>6, <1>20, <3>3, Zenon DEF A
      <4>2. Append(submitted, n) = submitted \o <<n>> /\ Append(submitted, n) \in Seq(Int)
        BY ONLY <1>7, <1>8, Behind DEF PlacesTyped
      <4>3. Len(accepted) = completed
        BY ONLY <3>3, <1>1, LaneOrder, Underway DEF LaneOrder, Underway, Idle, LaneStep
      <4>4. Todo = <<>>
        BY ONLY <4>3, <1>8, NothingToDo DEF PlacesTyped, Todo
      <4>5. empties = <<>>
        BY ONLY <3>3, <1>16, <1>17
      <4>6. submitted' = submitted \o <<n>>
        BY ONLY <4>1, <4>2, Zenon
      <4>7. Counted'
        BY ONLY <1>1, <1>8, <1>10, <4>6, Counted, CountedStays
      <4> DEFINE r == submitted \o <<n>>
      <4>8. submitted \o <<>> = submitted /\ r \in Seq(Int) /\ r \o <<>> = r
        <5>1. r \in Seq(Int)
          BY ONLY <4>2, Zenon
        <5>2. submitted \o <<>> = submitted /\ r \o <<>> = r
          BY ONLY <5>1, <1>8, Together DEF PlacesTyped
        <5> QED BY ONLY <5>1, <5>2, Zenon
      <4>9. T = r
        BY ONLY <4>4, <4>6, <4>8, Zenon
      <4>10. (S \o empties) \o A = r
        BY ONLY <4>1, <4>4, <4>5, <4>8, Zenon DEF S
      <4> QED BY ONLY <4>1, <4>5, <4>7, <4>8, <4>9, <4>10, Zenon
    <3> QED BY ONLY <3>1, <3>2, <3>3
  <2> HIDE DEF T
  <2>4. (T \o empties') \o B = T \o (empties' \o B)
    <3>1. T \in Seq(Int) /\ empties' \in Seq(Int) /\ B \in Seq(Int)
      BY ONLY <1>9, <1>10, <2>3
    <3> QED BY ONLY <3>1, Associate
  <2>5. inOrder' = T \o Here'
    BY ONLY <1>2, <1>12, <2>1, <2>2, <2>3, <2>4, Zenon
  <2>6. inOrder' = (submitted' \o Todo') \o Here'
    BY ONLY <1>11, <2>5, Zenon DEF T
  <2> QED BY ONLY <1>18, <2>3, <2>6, Zenon DEF InPlaces, Rest
<1> QED BY ONLY <1>19, <1>20

\* Without a lane, or on no band of its own, nothing is in the lane.
LEMMA NoLaneStep ==
  ASSUME PlacesTyped, LaneOrder, Underway, ~LaneStep, pc # "settle"
  PROVE  Len(accepted) = completed /\ Todo = <<>>
<1>1. Len(accepted) = completed
  BY ONLY LaneOrder, Underway, ~LaneStep, pc # "settle" DEF LaneOrder, Underway, Idle, LaneStep
<1> QED BY ONLY <1>1, PlacesTyped, NothingToDo DEF PlacesTyped, Todo

\* Outside a step the rest of InPlaces holds.
LEMMA OutsideStep ==
  ASSUME pc' \in {"step", "top", "reconnect"}, inOrder' = submitted' \o Todo',
         submitted' \o Todo' \in Seq(Int)
  PROVE  InPlaces'
<1> DEFINE q == submitted' \o Todo'
<1>1. q \in Seq(Int) /\ inOrder' = q
  OBVIOUS
<1>2. q \o <<>> = q
  BY ONLY <1>1, Together
<1>3. ~InStep' /\ pc' \notin {"capture", "close_lane", "record"}
  BY DEF InStep
<1>4. Here' = <<>>
  BY ONLY <1>3, Zenon DEF Here
<1>5. inOrder' = (submitted' \o Todo') \o Here'
  BY ONLY <1>1, <1>2, <1>4, Zenon
<1> QED BY ONLY <1>3, <1>5 DEF InPlaces

\* A job accepted, with the records behind those the lane has already.
LEMMA PlacesAccept ==
  ASSUME PlacesTyped, Counted, NEW j \in LaneJobs, accepted' = Append(accepted, j),
         Len(accepted) < completed + 2, UNCHANGED <<submitted, completed, published>>,
         j.upTo <= Len(submitted) + Len(Todo) + Len(RecordsOf(j))
  PROVE  Todo' = Todo \o RecordsOf(j) /\ Counted'
<1>1. /\ accepted \in Seq(LaneJobs) /\ completed \in Nat /\ completed <= Len(accepted)
      /\ submitted \in Seq(Int)
  BY ONLY PlacesTyped DEF PlacesTyped
<1>2. MarkersTrue(submitted, accepted, completed)
  BY ONLY Counted DEF Counted
<1>3. j.upTo <= Len(submitted) + Len(TodoOf(accepted, completed)) + Len(RecordsOf(j))
  BY Zenon DEF Todo
<1>4. /\ TodoOf(Append(accepted, j), completed) = TodoOf(accepted, completed) \o RecordsOf(j)
      /\ MarkersTrue(submitted, Append(accepted, j), completed)
  BY <1>1, <1>2, <1>3, TodoAccept
<1>5. Todo' = Todo \o RecordsOf(j)
  BY <1>4, Zenon DEF Todo
<1>6. MarkersTrue(submitted', accepted', completed')
  BY <1>4, Zenon
<1>7. published'.upTo <= Len(submitted')
  BY Counted DEF Counted
<1> QED BY ONLY <1>5, <1>6, <1>7, Zenon DEF Counted

\* The step is handed to the lane, or submitted by the scan thread.
LEMMA PlacesHandOver ==
  ASSUME ControlTypes, LaneTypes, RecordTypes, LaneOrder, Underway, InPlaces, Counted, HandOver
  PROVE  InPlaces' /\ Counted'
<1> DEFINE R == empties \o fulls
           S == submitted \o Todo
<1>1. /\ pc = "hand_over" /\ pc' = "step"
      /\ UNCHANGED <<inOrder, completed, published>>
  BY ONLY HandOver DEF HandOver, lane, Lane!Accept
<1>2. PlacesTyped
  BY PlacesTypes
<1>3. /\ R \in Seq(Int) /\ S \in Seq(Int) /\ S \o <<>> = S /\ submitted \o <<>> = submitted
      /\ fulls \in Seq(Int) /\ <<>> \in Seq(Int) /\ submitted \in Seq(Int) /\ Todo \in Seq(Int)
      /\ Len(Todo) \in Nat /\ Len(submitted) \in Nat /\ Len(R) \in Nat /\ <<>> \o fulls = fulls
  <2>1. R \in Seq(Int) /\ S \in Seq(Int)
    BY ONLY <1>2, ConcatTypes DEF PlacesTyped
  <2> HIDE DEF R, S
  <2> QED BY ONLY <1>2, <2>1, Together DEF PlacesTyped
<1>4. inOrder = S \o Here
  BY ONLY InPlaces, Zenon DEF InPlaces
<1> HIDE DEF S
<1>5. CASE LaneStep
  <2> DEFINE j == Job(empties, fulls, 0, 0)
  <2>1. /\ Outstanding < 1 /\ accepted' = Append(accepted, j) /\ submitted' = submitted
    BY ONLY HandOver, <1>5 DEF HandOver, Lane!Accept
  <2>2. j \in LaneJobs /\ j.upTo = 0 /\ RecordsOf(j) = R
    BY JobTypes DEF Job, RecordsOf
  <2> HIDE DEF j, R
  <2>3. Len(accepted) < completed + 2
    BY ONLY <1>2, <2>1 DEF Outstanding, PlacesTyped
  <2>4. j.upTo <= Len(submitted) + Len(Todo) + Len(RecordsOf(j))
    BY ONLY <1>3, <2>2
  <2>5. Todo' = Todo \o RecordsOf(j) /\ Counted'
    BY ONLY <1>1, <1>2, <2>1, <2>2, <2>3, <2>4, Counted, PlacesAccept
  <2>6. Here = R
    <3>1. band # "sub" /\ InStep
      BY ONLY <1>1, <1>5 DEF LaneStep, WiFiBand, InStep
    <3> QED BY ONLY <1>1, <3>1, Zenon DEF Here, R
  <2>7. (submitted \o Todo) \o R = submitted \o (Todo \o R) /\ S \o R \in Seq(Int)
    <3>1. submitted \in Seq(Int) /\ Todo \in Seq(Int) /\ R \in Seq(Int) /\ S \in Seq(Int)
      BY ONLY <1>3
    <3>2. (submitted \o Todo) \o R = submitted \o (Todo \o R)
      BY ONLY <3>1, Associate
    <3>3. S \o R \in Seq(Int)
      BY ONLY <3>1, ConcatTypes
    <3> QED BY ONLY <3>2, <3>3
  <2>8. inOrder' = submitted' \o Todo' /\ submitted' \o Todo' \in Seq(Int)
    BY ONLY <1>1, <1>4, <2>1, <2>2, <2>5, <2>6, <2>7, Zenon DEF S
  <2> QED BY ONLY <1>1, <2>5, <2>8, OutsideStep
<1>6. CASE ~LaneStep
  <2>1. /\ accepted' = accepted
        /\ submitted' = IF band = "sub" THEN submitted ELSE submitted \o fulls
    BY ONLY HandOver, <1>6 DEF HandOver, lane
  <2>2. Todo = <<>>
    BY ONLY <1>1, <1>2, <1>6, LaneOrder, Underway, NoLaneStep
  <2>3. Todo' = <<>>
    BY ONLY <1>1, <2>1, <2>2, Zenon DEF Todo
  <2>4. S = submitted
    BY ONLY <1>3, <2>2, Zenon DEF S
  <2>5. PICK x \in Seq(Int) : submitted' = submitted \o x /\ Here = x
    <3>1. CASE band = "sub"
      <4>1. submitted' = submitted \o <<>> /\ Here = <<>>
        BY ONLY <1>3, <2>1, <3>1, Zenon DEF Here
      <4> QED BY ONLY <1>3, <4>1
    <3>2. CASE band # "sub"
      <4>1. empties = <<>>
        BY ONLY <1>1, <1>6, InPlaces DEF InPlaces, InStep
      <4>2. InStep
        BY ONLY <1>1 DEF InStep
      <4>3. Here = fulls
        BY ONLY <1>1, <1>3, <3>2, <4>1, <4>2, Zenon DEF Here
      <4> QED BY ONLY <1>3, <2>1, <3>2, <4>3
    <3> QED BY ONLY <3>1, <3>2
  <2> DEFINE y == submitted \o x
  <2>6. y \in Seq(Int) /\ y \o <<>> = y
    <3>1. y \in Seq(Int)
      BY ONLY <1>3, x \in Seq(Int), ConcatTypes
    <3> QED BY ONLY <3>1, Together
  <2>7. inOrder' = y /\ submitted' = y
    BY ONLY <1>1, <1>4, <2>4, <2>5, Zenon
  <2>8. Counted'
    BY ONLY <1>1, <1>2, <2>1, <2>5, x \in Seq(Int), Counted, CountedStays
  <2> HIDE DEF y
  <2>9. inOrder' = submitted' \o Todo' /\ submitted' \o Todo' \in Seq(Int)
    BY ONLY <2>3, <2>6, <2>7, Zenon
  <2> QED BY ONLY <1>1, <2>8, <2>9, OutsideStep
<1> QED BY ONLY <1>5, <1>6

\* The count of the cycle follows its records, or is shown behind them.
LEMMA PlacesEndCycle ==
  ASSUME ControlTypes, LaneTypes, RecordTypes, LaneOrder, Underway, InPlaces, Counted, EndCycle
  PROVE  InPlaces' /\ Counted'
<1> DEFINE S == submitted \o Todo
<1>1. /\ pc = "publish" /\ pc' \in {"reconnect", "top"}
      /\ UNCHANGED <<inOrder, completed, submitted>>
  BY ONLY EndCycle DEF EndCycle, Publish, lane, Lane!Accept, records
<1>2. PlacesTyped
  BY PlacesTypes
<1>3. /\ S \in Seq(Int) /\ S \o <<>> = S /\ submitted \o <<>> = submitted
      /\ Len(S) = Len(submitted) + Len(Todo) /\ Todo \o <<>> = Todo
      /\ Len(Todo) \in Nat /\ Len(submitted) \in Nat
  <2>1. S \in Seq(Int) /\ Len(S) = Len(submitted) + Len(Todo) /\ Len(Todo) \in Nat
    BY ONLY <1>2, Together DEF PlacesTyped
  <2> HIDE DEF S
  <2> QED BY ONLY <1>2, <2>1, Together DEF PlacesTyped
<1>4. inOrder = S
  <2>1. Here = <<>>
    <3>1. ~InStep
      BY ONLY <1>1 DEF InStep
    <3> QED BY ONLY <3>1, Zenon DEF Here
  <2>2. inOrder = S \o Here
    BY ONLY InPlaces, Zenon DEF InPlaces
  <2> QED BY ONLY <1>3, <2>1, <2>2, Zenon
<1> HIDE DEF S
<1>5. CASE LaneStep
  <2> DEFINE j == Job(<<>>, <<>>, count, Len(inOrder))
  <2>1. Outstanding < 2 /\ accepted' = Append(accepted, j) /\ published' = published
    BY ONLY EndCycle, <1>5 DEF EndCycle, Publish, Lane!Accept
  <2>2. j \in LaneJobs /\ j.upTo = Len(inOrder) /\ RecordsOf(j) = <<>> \o <<>>
    BY JobTypes DEF Job, RecordsOf
  <2>3. <<>> \o <<>> = <<>> /\ Len(<<>>) = 0
    BY ONLY <1>2, Together, EmptySeq DEF PlacesTyped
  <2>4. RecordsOf(j) = <<>> /\ Len(RecordsOf(j)) = 0
    BY ONLY <2>2, <2>3, Zenon
  <2> HIDE DEF j
  <2>5. Len(accepted) < completed + 2
    BY ONLY <1>2, <2>1 DEF Outstanding, PlacesTyped
  <2>6. j.upTo <= Len(submitted) + Len(Todo) + Len(RecordsOf(j))
    <3>1. j.upTo = Len(submitted) + Len(Todo)
      BY ONLY <1>3, <1>4, <2>2, Zenon
    <3> QED BY ONLY <1>3, <2>4, <3>1
  <2>7. Todo' = Todo \o RecordsOf(j) /\ Counted'
    BY ONLY <1>1, <1>2, <2>1, <2>2, <2>5, <2>6, Counted, PlacesAccept
  <2>8. inOrder' = submitted' \o Todo' /\ submitted' \o Todo' \in Seq(Int)
    BY ONLY <1>1, <1>3, <1>4, <2>4, <2>7, Zenon DEF S
  <2> QED BY ONLY <1>1, <2>7, <2>8, OutsideStep
<1>6. CASE ~LaneStep
  <2>1. accepted' = accepted /\ published' = Taken
    BY ONLY EndCycle, <1>6 DEF EndCycle, Publish, lane
  <2>2. Todo = <<>> /\ Len(accepted) = completed
    BY ONLY <1>1, <1>2, <1>6, LaneOrder, Underway, NoLaneStep
  <2>3. Todo' = Todo
    BY ONLY <1>1, <2>1, Zenon DEF Todo
  <2>4. inOrder' = submitted' \o Todo' /\ submitted' \o Todo' \in Seq(Int)
    BY ONLY <1>1, <1>3, <1>4, <2>3, Zenon DEF S
  <2>5. inOrder = submitted
    BY ONLY <1>3, <1>4, <2>2, Zenon DEF S
  <2>6. published'.upTo = Len(submitted)
    <3>1. published'.upTo = Len(inOrder)
      BY ONLY <2>1 DEF Taken
    <3> QED BY ONLY <2>5, <3>1, Zenon
  <2>7. MarkersTrue(submitted, accepted, completed)
    BY ONLY <1>2, <2>2, NothingToDo DEF PlacesTyped
  <2>8. published'.upTo <= Len(submitted')
    BY ONLY <1>1, <1>3, <2>6
  <2>9. Counted'
    BY ONLY <1>1, <2>1, <2>7, <2>8, Zenon DEF Counted
  <2> QED BY ONLY <1>1, <2>4, <2>9, OutsideStep
<1> QED BY ONLY <1>5, <1>6

\* The lane does a job: its records are submitted, and its count is shown.
LEMMA PlacesJob ==
  ASSUME LaneTypes, RecordTypes, LaneOrder, InPlaces, Counted, RecordTypes', RunWifiLaneJob
  PROVE  InPlaces' /\ Counted'
<1> DEFINE j == accepted[completed + 1]
           R == RecordsOf(j)
           q == TodoOf(accepted, completed + 1)
<1>1. PlacesTyped
  BY PlacesTypes
<1>2. /\ completed < Len(started) /\ completed' = completed + 1
      /\ UNCHANGED <<accepted, inOrder, pc, band, laneOn, taken, empties, fulls>>
  BY ONLY RunWifiLaneJob DEF RunWifiLaneJob, Lane!Complete, cycle, stepVars
<1>3. /\ Len(started) = completed + 1 /\ Len(started) <= Len(accepted)
      /\ Len(accepted) <= completed + 2
  <2>1. Len(started) \in Nat /\ completed \in Nat
    BY LenProperties DEF LaneTypes
  <2> QED BY ONLY <1>2, <2>1, LaneOrder DEF LaneOrder
<1>4. started[Len(started)] = j
  BY ONLY <1>1, <1>3, LaneOrder DEF LaneOrder, PlacesTyped
<1>5. /\ submitted' = (submitted \o j.empties) \o j.fulls
      /\ published' = IF j.marker = 0 THEN published ELSE [count |-> j.marker, upTo |-> j.upTo]
  BY ONLY RunWifiLaneJob, <1>4 DEF RunWifiLaneJob
<1>6. j \in LaneJobs
  BY ONLY <1>1, <1>3, ElementOfSeq DEF PlacesTyped
<1> HIDE DEF j
<1>7. R \in Seq(Int) /\ Len(R) \in Nat /\ j.empties \in Seq(Int) /\ j.fulls \in Seq(Int)
  BY ONLY <1>6, JobRecords
<1>8. submitted' = submitted \o R
  <2>1. (submitted \o j.empties) \o j.fulls = submitted \o (j.empties \o j.fulls)
    <3> DEFINE e == j.empties
               f == j.fulls
    <3>1. submitted \in Seq(Int) /\ e \in Seq(Int) /\ f \in Seq(Int)
      BY ONLY <1>1, <1>7 DEF PlacesTyped
    <3> HIDE DEF e, f
    <3>2. (submitted \o e) \o f = submitted \o (e \o f)
      BY ONLY <3>1, Associate
    <3> QED BY ONLY <3>2, Zenon DEF e, f
  <2> QED BY ONLY <1>5, <2>1, Zenon DEF RecordsOf
<1> HIDE DEF R
<1> DEFINE t == submitted \o R
<1>9. t \in Seq(Int) /\ Len(t) = Len(submitted) + Len(R)
  BY ONLY <1>1, <1>7, Together DEF PlacesTyped
<1> HIDE DEF t, q
<1>10. /\ completed < Len(accepted) /\ MarkersTrue(submitted, accepted, completed)
       /\ Len(t) = Len(submitted) + Len(RecordsOf(accepted[completed + 1]))
  BY ONLY <1>1, <1>3, <1>9, Counted DEF PlacesTyped, Counted, R, j
<1>11. /\ TodoOf(accepted, completed) = RecordsOf(accepted[completed + 1]) \o
                                         TodoOf(accepted, completed + 1)
       /\ MarkersTrue(t, accepted, completed + 1) /\ accepted[completed + 1].upTo <= Len(t)
  BY ONLY <1>1, <1>3, <1>9, <1>10, TodoComplete DEF PlacesTyped
<1>12. Todo = R \o q /\ Todo' = q /\ j.upTo <= Len(t)
  BY ONLY <1>2, <1>11, Zenon DEF Todo, R, q, j
<1>13. q \in Seq(Int)
  BY ONLY <1>1, <1>3, TodoTypes DEF q, PlacesTyped
<1>14. submitted \o Todo = submitted' \o Todo'
  <2>1. (submitted \o R) \o q = submitted \o (R \o q)
    <3>1. submitted \in Seq(Int) /\ R \in Seq(Int) /\ q \in Seq(Int)
      BY ONLY <1>1, <1>7, <1>13 DEF PlacesTyped
    <3> QED BY ONLY <3>1, Associate
  <2> QED BY ONLY <1>8, <1>12, <2>1, Zenon
<1>15. Here' = Here
  BY ONLY <1>2, Zenon DEF Here, InStep
<1>16. inOrder' = (submitted' \o Todo') \o Here'
  BY ONLY <1>2, <1>14, <1>15, InPlaces, Zenon DEF InPlaces
<1>17. InPlaces'
  BY ONLY <1>2, <1>16, InPlaces, Zenon DEF InPlaces, InStep, LaneStep
<1>18. published'.upTo <= Len(t)
  <2>1. published.upTo <= Len(t)
    BY ONLY <1>1, <1>7, <1>9, Counted DEF Counted, PlacesTyped
  <2> QED BY ONLY <1>5, <1>12, <2>1
<1>19. Counted'
  BY ONLY <1>2, <1>8, <1>11, <1>18, Zenon DEF Counted, t
<1> QED BY ONLY <1>17, <1>19

\* The records stay in their places, and the counts true.
LEMMA PlacesKept ==
  ASSUME ControlTypes, LaneTypes, RecordTypes, LaneOrder, Underway, InPlaces, Counted,
         RecordTypes', [Next]_vars
  PROVE  InPlaces' /\ Counted'
<1>1. CASE Record
  BY <1>1, PlacesRecord
<1>2. CASE LaneClosed
  BY <1>2, PlacesLaneClosed
<1>3. CASE HandOver
  BY <1>3, PlacesHandOver
<1>4. CASE EndCycle
  BY <1>4, PlacesEndCycle
<1>5. CASE RunWifiLaneJob
  BY <1>5, PlacesJob
<1>6. CASE Connect
  <2>1. /\ pc = "connect" /\ pc' \in {"top", "off"} /\ accepted' = <<>> /\ completed' = 0
        /\ UNCHANGED <<submitted, inOrder, published>>
    BY ONLY <1>6 DEF Connect, records
  <2>2. PlacesTyped
    BY PlacesTypes
  <2>3. Len(accepted) = completed
    BY ONLY <2>1, LaneOrder, Underway DEF LaneOrder, Underway, Idle
  <2>4. Todo = <<>>
    BY ONLY <2>2, <2>3, NothingToDo DEF PlacesTyped, Todo
  <2>5. Len(accepted') = completed' /\ completed' \in Nat
    BY ONLY <2>1, EmptySeq
  <2>6. Todo' = <<>> /\ MarkersTrue(submitted', accepted', completed')
    BY ONLY <2>5, NothingToDo DEF Todo
  <2>7. ~InStep /\ ~InStep' /\ pc' \notin {"capture", "close_lane", "record"}
    BY ONLY <2>1 DEF InStep
  <2>8. Here = <<>> /\ Here' = <<>>
    BY ONLY <2>7, Zenon DEF Here
  <2>9. inOrder' = (submitted' \o Todo') \o Here'
    BY ONLY <2>1, <2>4, <2>6, <2>8, InPlaces, Zenon DEF InPlaces
  <2>10. published'.upTo <= Len(submitted')
    BY ONLY <2>1, Counted, Zenon DEF Counted
  <2>11. InPlaces'
    BY ONLY <2>7, <2>9 DEF InPlaces
  <2> QED BY ONLY <2>6, <2>10, <2>11, Zenon DEF Counted
<1>7. CASE \/ BeginCycle \/ Settle \/ LeaveCoordinated \/ BeginCoordinated
  <2>1. /\ UNCHANGED <<submitted, inOrder, accepted, completed>>
        /\ pc \in {"top", "settle", "coordinated"}
        /\ pc' \in {"settle", "step", "top", "coordinated"}
        /\ published' = published \/ published' = [published EXCEPT !.count = 0]
    BY ONLY <1>7 DEF BeginCycle, Settle, LeaveCoordinated, BeginCoordinated, records, lane
  <2>2. published'.upTo = published.upTo
    BY <2>1 DEF RecordTypes
  <2>3. ~InStep /\ ~InStep'
    BY ONLY <2>1 DEF InStep
  <2> QED BY <2>1, <2>2, <2>3, PlacesAlone
<1>8. CASE \/ EndSteps \/ Process \/ Await \/ Commit \/ Reconnect
           \/ \E got \in BOOLEAN : Listen(got)
  <2>1. /\ UNCHANGED <<submitted, inOrder, accepted, completed, published>>
        /\ pc \in {"step", "process", "await", "commit", "reconnect", "listen"}
        /\ pc' \in {"listen", "commit", "await", "publish", "top", "process"}
    BY ONLY <1>8 DEF EndSteps, Process, Await, Commit, Reconnect, Listen, records, lane
  <2>2. ~InStep /\ ~InStep'
    BY ONLY <2>1 DEF InStep
  <2> QED BY <2>1, <2>2, PlacesAlone
<1>9. CASE LeaveLoop \/ Leave
  <2>1. /\ UNCHANGED <<submitted, inOrder, accepted, completed, published>>
        /\ pc \in {"top", "closing", "leave"} /\ pc' \in {"closing", "leave", "off"}
    BY ONLY <1>9 DEF LeaveLoop, Leave, Lane!Close, records, lane
  <2>2. ~InStep /\ ~InStep'
    BY ONLY <2>1 DEF InStep
  <2> QED BY <2>1, <2>2, PlacesAlone
<1>10. CASE Start
  <2>1. /\ UNCHANGED <<submitted, inOrder, accepted, completed, published>>
        /\ pc' = "connect" /\ ~monitorOn
    BY ONLY <1>10 DEF Start, records, lane
  <2>2. ~InStep /\ ~InStep'
    BY ONLY <2>1, Underway DEF InStep, Underway
  <2> QED BY <2>1, <2>2, PlacesAlone
<1>11. CASE BeginStep
  <2>1. /\ UNCHANGED <<submitted, inOrder, accepted, completed, published>>
        /\ pc = "step" /\ pc' = "capture" /\ empties' = <<>> /\ taken' = 0
    BY ONLY <1>11 DEF BeginStep, records, lane
  <2> QED BY <2>1, PlacesAlone
<1>12. ASSUME NEW got \in BOOLEAN, NEW fits \in BOOLEAN, Capture(got, fits)
       PROVE  InPlaces' /\ Counted'
  <2>1. /\ UNCHANGED <<submitted, inOrder, accepted, completed, published>>
        /\ pc = "capture" /\ pc' \in {"close_lane", "record"}
        /\ pc' = "close_lane" => LaneStep
        /\ UNCHANGED <<band, laneOn, taken, empties>>
    BY ONLY <1>12 DEF Capture, Lane!Close, records, lane, cycle
  <2> QED BY <2>1, PlacesAlone
<1>13. CASE \/ LoraTask \/ LaneStart \/ LaneStop \/ UNCHANGED vars
            \/ StopCall \/ StopReturn \/ RequestSave \/ \E m \in Mode : SetActiveBand(m)
  <2>1. /\ UNCHANGED <<submitted, inOrder, accepted, completed, published>>
        /\ UNCHANGED <<pc, band, laneOn, taken, empties, fulls>>
    BY ONLY <1>13 DEF LoraTask, TakeRequest, Decode, LaneStart, LaneStop, Lane!Start, Lane!Stop,
                      StopCall, StopReturn, RequestSave, SetActiveBand, vars, records, lane,
                      stepVars, cycle
  <2> QED BY <2>1, PlacesAlone
<1> QED BY <1>1, <1>2, <1>3, <1>4, <1>5, <1>6, <1>7, <1>8, <1>9, <1>10, <1>11, <1>12, <1>13
        DEF Next, ScanThread, LaneThread, Operator

-----------------------------------------------------------------------------
(* The invariant, and what follows from it *)

\* Nothing is captured, handed over or counted at first.
LEMMA InitHolds == Init => IInv
<1> SUFFICES ASSUME Init PROVE IInv
  OBVIOUS
<1>1. ControlTypes /\ LaneTypes /\ RecordTypes /\ LoraTypes
  BY EmptySeq DEF Init, ControlTypes, LaneTypes, RecordTypes, LoraTypes, Spents
<1>2. LaneOrder /\ Saves /\ Underway
  BY EmptySeq DEF Init, LaneOrder, Idle, Saves, SaveServed, Underway, WiFiBand
<1>3. Len(accepted) = completed /\ completed \in Nat /\ pc = "off" /\ submitted = <<>>
      /\ inOrder = <<>> /\ published.upTo = 0 /\ Len(submitted) = 0
  BY EmptySeq DEF Init
<1>4. Todo = <<>> /\ MarkersTrue(submitted, accepted, completed)
  BY ONLY <1>3, NothingToDo DEF Todo
<1>5. ~InStep /\ Here = <<>>
  BY ONLY <1>3 DEF InStep, Here
<1>6. <<>> \o <<>> = <<>>
  BY Together, EmptySeq
<1>7. inOrder = (submitted \o Todo) \o Here
  BY ONLY <1>3, <1>4, <1>5, <1>6, Zenon
<1>8. InPlaces /\ Counted
  BY ONLY <1>3, <1>4, <1>5, <1>7 DEF InPlaces, Counted
<1>9. LoraKnown
  <2>1. /\ pc = "off" /\ committed = <<>> /\ detections = <<>> /\ pending = 0
        /\ spent.listens = 0
    BY DEF Init
  <2>2. Known = <<>>
    <3>1. Known = (<<>> \o <<>>) \o <<>>
      BY ONLY <2>1 DEF Known, KnownOf
    <3> QED BY ONLY <1>6, <3>1, Zenon
  <2>3. Taking = 0 /\ spent.listens - Taking = 0
    <3>1. Taking = 0
      BY ONLY <2>1 DEF Taking
    <3> QED BY ONLY <2>1, <3>1
  <2>4. OneTo(0) = <<>>
    <3>1. OneTo(0) = [k \in 1..0 |-> k]
      BY DEF OneTo
    <3>2. [k \in 1..0 |-> k] \in Seq(Nat) /\ Len([k \in 1..0 |-> k]) = 0
      OBVIOUS
    <3> DEFINE e == [k \in 1..0 |-> k]
    <3> HIDE DEF e
    <3>3. e \in Seq(Nat) /\ Len(e) = 0
      BY <3>2 DEF e
    <3>4. e = <<>>
      BY ONLY <3>3, EmptySeq
    <3> QED BY <3>1, <3>4 DEF e
  <2>5. Known = OneTo(spent.listens - Taking)
    BY ONLY <2>2, <2>3, <2>4, Zenon
  <2> QED BY ONLY <2>1, <2>5, Zenon DEF LoraKnown
<1> QED BY <1>1, <1>2, <1>8, <1>9 DEF IInv

\* Every step of every thread keeps it.
LEMMA NextHolds == IInv /\ [Next]_vars => IInv'
<1> SUFFICES ASSUME IInv, [Next]_vars PROVE IInv'
  OBVIOUS
<1> USE DEF IInv
<1>1. ControlTypes'
  BY ControlTypesKept
<1>2. LaneTypes'
  BY LaneTypesKept
<1>3. RecordTypes'
  BY RecordTypesKept
<1>4. LoraTypes'
  BY LoraTypesKept
<1>5. LaneOrder'
  BY LaneOrderKept
<1>6. Underway'
  BY UnderwayKept
<1>7. Saves'
  BY SavesKept
<1>8. LoraKnown'
  BY <1>1, LoraKept
<1>9. InPlaces' /\ Counted'
  BY <1>3, PlacesKept
<1> QED BY <1>1, <1>2, <1>3, <1>4, <1>5, <1>6, <1>7, <1>8, <1>9

\* What is in its places comes out in the order it has without a lane.
LEMMA PlacesFollow ==
  ASSUME LaneTypes, RecordTypes, LaneOrder, Underway, InPlaces
  PROVE  AsWithoutLane
<1>1. PlacesTyped
  BY PlacesTypes
<1> DEFINE x == Todo \o Here
<1>2. x \in Seq(Int) /\ (submitted \o Todo) \o Here = submitted \o x /\ Len(x) \in Nat
  <2>1. submitted \in Seq(Int) /\ Todo \in Seq(Int) /\ Here \in Seq(Int)
    BY ONLY <1>1 DEF PlacesTyped
  <2>2. x \in Seq(Int)
    BY ONLY <2>1, ConcatTypes
  <2>3. (submitted \o Todo) \o Here = submitted \o x
    BY ONLY <2>1, Associate
  <2> HIDE DEF x
  <2> QED BY ONLY <2>2, <2>3, LenProperties
<1>3. inOrder = submitted \o x
  BY ONLY <1>2, InPlaces, Zenon DEF InPlaces
<1> HIDE DEF x
<1>4. IsPrefix(submitted, inOrder)
  <2>1. /\ Len(submitted \o x) = Len(submitted) + Len(x)
        /\ \A i \in 1..Len(submitted) : (submitted \o x)[i] = submitted[i]
    BY ONLY <1>1, <1>2, ConcatProperties DEF PlacesTyped
  <2> QED BY ONLY <1>1, <1>2, <1>3, <2>1 DEF IsPrefix, PlacesTyped
<1>5. ASSUME ~monitorOn PROVE submitted = inOrder
  <2>1. pc = "off" /\ Len(accepted) = completed
    BY ONLY <1>5, Underway, LaneOrder DEF Underway, LaneOrder, Idle
  <2>2. Todo = <<>>
    BY ONLY <1>1, <2>1, NothingToDo DEF PlacesTyped, Todo
  <2>3. Here = <<>>
    BY ONLY <2>1 DEF Here, InStep
  <2>4. <<>> \o <<>> = <<>> /\ submitted \o <<>> = submitted
    BY ONLY <1>1, Together DEF PlacesTyped
  <2> QED BY ONLY <1>3, <2>2, <2>3, <2>4, Zenon DEF x
<1> QED BY <1>4, <1>5 DEF AsWithoutLane

\* The conjuncts of the invariant hold at all times.
THEOREM Invariance == Spec => []IInv
BY InitHolds, NextHolds, PTL DEF Spec

\* LoRa work and the coordinated mode never meet Wi-Fi work (LaneSettled, Drain).
THEOREM NeverTogetherHolds == Spec => []NeverTogether
<1>1. IInv => NeverTogether
  <2> SUFFICES ASSUME IInv PROVE NeverTogether
    OBVIOUS
  <2>1. Idle => LaneIdle
    <3>1. completed \in Nat
      BY DEF IInv, LaneTypes
    <3> QED BY <3>1 DEF Idle, LaneIdle, Outstanding
  <2> QED BY <2>1 DEF IInv, Underway, NeverTogether, WiFiBand
<1> QED BY <1>1, Invariance, PTL

\* A request to save is never left without anyone to serve it (TakeRequest, Decode).
THEOREM SaveServedHolds == Spec => []SaveServed
<1>1. IInv => SaveServed
  BY DEF IInv, Saves
<1> QED BY <1>1, Invariance, PTL

\* Every LoRa capture is committed once and in order, before stop() returns; the
\* security monitor sees what it would see without the lane; and a cycle is counted
\* only when its records have been submitted (RunWifiLaneJob, Drain, Publish).
THEOREM ResultsInOrderHolds == Spec => []ResultsInOrder
<1>1. IInv => LoraInOrder
  BY LoraFollows DEF IInv
<1>2. IInv => AsWithoutLane
  BY PlacesFollow DEF IInv
<1>3. IInv => CountMeansProcessed
  <2> SUFFICES ASSUME IInv PROVE CountMeansProcessed
    OBVIOUS
  <2>1. PlacesTyped
    BY PlacesTypes DEF IInv
  <2> QED BY <2>1 DEF IInv, Counted, CountMeansProcessed, PlacesTyped
<1>4. IInv => ResultsInOrder
  BY <1>1, <1>2, <1>3 DEF ResultsInOrder
<1> QED BY <1>4, Invariance, PTL

-----------------------------------------------------------------------------
(* The coordinated mode: every visit the ledger holds as analysed is, or its job is in *)
(* the lane and no later than it may be. *)

\* A sequence, of whatever it is made of.
IsSeq(s) == s \in Seq(ToSet(s))

\* What a job takes behind it in its lane adds to it.
LEMMA OneMore ==
  ASSUME NEW s, IsSeq(s), NEW e
  PROVE  IsSeq(Append(s, e)) /\ ToSet(Append(s, e)) = ToSet(s) \cup {e}
<1> DEFINE T == ToSet(s) \cup {e}
           t == Append(s, e)
<1>1. s \in Seq(T) /\ e \in T
  BY DEF IsSeq
<1>2. t \in Seq(T) /\ Len(t) = Len(s) + 1 /\ t[Len(s) + 1] = e /\ Len(s) \in Nat
      /\ \A i \in 1..Len(s) : t[i] = s[i]
  BY <1>1
<1>3. ToSet(t) = T
  <2>1. ToSet(s) = {s[i] : i \in 1..Len(s)} /\ ToSet(t) = {t[i] : i \in 1..Len(t)}
    BY <1>1, <1>2 DEF ToSet
  <2>2. \A i \in 1..Len(t) : i \in 1..Len(s) \/ i = Len(s) + 1
    BY <1>2
  <2>3. \A i \in 1..Len(s) : i \in 1..Len(t)
    BY <1>2
  <2>4. Len(s) + 1 \in 1..Len(t)
    BY <1>2
  <2> QED BY ONLY <1>2, <2>1, <2>2, <2>3, <2>4
<1> QED BY ONLY <1>2, <1>3 DEF IsSeq

\* A lane without its first job.
LEMMA OneLess ==
  ASSUME NEW s, IsSeq(s), s # <<>>
  PROVE  IsSeq(Tail(s)) /\ ToSet(s) = ToSet(Tail(s)) \cup {Head(s)}
<1> DEFINE T == ToSet(s)
           t == Tail(s)
<1>1. s \in Seq(T)
  BY DEF IsSeq
<1>2. t \in Seq(T) /\ Len(s) \in Nat /\ Len(s) > 0 /\ Len(t) = Len(s) - 1 /\ Head(s) = s[1]
      /\ \A i \in 1..Len(t) : t[i] = s[i + 1]
  BY <1>1
<1>3. T = {s[i] : i \in 1..Len(s)}
  BY <1>1 DEF ToSet
<1> HIDE DEF t, T
<1>4. ToSet(t) = {t[i] : i \in 1..Len(t)}
  BY ONLY <1>2 DEF ToSet
<1>5. ASSUME NEW x \in T PROVE x \in ToSet(t) \cup {Head(s)}
  <2>1. PICK i \in 1..Len(s) : x = s[i]
    BY <1>3
  <2>2. CASE i = 1
    BY <1>2, <2>1, <2>2
  <2>3. CASE i # 1
    <3>1. i - 1 \in 1..Len(t) /\ (i - 1) + 1 = i
      BY <1>2, <2>3
    <3>2. t[i - 1] = x
      BY <1>2, <2>1, <3>1
    <3> QED BY <1>4, <3>1, <3>2
  <2> QED BY <2>2, <2>3
<1>6. ASSUME NEW x \in ToSet(t) \cup {Head(s)} PROVE x \in T
  <2>1. CASE x = Head(s)
    <3>1. 1 \in 1..Len(s)
      BY <1>2
    <3> QED BY <1>2, <1>3, <2>1, <3>1
  <2>2. CASE x \in ToSet(t)
    <3>1. PICK i \in 1..Len(t) : x = t[i]
      BY <1>4, <2>2
    <3>2. i + 1 \in 1..Len(s) /\ x = s[i + 1]
      BY <1>2, <3>1
    <3> QED BY <1>3, <3>2
  <2> QED BY <2>1, <2>2
<1>7. T = ToSet(t) \cup {Head(s)}
  BY <1>5, <1>6
<1>8. t \in Seq(ToSet(t))
  <2>1. \A i \in 1..Len(t) : t[i] \in ToSet(t)
    BY <1>4
  <2> QED BY ONLY <1>2, <2>1
<1> QED BY <1>7, <1>8 DEF IsSeq, t, T

\* What the visits and their jobs say of each other.  A visit in progress has not been
\* heard of yet.
CoTyped ==
  /\ now \in Nat /\ lastSeen \in Nat /\ lastSeen <= now
  /\ config \in DOMAIN Schedules /\ (coPc = "visit" => version \in DOMAIN Schedules)
  /\ DOMAIN lanes = Kinds /\ IsSeq(lanes["wifi"]) /\ IsSeq(ledger) /\ IsSeq(detector)

VisitsTrue ==
  /\ visits \in Nat
  /\ current # <<>> =>
       /\ current.start \in Nat /\ current.start <= now
       /\ current.covers => current.slot = Emitter[1]
       /\ visits \notin heard /\ \A v \in ToSet(ledger) : v.visit # visits
  /\ \A w \in heard : w \in Nat /\ w <= visits
  /\ \A v \in ToSet(ledger) :
       /\ v.visit \in Nat /\ v.visit <= visits
       /\ v.start \in Nat /\ v.end \in Nat /\ v.start < v.end /\ v.end <= now

\* What a detector has not answered was handed to it in order, after the emitter was last seen.
DetectorInOrder ==
  /\ \A i \in 1..Len(detector) :
       detector[i].at \in Nat /\ lastSeen <= detector[i].at /\ detector[i].at <= now
  /\ \A i, j \in 1..Len(detector) : i < j => detector[i].at <= detector[j].at

\* The visit is answered, and the emitter seen then if it was there; or its job is to come, or
\* its capture is with a detector, to be seen no earlier than in this visit; or dropped.
Done(v) == v.visit \in analysed /\ (v.visit \in heard => v.start <= lastSeen)
ToCome(v) ==
  \E j \in ToSet(lanes["wifi"]) :
    j.visit = v.visit /\ j.covers /\ (v.visit \in heard => j.found)
HandedOn(v) ==
  \E r \in ToSet(detector) :
    r.visit = v.visit /\ v.start <= r.at /\ (v.visit \in heard => r.found)

InHand(v) == Done(v) \/ ToCome(v) \/ HandedOn(v) \/ v.visit \in dropped

AnalysedTrue == \A v \in ToSet(ledger) : v.analysed => InHand(v)

CoInv == CoTyped /\ VisitsTrue /\ DetectorInOrder /\ AnalysedTrue

\* The coordinated mode at the start.
LEMMA CoInvInit == CoInit => CoInv
<1> SUFFICES ASSUME CoInit PROVE CoInv
  OBVIOUS
<1>1. IsSeq(<<>>) /\ ToSet(<<>>) = {}
  BY DEF IsSeq, ToSet
<1>2. CoTyped
  BY <1>1, CoordinatedAssumption DEF CoInit, CoTyped, Kinds
<1>3. VisitsTrue /\ DetectorInOrder /\ AnalysedTrue
  BY <1>1 DEF CoInit, VisitsTrue, DetectorInOrder, AnalysedTrue
<1> QED BY <1>2, <1>3 DEF CoInv

\* A step that leaves visits, jobs and results alone.
LEMMA CoQuiet ==
  ASSUME CoInv, UNCHANGED <<now, visits, current, heard, lanes, ledger>>,
         UNCHANGED <<detector, lastSeen, analysed, dropped>>,
         config' \in DOMAIN Schedules, coPc' = "visit" => version' \in DOMAIN Schedules
  PROVE  CoInv'
<1>1. CoTyped'
  BY DEF CoInv, CoTyped
<1>2. VisitsTrue'
  BY DEF CoInv, VisitsTrue
<1>3. DetectorInOrder'
  BY DEF CoInv, DetectorInOrder
<1>4. AnalysedTrue'
  BY DEF CoInv, AnalysedTrue, InHand, Done, ToCome, HandedOn
<1> QED BY <1>1, <1>2, <1>3, <1>4 DEF CoInv

\* Time passes: what a detector holds was still handed to it before now.
LEMMA OrderAsTimePasses ==
  ASSUME CoInv, now' = now + 1, UNCHANGED <<detector, lastSeen>>
  PROVE  DetectorInOrder'
<1>1. now \in Nat
  BY DEF CoInv, CoTyped
<1>2. /\ \A i \in 1..Len(detector) :
           detector[i].at \in Nat /\ lastSeen <= detector[i].at /\ detector[i].at <= now + 1
      /\ \A i, j \in 1..Len(detector) : i < j => detector[i].at <= detector[j].at
  BY <1>1 DEF CoInv, DetectorInOrder
<1> QED BY ONLY <1>2, now' = now + 1, UNCHANGED <<detector, lastSeen>> DEF DetectorInOrder

\* The gap between two visits.
LEMMA PauseKeeps ==
  ASSUME CoInv, Pause PROVE CoInv'
<1>1. /\ now' = now + 1
      /\ UNCHANGED <<visits, current, heard, lanes, ledger>>
      /\ UNCHANGED <<detector, lastSeen, analysed, dropped>>
      /\ UNCHANGED <<config, coPc, version>>
  BY DEF Pause, coOperator, run, results
<1>2. now \in Nat /\ lastSeen \in Nat /\ lastSeen <= now
  BY DEF CoInv, CoTyped
<1>3. CoTyped'
  <2>1. now' \in Nat /\ lastSeen' <= now'
    BY ONLY <1>1, <1>2
  <2> QED BY <1>1, <2>1 DEF CoInv, CoTyped
<1>4. VisitsTrue'
  <2>1. /\ visits \in Nat
        /\ current # <<>> =>
             /\ current.start \in Nat /\ current.start <= now + 1
             /\ current.covers => current.slot = Emitter[1]
             /\ visits \notin heard /\ \A v \in ToSet(ledger) : v.visit # visits
        /\ \A w \in heard : w \in Nat /\ w <= visits
        /\ \A v \in ToSet(ledger) :
             /\ v.visit \in Nat /\ v.visit <= visits
             /\ v.start \in Nat /\ v.end \in Nat /\ v.start < v.end /\ v.end <= now + 1
    BY <1>2 DEF CoInv, VisitsTrue
  <2> QED BY ONLY <1>1, <2>1 DEF VisitsTrue
<1>5. DetectorInOrder'
  BY <1>1, OrderAsTimePasses
<1>6. AnalysedTrue'
  BY <1>1 DEF CoInv, AnalysedTrue, InHand, Done, ToCome, HandedOn
<1> QED BY <1>3, <1>4, <1>5, <1>6 DEF CoInv

\* The start of a visit.
LEMMA BeginVisitKeeps ==
  ASSUME CoInv, BeginVisit PROVE CoInv'
<1>1. /\ visits' = visits + 1
      /\ \E p : current' = [slot |-> p.slot, centre |-> p.centre, last |-> p.last,
                            covers |-> <<p.slot, p.centre>> = Emitter, start |-> now]
      /\ UNCHANGED <<now, heard, lanes, ledger, config, coPc, version>>
      /\ UNCHANGED <<detector, lastSeen, analysed, dropped>>
  BY DEF BeginVisit, coOperator, results
<1>2. now \in Nat /\ visits \in Nat
  BY DEF CoInv, CoTyped, VisitsTrue
<1>3. CoTyped'
  BY <1>1 DEF CoInv, CoTyped
<1>4. VisitsTrue'
  <2>1. /\ current'.start = now /\ (current'.covers => current'.slot = Emitter[1])
    <3>1. PICK p : current' = [slot |-> p.slot, centre |-> p.centre, last |-> p.last,
                            covers |-> <<p.slot, p.centre>> = Emitter, start |-> now]
      BY <1>1
    <3>2. /\ current'.slot = p.slot /\ current'.start = now
          /\ current'.covers = (<<p.slot, p.centre>> = Emitter)
      BY ONLY <3>1
    <3>3. <<p.slot, p.centre>> = Emitter => p.slot = Emitter[1]
      OBVIOUS
    <3> QED BY ONLY <3>2, <3>3
  <2>2. /\ visits + 1 \in Nat /\ now <= now /\ visits + 1 \notin heard
        /\ \A v \in ToSet(ledger) : v.visit # visits + 1
    BY <1>2 DEF CoInv, VisitsTrue
  <2>3. /\ \A w \in heard : w \in Nat /\ w <= visits + 1
        /\ \A v \in ToSet(ledger) :
             /\ v.visit \in Nat /\ v.visit <= visits + 1
             /\ v.start \in Nat /\ v.end \in Nat /\ v.start < v.end /\ v.end <= now
    BY <1>2 DEF CoInv, VisitsTrue
  <2> QED BY ONLY <1>1, <1>2, <2>1, <2>2, <2>3 DEF VisitsTrue
<1>5. DetectorInOrder'
  BY <1>1 DEF CoInv, DetectorInOrder
<1>6. AnalysedTrue'
  BY <1>1 DEF CoInv, AnalysedTrue, InHand, Done, ToCome, HandedOn
<1> QED BY <1>3, <1>4, <1>5, <1>6 DEF CoInv

\* A visit ends: where the emitter was to be heard the ledger has an entry for it, and if
\* that says it is to be analysed its job is in the lane.
VisitEnds(job, entry, admits, here) ==
  /\ job.visit = visits /\ job.found = here
  /\ entry.visit = visits /\ entry.start = current.start /\ entry.end = now + 1
  /\ lanes'["wifi"] = (IF admits THEN Append(lanes["wifi"], job) ELSE lanes["wifi"])
  /\ \/ ledger' = ledger
     \/ /\ ledger' = Append(ledger, entry) /\ current.covers
        /\ entry.analysed => admits /\ job.covers
  /\ heard' = (IF here THEN heard \cup {visits} ELSE heard)
  /\ now' = now + 1 /\ current' = <<>> /\ current # <<>>
  /\ UNCHANGED <<visits, config, coPc, version>>
  /\ UNCHANGED <<detector, lastSeen, analysed, dropped>>
  /\ coPc = "visit" /\ DOMAIN lanes' = Kinds

\* What the end of a visit does: its slot is counted, its capture handed to the analysis.
LEMMA EndVisitIs ==
  ASSUME CoInv, NEW got \in {"empty", "some", "all"}, NEW here \in BOOLEAN,
         EndVisit(got, here)
  PROVE  \E job, entry, admits : VisitEnds(job, entry, admits, here)
<1> DEFINE k == Schedule[current.slot].kind
           job == [visit |-> visits, attempt |-> attempt, ends |-> EndsCycle(current),
                   found |-> here, covers |-> current.covers /\ got # "empty"]
           wifiChannel == k = "wifi" /\ <<current.slot, current.centre>> \notin DroneOnly
           offered == got # "empty" \/ wifiChannel
           all == offered /\ Room(k)
           entry == [visit |-> visits, start |-> current.start, end |-> now + 1,
                     valid |-> got = "all", analysed |-> all /\ got # "empty"]
           admits == all /\ k = "wifi"
<1>1. /\ lanes' = IF all THEN [lanes EXCEPT ![k] = Append(@, job)] ELSE lanes
      /\ ledger' = IF current.covers THEN Append(ledger, entry) ELSE ledger
      /\ heard' = IF here THEN heard \cup {visits} ELSE heard
      /\ now' = now + 1 /\ current' = <<>> /\ current # <<>>
      /\ UNCHANGED <<visits, config, coPc, version>>
      /\ UNCHANGED <<detector, lastSeen, analysed, dropped>>
      /\ coPc = "visit"
  BY DEF EndVisit, coOperator, results
<1>2. /\ job.visit = visits /\ job.found = here
      /\ entry.visit = visits /\ entry.start = current.start /\ entry.end = now + 1
      /\ entry.analysed => all
      /\ entry.analysed /\ current.covers => job.covers
  OBVIOUS
<1>3. current.covers => k = "wifi"
  <2>1. version \in DOMAIN Schedules
    BY <1>1 DEF CoInv, CoTyped
  <2>2. Schedules[version] \in ToSet(Schedules)
    BY <2>1 DEF ToSet
  <2>3. Schedules[version][Emitter[1]].kind = "wifi"
    BY <2>2, CoordinatedAssumption
  <2> QED BY <1>1, <2>3 DEF CoInv, VisitsTrue, Schedule
<1> HIDE DEF job, entry, all, k
<1>4. DOMAIN lanes' = Kinds
  BY <1>1 DEF CoInv, CoTyped
<1>5. lanes'["wifi"] = IF admits THEN Append(lanes["wifi"], job) ELSE lanes["wifi"]
  <2>1. "wifi" \in DOMAIN lanes
    BY DEF CoInv, CoTyped, Kinds
  <2> QED BY ONLY <1>1, <2>1
<1>6. \/ ledger' = ledger
      \/ /\ ledger' = Append(ledger, entry) /\ current.covers
         /\ entry.analysed => admits /\ job.covers
  BY <1>1, <1>2, <1>3
<1>7. VisitEnds(job, entry, admits, here)
  BY ONLY <1>1, <1>2, <1>4, <1>5, <1>6 DEF VisitEnds
<1> QED BY <1>7

\* The end of a visit.
LEMMA EndVisitKeeps ==
  ASSUME CoInv, NEW got \in {"empty", "some", "all"}, NEW here \in BOOLEAN,
         EndVisit(got, here)
  PROVE  CoInv'
<1>1. PICK job, entry, admits : VisitEnds(job, entry, admits, here)
  BY EndVisitIs
<1>2. /\ job.visit = visits /\ job.found = here
      /\ entry.visit = visits /\ entry.start = current.start /\ entry.end = now + 1
      /\ heard' = (IF here THEN heard \cup {visits} ELSE heard)
      /\ now' = now + 1 /\ current' = <<>> /\ current # <<>>
      /\ UNCHANGED <<visits, config, coPc, version>>
      /\ UNCHANGED <<detector, lastSeen, analysed, dropped>>
      /\ coPc = "visit" /\ DOMAIN lanes' = Kinds
  BY <1>1 DEF VisitEnds
<1>3. /\ IsSeq(lanes'["wifi"])
      /\ ToSet(lanes'["wifi"]) = ToSet(lanes["wifi"]) \cup (IF admits THEN {job} ELSE {})
  <2>1. lanes'["wifi"] = (IF admits THEN Append(lanes["wifi"], job) ELSE lanes["wifi"])
    BY <1>1 DEF VisitEnds
  <2>2. IsSeq(lanes["wifi"])
    BY DEF CoInv, CoTyped
  <2>3. CASE admits
    <3>1. lanes'["wifi"] = Append(lanes["wifi"], job)
      BY ONLY <2>1, <2>3
    <3>2. IsSeq(Append(lanes["wifi"], job))
          /\ ToSet(Append(lanes["wifi"], job)) = ToSet(lanes["wifi"]) \cup {job}
      BY <2>2, OneMore
    <3> QED BY ONLY <2>3, <3>1, <3>2
  <2>4. CASE ~admits
    <3>1. lanes'["wifi"] = lanes["wifi"]
      BY ONLY <2>1, <2>4
    <3>2. (IF admits THEN {job} ELSE {}) = {}
      BY ONLY <2>4
    <3>3. ToSet(lanes'["wifi"]) = ToSet(lanes["wifi"])
      BY ONLY <3>1, Zenon
    <3> QED BY ONLY <2>2, <3>1, <3>2, <3>3
  <2> QED BY <2>3, <2>4
<1>4. /\ IsSeq(ledger')
      /\ \A v \in ToSet(ledger') :
           v \in ToSet(ledger) \/ (v = entry /\ (entry.analysed => admits /\ job.covers))
  <2>1. IsSeq(ledger)
    BY DEF CoInv, CoTyped
  <2>2. IsSeq(Append(ledger, entry)) /\ ToSet(Append(ledger, entry)) = ToSet(ledger) \cup {entry}
    BY <2>1, OneMore
  <2>3. CASE ledger' = ledger
    BY ONLY <2>1, <2>3
  <2>4. CASE ledger' = Append(ledger, entry) /\ (entry.analysed => admits /\ job.covers)
    BY ONLY <2>2, <2>4
  <2> QED BY <1>1, <2>3, <2>4 DEF VisitEnds
<1>5. /\ now \in Nat /\ visits \in Nat /\ current.start \in Nat /\ current.start <= now
      /\ visits \notin heard
      /\ \A w \in heard : w \in Nat /\ w <= visits
      /\ \A v \in ToSet(ledger) :
           /\ v.visit \in Nat /\ v.visit <= visits /\ v.visit # visits
           /\ v.start \in Nat /\ v.end \in Nat /\ v.start < v.end /\ v.end <= now
  BY <1>2 DEF CoInv, CoTyped, VisitsTrue
<1>6. CoTyped'
  <2>1. now' \in Nat /\ lastSeen' \in Nat /\ lastSeen' <= now'
    <3>1. lastSeen \in Nat /\ lastSeen <= now
      BY DEF CoInv, CoTyped
    <3> QED BY ONLY <1>2, <1>5, <3>1
  <2> QED BY <1>2, <1>3, <1>4, <2>1 DEF CoInv, CoTyped
<1>7. VisitsTrue'
  <2>1. \A w \in heard' : w \in Nat /\ w <= visits
    BY ONLY <1>2, <1>5
  <2>2. ASSUME NEW v \in ToSet(ledger')
        PROVE  /\ v.visit \in Nat /\ v.visit <= visits
               /\ v.start \in Nat /\ v.end \in Nat /\ v.start < v.end /\ v.end <= now + 1
    <3>1. CASE v \in ToSet(ledger)
      BY ONLY <1>5, <3>1
    <3>2. CASE v = entry
      BY ONLY <1>2, <1>5, <3>2
    <3> QED BY <1>4, <3>1, <3>2
  <2> QED BY ONLY <1>2, <1>5, <2>1, <2>2 DEF VisitsTrue
<1>8. DetectorInOrder'
  BY <1>2, OrderAsTimePasses
<1>9. AnalysedTrue'
  <2> SUFFICES ASSUME NEW v \in ToSet(ledger'), v.analysed PROVE InHand(v)'
    BY DEF AnalysedTrue
  <2>1. CASE v \in ToSet(ledger)
    <3>1. InHand(v)
      BY <2>1 DEF CoInv, AnalysedTrue
    <3>2. v.visit \in heard' => v.visit \in heard
      BY ONLY <1>2, <1>5, <2>1
    <3>3. Done(v) => Done(v)'
      BY ONLY <1>2, <3>2 DEF Done
    <3>4. ToCome(v) => ToCome(v)'
      BY ONLY <1>3, <3>2 DEF ToCome
    <3>5. HandedOn(v) => HandedOn(v)'
      BY ONLY <1>2, <3>2 DEF HandedOn
    <3> QED BY ONLY <1>2, <3>1, <3>3, <3>4, <3>5 DEF InHand
  <2>2. CASE v = entry /\ admits /\ job.covers
    <3>1. job \in ToSet(lanes'["wifi"]) /\ job.visit = v.visit
      BY ONLY <1>2, <1>3, <2>2
    <3>2. v.visit \in heard' => job.found
      BY ONLY <1>2, <1>5, <2>2
    <3> QED BY ONLY <2>2, <3>1, <3>2 DEF InHand, ToCome
  <2> QED BY <1>4, <2>1, <2>2
<1> QED BY <1>6, <1>7, <1>8, <1>9 DEF CoInv

\* The lane hands a visit on.
LEMMA RunWifiJobKeeps ==
  ASSUME CoInv, NEW fits \in BOOLEAN, RunWifiJob(fits) PROVE CoInv'
<1> DEFINE job == Head(lanes["wifi"])
           capture == [visit |-> job.visit, found |-> job.found, at |-> now]
<1>1. /\ lanes["wifi"] # <<>>
      /\ lanes' = [lanes EXCEPT !["wifi"] = Tail(@)]
      /\ \/ ~job.covers /\ detector' = detector /\ dropped' = dropped
         \/ detector' = Append(detector, capture) /\ dropped' = dropped
         \/ detector' = detector /\ dropped' = dropped \cup {job.visit}
      /\ UNCHANGED <<now, lastSeen, visits, current, heard, ledger, analysed>>
      /\ UNCHANGED <<config, coPc, version>>
  BY DEF RunWifiJob, coOperator, run
<1>2. /\ DOMAIN lanes' = Kinds /\ lanes'["wifi"] = Tail(lanes["wifi"])
      /\ now \in Nat /\ lastSeen \in Nat /\ lastSeen <= now
      /\ IsSeq(lanes["wifi"]) /\ IsSeq(detector)
  BY <1>1 DEF CoInv, CoTyped, Kinds
<1>3. /\ IsSeq(lanes'["wifi"])
      /\ ToSet(lanes["wifi"]) = ToSet(lanes'["wifi"]) \cup {job}
  BY <1>1, <1>2, OneLess
<1>4. capture.visit = job.visit /\ capture.found = job.found /\ capture.at = now
  OBVIOUS
<1>5. /\ IsSeq(Append(detector, capture))
      /\ ToSet(Append(detector, capture)) = ToSet(detector) \cup {capture}
  BY <1>2, OneMore
<1> HIDE DEF job, capture
<1>6. IsSeq(detector') /\ ToSet(detector) \subseteq ToSet(detector')
  BY ONLY <1>1, <1>2, <1>5
<1>7. CoTyped'
  BY <1>1, <1>2, <1>3, <1>6 DEF CoInv, CoTyped
<1>8. VisitsTrue'
  BY <1>1 DEF CoInv, VisitsTrue
<1>9. DetectorInOrder'
  <2>1. CASE detector' = detector
    BY <1>1, <2>1 DEF CoInv, DetectorInOrder
  <2>2. CASE detector' = Append(detector, capture)
    <3> DEFINE n == Len(detector)
    <3>1. /\ n \in Nat /\ Len(detector') = n + 1 /\ detector'[n + 1] = capture
          /\ \A i \in 1..n : detector'[i] = detector[i]
      <4>1. detector \in Seq(ToSet(detector) \cup {capture})
        BY <1>2 DEF IsSeq
      <4> QED BY ONLY <2>2, <4>1
    <3>2. /\ \A i \in 1..n :
               detector[i].at \in Nat /\ lastSeen <= detector[i].at /\ detector[i].at <= now
          /\ \A i, j \in 1..n : i < j => detector[i].at <= detector[j].at
      BY DEF CoInv, DetectorInOrder
    <3> HIDE DEF n
    <3>3. ASSUME NEW i \in 1..(n + 1)
          PROVE  /\ detector'[i].at \in Nat /\ lastSeen <= detector'[i].at
                 /\ detector'[i].at <= now
      <4>1. i \in 1..n \/ i = n + 1
        BY ONLY <3>1, i \in 1..(n + 1)
      <4> QED BY ONLY <1>2, <1>4, <3>1, <3>2, <4>1
    <3>4. ASSUME NEW i \in 1..(n + 1), NEW j \in 1..(n + 1), i < j
          PROVE  detector'[i].at <= detector'[j].at
      <4>1. i \in 1..n /\ (j \in 1..n \/ j = n + 1)
        BY ONLY <3>1, i \in 1..(n + 1), j \in 1..(n + 1), i < j
      <4> QED BY ONLY <1>4, <3>1, <3>2, <4>1, i < j
    <3>5. now' = now /\ lastSeen' = lastSeen
      BY <1>1
    <3> QED BY ONLY <3>1, <3>3, <3>4, <3>5 DEF DetectorInOrder
  <2> QED BY <1>1, <2>1, <2>2
<1>10. AnalysedTrue'
  <2> SUFFICES ASSUME NEW v \in ToSet(ledger), v.analysed PROVE InHand(v)'
    BY <1>1 DEF AnalysedTrue
  <2>0. v.start \in Nat /\ v.end \in Nat /\ v.start < v.end /\ v.end <= now
    BY DEF CoInv, VisitsTrue
  <2>1. CASE Done(v)
    BY ONLY <1>1, <2>1 DEF InHand, Done
  <2>2. CASE ToCome(v)
    <3>1. PICK j \in ToSet(lanes["wifi"]) :
            j.visit = v.visit /\ j.covers /\ (v.visit \in heard => j.found)
      BY <2>2 DEF ToCome
    <3>2. CASE j = job /\ detector' = Append(detector, capture)
      <4>1. v.start <= capture.at
        BY ONLY <1>2, <1>4, <2>0
      <4>2. capture \in ToSet(detector')
        BY ONLY <1>5, <3>2
      <4> QED BY ONLY <1>1, <1>4, <3>1, <3>2, <4>1, <4>2 DEF InHand, HandedOn
    <3>3. CASE j = job /\ dropped' = dropped \cup {job.visit}
      BY ONLY <3>1, <3>3 DEF InHand
    <3>4. CASE j \in ToSet(lanes'["wifi"])
      BY ONLY <1>1, <3>1, <3>4 DEF InHand, ToCome
    <3> QED BY <1>1, <1>3, <3>1, <3>2, <3>3, <3>4
  <2>3. CASE HandedOn(v)
    BY ONLY <1>1, <1>6, <2>3 DEF InHand, HandedOn
  <2>4. CASE v.visit \in dropped
    BY ONLY <1>1, <2>4 DEF InHand
  <2> QED BY <2>1, <2>2, <2>3, <2>4 DEF CoInv, AnalysedTrue, InHand
<1> QED BY <1>7, <1>8, <1>9, <1>10 DEF CoInv

\* A detector answers: the emitter is seen when the capture was handed on, never earlier than
\* it was seen before.
LEMMA DetectorAnswersKeeps ==
  ASSUME CoInv, DetectorAnswers PROVE CoInv'
<1> DEFINE r == Head(detector)
           rest == Tail(detector)
           n == Len(detector)
<1>1. /\ detector # <<>> /\ detector' = rest
      /\ analysed' = analysed \cup {r.visit}
      /\ lastSeen' = IF r.found THEN r.at ELSE lastSeen
      /\ UNCHANGED <<now, visits, current, heard, lanes, ledger, dropped>>
      /\ UNCHANGED <<config, coPc, version>>
  BY DEF DetectorAnswers, coOperator, run
<1>2. /\ now \in Nat /\ lastSeen \in Nat /\ lastSeen <= now /\ IsSeq(detector)
  BY DEF CoInv, CoTyped
<1>3. IsSeq(rest) /\ ToSet(detector) = ToSet(rest) \cup {r}
  BY <1>1, <1>2, OneLess
<1>4. /\ n \in Nat \ {0} /\ r = detector[1] /\ Len(rest) = n - 1
      /\ \A i \in 1..(n - 1) : rest[i] = detector[i + 1]
  <2>1. detector \in Seq(ToSet(detector))
    BY <1>2 DEF IsSeq
  <2> QED BY ONLY <1>1, <2>1
<1>5. /\ \A i \in 1..n :
           detector[i].at \in Nat /\ lastSeen <= detector[i].at /\ detector[i].at <= now
      /\ \A i, j \in 1..n : i < j => detector[i].at <= detector[j].at
  BY DEF CoInv, DetectorInOrder
<1> HIDE DEF r, rest, n
<1>6. r.at \in Nat /\ lastSeen <= r.at /\ r.at <= now
  <2>1. 1 \in 1..n
    BY ONLY <1>4
  <2> QED BY ONLY <1>4, <1>5, <2>1
<1>7. lastSeen' \in Nat /\ lastSeen' <= now /\ lastSeen <= lastSeen' /\ lastSeen' <= r.at
  BY ONLY <1>1, <1>2, <1>6
<1>8. CoTyped'
  BY <1>1, <1>2, <1>3, <1>7 DEF CoInv, CoTyped
<1>9. VisitsTrue'
  BY <1>1 DEF CoInv, VisitsTrue
<1>10. DetectorInOrder'
  <2>1. ASSUME NEW i \in 1..(n - 1)
        PROVE  rest[i].at \in Nat /\ lastSeen' <= rest[i].at /\ rest[i].at <= now
    <3>1. i + 1 \in 1..n /\ 1 \in 1..n /\ 1 < i + 1
      BY ONLY <1>4, i \in 1..(n - 1)
    <3>2. r.at <= detector[i + 1].at
      BY ONLY <1>4, <1>5, <3>1
    <3>3. detector[i + 1].at \in Nat /\ detector[i + 1].at <= now
      BY ONLY <1>5, <3>1
    <3>4. lastSeen' <= detector[i + 1].at
      BY ONLY <1>6, <1>7, <3>2, <3>3
    <3> QED BY ONLY <1>4, <3>3, <3>4, i \in 1..(n - 1)
  <2>2. ASSUME NEW i \in 1..(n - 1), NEW j \in 1..(n - 1), i < j
        PROVE  rest[i].at <= rest[j].at
    <3>1. i + 1 \in 1..n /\ j + 1 \in 1..n /\ i + 1 < j + 1
      BY ONLY <1>4, i \in 1..(n - 1), j \in 1..(n - 1), i < j
    <3> QED BY ONLY <1>4, <1>5, <3>1, i \in 1..(n - 1), j \in 1..(n - 1)
  <2>3. now' = now
    BY <1>1
  <2> QED BY ONLY <1>1, <1>4, <2>1, <2>2, <2>3 DEF DetectorInOrder
<1>11. AnalysedTrue'
  <2> SUFFICES ASSUME NEW v \in ToSet(ledger), v.analysed PROVE InHand(v)'
    BY <1>1 DEF AnalysedTrue
  <2>0. v.start \in Nat
    BY DEF CoInv, VisitsTrue
  <2>1. CASE Done(v)
    <3>1. v.start <= lastSeen => v.start <= lastSeen'
      BY ONLY <1>2, <1>7, <2>0
    <3> QED BY ONLY <1>1, <2>1, <3>1 DEF InHand, Done
  <2>2. CASE ToCome(v)
    BY ONLY <1>1, <2>2 DEF InHand, ToCome
  <2>3. CASE HandedOn(v)
    <3>1. PICK c \in ToSet(detector) :
            c.visit = v.visit /\ v.start <= c.at /\ (v.visit \in heard => c.found)
      BY <2>3 DEF HandedOn
    <3>2. CASE c = r
      BY ONLY <1>1, <3>1, <3>2 DEF InHand, Done
    <3>3. CASE c \in ToSet(rest)
      BY ONLY <1>1, <3>1, <3>3 DEF InHand, HandedOn
    <3> QED BY <1>3, <3>1, <3>2, <3>3
  <2>4. CASE v.visit \in dropped
    BY ONLY <1>1, <2>4 DEF InHand
  <2> QED BY <2>1, <2>2, <2>3, <2>4 DEF CoInv, AnalysedTrue, InHand
<1> QED BY <1>8, <1>9, <1>10, <1>11 DEF CoInv

\* A detector fails with what it has.
LEMMA DetectorFailsKeeps ==
  ASSUME CoInv, DetectorFails PROVE CoInv'
<1>1. /\ detector' = <<>> /\ dropped' = dropped \cup {r.visit : r \in ToSet(detector)}
      /\ UNCHANGED <<now, lastSeen, visits, current, heard, lanes, ledger, analysed>>
      /\ UNCHANGED <<config, coPc, version>>
  BY DEF DetectorFails, coOperator, run
<1>2. IsSeq(<<>>)
  BY DEF IsSeq
<1>3. CoTyped' /\ VisitsTrue' /\ DetectorInOrder'
  BY <1>1, <1>2 DEF CoInv, CoTyped, VisitsTrue, DetectorInOrder
<1>4. AnalysedTrue'
  <2> SUFFICES ASSUME NEW v \in ToSet(ledger), v.analysed PROVE InHand(v)'
    BY <1>1 DEF AnalysedTrue
  <2>1. CASE Done(v)
    BY ONLY <1>1, <2>1 DEF InHand, Done
  <2>2. CASE ToCome(v)
    BY ONLY <1>1, <2>2 DEF InHand, ToCome
  <2>3. CASE HandedOn(v) \/ v.visit \in dropped
    BY ONLY <1>1, <2>3 DEF InHand, HandedOn
  <2> QED BY <2>1, <2>2, <2>3 DEF CoInv, AnalysedTrue, InHand
<1> QED BY <1>3, <1>4 DEF CoInv

\* Every step of the coordinated mode.
LEMMA CoInvStep == CoInv /\ [CoNext]_coVars => CoInv'
<1> SUFFICES ASSUME CoInv, [CoNext]_coVars PROVE CoInv'
  OBVIOUS
<1>0. /\ config \in DOMAIN Schedules /\ (coPc = "visit" => version \in DOMAIN Schedules)
  BY DEF CoInv, CoTyped
<1>1. CASE SetMode \/ SetConflict
  BY <1>0, <1>1, CoQuiet DEF SetMode, SetConflict, run, results
<1>2. CASE SetSchedule
  <2>1. config + 1 \in DOMAIN Schedules
    <3>1. Schedules \in Seq(ToSet(Schedules)) /\ config < Len(Schedules)
      BY <1>2, CoordinatedAssumption DEF SetSchedule
    <3> QED BY ONLY <1>0, <3>1
  <2> QED BY <1>0, <1>2, <2>1, CoQuiet DEF SetSchedule, run, results
<1>3. CASE Pause
  BY <1>3, PauseKeeps
<1>4. CASE Enter
  <2>1. /\ ledger' = <<>> /\ coPc' = "top"
        /\ UNCHANGED <<now, visits, current, heard, lanes, config>>
        /\ UNCHANGED <<detector, lastSeen, analysed, dropped>>
    BY <1>4 DEF Enter, coOperator
  <2>2. ToSet(<<>>) = {} /\ IsSeq(<<>>)
    BY DEF ToSet, IsSeq
  <2>3. CoTyped'
    BY <2>1, <2>2 DEF CoInv, CoTyped
  <2>4. VisitsTrue' /\ DetectorInOrder' /\ AnalysedTrue'
    BY <2>1, <2>2 DEF CoInv, VisitsTrue, DetectorInOrder, AnalysedTrue
  <2> QED BY <2>3, <2>4 DEF CoInv
<1>5. CASE Configure
  BY <1>0, <1>5, CoQuiet DEF Configure, coOperator, results
<1>6. CASE Plan
  BY <1>0, <1>6, CoQuiet DEF Plan, coOperator, results
<1>7. CASE Abandon
  BY <1>0, <1>7, CoQuiet DEF Abandon, coOperator, results
<1>8. CASE BeginVisit
  BY <1>8, BeginVisitKeeps
<1>9. CASE CoEndCycle
  BY <1>0, <1>9, CoQuiet DEF CoEndCycle, coOperator, results
<1>10. CASE CoLeaveLoop
  BY <1>0, <1>10, CoQuiet DEF CoLeaveLoop, coOperator, results
<1>11. CASE CoLeave
  BY <1>0, <1>11, CoQuiet DEF CoLeave, coOperator
<1>12. ASSUME NEW got \in {"empty", "some", "all"}, NEW here \in BOOLEAN, EndVisit(got, here)
       PROVE  CoInv'
  BY <1>12, EndVisitKeeps
<1>13. ASSUME NEW fits \in BOOLEAN, RunWifiJob(fits) PROVE CoInv'
  BY <1>13, RunWifiJobKeeps
<1>14. CASE RunSubGhzVisitJob
  <2>1. /\ lanes' = [lanes EXCEPT !["sub"] = Tail(@)]
        /\ UNCHANGED <<now, visits, current, heard, ledger, config, coPc, version>>
        /\ UNCHANGED <<detector, lastSeen, analysed, dropped>>
    BY <1>14 DEF RunSubGhzVisitJob, coOperator, run
  <2>2. DOMAIN lanes' = Kinds /\ lanes'["wifi"] = lanes["wifi"]
    BY <2>1 DEF CoInv, CoTyped, Kinds
  <2>3. CoTyped' /\ VisitsTrue' /\ DetectorInOrder'
    BY <2>1, <2>2 DEF CoInv, CoTyped, VisitsTrue, DetectorInOrder
  <2>4. AnalysedTrue'
    BY <2>1, <2>2 DEF CoInv, AnalysedTrue, InHand, Done, ToCome, HandedOn
  <2> QED BY <2>3, <2>4 DEF CoInv
<1>15. CASE UNCHANGED coVars
  BY <1>0, <1>15, CoQuiet DEF coVars, coOperator, run, results
<1>16. CASE DetectorAnswers
  BY <1>16, DetectorAnswersKeeps
<1>17. CASE DetectorFails
  BY <1>17, DetectorFailsKeeps
<1> QED BY <1>1, <1>2, <1>3, <1>4, <1>5, <1>6, <1>7, <1>8, <1>9, <1>10, <1>11, <1>12, <1>13,
           <1>14, <1>15, <1>16, <1>17 DEF CoNext

\* A visit that makes the verdict is answered without the emitter, or not answered.
LEMMA CoInvFounded == CoInv => NotReacquiredIsFounded
<1> SUFFICES ASSUME CoInv, lastSeen > 0, Freshness = "notReacquired"
             PROVE  \E v \in ToSet(ledger) :
                      /\ v.start > lastSeen /\ v.valid /\ v.end + Grace <= now
                      /\ v.visit \in (analysed \ heard) \cup Unanswered
  BY DEF NotReacquiredIsFounded
<1>1. PICK v \in ToSet(ledger) : v.start > lastSeen /\ v.end + Grace <= now /\ Counts(v)
  BY DEF Freshness
<1>2. v.valid /\ InHand(v)
  BY <1>1 DEF CoInv, AnalysedTrue, Counts
<1>3. v.start \in Nat /\ lastSeen \in Nat
  BY DEF CoInv, CoTyped, VisitsTrue
<1>4. ~(v.start <= lastSeen)
  BY ONLY <1>1, <1>3
<1>5. CASE Done(v)
  BY ONLY <1>1, <1>2, <1>4, <1>5 DEF Done
<1>6. CASE ToCome(v) \/ HandedOn(v) \/ v.visit \in dropped
  BY ONLY <1>1, <1>2, <1>6 DEF ToCome, HandedOn, Unanswered
<1> QED BY <1>2, <1>5, <1>6 DEF InHand

\* However long the lane and the detectors take over a visit, whatever they drop and in
\* whichever visits the emitter is there: the coordinated mode says that it was not reacquired
\* (coordinated_schedule.hpp: freshness) only when a visit that began after it was last seen
\* was received whole and admitted more than the grace ago, and has not been answered with it.
THEOREM NotReacquiredIsFoundedHolds == CoSpec => []NotReacquiredIsFounded
<1>1. CoInv => NotReacquiredIsFounded
  BY CoInvFounded
<1> QED BY <1>1, CoInvInit, CoInvStep, PTL DEF CoSpec

-----------------------------------------------------------------------------
(* The coordinated mode: what a cycle promises. *)

\* How many centres before the cursor c a centre is, of n.
Back(c, n, r) == IF r < c THEN c - 1 - r ELSE c - 1 - r + n

\* Cursors and sweeps are of the slots of the schedule it runs.
SlotsKnown ==
  \/ version = 0 /\ sweeps = <<>> /\ coPc # "visit"
  \/ /\ version \in DOMAIN Schedules
     /\ DOMAIN cursors = DOMAIN Schedule /\ DOMAIN sweeps = DOMAIN Schedule
     /\ \A i \in DOMAIN Schedule :
          cursors[i] \in 0..(Schedule[i].size - 1) /\ sweeps[i] \in Seq(SUBSET Nat)

\* The cursors are one cycle ahead of the sweeps while the cycle is under way.
Visiting == IF coPc = "visit" THEN 1 ELSE 0

\* The cursor went by a centre so many cycles ago.
Met(slot, c, late, r) ==
  /\ late * slot.perCycle <= Back(c, slot.size, r)
  /\ Back(c, slot.size, r) < (late + 1) * slot.perCycle

\* A whole cycle went to the centres the cursor went by.
SweepsTrue ==
  \A i \in DOMAIN sweeps : \A k \in 1..Len(sweeps[i]) :
    /\ sweeps[i][k] \subseteq 0..(Schedule[i].size - 1)
    /\ Schedule[i].enabled =>
         \A r \in 0..(Schedule[i].size - 1) :
           Met(Schedule[i], cursors[i], Len(sweeps[i]) - k + Visiting, r) => r \in sweeps[i][k]

\* The visits of this cycle that are still to come or in progress.
Ahead ==
  {<<v.slot, v.centre>> : v \in ToSet(plan)}
    \cup (IF current # <<>> THEN {<<current.slot, current.centre>>} ELSE {})

\* So does the one under way, with what is ahead.
CycleTrue ==
  /\ coPc # "visit" => plan = <<>> /\ current = <<>>
  /\ coPc = "visit" =>
       /\ \A g \in gone \cup Ahead :
            g[1] \in DOMAIN Schedule /\ g[2] \in 0..(Schedule[g[1]].size - 1)
       /\ \A i \in DOMAIN Schedule : Schedule[i].enabled =>
            \A r \in 0..(Schedule[i].size - 1) :
              Back(cursors[i], Schedule[i].size, r) < Schedule[i].perCycle
                => <<i, r>> \in gone \cup Ahead

\* What a visit found, a job of the sub-GHz lane, a visit planned.
CoFinds == [visit : Nat, attempt : Nat]
CoJobs == [visit : Nat, attempt : Nat, ends : BOOLEAN, found : BOOLEAN, covers : BOOLEAN]
CoVisits == [slot : Nat, centre : Nat, last : BOOLEAN]

\* After the last visit of a slot the cycle has no other to it.
LastOfSlot ==
  /\ plan \in Seq(CoVisits)
  /\ \A a, b \in DOMAIN plan : a < b /\ plan[a].last => plan[b].slot # plan[a].slot
  /\ current # <<>> =>
       /\ current.last \in BOOLEAN
       /\ current.last => \A v \in ToSet(plan) : v.slot # current.slot

\* A sub-GHz visit is ahead.
SubAhead == coPc = "visit" /\ \E g \in Ahead : Schedule[g[1]].kind = "sub"

\* With the mode left nothing is in the works.
CommitsTyped ==
  /\ attempt \in Nat
  /\ coDetections \in Seq(CoFinds) /\ registry \in Seq(Seq(CoFinds))
  /\ lanes["sub"] \in Seq(CoJobs) /\ admitted \in Seq(Nat)
  /\ coPc = "off" => lanes["sub"] = <<>> /\ coDetections = <<>>

\* All of these visits were in an earlier cycle than all of those; or not in a later one.
Before(X, Y) == \A d \in X, e \in Y : d.attempt < e.attempt
NotAfter(X, Y) == \A d \in X, e \in Y : d.attempt <= e.attempt

\* Commits, finds and jobs are in the order of the cycles, none of which is in two commits;
\* before the last sub-GHz visit of the current one is made nothing of it is committed.
InOrder(reg, det, jobs, a, ahead) ==
  /\ \A i, k \in DOMAIN reg : i < k => Before(ToSet(reg[i]), ToSet(reg[k]))
  /\ \A i \in DOMAIN reg :
       /\ Before(ToSet(reg[i]), ToSet(det)) /\ Before(ToSet(reg[i]), ToSet(jobs))
       /\ \A d \in ToSet(reg[i]) : d.attempt <= a /\ (ahead => d.attempt < a)
  /\ NotAfter(ToSet(det), ToSet(jobs)) /\ \A d \in ToSet(det) : d.attempt <= a
  /\ \A i, k \in DOMAIN jobs : i < k =>
       /\ jobs[i].attempt <= jobs[k].attempt
       /\ jobs[i].ends => jobs[i].attempt < jobs[k].attempt
  /\ \A j \in ToSet(jobs) : j.attempt <= a /\ (ahead /\ j.ends => j.attempt < a)

InCycleOrder == InOrder(registry, coDetections, lanes["sub"], attempt, SubAhead)

\* What was admitted is committed, found or in the lane, once each and in that order.
VisitsOf(s) == [i \in DOMAIN s |-> s[i].visit]
Finds == FlattenSeq(registry) \o coDetections
AllAdmitted == VisitsOf(Finds) \o VisitsOf(lanes["sub"]) = admitted

-----------------------------------------------------------------------------
(* What a fold of sequences gives *)

\* The pieces of a sequence of sequences up to each of them, put together.
Pieces(f, ss, n) == f = [i \in 1..n |-> IF i = 1 THEN ss[i] ELSE f[i - 1] \o ss[i]]

\* The last of them is what the fold of the library gives.
LEMMA FlattenAs ==
  ASSUME NEW ss, NEW n \in Nat, Len(ss) = n, n # 0, NEW f, Pieces(f, ss, n)
  PROVE  FlattenSeq(ss) = f[n]
<1>0. f = [i \in 1..n |-> IF i = 1 THEN ss[i] ELSE f[i-1] \o ss[i]]
  BY DEF Pieces
<1> DEFINE P(h) == h = [i \in 1..Len(ss) |-> IF i = 1 THEN ss[i] ELSE h[i-1] \o ss[i]]
           g == CHOOSE h : P(h)
<1>1. FlattenSeq(ss) = g[n]
  BY DEF FlattenSeq
<1>2. P(g)
  <2>1. \E h : P(h)
    <3>1. P(f)
      BY ONLY <1>0, Len(ss) = n, Zenon
    <3> QED BY ONLY <3>1, Zenon
  <2> QED BY <2>1, Zenon
<1> HIDE DEF g
<1> DEFINE S == {i \in 0..n : i = 0 \/ f[i] = g[i]}
<1>3. 0 \in S
  OBVIOUS
<1>4. ASSUME NEW k \in 1..n, k - 1 \in S PROVE k \in S
  <2>1. f[k] = IF k = 1 THEN ss[k] ELSE f[k-1] \o ss[k]
    BY ONLY <1>0, k \in 1..n
  <2>2. g[k] = IF k = 1 THEN ss[k] ELSE g[k-1] \o ss[k]
    BY ONLY <1>2, Len(ss) = n, k \in 1..n
  <2>3. k = 1 \/ f[k - 1] = g[k - 1]
    BY <1>4
  <2>4. f[k] = g[k]
    BY ONLY <2>1, <2>2, <2>3
  <2> QED BY <2>4
<1> HIDE DEF S
<1>5. \A k \in 0..n : k \in S
  BY ONLY <1>3, <1>4, UpTo, n \in Nat
<1>6. n \in S /\ n # 0
  BY <1>5
<1> QED BY <1>1, <1>6 DEF S

\* f puts the pieces together, from left to right.
Joins(f, ss, T) ==
  /\ f \in [0..Len(ss) -> Seq(T)] /\ f[0] = <<>>
  /\ \A k \in 1..Len(ss) : f[k] = f[k - 1] \o ss[k]

\* A sequence of sequences is flattened piece by piece.
LEMMA FlattenJoins ==
  ASSUME NEW T, NEW ss \in Seq(Seq(T))
  PROVE  \E f : Joins(f, ss, T) /\ FlattenSeq(ss) = f[Len(ss)]
<1> DEFINE n == Len(ss)
           M == Seq(T)
           extend == [p \in (1..n) \X M |-> p[2] \o ss[p[1]]]
<1>1. n \in Nat /\ <<>> \in M /\ \A k \in 1..n : ss[k] \in M
  OBVIOUS
<1>2. \A k \in 1..n, x \in M : extend[<<k, x>>] = x \o ss[k] /\ x \o ss[k] \in M
  <2> SUFFICES ASSUME NEW k \in 1..n, NEW x \in M
               PROVE  extend[<<k, x>>] = x \o ss[k] /\ x \o ss[k] \in M
    OBVIOUS
  <2>1. ss[k] \in Seq(T) /\ x \in Seq(T)
    BY <1>1
  <2>2. x \o ss[k] \in Seq(T)
    BY ONLY <2>1
  <2>3. <<k, x>>[1] = k /\ <<k, x>>[2] = x /\ <<k, x>> \in (1..n) \X M
    BY <2>1
  <2> HIDE DEF n, M
  <2>4. extend[<<k, x>>] = <<k, x>>[2] \o ss[<<k, x>>[1]]
    BY ONLY <2>3 DEF extend
  <2> QED BY ONLY <2>2, <2>3, <2>4 DEF M
<1> HIDE DEF extend
<1>3. PICK f : Iterates(f, <<>>, extend, n)
  BY <1>1, IteratesExists
<1>4. f \in [0..n -> M] /\ f[0] = <<>> /\ \A k \in 1..n : f[k] = extend[<<k, f[k - 1]>>]
  <2>1. StepsWithin(extend, n, M)
    BY <1>2 DEF StepsWithin
  <2> HIDE DEF n, M
  <2> QED BY ONLY <1>1, <1>3, <2>1, IteratesTyped
<1>5. Joins(f, ss, T)
  <2>1. ASSUME NEW k \in 1..n PROVE f[k] = f[k - 1] \o ss[k]
    <3>1. k - 1 \in 0..n
      BY <1>1
    <3>2. f[k - 1] \in M
      BY ONLY <1>4, <3>1
    <3> QED BY ONLY <1>2, <1>4, <3>2, k \in 1..n
  <2> QED BY ONLY <1>4, <2>1 DEF Joins
<1>6. FlattenSeq(ss) = f[n]
  <2>1. CASE n = 0
    <3>1. ss = <<>>
      BY <2>1
    <3> QED BY <1>4, <2>1, <3>1 DEF FlattenSeq
  <2>2. CASE n # 0
    <3> DEFINE g == [i \in 1..n |-> f[i]]
    <3>1. ASSUME NEW i \in 1..n
          PROVE  g[i] = IF i = 1 THEN ss[i] ELSE g[i - 1] \o ss[i]
      <4>1. f[i] = f[i - 1] \o ss[i]
        BY <1>5 DEF Joins
      <4>2. CASE i = 1
        <5>1. f[i - 1] = <<>> /\ ss[i] \in Seq(T)
          BY <1>1, <1>4, <4>2
        <5>2. <<>> \o ss[i] = ss[i]
          BY ONLY <5>1
        <5> QED BY <4>1, <4>2, <5>1, <5>2
      <4>3. CASE i # 1
        <5>1. i - 1 \in 1..n
          BY <4>3
        <5> QED BY <4>1, <4>3, <5>1
      <4> QED BY <4>2, <4>3
    <3>2. Pieces(g, ss, n)
      <4>1. g = [i \in 1..n |-> g[i]]
        OBVIOUS
      <4> HIDE DEF g
      <4> QED BY ONLY <3>1, <4>1 DEF Pieces
    <3>3. g[n] = f[n]
      <4>1. n \in 1..n
        BY ONLY <1>1, <2>2
      <4> QED BY ONLY <4>1
    <3> HIDE DEF g
    <3>4. FlattenSeq(ss) = g[n]
      <4>1. Len(ss) = n /\ n \in Nat /\ n # 0
        BY ONLY <1>1, <2>2
      <4> HIDE DEF n
      <4> QED BY ONLY <3>2, <4>1, FlattenAs
    <3> QED BY <3>3, <3>4
  <2> QED BY <2>1, <2>2
<1> QED BY <1>5, <1>6

\* A sequence of sequences with one more is flattened to what it was and that one.
LEMMA FlattenAppend ==
  ASSUME NEW T, NEW ss \in Seq(Seq(T)), NEW s \in Seq(T)
  PROVE  /\ FlattenSeq(ss) \in Seq(T)
         /\ FlattenSeq(Append(ss, s)) = FlattenSeq(ss) \o s
<1> DEFINE n == Len(ss)
           tt == Append(ss, s)
<1>1. PICK f : Joins(f, ss, T) /\ FlattenSeq(ss) = f[n]
  BY FlattenJoins
<1>2. tt \in Seq(Seq(T)) /\ n \in Nat /\ Len(tt) = n + 1 /\ tt[n + 1] = s
      /\ \A k \in 1..n : tt[k] = ss[k]
  OBVIOUS
<1>3. PICK g : Joins(g, tt, T) /\ FlattenSeq(tt) = g[Len(tt)]
  BY <1>2, FlattenJoins
<1> HIDE DEF tt, n
<1> DEFINE S == {k \in 0..n : f[k] = g[k]}
<1>4. 0 \in S
  BY <1>1, <1>2, <1>3 DEF Joins
<1>5. ASSUME NEW k \in 1..n, k - 1 \in S PROVE k \in S
  <2>1. k \in 1..Len(tt) /\ k \in 0..n /\ k \in 1..Len(ss)
    BY <1>2 DEF n
  <2>2. f[k] = f[k - 1] \o ss[k] /\ g[k] = g[k - 1] \o tt[k] /\ tt[k] = ss[k]
    BY ONLY <1>1, <1>2, <1>3, <2>1, k \in 1..n DEF Joins
  <2>3. f[k - 1] = g[k - 1]
    BY <1>5
  <2> QED BY ONLY <2>1, <2>2, <2>3
<1> HIDE DEF S
<1>6. \A k \in 0..n : k \in S
  BY ONLY <1>2, <1>4, <1>5, UpTo
<1>7. f[n] = g[n]
  BY <1>2, <1>6 DEF S
<1>8. g[n + 1] = g[n] \o s
  <2>1. n + 1 \in 1..Len(tt) /\ (n + 1) - 1 = n
    BY <1>2
  <2> QED BY ONLY <1>2, <1>3, <2>1 DEF Joins
<1>9. f[n] \in Seq(T)
  <2>1. f \in [0..n -> Seq(T)]
    BY ONLY <1>1 DEF Joins, n
  <2>2. n \in Nat
    BY <1>2
  <2>3. n \in 0..n
    BY ONLY <2>2
  <2> QED BY ONLY <2>1, <2>3
<1> QED BY ONLY <1>1, <1>2, <1>3, <1>7, <1>8, <1>9 DEF tt, n

\* What pieces put together are, if every step leads from P[k - 1] to P[k].
LEMMA FlattenIn ==
  ASSUME NEW T, NEW ss \in Seq(Seq(T)), NEW P, <<>> \in P[0],
         \A k \in 1..Len(ss) : \A x \in Seq(T) : x \in P[k - 1] => x \o ss[k] \in P[k]
  PROVE  FlattenSeq(ss) \in P[Len(ss)]
<1>1. PICK f : Joins(f, ss, T) /\ FlattenSeq(ss) = f[Len(ss)]
  BY FlattenJoins
<1>2. ASSUME NEW k \in 1..Len(ss), f[k - 1] \in P[k - 1] PROVE f[k] \in P[k]
  <2>1. f[k] = f[k - 1] \o ss[k] /\ f \in [0..Len(ss) -> Seq(T)]
    BY <1>1 DEF Joins
  <2>2. k - 1 \in 0..Len(ss)
    OBVIOUS
  <2>3. f[k - 1] \in Seq(T)
    BY ONLY <2>1, <2>2
  <2> QED BY <1>2, <2>1, <2>3
<1>3. Len(ss) \in Nat /\ f[0] \in P[0] /\ Len(ss) \in 0..Len(ss)
  BY <1>1 DEF Joins
<1>4. \A k \in 0..Len(ss) : f[k] \in P[k]
  BY ONLY <1>2, <1>3, IteratesIn
<1> QED BY <1>1, <1>3, <1>4

-----------------------------------------------------------------------------
(* The arithmetic of a cursor *)

\* A number is its quotient times the divisor and its remainder.
LEMMA Divided ==
  ASSUME NEW a \in Nat, NEW n \in Nat \ {0}
  PROVE  \E q \in Nat : a = q * n + (a % n) /\ (a % n) \in 0..(n - 1)
<1>1. a \div n \in Nat /\ (a % n) \in 0..(n - 1)
  OBVIOUS
<1>2. a = (a \div n) * n + (a % n)
  BY ONLY a \in Nat, n \in Nat \ {0}
<1> WITNESS a \div n \in Nat
<1> QED BY ONLY <1>1, <1>2, Zenon

\* And there is only one such remainder.
LEMMA RemainderIs ==
  ASSUME NEW n \in Nat \ {0}, NEW q \in Nat, NEW r \in 0..(n - 1)
  PROVE  (q * n + r) % n = r
<1> DEFINE a == q * n + r
<1>1. a \in Nat
  OBVIOUS
<1> HIDE DEF a
<1>2. PICK t \in Nat : a = t * n + (a % n) /\ (a % n) \in 0..(n - 1)
  BY <1>1, Divided
<1> DEFINE s == a % n
<1> HIDE DEF s
<1>3. q * n + r = t * n + s /\ s \in 0..(n - 1)
  <2>1. a = t * n + s /\ s \in 0..(n - 1)
    BY ONLY <1>2, Zenon DEF s
  <2>2. a = q * n + r
    BY DEF a
  <2> QED BY ONLY <2>1, <2>2, Zenon
<1>4. s = r
  <2>1. q < t \/ t < q \/ q = t
    BY <1>2
  <2>2. CASE q = t
    <3>1. q * n \in Nat
      OBVIOUS
    <3> QED BY ONLY <1>3, <2>2, <3>1, r \in 0..(n - 1), n \in Nat
  <2>3. CASE q < t
    <3>1. PICK e \in Nat : t = q + 1 + e
      <4>1. t - q - 1 \in Nat
        BY <2>3
      <4> QED BY <4>1
    <3>2. t * n = q * n + n + e * n /\ e * n >= 0 /\ q * n \in Nat /\ e * n \in Nat
      BY ONLY <3>1, n \in Nat \ {0}, q \in Nat
    <3> QED BY ONLY <1>3, <3>2, r \in 0..(n - 1), n \in Nat
  <2>4. CASE t < q
    <3>1. PICK e \in Nat : q = t + 1 + e
      <4>1. q - t - 1 \in Nat
        BY <2>4
      <4> QED BY <4>1
    <3>2. q * n = t * n + n + e * n /\ e * n >= 0 /\ t * n \in Nat /\ e * n \in Nat
      BY ONLY <3>1, t \in Nat, n \in Nat \ {0}
    <3> QED BY ONLY <1>3, <3>2, r \in 0..(n - 1), n \in Nat
  <2> QED BY <2>1, <2>2, <2>3, <2>4
<1> QED BY <1>4 DEF a, s

\* The centre so many further on.
Further(c, k, n) == (c + k) % n

\* Where the cursor goes, and which centres lie between.
LEMMA CursorMoves ==
  ASSUME NEW n \in Nat \ {0}, NEW p \in Nat \ {0}, NEW c \in 0..(n - 1), NEW r \in 0..(n - 1)
  PROVE  LET d == Further(c, p, n)
         IN  /\ d \in 0..(n - 1)
             /\ Back(c, n, r) \in 0..(n - 1) /\ Back(d, n, r) \in 0..(n - 1)
             /\ Back(d, n, r) < p => \E k \in 1..p : Further(c, k - 1, n) = r
             /\ Back(d, n, r) >= p => Back(c, n, r) = Back(d, n, r) - p
<1> DEFINE d == Further(c, p, n)
           b == Back(d, n, r)
<1>1. PICK q \in Nat : c + p = q * n + d /\ d \in 0..(n - 1)
  <2>1. c + p \in Nat
    OBVIOUS
  <2> QED BY <2>1, Divided DEF Further
<1> HIDE DEF d
<1>2. Back(c, n, r) \in 0..(n - 1) /\ b \in 0..(n - 1)
  BY <1>1 DEF Back
<1>3. ASSUME b < p PROVE \E k \in 1..p : Further(c, k - 1, n) = r
  <2>1. p - b \in 1..p
    BY <1>2, <1>3
  <2>2. c + (p - b) - 1 = q * n + d - 1 - b
    <3>1. q * n \in Nat
      OBVIOUS
    <3> HIDE DEF b
    <3> QED BY ONLY <1>1, <1>2, <3>1, c \in 0..(n - 1), p \in Nat, n \in Nat
  <2>3. CASE r < d
    <3>1. d - 1 - b = r
      BY <1>1, <2>3 DEF Back
    <3>2. c + (p - b) - 1 = q * n + r
      <4>1. q * n \in Nat
        OBVIOUS
      <4> HIDE DEF b
      <4> QED BY ONLY <1>1, <1>2, <2>2, <3>1, <4>1, n \in Nat
    <3>3. (q * n + r) % n = r
      BY RemainderIs
    <3>4. Further(c, (p - b) - 1, n) = r
      <4>1. c + ((p - b) - 1) = q * n + r
        BY ONLY <3>2, <1>2, c \in 0..(n - 1), p \in Nat, n \in Nat
      <4> QED BY ONLY <3>3, <4>1 DEF Further
    <3> QED BY ONLY <2>1, <3>4
  <2>4. CASE ~(r < d)
    <3>1. d - 1 - b = r - n
      BY <1>1, <2>4 DEF Back
    <3>2. q # 0
      <4>1. q = 0 => c + p = d
        BY ONLY <1>1, n \in Nat, c \in 0..(n - 1), p \in Nat
      <4> QED BY ONLY <1>1, <1>2, <1>3, <3>1, <4>1, c \in 0..(n - 1), p \in Nat \ {0},
                      r \in 0..(n - 1), n \in Nat
    <3>3. PICK t \in Nat : q = t + 1
      <4>1. q - 1 \in Nat
        BY <3>2
      <4> QED BY <4>1
    <3>4. q * n = t * n + n /\ t * n \in Nat
      BY <3>3
    <3>5. c + (p - b) - 1 = t * n + r
      <4> HIDE DEF b
      <4> QED BY ONLY <1>1, <1>2, <2>2, <3>1, <3>4, n \in Nat, r \in 0..(n - 1)
    <3>6. (t * n + r) % n = r
      BY RemainderIs
    <3>7. Further(c, (p - b) - 1, n) = r
      <4>1. c + ((p - b) - 1) = t * n + r
        BY ONLY <3>5, <1>2, c \in 0..(n - 1), p \in Nat, n \in Nat
      <4> QED BY ONLY <3>6, <4>1 DEF Further
    <3> QED BY ONLY <2>1, <3>7
  <2> QED BY <2>3, <2>4
<1>4. ASSUME b >= p PROVE Back(c, n, r) = b - p
  <2>1. p < n
    BY <1>2, <1>4
  <2>2. q = 0 \/ q = 1
    <3> SUFFICES ASSUME q # 0, q # 1 PROVE FALSE
      OBVIOUS
    <3>1. PICK t \in Nat : q = t + 2
      <4>1. q - 2 \in Nat
        OBVIOUS
      <4> QED BY <4>1
    <3>2. q * n = t * n + n + n /\ t * n \in Nat
      BY <3>1
    <3> QED BY ONLY <1>1, <2>1, <3>2, c \in 0..(n - 1), p \in Nat, n \in Nat
  <2>3. c + p = d \/ c + p = n + d
    BY <1>1, <2>2
  <2> QED BY <1>1, <1>2, <1>4, <2>1, <2>3 DEF Back
<1> QED BY ONLY <1>1, <1>2, <1>3, <1>4 DEF d

-----------------------------------------------------------------------------
(* Sweeps *)

\* A schedule in use, and its slots.
LEMMA SlotIs ==
  ASSUME NEW v \in DOMAIN Schedules
  PROVE  /\ DOMAIN Schedules[v] = 1..Len(Schedules[v]) /\ Len(Schedules[v]) \in Nat
         /\ \A i \in DOMAIN Schedules[v] :
              /\ Schedules[v][i].enabled \in BOOLEAN
              /\ Schedules[v][i].size \in Nat \ {0} /\ Schedules[v][i].perCycle \in Nat \ {0}
         /\ \A i, j \in DOMAIN Schedules[v] :
              Schedules[v][i].kind = "sub" /\ Schedules[v][j].kind = "sub" => i = j
<1> DEFINE s == Schedules[v]
<1>1. s \in ToSet(Schedules)
  BY DEF ToSet
<1> HIDE DEF s
<1>2. s \in Seq(ToSet(s))
  BY <1>1, CoordinatedAssumption
<1>3. DOMAIN s = 1..Len(s) /\ Len(s) \in Nat
  BY ONLY <1>2
<1>4. \A i \in DOMAIN s :
        s[i].enabled \in BOOLEAN /\ s[i].size \in Nat \ {0} /\ s[i].perCycle \in Nat \ {0}
  BY <1>1, CoordinatedAssumption
<1>5. \A i, j \in DOMAIN s : s[i].kind = "sub" /\ s[j].kind = "sub" => i = j
  BY <1>1, CoordinatedAssumption
<1> QED BY <1>3, <1>4, <1>5 DEF s

SweepInv == SlotsKnown /\ SweepsTrue /\ CycleTrue

\* Where nothing has been planned no visit is ahead.
LEMMA NoneAhead == plan = <<>> /\ current = <<>> => Ahead = {}
BY DEF Ahead, ToSet

\* A slot in use: its cursor, its size and what is remembered of it.
LEMMA InUse ==
  ASSUME SlotsKnown, version # 0 \/ coPc = "visit"
  PROVE  /\ version \in DOMAIN Schedules
         /\ DOMAIN cursors = DOMAIN Schedule /\ DOMAIN sweeps = DOMAIN Schedule
         /\ \A i \in DOMAIN Schedule :
              /\ cursors[i] \in 0..(Schedule[i].size - 1) /\ sweeps[i] \in Seq(SUBSET Nat)
              /\ Schedule[i].enabled \in BOOLEAN
              /\ Schedule[i].size \in Nat \ {0} /\ Schedule[i].perCycle \in Nat \ {0}
<1>1. /\ version \in DOMAIN Schedules
      /\ DOMAIN cursors = DOMAIN Schedule /\ DOMAIN sweeps = DOMAIN Schedule
      /\ \A i \in DOMAIN Schedule :
           cursors[i] \in 0..(Schedule[i].size - 1) /\ sweeps[i] \in Seq(SUBSET Nat)
  BY DEF SlotsKnown
<1> QED BY <1>1, SlotIs DEF Schedule

\* A step that leaves the run alone but for its way between two cycles.
LEMMA SweepQuiet ==
  ASSUME SweepInv, UNCHANGED <<version, cursors, plan, current, sweeps>>,
         coPc = "visit" <=> coPc' = "visit", coPc = "visit" => gone' = gone
  PROVE  SweepInv'
<1>1. SlotsKnown'
  BY DEF SweepInv, SlotsKnown, Schedule
<1>2. SweepsTrue'
  <2>1. Visiting' = Visiting
    BY DEF Visiting
  <2> QED BY <2>1 DEF SweepInv, SweepsTrue, Schedule
<1>3. CycleTrue'
  <2>1. Ahead' = Ahead
    BY DEF Ahead
  <2> QED BY <2>1 DEF SweepInv, CycleTrue, Schedule
<1> QED BY <1>1, <1>2, <1>3 DEF SweepInv

\* Nothing is remembered yet of the slots of a schedule.
LEMMA SweepFresh ==
  ASSUME \A i \in DOMAIN sweeps' : sweeps'[i] = <<>>, SlotsKnown',
         coPc' # "visit", plan' = <<>>, current' = <<>>
  PROVE  SweepInv'
<1>1. SweepsTrue'
  <2>1. \A i \in DOMAIN sweeps' : 1..Len(sweeps'[i]) = {}
    OBVIOUS
  <2> QED BY <2>1 DEF SweepsTrue
<1>2. CycleTrue'
  BY DEF CycleTrue
<1> QED BY <1>1, <1>2 DEF SweepInv

\* The coordinated mode is entered.
LEMMA SweepEnter == SweepInv /\ Enter => SweepInv'
<1> SUFFICES ASSUME SweepInv, Enter PROVE SweepInv'
  OBVIOUS
<1>1. /\ version' = 0 /\ sweeps' = <<>> /\ coPc' = "top" /\ coPc = "off"
      /\ UNCHANGED <<plan, current>>
  BY DEF Enter
<1>2. plan' = <<>> /\ current' = <<>>
  BY <1>1 DEF SweepInv, CycleTrue
<1>3. SlotsKnown'
  BY <1>1 DEF SlotsKnown
<1>4. DOMAIN sweeps' = {}
  BY <1>1
<1> QED BY <1>1, <1>2, <1>3, <1>4, SweepFresh

\* A schedule is taken up.
LEMMA SweepConfigure == SweepInv /\ CoInv /\ Configure => SweepInv'
<1> SUFFICES ASSUME SweepInv, CoInv, Configure PROVE SweepInv'
  OBVIOUS
<1> DEFINE s == Schedules[config]
<1>1. /\ version' = config /\ cursors' = [i \in DOMAIN s |-> 0]
      /\ sweeps' = [i \in DOMAIN s |-> <<>>] /\ coPc = "top"
      /\ UNCHANGED <<coPc, plan, current>> /\ config \in DOMAIN Schedules
  BY DEF Configure, CoInv, CoTyped
<1>2. Schedule' = s
  BY <1>1 DEF Schedule
<1>3. \A i \in DOMAIN s : 0 \in 0..(s[i].size - 1)
  BY <1>1, SlotIs
<1>4. plan' = <<>> /\ current' = <<>> /\ coPc' # "visit"
  BY <1>1 DEF SweepInv, CycleTrue
<1>5. <<>> \in Seq(SUBSET Nat)
  OBVIOUS
<1> HIDE DEF s
<1>6. SlotsKnown'
  BY ONLY <1>1, <1>2, <1>3, <1>5 DEF SlotsKnown
<1>7. \A i \in DOMAIN sweeps' : sweeps'[i] = <<>>
  BY ONLY <1>1
<1> QED BY <1>4, <1>6, <1>7, SweepFresh

\* A cycle is given up, and with it what its slot remembers.
LEMMA SweepAbandon == SweepInv /\ Abandon => SweepInv'
<1> SUFFICES ASSUME SweepInv, Abandon PROVE SweepInv'
  OBVIOUS
<1>1. /\ coPc = "visit" /\ coPc' = "top" /\ plan' = <<>> /\ current = <<>>
      /\ sweeps' = [i \in DOMAIN sweeps |-> <<>>] /\ UNCHANGED <<version, cursors, current>>
  BY DEF Abandon
<1>2. /\ version \in DOMAIN Schedules
      /\ DOMAIN cursors = DOMAIN Schedule /\ DOMAIN sweeps = DOMAIN Schedule
      /\ \A i \in DOMAIN Schedule : cursors[i] \in 0..(Schedule[i].size - 1)
  BY <1>1, InUse DEF SweepInv
<1>3. Schedule' = Schedule
  BY <1>1 DEF Schedule
<1>4. <<>> \in Seq(SUBSET Nat)
  OBVIOUS
<1>5. SlotsKnown'
  BY ONLY <1>1, <1>2, <1>3, <1>4 DEF SlotsKnown
<1> QED BY <1>1, <1>5, SweepFresh

\* A visit begins.
LEMMA SweepBeginVisit == SweepInv /\ LastOfSlot /\ BeginVisit => SweepInv'
<1> SUFFICES ASSUME SweepInv, LastOfSlot, BeginVisit PROVE SweepInv'
  OBVIOUS
<1>1. /\ coPc = "visit" /\ current = <<>> /\ plan # <<>> /\ plan' = Tail(plan)
      /\ current' # <<>> /\ current'.slot = Head(plan).slot /\ current'.centre = Head(plan).centre
      /\ UNCHANGED <<coPc, version, cursors, sweeps, gone>>
  BY DEF BeginVisit
<1>2. ToSet(plan) = ToSet(plan') \cup {Head(plan)}
  <2>1. IsSeq(plan)
    <3>1. plan \in Seq(CoVisits)
      BY DEF LastOfSlot
    <3>2. \A i \in 1..Len(plan) : plan[i] \in ToSet(plan)
      BY <3>1 DEF ToSet
    <3> QED BY ONLY <3>1, <3>2 DEF IsSeq
  <2> QED BY ONLY <1>1, <2>1, OneLess
<1>3. Ahead' = Ahead
  <2>1. Ahead = {<<v.slot, v.centre>> : v \in ToSet(plan)}
    BY <1>1 DEF Ahead
  <2>2. Ahead' = {<<v.slot, v.centre>> : v \in ToSet(plan')}
                   \cup {<<Head(plan).slot, Head(plan).centre>>}
    BY <1>1 DEF Ahead
  <2> QED BY ONLY <1>2, <2>1, <2>2
<1>4. SlotsKnown'
  BY <1>1 DEF SweepInv, SlotsKnown, Schedule
<1>5. SweepsTrue'
  <2>1. Visiting' = Visiting
    BY <1>1 DEF Visiting
  <2> QED BY <1>1, <2>1 DEF SweepInv, SweepsTrue, Schedule
<1>6. CycleTrue'
  BY <1>1, <1>3 DEF SweepInv, CycleTrue, Schedule
<1> QED BY <1>4, <1>5, <1>6 DEF SweepInv

\* A visit ends.
LEMMA SweepEndVisit ==
  ASSUME SweepInv, NEW got, NEW here, EndVisit(got, here)
  PROVE  SweepInv'
<1>1. /\ coPc = "visit" /\ current # <<>> /\ current' = <<>>
      /\ gone' = gone \cup {<<current.slot, current.centre>>}
      /\ UNCHANGED <<coPc, version, cursors, sweeps, plan>>
  BY DEF EndVisit
<1>2. gone' \cup Ahead' = gone \cup Ahead
  BY <1>1 DEF Ahead
<1>4. SlotsKnown'
  BY <1>1 DEF SweepInv, SlotsKnown, Schedule
<1>5. SweepsTrue'
  <2>1. Visiting' = Visiting
    BY <1>1 DEF Visiting
  <2> QED BY <1>1, <2>1 DEF SweepInv, SweepsTrue, Schedule
<1>6. CycleTrue'
  BY <1>1, <1>2 DEF SweepInv, CycleTrue, Schedule
<1> QED BY <1>4, <1>5, <1>6 DEF SweepInv

\* The visits of one slot in a cycle: from its cursor on, the last one marked.
LEMMA PlanSlotIs ==
  ASSUME SlotsKnown, version # 0, NEW i \in DOMAIN Schedule
  PROVE  /\ PlanSlot(i) \in Seq(CoVisits)
         /\ \A k \in DOMAIN PlanSlot(i) :
              LET v == PlanSlot(i)[k]
              IN  /\ v.slot = i /\ v.centre \in 0..(Schedule[i].size - 1)
                  /\ v.last <=> k = Len(PlanSlot(i))
         /\ Schedule[i].enabled =>
              \A k \in 1..Schedule[i].perCycle :
                /\ k \in DOMAIN PlanSlot(i)
                /\ PlanSlot(i)[k].centre = Further(cursors[i], k - 1, Schedule[i].size)
<1> DEFINE n == Schedule[i].size
           p == Schedule[i].perCycle
           c == cursors[i]
           m == IF Schedule[i].enabled THEN p ELSE 0
           s == [k \in 1..m |-> [slot |-> i, centre |-> (c + k - 1) % n, last |-> k = m]]
<1>1. n \in Nat \ {0} /\ p \in Nat \ {0} /\ c \in 0..(n - 1) /\ Schedule[i].enabled \in BOOLEAN
  BY InUse
<1>2. m \in Nat /\ i \in Nat
  <2>1. version \in DOMAIN Schedules
    BY InUse
  <2>2. DOMAIN Schedule = 1..Len(Schedule) /\ Len(Schedule) \in Nat
    BY <2>1, SlotIs DEF Schedule
  <2>3. i \in Nat
    BY <2>2
  <2> QED BY <1>1, <2>3
<1>3. NextVisits(Schedule[i], c) = [k \in 1..m |-> (c + k - 1) % n]
  <2>1. CASE Schedule[i].enabled
    BY ONLY <2>1 DEF NextVisits
  <2>2. CASE ~Schedule[i].enabled
    <3>1. NextVisits(Schedule[i], c) = <<>> /\ m = 0
      BY ONLY <2>2 DEF NextVisits
    <3>2. [k \in 1..0 |-> (c + k - 1) % n] = <<>>
      OBVIOUS
    <3> QED BY ONLY <3>1, <3>2
  <2> QED BY ONLY <2>1, <2>2
<1> HIDE DEF n, p, c, m
<1>4. DOMAIN [k \in 1..m |-> (c + k - 1) % n] = 1..m /\ Len([k \in 1..m |-> (c + k - 1) % n]) = m
  BY ONLY <1>2
<1>5. PlanSlot(i) = s
  <2> DEFINE t == [k \in 1..m |-> (c + k - 1) % n]
  <2>1. NextVisits(Schedule[i], cursors[i]) = t
    BY <1>3 DEF c
  <2>2. DOMAIN t = 1..m /\ Len(t) = m /\ \A k \in 1..m : t[k] = (c + k - 1) % n
    BY <1>4
  <2> HIDE DEF t
  <2> QED BY ONLY <2>1, <2>2 DEF PlanSlot
<1>6. \A k \in 1..m : (c + k - 1) % n \in 0..(n - 1)
  <2> SUFFICES ASSUME NEW k \in 1..m PROVE (c + k - 1) % n \in 0..(n - 1)
    OBVIOUS
  <2>1. c + k - 1 \in Nat
    BY <1>1, <1>2
  <2> QED BY ONLY <1>1, <2>1
<1>7. s \in Seq(CoVisits) /\ Len(s) = m /\ DOMAIN s = 1..m
  <2>1. \A k \in 1..m : [slot |-> i, centre |-> (c + k - 1) % n, last |-> k = m] \in CoVisits
    BY <1>1, <1>2, <1>6 DEF CoVisits
  <2> QED BY ONLY <1>2, <2>1
<1>8. \A k \in 1..m : s[k].slot = i /\ s[k].centre = (c + k - 1) % n /\ (s[k].last <=> k = m)
  OBVIOUS
<1> HIDE DEF s
<1>9. \A k \in DOMAIN s :
        s[k].slot = i /\ s[k].centre \in 0..(n - 1) /\ (s[k].last <=> k = Len(s))
  BY ONLY <1>6, <1>7, <1>8
<1>10. Schedule[i].enabled =>
         \A k \in 1..p : k \in DOMAIN s /\ s[k].centre = Further(c, k - 1, n)
  <2>1. \A k \in 1..m : c + k - 1 = c + (k - 1)
    BY ONLY <1>1, <1>2
  <2> QED BY ONLY <1>7, <1>8, <2>1 DEF m, Further
<1> QED BY ONLY <1>5, <1>7, <1>9, <1>10 DEF n, p, c

\* The visits of the first slots in a cycle: after the last one of a slot there is no other.
InPlan(x, k) ==
  /\ x \in Seq(CoVisits)
  /\ \A a \in DOMAIN x :
       /\ x[a].slot \in DOMAIN Schedule /\ x[a].slot <= k
       /\ x[a].centre \in 0..(Schedule[x[a].slot].size - 1)
  /\ \A a, b \in DOMAIN x : a < b /\ x[a].last => x[b].slot # x[a].slot
  /\ \A i \in 1..k : \A c \in DOMAIN PlanSlot(i) : \E a \in DOMAIN x : x[a] = PlanSlot(i)[c]

\* So it stays when the next slot is planned.
LEMMA InPlanNext ==
  ASSUME SlotsKnown, version # 0, NEW k \in DOMAIN Schedule, NEW x, InPlan(x, k - 1)
  PROVE  InPlan(x \o PlanSlot(k), k)
<1> DEFINE s == PlanSlot(k)
           y == x \o s
<1>0. k \in Nat
  <2>1. version \in DOMAIN Schedules
    BY InUse
  <2>2. DOMAIN Schedule = 1..Len(Schedule) /\ Len(Schedule) \in Nat
    BY <2>1, SlotIs DEF Schedule
  <2> QED BY <2>2
<1>1. /\ s \in Seq(CoVisits)
      /\ \A c \in DOMAIN s : /\ s[c].slot = k /\ s[c].centre \in 0..(Schedule[k].size - 1)
                             /\ s[c].last <=> c = Len(s)
  BY PlanSlotIs
<1>2. /\ x \in Seq(CoVisits)
      /\ \A a \in DOMAIN x : x[a].slot \in DOMAIN Schedule /\ x[a].slot <= k - 1
           /\ x[a].centre \in 0..(Schedule[x[a].slot].size - 1)
      /\ \A a, b \in DOMAIN x : a < b /\ x[a].last => x[b].slot # x[a].slot
      /\ \A i \in 1..(k - 1) : \A c \in DOMAIN PlanSlot(i) :
           \E a \in DOMAIN x : x[a] = PlanSlot(i)[c]
  BY DEF InPlan
<1> HIDE DEF s
<1>3. /\ y \in Seq(CoVisits) /\ Len(x) \in Nat /\ Len(s) \in Nat
      /\ DOMAIN x = 1..Len(x) /\ DOMAIN s = 1..Len(s) /\ DOMAIN y = 1..(Len(x) + Len(s))
      /\ \A a \in 1..Len(x) : y[a] = x[a]
      /\ \A a \in 1..Len(s) : y[Len(x) + a] = s[a]
  BY ONLY <1>1, <1>2
<1> HIDE DEF y
<1>8. \A a \in DOMAIN x : x[a].slot \in Nat
  <2>1. x \in Seq(CoVisits)
    BY <1>2
  <2>2. \A a \in DOMAIN x : x[a] \in CoVisits
    BY ONLY <2>1
  <2> QED BY ONLY <2>2 DEF CoVisits
<1>4. ASSUME NEW a \in DOMAIN y
      PROVE  \/ a \in DOMAIN x /\ y[a] = x[a]
             \/ a > Len(x) /\ a - Len(x) \in DOMAIN s /\ y[a] = s[a - Len(x)]
  <2>1. CASE a \in 1..Len(x)
    BY ONLY <1>3, <2>1
  <2>2. CASE a \notin 1..Len(x)
    <3>1. a - Len(x) \in 1..Len(s) /\ Len(x) + (a - Len(x)) = a /\ a > Len(x)
      BY ONLY <1>3, <2>2, a \in DOMAIN y
    <3>2. y[Len(x) + (a - Len(x))] = s[a - Len(x)]
      BY ONLY <1>3, <3>1
    <3> QED BY ONLY <1>3, <3>1, <3>2
  <2> QED BY <2>1, <2>2
<1>5. \A a \in DOMAIN y :
        /\ y[a].slot \in DOMAIN Schedule /\ y[a].slot <= k
        /\ y[a].centre \in 0..(Schedule[y[a].slot].size - 1)
  <2> SUFFICES ASSUME NEW a \in DOMAIN y
               PROVE  /\ y[a].slot \in DOMAIN Schedule /\ y[a].slot <= k
                      /\ y[a].centre \in 0..(Schedule[y[a].slot].size - 1)
    OBVIOUS
  <2>1. CASE a \in DOMAIN x /\ y[a] = x[a]
    <3>1. x[a].slot \in Nat
      BY <1>8, <2>1
    <3>2. x[a].slot <= k
      BY ONLY <1>0, <1>2, <2>1, <3>1
    <3> QED BY ONLY <1>2, <2>1, <3>2
  <2>2. CASE a - Len(x) \in DOMAIN s /\ y[a] = s[a - Len(x)]
    <3>1. y[a].slot = k /\ y[a].centre \in 0..(Schedule[k].size - 1)
      BY ONLY <1>1, <2>2
    <3> QED BY ONLY <1>0, <3>1, k \in DOMAIN Schedule
  <2> QED BY <1>4, <2>1, <2>2
<1>6. \A a, b \in DOMAIN y : a < b /\ y[a].last => y[b].slot # y[a].slot
  <2> SUFFICES ASSUME NEW a \in DOMAIN y, NEW b \in DOMAIN y, a < b, y[a].last
               PROVE  y[b].slot # y[a].slot
    OBVIOUS
  <2>0. a \in Nat /\ b \in Nat /\ Len(x) \in Nat
    BY ONLY <1>3, a \in DOMAIN y, b \in DOMAIN y
  <2>1. CASE b \in DOMAIN x /\ y[b] = x[b]
    <3>1. a \in DOMAIN x /\ y[a] = x[a]
      BY ONLY <1>3, <2>0, <2>1, a \in DOMAIN y, a < b
    <3> QED BY ONLY <1>2, <2>1, <3>1, a < b, y[a].last
  <2>2. CASE b > Len(x) /\ b - Len(x) \in DOMAIN s /\ y[b] = s[b - Len(x)]
    <3>1. y[b].slot = k
      BY ONLY <1>1, <2>2
    <3>2. CASE a \in DOMAIN x /\ y[a] = x[a]
      <4>1. y[a].slot <= k - 1 /\ y[a].slot \in Nat
        BY ONLY <1>2, <1>8, <3>2
      <4> QED BY ONLY <1>0, <3>1, <4>1
    <3>3. CASE a > Len(x) /\ a - Len(x) \in DOMAIN s /\ y[a] = s[a - Len(x)]
      <4>1. a - Len(x) = Len(s)
        BY ONLY <1>1, <3>3, y[a].last
      <4> QED BY ONLY <1>3, <2>0, <2>2, <4>1, a < b
    <3> QED BY <1>4, <3>2, <3>3
  <2> QED BY <1>4, <2>1, <2>2
<1>7. \A i \in 1..k : \A c \in DOMAIN PlanSlot(i) : \E a \in DOMAIN y : y[a] = PlanSlot(i)[c]
  <2> SUFFICES ASSUME NEW i \in 1..k, NEW c \in DOMAIN PlanSlot(i)
               PROVE  \E a \in DOMAIN y : y[a] = PlanSlot(i)[c]
    OBVIOUS
  <2>1. CASE i = k
    <3>1. c \in 1..Len(s)
      BY ONLY <1>3, <2>1, c \in DOMAIN PlanSlot(i) DEF s
    <3>2. Len(x) + c \in DOMAIN y /\ y[Len(x) + c] = s[c]
      BY ONLY <1>3, <3>1
    <3> QED BY ONLY <2>1, <3>2 DEF s
  <2>2. CASE i # k
    <3>1. i \in 1..(k - 1)
      BY ONLY <1>0, <2>2, i \in 1..k
    <3>2. PICK a \in DOMAIN x : x[a] = PlanSlot(i)[c]
      BY ONLY <1>2, <3>1, c \in DOMAIN PlanSlot(i)
    <3>3. a \in DOMAIN y /\ y[a] = x[a]
      BY ONLY <1>3, a \in DOMAIN x
    <3> QED BY ONLY <3>2, <3>3
  <2> QED BY <2>1, <2>2
<1> QED BY <1>3, <1>5, <1>6, <1>7 DEF InPlan, y, s

\* So is the plan of a cycle.
LEMMA PlanIs ==
  ASSUME SlotsKnown, version # 0, Plan
  PROVE  InPlan(plan', Len(Schedule))
<1> DEFINE ss == [i \in DOMAIN Schedule |-> PlanSlot(i)]
           n == Len(Schedule)
           P == [k \in 0..n |-> {x \in Seq(CoVisits) : InPlan(x, k)}]
<1>1. plan' = FlattenSeq(ss)
  BY DEF Plan
<1>2. DOMAIN Schedule = 1..n /\ n \in Nat
  <2>1. version \in DOMAIN Schedules
    BY InUse
  <2> QED BY <2>1, SlotIs DEF Schedule
<1>3. \A i \in 1..n : PlanSlot(i) \in Seq(CoVisits)
  BY <1>2, PlanSlotIs
<1> HIDE DEF n
<1>4. ss \in Seq(Seq(CoVisits)) /\ Len(ss) = n /\ \A i \in 1..n : ss[i] = PlanSlot(i)
  BY ONLY <1>2, <1>3
<1> HIDE DEF ss
<1>5. <<>> \in P[0]
  <2>1. InPlan(<<>>, 0)
    BY DEF InPlan
  <2>2. 0 \in 0..n
    BY ONLY <1>2
  <2> QED BY <2>1, <2>2
<1>6. ASSUME NEW k \in 1..n, NEW x \in Seq(CoVisits), x \in P[k - 1]
      PROVE  x \o ss[k] \in P[k]
  <2>1. k - 1 \in 0..n /\ k \in 0..n /\ k \in DOMAIN Schedule
    BY ONLY <1>2, k \in 1..n
  <2>2. InPlan(x, k - 1)
    BY ONLY <1>6, <2>1
  <2>3. InPlan(x \o ss[k], k)
    BY <1>4, <2>1, <2>2, InPlanNext
  <2>4. x \o ss[k] \in Seq(CoVisits)
    BY ONLY <2>3 DEF InPlan
  <2> QED BY ONLY <2>1, <2>3, <2>4
<1>7. n \in 0..n
  BY ONLY <1>2
<1> HIDE DEF P
<1>8. FlattenSeq(ss) \in P[n]
  BY ONLY <1>4, <1>5, <1>6, FlattenIn
<1> QED BY ONLY <1>1, <1>7, <1>8 DEF P, n

\* With the cursor one cycle further, a centre met late by some cycles is met late by one more.
LEMMA OneCycleLater ==
  ASSUME NEW n \in Nat \ {0}, NEW p \in Nat \ {0}, NEW c \in 0..(n - 1), NEW r \in 0..(n - 1),
         NEW late \in Nat,
         (late + 1) * p <= Back(Further(c, p, n), n, r),
         Back(Further(c, p, n), n, r) < (late + 2) * p
  PROVE  late * p <= Back(c, n, r) /\ Back(c, n, r) < (late + 1) * p
<1> DEFINE b == Back(Further(c, p, n), n, r)
           a == Back(c, n, r)
           m == late * p
<1>1. m \in Nat /\ (late + 1) * p = m + p /\ (late + 2) * p = m + p + p
  <2>1. late * p \in Nat
    BY ONLY late \in Nat, p \in Nat \ {0}
  <2>2. (late + 1) * p = late * p + p
    BY ONLY late \in Nat, p \in Nat \ {0}
  <2>3. (late + 2) * p = late * p + p + p
    BY ONLY late \in Nat, p \in Nat \ {0}
  <2> QED BY ONLY <2>1, <2>2, <2>3
<1>2. b \in 0..(n - 1) /\ (b >= p => a = b - p)
  BY CursorMoves
<1> HIDE DEF a, b, m
<1>3. m + p <= b /\ b < m + p + p
  BY ONLY <1>1, (late + 1) * p <= Back(Further(c, p, n), n, r),
          Back(Further(c, p, n), n, r) < (late + 2) * p DEF b
<1>4. m <= a /\ a < m + p
  BY ONLY <1>1, <1>2, <1>3, p \in Nat, n \in Nat
<1> QED BY ONLY <1>1, <1>4 DEF a, m

\* A cycle is planned: what the slots remember is one cycle older, and every centre
\* between the old cursors and the new is ahead.
LEMMA SweepPlan == SweepInv /\ CoInv /\ Plan => SweepInv'
<1> SUFFICES ASSUME SweepInv, CoInv, Plan PROVE SweepInv'
  OBVIOUS
<1>1. /\ coPc = "top" /\ coPc' = "visit" /\ version = config /\ gone' = {}
      /\ cursors' = [i \in DOMAIN Schedule |-> NextCursor(Schedule[i], cursors[i])]
      /\ UNCHANGED <<version, sweeps, current>>
  BY DEF Plan
<1>2. version # 0
  <2>1. config \in DOMAIN Schedules
    BY DEF CoInv, CoTyped
  <2>2. Schedules \in Seq(ToSet(Schedules))
    BY CoordinatedAssumption
  <2> QED BY ONLY <1>1, <2>1, <2>2
<1>3. /\ version \in DOMAIN Schedules
      /\ DOMAIN cursors = DOMAIN Schedule /\ DOMAIN sweeps = DOMAIN Schedule
      /\ \A i \in DOMAIN Schedule :
           /\ cursors[i] \in 0..(Schedule[i].size - 1) /\ sweeps[i] \in Seq(SUBSET Nat)
           /\ Schedule[i].enabled \in BOOLEAN
           /\ Schedule[i].size \in Nat \ {0} /\ Schedule[i].perCycle \in Nat \ {0}
  BY <1>2, InUse DEF SweepInv
<1>4. \A i \in DOMAIN Schedule :
        /\ Schedule[i].enabled =>
             cursors'[i] = Further(cursors[i], Schedule[i].perCycle, Schedule[i].size)
        /\ ~Schedule[i].enabled => cursors'[i] = cursors[i]
  BY <1>1 DEF NextCursor, Further
<1>5. \A i \in DOMAIN Schedule : cursors'[i] \in 0..(Schedule[i].size - 1)
  <2> SUFFICES ASSUME NEW i \in DOMAIN Schedule
               PROVE  cursors'[i] \in 0..(Schedule[i].size - 1)
    OBVIOUS
  <2>1. CASE Schedule[i].enabled
    <3> DEFINE n == Schedule[i].size
               p == Schedule[i].perCycle
               c == cursors[i]
    <3>1. n \in Nat \ {0} /\ p \in Nat \ {0} /\ c \in 0..(n - 1)
      BY <1>3
    <3>2. cursors'[i] = Further(c, p, n)
      BY <1>4, <2>1
    <3> HIDE DEF n, p, c
    <3>3. 0 \in 0..(n - 1)
      BY ONLY <3>1
    <3>4. Further(c, p, n) \in 0..(n - 1)
      BY ONLY <3>1, <3>3, CursorMoves
    <3> QED BY ONLY <3>2, <3>4 DEF n
  <2>2. CASE ~Schedule[i].enabled
    BY <1>3, <1>4, <2>2
  <2> QED BY <2>1, <2>2
<1>6. Schedule' = Schedule /\ Visiting = 0 /\ Visiting' = 1
  BY <1>1 DEF Schedule, Visiting
<1>7. SlotsKnown'
  <2>1. DOMAIN cursors' = DOMAIN Schedule
    BY ONLY <1>1
  <2> QED BY ONLY <1>1, <1>3, <1>5, <1>6, <2>1 DEF SlotsKnown
<1>8. SweepsTrue'
  <2> SUFFICES ASSUME NEW i \in DOMAIN sweeps, NEW k \in 1..Len(sweeps[i])
               PROVE  /\ sweeps[i][k] \subseteq 0..(Schedule[i].size - 1)
                      /\ Schedule[i].enabled =>
                           \A r \in 0..(Schedule[i].size - 1) :
                             Met(Schedule[i], cursors'[i], Len(sweeps[i]) - k + 1, r)
                               => r \in sweeps[i][k]
    BY <1>1 DEF SweepsTrue, Schedule, Visiting
  <2> DEFINE late == Len(sweeps[i]) - k
  <2>1. late \in Nat /\ late + Visiting = late
    <3>1. sweeps[i] \in Seq(SUBSET Nat)
      BY <1>3
    <3> QED BY ONLY <1>6, <3>1, k \in 1..Len(sweeps[i])
  <2>2. /\ sweeps[i][k] \subseteq 0..(Schedule[i].size - 1)
        /\ Schedule[i].enabled =>
             \A r \in 0..(Schedule[i].size - 1) :
               Met(Schedule[i], cursors[i], late, r) => r \in sweeps[i][k]
    <3>1. /\ sweeps[i][k] \subseteq 0..(Schedule[i].size - 1)
          /\ Schedule[i].enabled =>
               \A r \in 0..(Schedule[i].size - 1) :
                 Met(Schedule[i], cursors[i], late + Visiting, r) => r \in sweeps[i][k]
      BY DEF SweepInv, SweepsTrue
    <3> HIDE DEF late
    <3> QED BY ONLY <2>1, <3>1
  <2>3. ASSUME Schedule[i].enabled, NEW r \in 0..(Schedule[i].size - 1),
               Met(Schedule[i], cursors'[i], late + 1, r)
        PROVE  Met(Schedule[i], cursors[i], late, r)
    <3> DEFINE n == Schedule[i].size
               p == Schedule[i].perCycle
    <3>1. /\ n \in Nat \ {0} /\ p \in Nat \ {0} /\ cursors[i] \in 0..(n - 1)
          /\ cursors'[i] = Further(cursors[i], p, n)
      BY <1>3, <1>4, <2>3
    <3>2. (late + 1) * p <= Back(cursors'[i], n, r) /\ Back(cursors'[i], n, r) < (late + 2) * p
      <4>1. (late + 1) + 1 = late + 2
        BY ONLY <2>1
      <4> HIDE DEF late
      <4> QED BY ONLY <2>3, <4>1 DEF Met
    <3> HIDE DEF late
    <3>3. r \in 0..(n - 1)
      OBVIOUS
    <3> HIDE DEF n, p
    <3>4. late * p <= Back(cursors[i], n, r) /\ Back(cursors[i], n, r) < (late + 1) * p
      BY ONLY <2>1, <3>1, <3>2, <3>3, OneCycleLater
    <3> QED BY ONLY <3>4 DEF Met, n, p
  <2> QED BY ONLY <2>2, <2>3
<1>9. CycleTrue'
  <2>1. current' = <<>> /\ InPlan(plan', Len(Schedule))
    <3>1. current' = <<>>
      BY <1>1 DEF SweepInv, CycleTrue
    <3>2. InPlan(plan', Len(Schedule))
      BY <1>2, PlanIs DEF SweepInv
    <3> QED BY <3>1, <3>2
  <2>2. Ahead' = {<<v.slot, v.centre>> : v \in ToSet(plan')}
    BY <2>1 DEF Ahead
  <2>3. ToSet(plan') = {plan'[a] : a \in DOMAIN plan'}
    BY DEF ToSet
  <2>4. ASSUME NEW g \in gone' \cup Ahead'
        PROVE  g[1] \in DOMAIN Schedule /\ g[2] \in 0..(Schedule[g[1]].size - 1)
    <3>1. PICK a \in DOMAIN plan' : g = <<plan'[a].slot, plan'[a].centre>>
      BY <1>1, <2>2, <2>3
    <3>2. /\ plan'[a].slot \in DOMAIN Schedule
          /\ plan'[a].centre \in 0..(Schedule[plan'[a].slot].size - 1)
      BY <2>1 DEF InPlan
    <3> QED BY <3>1, <3>2
  <2>5. ASSUME NEW i \in DOMAIN Schedule, Schedule[i].enabled,
               NEW r \in 0..(Schedule[i].size - 1),
               Back(cursors'[i], Schedule[i].size, r) < Schedule[i].perCycle
        PROVE  <<i, r>> \in gone' \cup Ahead'
    <3>1. PICK k \in 1..Schedule[i].perCycle :
            Further(cursors[i], k - 1, Schedule[i].size) = r
      <4> DEFINE n == Schedule[i].size
                 p == Schedule[i].perCycle
                 c == cursors[i]
      <4>1. /\ n \in Nat \ {0} /\ p \in Nat \ {0} /\ c \in 0..(n - 1)
            /\ r \in 0..(n - 1) /\ Back(cursors'[i], n, r) < p
        BY <1>3, <2>5
      <4>2. cursors'[i] = Further(c, p, n)
        BY <1>4, <2>5
      <4> HIDE DEF n, p, c
      <4>3. \E k \in 1..p : Further(c, k - 1, n) = r
        BY ONLY <4>1, <4>2, CursorMoves
      <4> QED BY ONLY <4>3 DEF n, p, c
    <3>2. /\ k \in DOMAIN PlanSlot(i) /\ PlanSlot(i)[k].slot = i
          /\ PlanSlot(i)[k].centre = r
      BY <1>2, <2>5, <3>1, PlanSlotIs DEF SweepInv
    <3>3. i \in 1..Len(Schedule)
      BY <1>3, SlotIs DEF Schedule
    <3>4. PICK a \in DOMAIN plan' : plan'[a] = PlanSlot(i)[k]
      BY <2>1, <3>2, <3>3 DEF InPlan
    <3> QED BY ONLY <2>2, <2>3, <3>2, <3>4
  <2> QED BY ONLY <1>1, <1>6, <2>4, <2>5 DEF CycleTrue
<1> QED BY <1>7, <1>8, <1>9 DEF SweepInv

\* A cycle ends, and the centres it went to are remembered.
LEMMA SweepEndCycle == SweepInv /\ CoEndCycle => SweepInv'
<1> SUFFICES ASSUME SweepInv, CoEndCycle PROVE SweepInv'
  OBVIOUS
<1> DEFINE went(i) == {g[2] : g \in {h \in gone : h[1] = i}}
           all(i) == Append(sweeps[i], went(i))
           from(i) == IF Len(all(i)) > CyclesPerSweep(Schedule[i]) THEN 2 ELSE 1
<1>1. /\ coPc = "visit" /\ coPc' = "top" /\ current = <<>> /\ plan = <<>>
      /\ sweeps' = [i \in DOMAIN sweeps |-> SubSeq(all(i), from(i), Len(all(i)))]
      /\ UNCHANGED <<version, cursors, plan, current>>
  BY DEF CoEndCycle
<1>2. /\ version \in DOMAIN Schedules
      /\ DOMAIN cursors = DOMAIN Schedule /\ DOMAIN sweeps = DOMAIN Schedule
      /\ \A i \in DOMAIN Schedule :
           /\ cursors[i] \in 0..(Schedule[i].size - 1) /\ sweeps[i] \in Seq(SUBSET Nat)
           /\ Schedule[i].enabled \in BOOLEAN
           /\ Schedule[i].size \in Nat \ {0} /\ Schedule[i].perCycle \in Nat \ {0}
  BY <1>1, InUse DEF SweepInv
<1>3. Schedule' = Schedule /\ Visiting = 1 /\ Visiting' = 0
  BY <1>1 DEF Schedule, Visiting
<1>4. \A i \in DOMAIN Schedule : went(i) \subseteq 0..(Schedule[i].size - 1)
  <2>1. \A g \in gone : g[2] \in 0..(Schedule[g[1]].size - 1)
    BY <1>1 DEF SweepInv, CycleTrue
  <2> QED BY ONLY <2>1
<1>5. \A i \in DOMAIN Schedule : Schedule[i].enabled =>
        \A r \in 0..(Schedule[i].size - 1) :
          Back(cursors[i], Schedule[i].size, r) < Schedule[i].perCycle => r \in went(i)
  <2>1. Ahead = {}
    BY <1>1, NoneAhead
  <2>2. ASSUME NEW i \in DOMAIN Schedule, Schedule[i].enabled,
               NEW r \in 0..(Schedule[i].size - 1),
               Back(cursors[i], Schedule[i].size, r) < Schedule[i].perCycle
        PROVE  r \in went(i)
    <3>1. <<i, r>> \in gone
      BY <1>1, <2>1, <2>2 DEF SweepInv, CycleTrue
    <3>2. <<i, r>>[1] = i /\ <<i, r>>[2] = r
      OBVIOUS
    <3> QED BY ONLY <3>1, <3>2
  <2> QED BY <2>2
<1> HIDE DEF went
<1>6. ASSUME NEW i \in DOMAIN Schedule
      PROVE  LET n == Len(sweeps[i])
                 m == Len(sweeps'[i])
             IN  /\ sweeps'[i] \in Seq(SUBSET Nat) /\ n \in Nat /\ m \in Nat
                 /\ m = n \/ m = n + 1
                 /\ \A k \in 1..m :
                      LET j == n + 1 - m + k
                      IN  sweeps'[i][k] = IF j = n + 1 THEN went(i) ELSE sweeps[i][j]
  <2> DEFINE a == all(i)
             n == Len(sweeps[i])
             f == from(i)
  <2>1. went(i) \in SUBSET Nat
    <3>1. Schedule[i].size \in Nat
      BY <1>2
    <3>2. 0..(Schedule[i].size - 1) \subseteq Nat
      BY ONLY <3>1
    <3> QED BY <1>4, <3>2
  <2>2. sweeps[i] \in Seq(SUBSET Nat)
    BY <1>2
  <2>3. /\ a \in Seq(SUBSET Nat) /\ n \in Nat /\ Len(a) = n + 1 /\ a[n + 1] = went(i)
        /\ \A k \in 1..n : a[k] = sweeps[i][k]
    BY ONLY <2>1, <2>2
  <2>4. f \in {1, 2}
    OBVIOUS
  <2>5. sweeps'[i] = SubSeq(a, f, Len(a))
    BY <1>1, <1>2
  <2> HIDE DEF a, n, f
  <2>6. /\ SubSeq(a, f, Len(a)) \in Seq(SUBSET Nat)
        /\ Len(SubSeq(a, f, Len(a))) = n + 2 - f
        /\ \A k \in 1..(n + 2 - f) : SubSeq(a, f, Len(a))[k] = a[f + k - 1]
    <3>1. CASE f = 1
      BY ONLY <2>3, <3>1
    <3>2. CASE f = 2
      BY ONLY <2>3, <3>2
    <3> QED BY <2>4, <3>1, <3>2
  <2> DEFINE m == n + 2 - f
  <2>7. m \in Nat /\ (m = n \/ m = n + 1) /\ f = n + 2 - m
    BY ONLY <2>3, <2>4
  <2>8. ASSUME NEW k \in 1..m
        PROVE  sweeps'[i][k] = IF n + 1 - m + k = n + 1 THEN went(i) ELSE sweeps[i][n + 1 - m + k]
    <3>1. f + k - 1 = n + 1 - m + k /\ n + 1 - m + k \in 1..(n + 1)
      BY ONLY <2>3, <2>4, <2>7, k \in 1..m
    <3>2. sweeps'[i][k] = a[n + 1 - m + k]
      BY ONLY <2>5, <2>6, <3>1, k \in 1..m
    <3>3. n + 1 - m + k = n + 1 \/ n + 1 - m + k \in 1..n
      BY ONLY <2>3, <3>1
    <3> HIDE DEF m
    <3> QED BY ONLY <2>3, <3>2, <3>3
  <2>9. Len(sweeps'[i]) = m
    BY ONLY <2>5, <2>6
  <2> HIDE DEF m
  <2> QED BY ONLY <2>3, <2>5, <2>6, <2>7, <2>8, <2>9 DEF n
<1> HIDE DEF all, from
<1>7. SlotsKnown'
  <2>1. DOMAIN sweeps' = DOMAIN Schedule
    BY ONLY <1>1, <1>2
  <2> QED BY ONLY <1>1, <1>2, <1>3, <1>6, <2>1 DEF SlotsKnown
<1>8. SweepsTrue'
  <2> SUFFICES ASSUME NEW i \in DOMAIN Schedule, NEW k \in 1..Len(sweeps'[i])
               PROVE  /\ sweeps'[i][k] \subseteq 0..(Schedule[i].size - 1)
                      /\ Schedule[i].enabled =>
                           \A r \in 0..(Schedule[i].size - 1) :
                             Met(Schedule[i], cursors[i], Len(sweeps'[i]) - k + 0, r)
                               => r \in sweeps'[i][k]
    <3>1. DOMAIN sweeps' = DOMAIN Schedule
      BY ONLY <1>1, <1>2
    <3> QED BY <1>1, <3>1 DEF SweepsTrue, Schedule, Visiting
  <2> DEFINE n == Len(sweeps[i])
             m == Len(sweeps'[i])
             j == n + 1 - m + k
  <2>1. /\ n \in Nat /\ m \in Nat /\ (m = n \/ m = n + 1) /\ k \in 1..m
        /\ sweeps'[i][k] = IF j = n + 1 THEN went(i) ELSE sweeps[i][j]
    BY ONLY <1>6, i \in DOMAIN Schedule, k \in 1..Len(sweeps'[i])
  <2> HIDE DEF n, m
  <2>2. n \in Nat /\ m \in Nat /\ (m = n \/ m = n + 1) /\ k \in 1..m
    BY ONLY <2>1
  <2>3. \/ j = n + 1 /\ m - k + 0 = 0
        \/ j # n + 1 /\ j \in 1..n /\ m - k + 0 = n - j + 1
    BY ONLY <2>2
  <2> HIDE DEF j
  <2>4. CASE j = n + 1 /\ m - k + 0 = 0
    <3>1. sweeps'[i][k] = went(i)
      BY ONLY <2>1, <2>4
    <3>2. ASSUME NEW r, Met(Schedule[i], cursors[i], m - k + 0, r)
          PROVE  Back(cursors[i], Schedule[i].size, r) < Schedule[i].perCycle
      <4>1. Back(cursors[i], Schedule[i].size, r) < (0 + 1) * Schedule[i].perCycle
        BY ONLY <2>4, <3>2 DEF Met
      <4>2. Schedule[i].perCycle \in Nat
        BY <1>2
      <4> QED BY ONLY <4>1, <4>2
    <3> QED BY ONLY <1>4, <1>5, <3>1, <3>2, i \in DOMAIN Schedule DEF m
  <2>5. CASE j # n + 1 /\ j \in 1..n /\ m - k + 0 = n - j + 1
    <3>1. sweeps'[i][k] = sweeps[i][j]
      BY ONLY <2>1, <2>5
    <3>2. /\ sweeps[i][j] \subseteq 0..(Schedule[i].size - 1)
          /\ Schedule[i].enabled =>
               \A r \in 0..(Schedule[i].size - 1) :
                 Met(Schedule[i], cursors[i], n - j + 1, r) => r \in sweeps[i][j]
      <4>1. i \in DOMAIN sweeps
        BY <1>2
      <4> QED BY <1>3, <2>5, <4>1 DEF SweepInv, SweepsTrue, n
    <3> QED BY ONLY <2>5, <3>1, <3>2 DEF m
  <2> QED BY ONLY <2>3, <2>4, <2>5
<1>9. CycleTrue'
  BY <1>1 DEF CycleTrue
<1> QED BY <1>7, <1>8, <1>9 DEF SweepInv

\* Enough cycles for a sweep, each one with its share of the centres, have them all.
LEMMA SweepsCover == SweepInv => SweepCovers
<1> SUFFICES ASSUME SweepInv, coPc = "top", NEW i \in DOMAIN sweeps, Schedule[i].enabled,
                    Len(sweeps[i]) = CyclesPerSweep(Schedule[i])
             PROVE  UNION ToSet(sweeps[i]) = 0..(Schedule[i].size - 1)
  BY DEF SweepCovers
<1> DEFINE n == Schedule[i].size
           p == Schedule[i].perCycle
           c == cursors[i]
           cycles == CyclesPerSweep(Schedule[i])
<1>1. version # 0
  <2>1. sweeps # <<>>
    <3>1. DOMAIN <<>> = {}
      OBVIOUS
    <3> QED BY ONLY <3>1, i \in DOMAIN sweeps
  <2>2. version \in DOMAIN Schedules
    BY <2>1 DEF SweepInv, SlotsKnown
  <2>3. Schedules \in Seq(ToSet(Schedules))
    BY CoordinatedAssumption
  <2> QED BY ONLY <2>2, <2>3
<1>2. /\ i \in DOMAIN Schedule /\ sweeps[i] \in Seq(SUBSET Nat)
      /\ n \in Nat \ {0} /\ p \in Nat \ {0} /\ c \in 0..(n - 1)
  BY <1>1, InUse DEF SweepInv
<1>3. ToSet(sweeps[i]) = {sweeps[i][k] : k \in 1..cycles} /\ cycles \in Nat
  <2>1. Len(sweeps[i]) \in Nat /\ DOMAIN sweeps[i] = 1..Len(sweeps[i])
    BY ONLY <1>2
  <2> QED BY <2>1 DEF ToSet
<1>4. \A k \in 1..cycles :
        /\ sweeps[i][k] \subseteq 0..(n - 1)
        /\ \A r \in 0..(n - 1) :
             Met(Schedule[i], c, Len(sweeps[i]) - k + Visiting, r) => r \in sweeps[i][k]
  BY DEF SweepInv, SweepsTrue
<1>5. cycles * p >= n
  <2>1. n + p - 1 \in Nat /\ cycles = (n + p - 1) \div p
    BY <1>2 DEF CyclesPerSweep
  <2> HIDE DEF n, p, cycles
  <2>2. (n + p - 1) = cycles * p + ((n + p - 1) % p) /\ ((n + p - 1) % p) \in 0..(p - 1)
    BY ONLY <1>2, <2>1
  <2>3. cycles * p \in Nat
    BY ONLY <1>2, <1>3
  <2> DEFINE whole == cycles * p
             rest == (n + p - 1) % p
  <2>4. /\ n + p - 1 = whole + rest /\ rest \in 0..(p - 1) /\ whole \in Nat
        /\ n \in Nat /\ p \in Nat
    <3>1. n \in Nat /\ p \in Nat
      BY ONLY <1>2
    <3> QED BY ONLY <2>2, <2>3, <3>1
  <2> HIDE DEF whole, rest
  <2>5. whole >= n
    BY ONLY <2>4
  <2> QED BY ONLY <2>5 DEF whole
<1>6. ASSUME NEW r \in 0..(n - 1)
      PROVE  \E k \in 1..cycles : r \in sweeps[i][k]
  <2> DEFINE b == Back(c, n, r)
  <2>1. b \in 0..(n - 1)
    <3>1. n \in Nat \ {0} /\ c \in 0..(n - 1) /\ r \in 0..(n - 1)
      BY ONLY <1>2, r \in 0..(n - 1)
    <3> HIDE DEF n, c
    <3> QED BY ONLY <3>1 DEF Back
  <2> HIDE DEF b
  <2>2. PICK late \in Nat : b = late * p + (b % p) /\ (b % p) \in 0..(p - 1)
    <3>1. b \in Nat
      BY <2>1
    <3> HIDE DEF p
    <3> QED BY ONLY <1>2, <3>1, Divided
  <2>3. late * p \in Nat /\ late * p <= b /\ b < (late + 1) * p
    <3> HIDE DEF p
    <3>1. p \in Nat
      BY ONLY <1>2
    <3>2. late * p \in Nat
      BY ONLY <3>1, late \in Nat
    <3>3. (late + 1) * p = late * p + p
      BY ONLY <3>1, late \in Nat
    <3>4. b % p <= p - 1 /\ b % p >= 0 /\ b % p \in Int
      BY ONLY <2>2, <3>1
    <3> QED BY ONLY <2>2, <3>1, <3>2, <3>3, <3>4
  <2>4. late < cycles
    <3> HIDE DEF p, cycles, n
    <3> SUFFICES ASSUME late >= cycles PROVE FALSE
      BY <1>3
    <3>1. PICK e \in Nat : late = cycles + e
      <4>1. late - cycles \in Nat
        BY <1>3
      <4> QED BY <1>3, <4>1
    <3>2. late * p = cycles * p + e * p /\ e * p \in Nat /\ cycles * p \in Nat
      BY ONLY <1>2, <1>3, <3>1
    <3> QED BY ONLY <1>2, <1>5, <2>1, <2>3, <3>2
  <2>5. cycles - late \in 1..cycles
    BY ONLY <1>3, <2>4, late \in Nat
  <2>6. Met(Schedule[i], c, Len(sweeps[i]) - (cycles - late) + Visiting, r)
    <3>1. Visiting = 0
      BY DEF Visiting
    <3>2. Len(sweeps[i]) - (cycles - late) + Visiting = late
      <4>1. Len(sweeps[i]) = cycles
        OBVIOUS
      <4> HIDE DEF cycles
      <4> QED BY ONLY <1>3, <3>1, <4>1, late \in Nat
    <3> HIDE DEF cycles
    <3> QED BY ONLY <2>3, <3>2 DEF Met, b, c, n, p
  <2> QED BY ONLY <1>4, <2>5, <2>6, r \in 0..(n - 1)
<1> HIDE DEF cycles, n
<1>7. UNION ToSet(sweeps[i]) = 0..(n - 1)
  BY ONLY <1>3, <1>4, <1>6
<1> QED BY ONLY <1>7 DEF n

-----------------------------------------------------------------------------
(* Commits *)

\* What sequences hold has the type they say.
LEMMA SetOf ==
  ASSUME NEW T, NEW s \in Seq(T)
  PROVE  /\ IsSeq(s) /\ ToSet(s) \subseteq T /\ DOMAIN s = 1..Len(s) /\ Len(s) \in Nat
         /\ \A i \in 1..Len(s) : s[i] \in ToSet(s) /\ s[i] \in T
<1>1. DOMAIN s = 1..Len(s) /\ Len(s) \in Nat /\ \A i \in 1..Len(s) : s[i] \in T
  OBVIOUS
<1>2. ToSet(s) = {s[i] : i \in 1..Len(s)}
  BY <1>1 DEF ToSet
<1>3. s \in Seq(ToSet(s))
  BY ONLY <1>2, s \in Seq(T)
<1> QED BY ONLY <1>1, <1>2, <1>3 DEF IsSeq

\* What is in order.
InOrderTypes(reg, det, jobs, a) ==
  reg \in Seq(Seq(CoFinds)) /\ det \in Seq(CoFinds) /\ jobs \in Seq(CoJobs) /\ a \in Nat

\* All of it has a cycle it belongs to.
LEMMA CycleOf ==
  ASSUME NEW reg, NEW det, NEW jobs, NEW a, InOrderTypes(reg, det, jobs, a)
  PROVE  /\ \A i \in DOMAIN reg : \A d \in ToSet(reg[i]) : d.attempt \in Nat
         /\ \A d \in ToSet(det) : d.attempt \in Nat
         /\ \A j \in ToSet(jobs) : j.attempt \in Nat /\ j.ends \in BOOLEAN
<1>1. ASSUME NEW s \in Seq(CoFinds), NEW d \in ToSet(s) PROVE d.attempt \in Nat
  <2>1. d \in CoFinds
    BY SetOf
  <2> QED BY ONLY <2>1 DEF CoFinds
<1>2. \A i \in DOMAIN reg : reg[i] \in Seq(CoFinds)
  BY DEF InOrderTypes
<1>3. ASSUME NEW j \in ToSet(jobs) PROVE j.attempt \in Nat /\ j.ends \in BOOLEAN
  <2>1. jobs \in Seq(CoJobs)
    BY DEF InOrderTypes
  <2>2. j \in CoJobs
    BY <2>1, SetOf
  <2> QED BY ONLY <2>2 DEF CoJobs
<1> QED BY <1>1, <1>2, <1>3 DEF InOrderTypes

\* The next cycle begins.
LEMMA OrderNextCycle ==
  ASSUME NEW reg, NEW det, NEW jobs, NEW a, InOrderTypes(reg, det, jobs, a),
         NEW ahead, NEW now1, InOrder(reg, det, jobs, a, ahead)
  PROVE  InOrder(reg, det, jobs, a + 1, now1)
<1>0. \A k \in Nat : k <= a => k < a + 1 /\ k <= a + 1
  BY DEF InOrderTypes
<1>1. /\ \A i \in DOMAIN reg : \A d \in ToSet(reg[i]) : d.attempt \in Nat /\ d.attempt <= a
      /\ \A d \in ToSet(det) : d.attempt \in Nat /\ d.attempt <= a
      /\ \A j \in ToSet(jobs) : j.attempt \in Nat /\ j.attempt <= a
  BY CycleOf DEF InOrder
<1>2. /\ \A i \in DOMAIN reg : \A d \in ToSet(reg[i]) :
            d.attempt < a + 1 /\ d.attempt <= a + 1
      /\ \A d \in ToSet(det) : d.attempt <= a + 1
      /\ \A j \in ToSet(jobs) : j.attempt < a + 1 /\ j.attempt <= a + 1
  BY ONLY <1>0, <1>1
<1> QED BY <1>1, <1>2 DEF InOrder

\* There is less to come.
LEMMA OrderLess ==
  ASSUME NEW reg, NEW det, NEW jobs, NEW a, NEW ahead, NEW less, less => ahead,
         InOrder(reg, det, jobs, a, ahead)
  PROVE  InOrder(reg, det, jobs, a, less)
BY DEF InOrder

\* A job of this cycle goes into the lane.
LEMMA OrderAccept ==
  ASSUME NEW reg, NEW det, NEW jobs, NEW a, InOrderTypes(reg, det, jobs, a),
         InOrder(reg, det, jobs, a, TRUE), NEW job \in CoJobs, job.attempt = a,
         NEW ahead, job.ends => ~ahead
  PROVE  InOrder(reg, det, Append(jobs, job), a, ahead)
<1> DEFINE t == Append(jobs, job)
           n == Len(jobs)
<1>1. /\ n \in Nat /\ DOMAIN jobs = 1..n /\ DOMAIN t = 1..(n + 1) /\ t[n + 1] = job
      /\ \A i \in 1..n : t[i] = jobs[i] /\ jobs[i] \in ToSet(jobs)
  <2>1. jobs \in Seq(CoJobs)
    BY DEF InOrderTypes
  <2>2. \A i \in 1..Len(jobs) : jobs[i] \in ToSet(jobs)
    BY <2>1, SetOf
  <2> QED BY ONLY <2>1, <2>2, job \in CoJobs
<1>2. ToSet(t) = ToSet(jobs) \cup {job}
  <2>1. IsSeq(jobs)
    BY SetOf DEF InOrderTypes
  <2> QED BY <2>1, OneMore
<1> HIDE DEF t, n
<1>3. \A i \in DOMAIN reg : Before(ToSet(reg[i]), ToSet(t))
  BY <1>2 DEF InOrder, Before
<1>4. NotAfter(ToSet(det), ToSet(t))
  BY <1>2 DEF InOrder, NotAfter
<1>5. \A i, k \in DOMAIN t : i < k =>
        t[i].attempt <= t[k].attempt /\ (t[i].ends => t[i].attempt < t[k].attempt)
  <2> SUFFICES ASSUME NEW i \in DOMAIN t, NEW k \in DOMAIN t, i < k
               PROVE  t[i].attempt <= t[k].attempt /\ (t[i].ends => t[i].attempt < t[k].attempt)
    OBVIOUS
  <2>1. i \in 1..n /\ t[i] = jobs[i] /\ jobs[i] \in ToSet(jobs)
    BY ONLY <1>1, i \in DOMAIN t, k \in DOMAIN t, i < k
  <2>2. CASE k \in 1..n
    <3>1. t[k] = jobs[k] /\ i \in DOMAIN jobs /\ k \in DOMAIN jobs
      BY ONLY <1>1, <2>1, <2>2
    <3> QED BY <2>1, <3>1 DEF InOrder
  <2>3. CASE k = n + 1
    <3>1. jobs[i].attempt <= a /\ (jobs[i].ends => jobs[i].attempt < a)
      BY <2>1 DEF InOrder
    <3> QED BY ONLY <1>1, <2>1, <2>3, <3>1, job.attempt = a
  <2> QED BY ONLY <1>1, <2>2, <2>3, k \in DOMAIN t
<1>6. \A j \in ToSet(t) : j.attempt <= a /\ (ahead /\ j.ends => j.attempt < a)
  <2>1. a <= a
    BY DEF InOrderTypes
  <2> QED BY <1>2, <2>1 DEF InOrder
<1> QED BY <1>3, <1>4, <1>5, <1>6 DEF InOrder, t

\* The first job of a lane, and the others.
LEMMA FirstJob ==
  ASSUME NEW jobs \in Seq(CoJobs), jobs # <<>>
  PROVE  /\ Head(jobs) = jobs[1] /\ 1 \in DOMAIN jobs /\ Head(jobs) \in CoJobs
         /\ Tail(jobs) \in Seq(CoJobs)
         /\ ToSet(jobs) = ToSet(Tail(jobs)) \cup {Head(jobs)}
         /\ \A i \in DOMAIN Tail(jobs) : i + 1 \in DOMAIN jobs /\ Tail(jobs)[i] = jobs[i + 1]
         /\ \A e \in ToSet(Tail(jobs)) : \E k \in DOMAIN jobs : k > 1 /\ e = jobs[k]
<1> DEFINE t == Tail(jobs)
<1>1. /\ Len(jobs) \in Nat /\ Len(jobs) > 0 /\ t \in Seq(CoJobs) /\ Len(t) = Len(jobs) - 1
      /\ Head(jobs) = jobs[1] /\ jobs[1] \in CoJobs
      /\ DOMAIN jobs = 1..Len(jobs) /\ DOMAIN t = 1..Len(t)
      /\ \A i \in 1..Len(t) : t[i] = jobs[i + 1]
  OBVIOUS
<1>2. IsSeq(jobs)
  BY SetOf
<1>3. ToSet(jobs) = ToSet(t) \cup {Head(jobs)}
  BY <1>2, OneLess
<1> HIDE DEF t
<1>4. \A i \in DOMAIN t : i + 1 \in DOMAIN jobs /\ t[i] = jobs[i + 1] /\ i + 1 > 1
  BY ONLY <1>1
<1>5. \A e \in ToSet(t) : \E k \in DOMAIN jobs : k > 1 /\ e = jobs[k]
  <2>1. ToSet(t) = {t[i] : i \in DOMAIN t}
    BY DEF ToSet
  <2> QED BY ONLY <1>4, <2>1
<1>6. 1 \in DOMAIN jobs
  BY ONLY <1>1
<1> QED BY ONLY <1>1, <1>3, <1>4, <1>5, <1>6 DEF t

\* What is left in a lane without its first job is in order, and nothing of it was visited
\* in an earlier cycle than that, nor in the same one if that ends it.
LEMMA OrderTail ==
  ASSUME NEW reg, NEW det, NEW jobs, NEW a, InOrderTypes(reg, det, jobs, a),
         NEW ahead, InOrder(reg, det, jobs, a, ahead), jobs # <<>>
  PROVE  LET t == Tail(jobs)
             j == Head(jobs)
         IN  /\ t \in Seq(CoJobs) /\ ToSet(jobs) = ToSet(t) \cup {j} /\ j \in CoJobs
             /\ \A e \in ToSet(t) : j.attempt <= e.attempt /\ (j.ends => j.attempt < e.attempt)
             /\ \A i, k \in DOMAIN t : i < k =>
                  t[i].attempt <= t[k].attempt /\ (t[i].ends => t[i].attempt < t[k].attempt)
<1> DEFINE t == Tail(jobs)
           j == Head(jobs)
<1>1. jobs \in Seq(CoJobs)
  BY DEF InOrderTypes
<1>2. /\ j = jobs[1] /\ 1 \in DOMAIN jobs /\ j \in CoJobs /\ t \in Seq(CoJobs)
      /\ ToSet(jobs) = ToSet(t) \cup {j}
      /\ \A i \in DOMAIN t : i + 1 \in DOMAIN jobs /\ t[i] = jobs[i + 1]
      /\ \A e \in ToSet(t) : \E k \in DOMAIN jobs : k > 1 /\ e = jobs[k]
  BY ONLY <1>1, jobs # <<>>, FirstJob
<1>3. \A i, k \in DOMAIN jobs : i < k =>
        jobs[i].attempt <= jobs[k].attempt /\ (jobs[i].ends => jobs[i].attempt < jobs[k].attempt)
  BY DEF InOrder
<1> HIDE DEF t, j
<1>4. \A e \in ToSet(t) : j.attempt <= e.attempt /\ (j.ends => j.attempt < e.attempt)
  <2> SUFFICES ASSUME NEW e \in ToSet(t)
               PROVE  j.attempt <= e.attempt /\ (j.ends => j.attempt < e.attempt)
    OBVIOUS
  <2>1. PICK k \in DOMAIN jobs : k > 1 /\ e = jobs[k]
    BY ONLY <1>2, e \in ToSet(t)
  <2>2. 1 < k
    <3>1. k \in Nat
      BY ONLY <1>1, k \in DOMAIN jobs
    <3> QED BY ONLY <2>1, <3>1
  <2> QED BY ONLY <1>2, <1>3, <2>1, <2>2
<1>5. ASSUME NEW i \in DOMAIN t, NEW k \in DOMAIN t, i < k
      PROVE  t[i].attempt <= t[k].attempt /\ (t[i].ends => t[i].attempt < t[k].attempt)
  <2>1. i + 1 < k + 1
    <3>1. t \in Seq(CoJobs)
      BY ONLY <1>2
    <3>2. i \in Nat /\ k \in Nat
      BY ONLY <3>1, i \in DOMAIN t, k \in DOMAIN t
    <3> QED BY ONLY <3>2, <1>5
  <2> QED BY ONLY <1>2, <1>3, <1>5, <2>1
<1> QED BY ONLY <1>2, <1>4, <1>5 DEF t, j

\* The first job is done and its cycle not over.
LEMMA OrderAnalyse ==
  ASSUME NEW reg, NEW det, NEW jobs, NEW a, InOrderTypes(reg, det, jobs, a),
         NEW ahead, InOrder(reg, det, jobs, a, ahead), jobs # <<>>,
         NEW d \in CoFinds, d.attempt = Head(jobs).attempt
  PROVE  InOrder(reg, Append(det, d), Tail(jobs), a, ahead)
<1> DEFINE t == Tail(jobs)
           j == Head(jobs)
           det1 == Append(det, d)
<1>1. /\ t \in Seq(CoJobs) /\ ToSet(jobs) = ToSet(t) \cup {j}
      /\ \A e \in ToSet(t) : j.attempt <= e.attempt
      /\ \A i, k \in DOMAIN t : i < k =>
           t[i].attempt <= t[k].attempt /\ (t[i].ends => t[i].attempt < t[k].attempt)
  BY OrderTail
<1>2. ToSet(det1) = ToSet(det) \cup {d}
  <2>1. IsSeq(det)
    BY SetOf DEF InOrderTypes
  <2> QED BY <2>1, OneMore
<1>3. d.attempt = j.attempt
  OBVIOUS
<1> HIDE DEF t, j, det1
<1>4. ASSUME NEW i \in DOMAIN reg
      PROVE  Before(ToSet(reg[i]), ToSet(det1)) /\ Before(ToSet(reg[i]), ToSet(t))
  BY <1>1, <1>2, <1>3 DEF InOrder, Before
<1>5. NotAfter(ToSet(det1), ToSet(t)) /\ \A e \in ToSet(det1) : e.attempt <= a
  BY <1>1, <1>2, <1>3 DEF InOrder, NotAfter
<1>6. \A e \in ToSet(t) : e.attempt <= a /\ (ahead /\ e.ends => e.attempt < a)
  BY <1>1 DEF InOrder
<1>7. InOrder(reg, det1, t, a, ahead)
  BY <1>1, <1>4, <1>5, <1>6 DEF InOrder
<1> QED BY <1>7 DEF t, det1

\* The first job is done and ends its cycle: what was found is committed.
LEMMA OrderCommit ==
  ASSUME NEW reg, NEW det, NEW jobs, NEW a, InOrderTypes(reg, det, jobs, a),
         NEW ahead, InOrder(reg, det, jobs, a, ahead), jobs # <<>>, Head(jobs).ends,
         NEW d \in CoFinds, d.attempt = Head(jobs).attempt
  PROVE  InOrder(Append(reg, Append(det, d)), <<>>, Tail(jobs), a, ahead)
<1> DEFINE t == Tail(jobs)
           j == Head(jobs)
           det1 == Append(det, d)
           reg1 == Append(reg, det1)
           n == Len(reg)
<1>1. /\ t \in Seq(CoJobs) /\ ToSet(jobs) = ToSet(t) \cup {j} /\ j \in CoJobs
      /\ \A e \in ToSet(t) : j.attempt <= e.attempt /\ (j.ends => j.attempt < e.attempt)
      /\ \A i, k \in DOMAIN t : i < k =>
           t[i].attempt <= t[k].attempt /\ (t[i].ends => t[i].attempt < t[k].attempt)
  BY OrderTail
<1>2. ToSet(det1) = ToSet(det) \cup {d} /\ ToSet(<<>>) = {}
  <2>1. IsSeq(det)
    BY SetOf DEF InOrderTypes
  <2>2. ToSet(<<>>) = {}
    BY DEF ToSet
  <2> QED BY <2>1, <2>2, OneMore
<1>3. /\ n \in Nat /\ DOMAIN reg = 1..n /\ DOMAIN reg1 = 1..(n + 1) /\ reg1[n + 1] = det1
      /\ \A i \in 1..n : reg1[i] = reg[i]
  <2>1. reg \in Seq(Seq(CoFinds)) /\ det1 \in Seq(CoFinds)
    BY DEF InOrderTypes
  <2> HIDE DEF det1
  <2> QED BY ONLY <2>1
<1>4. d.attempt = j.attempt /\ j.ends
  OBVIOUS
<1> HIDE DEF t, j, det1, reg1, n
<1>5. /\ Before(ToSet(det1), ToSet(t))
      /\ \A e \in ToSet(det1) : e.attempt <= a /\ (ahead => e.attempt < a)
  <2> SUFFICES ASSUME NEW e \in ToSet(det1)
               PROVE  /\ \A f \in ToSet(t) : e.attempt < f.attempt
                      /\ e.attempt <= a /\ (ahead => e.attempt < a)
    BY DEF Before
  <2>1. /\ e.attempt \in Nat /\ j.attempt \in Nat /\ a \in Nat
        /\ \A f \in ToSet(t) : f.attempt \in Nat
    <3>1. \A f \in ToSet(jobs) : f.attempt \in Nat
      BY CycleOf
    <3>2. \A f \in ToSet(det) : f.attempt \in Nat
      BY CycleOf
    <3>3. d.attempt \in Nat
      BY ONLY <1>1, <1>4, <3>1
    <3> QED BY <1>1, <1>2, <3>1, <3>2, <3>3 DEF InOrderTypes
  <2>2. e.attempt <= j.attempt
    <3>1. \A f \in ToSet(det) : f.attempt <= j.attempt
      BY <1>1 DEF InOrder, NotAfter
    <3> QED BY ONLY <1>2, <1>4, <2>1, <3>1
  <2>3. j.attempt <= a /\ (ahead => j.attempt < a)
    BY <1>1, <1>4 DEF InOrder
  <2> QED BY ONLY <1>1, <1>4, <2>1, <2>2, <2>3
<1>6. ASSUME NEW i \in DOMAIN reg
      PROVE  /\ Before(ToSet(reg[i]), ToSet(det1)) /\ Before(ToSet(reg[i]), ToSet(t))
             /\ \A e \in ToSet(reg[i]) : e.attempt <= a /\ (ahead => e.attempt < a)
  BY <1>1, <1>2, <1>4 DEF InOrder, Before
<1>7. \A i, k \in DOMAIN reg1 : i < k => Before(ToSet(reg1[i]), ToSet(reg1[k]))
  <2> SUFFICES ASSUME NEW i \in DOMAIN reg1, NEW k \in DOMAIN reg1, i < k
               PROVE  Before(ToSet(reg1[i]), ToSet(reg1[k]))
    OBVIOUS
  <2>1. i \in DOMAIN reg /\ reg1[i] = reg[i]
    BY ONLY <1>3, i \in DOMAIN reg1, k \in DOMAIN reg1, i < k
  <2>2. CASE k \in DOMAIN reg
    <3>1. reg1[k] = reg[k]
      BY ONLY <1>3, <2>2
    <3> QED BY <2>1, <2>2, <3>1 DEF InOrder
  <2>3. CASE k = n + 1
    BY ONLY <1>3, <1>6, <2>1, <2>3
  <2> QED BY ONLY <1>3, <2>2, <2>3, k \in DOMAIN reg1
<1>8. ASSUME NEW i \in DOMAIN reg1
      PROVE  /\ Before(ToSet(reg1[i]), {}) /\ Before(ToSet(reg1[i]), ToSet(t))
             /\ \A e \in ToSet(reg1[i]) : e.attempt <= a /\ (ahead => e.attempt < a)
  <2>1. Before(ToSet(reg1[i]), {})
    BY DEF Before
  <2>2. (i \in DOMAIN reg /\ reg1[i] = reg[i]) \/ reg1[i] = det1
    BY ONLY <1>3, i \in DOMAIN reg1
  <2> QED BY ONLY <1>5, <1>6, <2>1, <2>2
<1>9. \A e \in ToSet(t) : e.attempt <= a /\ (ahead /\ e.ends => e.attempt < a)
  BY <1>1 DEF InOrder
<1>10. NotAfter({}, ToSet(t)) /\ \A e \in {} : e.attempt <= a
  BY DEF NotAfter
<1>11. InOrder(reg1, <<>>, t, a, ahead)
  BY ONLY <1>1, <1>2, <1>7, <1>8, <1>9, <1>10 DEF InOrder
<1> QED BY <1>11 DEF t, det1, reg1

\* What is not committed is given up.
LEMMA OrderForget ==
  ASSUME NEW reg, NEW det, NEW jobs, NEW a, NEW ahead, InOrder(reg, det, jobs, a, ahead)
  PROVE  InOrder(reg, <<>>, <<>>, a, ahead)
<1>1. ToSet(<<>>) = {} /\ DOMAIN <<>> = {}
  BY DEF ToSet
<1> QED BY <1>1 DEF InOrder, Before, NotAfter

\* The visits of a sequence, and of one with one more.
LEMMA VisitsAre ==
  ASSUME NEW T, \A d \in T : d.visit \in Nat, NEW s \in Seq(T)
  PROVE  /\ VisitsOf(s) \in Seq(Nat) /\ Len(VisitsOf(s)) = Len(s)
         /\ \A d \in T : VisitsOf(Append(s, d)) = Append(VisitsOf(s), d.visit)
<1>1. Len(s) \in Nat /\ DOMAIN s = 1..Len(s) /\ \A i \in 1..Len(s) : s[i] \in T
  OBVIOUS
<1>2. VisitsOf(s) \in Seq(Nat) /\ Len(VisitsOf(s)) = Len(s)
      /\ \A i \in 1..Len(s) : VisitsOf(s)[i] = s[i].visit
  <2>1. VisitsOf(s) = [i \in 1..Len(s) |-> s[i].visit]
    BY ONLY <1>1 DEF VisitsOf
  <2>2. \A i \in 1..Len(s) : s[i].visit \in Nat
    BY <1>1
  <2> QED BY ONLY <1>1, <2>1, <2>2
<1>3. ASSUME NEW d \in T PROVE VisitsOf(Append(s, d)) = Append(VisitsOf(s), d.visit)
  <2> DEFINE t == Append(s, d)
             n == Len(s)
             w == Append(VisitsOf(s), d.visit)
  <2>1. /\ t \in Seq(T) /\ DOMAIN t = 1..(n + 1) /\ Len(t) = n + 1 /\ t[n + 1] = d
        /\ \A i \in 1..n : t[i] = s[i]
    OBVIOUS
  <2>2. d.visit \in Nat
    OBVIOUS
  <2>3. /\ w \in Seq(Nat) /\ DOMAIN w = 1..(n + 1) /\ Len(w) = n + 1 /\ w[n + 1] = d.visit
        /\ \A i \in 1..n : w[i] = VisitsOf(s)[i]
    BY ONLY <1>1, <1>2, <2>2
  <2> HIDE DEF t, w
  <2>4. VisitsOf(t) = [i \in 1..(n + 1) |-> t[i].visit]
    BY ONLY <2>1 DEF VisitsOf
  <2>5. \A i \in 1..(n + 1) : t[i].visit = w[i]
    <3>1. \A i \in 1..(n + 1) : i \in 1..n \/ i = n + 1
      BY ONLY <1>1
    <3> QED BY ONLY <1>2, <2>1, <2>3, <3>1
  <2>6. w = [i \in 1..(n + 1) |-> w[i]]
    BY ONLY <2>3
  <2>7. VisitsOf(t) = w
    BY ONLY <2>4, <2>5, <2>6
  <2> QED BY ONLY <2>7 DEF t, w
<1> QED BY <1>2, <1>3

\* A part between two others may stand at the end of the first.
LEMMA Moves ==
  ASSUME NEW T, NEW x \in Seq(T), NEW y \in Seq(T), NEW e \in T
  PROVE  /\ Append(x, e) \o y = x \o (<<e>> \o y)
         /\ x \o Append(y, e) = Append(x \o y, e)
<1>1. /\ <<e>> \o y \in Seq(T) /\ Len(<<e>> \o y) = 1 + Len(y) /\ (<<e>> \o y)[1] = e
      /\ \A i \in 1..Len(y) : (<<e>> \o y)[1 + i] = y[i]
  OBVIOUS
<1>2. /\ Append(x, e) \in Seq(T) /\ Len(Append(x, e)) = Len(x) + 1 /\ Append(x, e)[Len(x) + 1] = e
      /\ \A i \in 1..Len(x) : Append(x, e)[i] = x[i]
  OBVIOUS
<1>3. Append(x, e) \o y = x \o (<<e>> \o y)
  OBVIOUS
<1>4. x \o Append(y, e) = Append(x \o y, e)
  OBVIOUS
<1> QED BY <1>3, <1>4

\* The first visit of a lane, and the others.
LEMMA FirstVisit ==
  ASSUME NEW jobs \in Seq(CoJobs), jobs # <<>>
  PROVE  VisitsOf(jobs) = <<Head(jobs).visit>> \o VisitsOf(Tail(jobs))
<1> DEFINE t == Tail(jobs)
           n == Len(jobs)
           v == VisitsOf(t)
           w == <<Head(jobs).visit>> \o v
<1>1. /\ n \in Nat /\ n > 0 /\ DOMAIN jobs = 1..n /\ t \in Seq(CoJobs) /\ Len(t) = n - 1
      /\ DOMAIN t = 1..(n - 1) /\ Head(jobs) = jobs[1]
      /\ \A i \in 1..(n - 1) : t[i] = jobs[i + 1]
  OBVIOUS
<1>2. \A i \in 1..n : jobs[i].visit \in Nat
  <2>1. \A i \in 1..n : jobs[i] \in CoJobs
    BY <1>1
  <2> QED BY ONLY <2>1 DEF CoJobs
<1> HIDE DEF t, n
<1>3. v = [i \in 1..(n - 1) |-> t[i].visit]
  BY ONLY <1>1 DEF VisitsOf
<1>4. \A i \in 1..(n - 1) : i + 1 \in 1..n
  BY ONLY <1>1
<1>5. v \in Seq(Nat) /\ Len(v) = n - 1 /\ \A i \in 1..(n - 1) : v[i] = jobs[i + 1].visit
  BY ONLY <1>1, <1>2, <1>3, <1>4
<1> HIDE DEF v
<1>6. Head(jobs).visit \in Nat /\ Head(jobs).visit = jobs[1].visit
  BY ONLY <1>1, <1>2
<1>7. /\ w \in Seq(Nat) /\ Len(w) = n /\ DOMAIN w = 1..n /\ w[1] = jobs[1].visit
      /\ \A i \in 1..(n - 1) : w[i + 1] = jobs[i + 1].visit
  BY ONLY <1>1, <1>5, <1>6
<1> HIDE DEF w
<1>8. \A i \in 1..n : w[i] = jobs[i].visit
  <2> SUFFICES ASSUME NEW i \in 1..n PROVE w[i] = jobs[i].visit
    OBVIOUS
  <2>1. CASE i = 1
    BY ONLY <1>7, <2>1
  <2>2. CASE i # 1
    <3>1. i - 1 \in 1..(n - 1) /\ (i - 1) + 1 = i
      BY ONLY <1>1, <2>2, i \in 1..n
    <3>2. w[(i - 1) + 1] = jobs[(i - 1) + 1].visit
      BY ONLY <1>7, <3>1
    <3> QED BY ONLY <3>1, <3>2
  <2> QED BY <2>1, <2>2
<1>9. w = [i \in 1..n |-> w[i]] /\ VisitsOf(jobs) = [i \in 1..n |-> jobs[i].visit]
  BY ONLY <1>1, <1>7 DEF VisitsOf
<1>10. VisitsOf(jobs) = w
  BY ONLY <1>8, <1>9
<1> QED BY <1>10 DEF w, v, t

\* Finds and jobs have visits.
LEMMA HaveVisits ==
  (\A d \in CoFinds : d.visit \in Nat) /\ (\A j \in CoJobs : j.visit \in Nat)
BY DEF CoFinds, CoJobs

CommitInv == LastOfSlot /\ CommitsTyped /\ InCycleOrder /\ AllAdmitted

\* What the parts say of the types.
LEMMA CommitTypes ==
  ASSUME CommitInv
  PROVE  /\ InOrderTypes(registry, coDetections, lanes["sub"], attempt)
         /\ registry \in Seq(Seq(CoFinds)) /\ coDetections \in Seq(CoFinds)
         /\ lanes["sub"] \in Seq(CoJobs) /\ attempt \in Nat
         /\ FlattenSeq(registry) \in Seq(CoFinds) /\ Finds \in Seq(CoFinds)
<1>1. /\ registry \in Seq(Seq(CoFinds)) /\ coDetections \in Seq(CoFinds)
      /\ lanes["sub"] \in Seq(CoJobs) /\ attempt \in Nat
  BY DEF CommitInv, CommitsTyped
<1>2. FlattenSeq(registry) \in Seq(CoFinds)
  <2>1. <<>> \in Seq(CoFinds)
    OBVIOUS
  <2> QED BY <1>1, <2>1, FlattenAppend
<1>3. Finds \in Seq(CoFinds)
  <2> DEFINE c == FlattenSeq(registry)
  <2> HIDE DEF c
  <2>1. c \o coDetections \in Seq(CoFinds)
    BY ONLY <1>1, <1>2 DEF c
  <2> QED BY <2>1 DEF Finds, c
<1> QED BY <1>1, <1>2, <1>3 DEF InOrderTypes

\* A step that leaves jobs, finds and commits alone.
LEMMA CommitQuiet ==
  ASSUME CommitInv, LastOfSlot', SubAhead' => SubAhead, coPc' = "off" => coPc = "off",
         UNCHANGED <<attempt, coDetections, registry, admitted>>, lanes'["sub"] = lanes["sub"]
  PROVE  CommitInv'
<1>1. CommitsTyped'
  BY DEF CommitInv, CommitsTyped
<1>2. InCycleOrder'
  <2>1. InOrder(registry, coDetections, lanes["sub"], attempt, SubAhead)
    BY DEF CommitInv, InCycleOrder
  <2>2. InOrder(registry, coDetections, lanes["sub"], attempt, SubAhead')
    BY ONLY <2>1, SubAhead' => SubAhead, OrderLess
  <2> QED BY <2>2 DEF InCycleOrder
<1>3. AllAdmitted'
  BY DEF CommitInv, AllAdmitted, Finds
<1> QED BY <1>1, <1>2, <1>3 DEF CommitInv

\* While plan and visit stay so does what is ahead.
LEMMA LastStays ==
  ASSUME LastOfSlot, UNCHANGED <<plan, current>>
  PROVE  LastOfSlot'
BY DEF LastOfSlot

\* A step outside the visits.
LEMMA CommitOutside ==
  ASSUME CommitInv, UNCHANGED <<plan, current, attempt, coDetections, registry, admitted, lanes>>,
         coPc' # "visit", coPc' = "off" => coPc = "off"
  PROVE  CommitInv'
<1>1. ~SubAhead'
  BY DEF SubAhead
<1>2. LastOfSlot'
  BY LastStays DEF CommitInv
<1> QED BY <1>1, <1>2, CommitQuiet

\* A step that leaves the run alone.
LEMMA CommitBeside ==
  ASSUME CommitInv, UNCHANGED run, UNCHANGED <<coDetections, registry, admitted>>,
         lanes'["sub"] = lanes["sub"]
  PROVE  CommitInv'
<1>1. UNCHANGED <<coPc, version, plan, attempt, current>>
  BY DEF run
<1>2. SubAhead' = SubAhead
  BY <1>1 DEF SubAhead, Ahead, Schedule
<1>3. LastOfSlot'
  BY <1>1, LastStays DEF CommitInv
<1> QED BY <1>1, <1>2, <1>3, CommitQuiet

\* A cycle is planned: nothing of it is found yet.
LEMMA CommitPlan ==
  ASSUME CommitInv, SlotsKnown, CycleTrue, version # 0, Plan
  PROVE  CommitInv'
<1>1. /\ coPc = "top" /\ coPc' = "visit" /\ attempt' = attempt + 1
      /\ UNCHANGED <<current, coDetections, registry, admitted, lanes>>
  BY DEF Plan, results
<1>2. current = <<>>
  BY <1>1 DEF CycleTrue
<1>3. LastOfSlot'
  <2>1. InPlan(plan', Len(Schedule))
    BY PlanIs
  <2> QED BY <1>1, <1>2, <2>1 DEF LastOfSlot, InPlan
<1>4. CommitsTyped'
  <2>1. attempt + 1 \in Nat
    BY CommitTypes
  <2> QED BY <1>1, <2>1 DEF CommitInv, CommitsTyped
<1>5. InCycleOrder'
  <2>1. InOrder(registry, coDetections, lanes["sub"], attempt, SubAhead)
    BY DEF CommitInv, InCycleOrder
  <2>2. InOrder(registry, coDetections, lanes["sub"], attempt + 1, SubAhead')
    BY <2>1, CommitTypes, OrderNextCycle
  <2> QED BY <1>1, <2>2 DEF InCycleOrder
<1>6. AllAdmitted'
  BY <1>1 DEF CommitInv, AllAdmitted, Finds
<1> QED BY <1>3, <1>4, <1>5, <1>6 DEF CommitInv

\* A cycle is over, or given up.
LEMMA CommitCycleOver ==
  ASSUME CommitInv, Abandon \/ CoEndCycle
  PROVE  CommitInv'
<1>1. /\ coPc' = "top" /\ plan' = <<>> /\ current' = <<>>
      /\ UNCHANGED <<attempt, coDetections, registry, admitted, lanes>>
  BY DEF Abandon, CoEndCycle, results
<1>2. LastOfSlot'
  <2>1. <<>> \in Seq(CoVisits) /\ DOMAIN <<>> = {}
    OBVIOUS
  <2> QED BY ONLY <1>1, <2>1 DEF LastOfSlot
<1>3. ~SubAhead'
  BY <1>1 DEF SubAhead
<1> QED BY <1>1, <1>2, <1>3, CommitQuiet

\* A visit begins.
LEMMA CommitBeginVisit ==
  ASSUME CommitInv, BeginVisit
  PROVE  CommitInv'
<1> DEFINE p == Head(plan)
           rest == Tail(plan)
<1>1. /\ coPc = "visit" /\ current = <<>> /\ plan # <<>> /\ plan' = rest
      /\ current' # <<>> /\ current'.slot = p.slot /\ current'.centre = p.centre
      /\ current'.last = p.last
      /\ UNCHANGED <<coPc, version, attempt, coDetections, registry, admitted, lanes>>
  BY DEF BeginVisit, results
<1>2. plan \in Seq(CoVisits)
      /\ \A a, b \in DOMAIN plan : a < b /\ plan[a].last => plan[b].slot # plan[a].slot
  BY DEF CommitInv, LastOfSlot
<1>3. /\ rest \in Seq(CoVisits) /\ p \in CoVisits /\ p = plan[1] /\ 1 \in DOMAIN plan
      /\ \A a \in DOMAIN rest : rest[a] = plan[a + 1] /\ a + 1 \in DOMAIN plan /\ a \in Nat /\ a > 0
  BY ONLY <1>1, <1>2
<1> HIDE DEF p, rest
<1>4. \A a, b \in DOMAIN rest : a < b /\ rest[a].last => rest[b].slot # rest[a].slot
  <2> SUFFICES ASSUME NEW a \in DOMAIN rest, NEW b \in DOMAIN rest, a < b, rest[a].last
               PROVE  rest[b].slot # rest[a].slot
    OBVIOUS
  <2>1. a + 1 < b + 1
    BY ONLY <1>3, a \in DOMAIN rest, b \in DOMAIN rest, a < b
  <2> QED BY ONLY <1>2, <1>3, <2>1, rest[a].last, a \in DOMAIN rest, b \in DOMAIN rest
<1>5. p.last => \A v \in ToSet(rest) : v.slot # p.slot
  <2> SUFFICES ASSUME p.last, NEW a \in DOMAIN rest PROVE rest[a].slot # p.slot
    BY DEF ToSet
  <2>1. 1 < a + 1
    BY ONLY <1>3, a \in DOMAIN rest
  <2> QED BY ONLY <1>2, <1>3, <2>1, p.last, a \in DOMAIN rest
<1>6. LastOfSlot'
  <2>1. p.last \in BOOLEAN
    BY ONLY <1>3 DEF CoVisits
  <2> QED BY ONLY <1>1, <1>3, <1>4, <1>5, <2>1 DEF LastOfSlot
<1>7. SubAhead' = SubAhead
  <2>1. ToSet(plan) = ToSet(rest) \cup {p}
    <3>1. IsSeq(plan)
      BY <1>2, SetOf
    <3> QED BY ONLY <1>1, <3>1, OneLess DEF p, rest
  <2>2. Ahead = {<<v.slot, v.centre>> : v \in ToSet(plan)}
    BY <1>1 DEF Ahead
  <2>3. Ahead' = {<<v.slot, v.centre>> : v \in ToSet(rest)} \cup {<<p.slot, p.centre>>}
    BY <1>1 DEF Ahead
  <2>4. Ahead' = Ahead
    BY ONLY <2>1, <2>2, <2>3
  <2> QED BY <1>1, <2>4 DEF SubAhead, Schedule
<1> QED BY <1>1, <1>6, <1>7, CommitQuiet

\* A visit ends.
LEMMA CommitEndVisit ==
  ASSUME CommitInv, CoInv, SlotsKnown, CycleTrue,
         NEW got \in {"empty", "some", "all"}, NEW here \in BOOLEAN, EndVisit(got, here)
  PROVE  CommitInv'
<1> DEFINE k == Schedule[current.slot].kind
           job == [visit |-> visits, attempt |-> attempt, ends |-> EndsCycle(current),
                   found |-> here, covers |-> current.covers /\ got # "empty"]
           wifiChannel == k = "wifi" /\ <<current.slot, current.centre>> \notin DroneOnly
           offered == got # "empty" \/ wifiChannel
           admits == offered /\ Room(k)
<1>1. /\ coPc = "visit" /\ current # <<>> /\ current' = <<>>
      /\ lanes' = IF admits THEN [lanes EXCEPT ![k] = Append(@, job)] ELSE lanes
      /\ admitted' = IF admits /\ k = "sub" THEN Append(admitted, visits) ELSE admitted
      /\ UNCHANGED <<coPc, version, plan, attempt, coDetections, registry>>
  BY DEF EndVisit, results
<1>2. /\ job.visit = visits /\ job.attempt = attempt /\ job.ends = current.last
      /\ job \in CoJobs
  <2>1. visits \in Nat /\ now \in Nat
    BY DEF CoInv, CoTyped, VisitsTrue
  <2>2. attempt \in Nat /\ current.last \in BOOLEAN
    BY <1>1 DEF CommitInv, CommitsTyped, LastOfSlot
  <2> QED BY <2>1, <2>2 DEF CoJobs, EndsCycle
<1>3. DOMAIN lanes = Kinds
  BY DEF CoInv, CoTyped
<1> HIDE DEF admits, job, k
<1>4. LastOfSlot'
  BY <1>1 DEF CommitInv, LastOfSlot
<1>5. Ahead' = {<<v.slot, v.centre>> : v \in ToSet(plan)}
      /\ Ahead = Ahead' \cup {<<current.slot, current.centre>>}
  BY <1>1 DEF Ahead
<1>6. Schedule' = Schedule
  BY <1>1 DEF Schedule
<1>7. SubAhead' => SubAhead
  BY <1>1, <1>5, <1>6 DEF SubAhead
<1>8. CASE ~(admits /\ k = "sub")
  <2>1. lanes'["sub"] = lanes["sub"] /\ admitted' = admitted
    BY ONLY <1>1, <1>3, <1>8
  <2> QED BY <1>1, <1>4, <1>7, <2>1, CommitQuiet
<1>9. CASE admits /\ k = "sub"
  <2>1. /\ lanes'["sub"] = Append(lanes["sub"], job)
        /\ admitted' = Append(admitted, visits)
    BY ONLY <1>1, <1>3, <1>9 DEF Kinds
  <2>2. SubAhead
    <3>1. /\ <<current.slot, current.centre>> \in Ahead
          /\ <<current.slot, current.centre>>[1] = current.slot
      BY <1>5
    <3>2. Schedule[current.slot].kind = "sub"
      BY <1>9 DEF k
    <3> QED BY <1>1, <3>1, <3>2 DEF SubAhead
  <2>3. job.ends => ~SubAhead'
    <3> SUFFICES ASSUME current.last, SubAhead' PROVE FALSE
      BY <1>2
    <3>1. PICK v \in ToSet(plan) : Schedule[v.slot].kind = "sub"
      BY <1>5, <1>6 DEF SubAhead
    <3>2. <<v.slot, v.centre>> \in Ahead /\ <<current.slot, current.centre>> \in Ahead
      BY <1>5
    <3>3. v.slot \in DOMAIN Schedule /\ current.slot \in DOMAIN Schedule
      BY <1>1, <3>2 DEF CycleTrue
    <3>4. v.slot = current.slot
      <4>1. version \in DOMAIN Schedules
        BY <1>1, InUse
      <4>2. Schedule[current.slot].kind = "sub"
        BY <1>9 DEF k
      <4> QED BY <3>1, <3>3, <4>1, <4>2, SlotIs DEF Schedule
    <3> QED BY <1>1, <3>4 DEF CommitInv, LastOfSlot
  <2>4. /\ lanes["sub"] \in Seq(CoJobs) /\ attempt \in Nat /\ Finds \in Seq(CoFinds)
        /\ InOrderTypes(registry, coDetections, lanes["sub"], attempt)
    BY CommitTypes
  <2>5. CommitsTyped'
    <3>1. Append(lanes["sub"], job) \in Seq(CoJobs)
      BY ONLY <1>2, <2>4
    <3>2. Append(admitted, visits) \in Seq(Nat)
      <4>1. admitted \in Seq(Nat) /\ visits \in Nat
        BY DEF CommitInv, CommitsTyped, CoInv, VisitsTrue
      <4> QED BY ONLY <4>1
    <3> QED BY <1>1, <2>1, <3>1, <3>2 DEF CommitInv, CommitsTyped
  <2>6. InCycleOrder'
    <3>1. InOrder(registry, coDetections, lanes["sub"], attempt, TRUE)
      BY <2>2 DEF CommitInv, InCycleOrder
    <3>2. InOrder(registry, coDetections, Append(lanes["sub"], job), attempt, SubAhead')
      BY ONLY <1>2, <2>3, <2>4, <3>1, OrderAccept
    <3> QED BY <1>1, <2>1, <3>2 DEF InCycleOrder
  <2>7. AllAdmitted'
    <3>1. VisitsOf(Append(lanes["sub"], job)) = Append(VisitsOf(lanes["sub"]), visits)
      BY ONLY <1>2, <2>4, HaveVisits, VisitsAre
    <3>2. VisitsOf(Finds) \in Seq(Nat) /\ VisitsOf(lanes["sub"]) \in Seq(Nat) /\ visits \in Nat
      <4>1. visits \in Nat
        BY DEF CoInv, VisitsTrue
      <4> QED BY ONLY <2>4, <4>1, HaveVisits, VisitsAre
    <3>3. VisitsOf(Finds) \o Append(VisitsOf(lanes["sub"]), visits)
            = Append(VisitsOf(Finds) \o VisitsOf(lanes["sub"]), visits)
      BY ONLY <3>2, Moves
    <3>4. Finds' = Finds
      BY <1>1 DEF Finds
    <3>5. VisitsOf(Finds) \o VisitsOf(lanes["sub"]) = admitted
      BY DEF CommitInv, AllAdmitted
    <3> QED BY ONLY <2>1, <3>1, <3>3, <3>4, <3>5 DEF AllAdmitted
  <2> QED BY <1>4, <2>5, <2>6, <2>7 DEF CommitInv
<1> QED BY <1>8, <1>9

\* The analysis of a sub-GHz visit.
LEMMA CommitRunJob ==
  ASSUME CommitInv, CoInv, RunSubGhzVisitJob
  PROVE  CommitInv'
<1> DEFINE jobs == lanes["sub"]
           j == Head(jobs)
           d == [visit |-> j.visit, attempt |-> j.attempt]
           all == Append(coDetections, d)
<1>1. /\ jobs # <<>> /\ lanes' = [lanes EXCEPT !["sub"] = Tail(@)]
      /\ registry' = IF j.ends THEN Append(registry, all) ELSE registry
      /\ coDetections' = IF j.ends THEN <<>> ELSE all
      /\ UNCHANGED <<coPc, version, plan, current, attempt, admitted>>
  BY DEF RunSubGhzVisitJob, run
<1>2. lanes'["sub"] = Tail(jobs)
  <2>1. DOMAIN lanes = Kinds
    BY DEF CoInv, CoTyped
  <2> QED BY ONLY <1>1, <2>1 DEF Kinds
<1>3. /\ jobs \in Seq(CoJobs) /\ attempt \in Nat /\ coDetections \in Seq(CoFinds)
      /\ registry \in Seq(Seq(CoFinds)) /\ FlattenSeq(registry) \in Seq(CoFinds)
      /\ Finds \in Seq(CoFinds)
      /\ InOrderTypes(registry, coDetections, jobs, attempt)
  BY CommitTypes
<1>4. Tail(jobs) \in Seq(CoJobs) /\ j \in CoJobs
  BY ONLY <1>1, <1>3, FirstJob
<1>5. d \in CoFinds /\ d.attempt = j.attempt /\ d.visit = j.visit /\ j.visit \in Nat
      /\ j.ends \in BOOLEAN
  BY <1>4 DEF CoJobs, CoFinds
<1> HIDE DEF d
<1>6. all \in Seq(CoFinds)
  BY ONLY <1>3, <1>5
<1> HIDE DEF j
<1>7. /\ InOrder(registry, coDetections, jobs, attempt, SubAhead)
      /\ SubAhead' = SubAhead /\ coPc # "off"
  <2>1. coPc # "off"
    BY <1>1 DEF CommitInv, CommitsTyped
  <2> QED BY <1>1, <2>1 DEF CommitInv, InCycleOrder, SubAhead, Ahead, Schedule
<1>8. LastOfSlot'
  BY <1>1, LastStays DEF CommitInv
<1>9. /\ registry' \in Seq(Seq(CoFinds)) /\ coDetections' \in Seq(CoFinds)
      /\ Finds' = Append(Finds, d)
      /\ InOrder(registry', coDetections', Tail(jobs), attempt, SubAhead)
  <2> DEFINE c == FlattenSeq(registry)
  <2>1. c \in Seq(CoFinds) /\ c \o all = Append(c \o coDetections, d)
    <3>1. c \in Seq(CoFinds)
      BY <1>3
    <3> HIDE DEF c
    <3>2. coDetections \in Seq(CoFinds) /\ d \in CoFinds
      BY ONLY <1>3, <1>5
    <3>3. c \o Append(coDetections, d) = Append(c \o coDetections, d)
      BY ONLY <3>1, <3>2, Moves
    <3> QED BY ONLY <3>1, <3>3
  <2>2. CASE j.ends
    <3>1. registry' = Append(registry, all) /\ coDetections' = <<>>
      BY ONLY <1>1, <2>2
    <3>2. FlattenSeq(Append(registry, all)) = c \o all
      <4> HIDE DEF all
      <4> QED BY ONLY <1>3, <1>6, FlattenAppend
    <3>3. Finds' = Append(Finds, d)
      <4>1. c \o all \in Seq(CoFinds)
        <5>1. c \in Seq(CoFinds)
          BY ONLY <2>1
        <5> HIDE DEF all, c
        <5> QED BY ONLY <1>6, <5>1
      <4>2. (c \o all) \o <<>> = c \o all
        <5> HIDE DEF all, c
        <5> QED BY ONLY <4>1
      <4>3. Finds' = FlattenSeq(registry') \o coDetections'
        BY DEF Finds
      <4>4. Finds = c \o coDetections
        BY DEF Finds
      <4> HIDE DEF c, all
      <4> QED BY ONLY <2>1, <3>1, <3>2, <4>2, <4>3, <4>4
    <3>4. Append(registry, all) \in Seq(Seq(CoFinds)) /\ <<>> \in Seq(CoFinds)
      <4> HIDE DEF all
      <4> QED BY ONLY <1>3, <1>6
    <3>5. InOrder(Append(registry, all), <<>>, Tail(jobs), attempt, SubAhead)
      BY ONLY <1>1, <1>3, <1>5, <1>7, <2>2, OrderCommit DEF j
    <3> QED BY ONLY <3>1, <3>3, <3>4, <3>5
  <2>3. CASE ~j.ends
    <3>1. registry' = registry /\ coDetections' = all
      BY ONLY <1>1, <2>3
    <3>2. Finds' = Append(Finds, d)
      BY ONLY <2>1, <3>1 DEF Finds
    <3>3. InOrder(registry, all, Tail(jobs), attempt, SubAhead)
      BY ONLY <1>1, <1>3, <1>5, <1>7, OrderAnalyse DEF j
    <3> QED BY ONLY <1>3, <1>6, <3>1, <3>2, <3>3
  <2> QED BY <2>2, <2>3
<1>10. CommitsTyped'
  BY <1>1, <1>2, <1>4, <1>7, <1>9 DEF CommitInv, CommitsTyped
<1>11. InCycleOrder'
  BY ONLY <1>1, <1>2, <1>7, <1>9 DEF InCycleOrder
<1>12. AllAdmitted'
  <2>1. VisitsOf(Append(Finds, d)) = Append(VisitsOf(Finds), j.visit)
        /\ VisitsOf(Finds) \in Seq(Nat)
    BY ONLY <1>3, <1>5, HaveVisits, VisitsAre
  <2>2. VisitsOf(jobs) = <<j.visit>> \o VisitsOf(Tail(jobs))
    BY ONLY <1>1, <1>3, FirstVisit DEF j
  <2>3. VisitsOf(Tail(jobs)) \in Seq(Nat)
    BY ONLY <1>4, HaveVisits, VisitsAre
  <2>4. Append(VisitsOf(Finds), j.visit) \o VisitsOf(Tail(jobs))
          = VisitsOf(Finds) \o (<<j.visit>> \o VisitsOf(Tail(jobs)))
    BY ONLY <1>5, <2>1, <2>3, Moves
  <2>5. VisitsOf(Finds) \o VisitsOf(jobs) = admitted
    BY DEF CommitInv, AllAdmitted
  <2> HIDE DEF jobs
  <2> QED BY ONLY <1>1, <1>2, <1>9, <2>1, <2>2, <2>4, <2>5 DEF AllAdmitted
<1> QED BY <1>8, <1>10, <1>11, <1>12 DEF CommitInv

\* The mode is left: what is not committed is given up.
LEMMA CommitLeave ==
  ASSUME CommitInv, CycleTrue, CoLeave
  PROVE  CommitInv'
<1> DEFINE c == FlattenSeq(registry)
           m == Len(coDetections)
<1>1. /\ coPc = "leaving" /\ lanes["sub"] = <<>> /\ coPc' = "off" /\ coDetections' = <<>>
      /\ admitted' = SubSeq(admitted, 1, Len(admitted) - m)
      /\ UNCHANGED <<version, plan, current, attempt, registry, lanes>>
  BY DEF CoLeave, Kinds
<1>2. LastOfSlot'
  BY <1>1, LastStays DEF CommitInv
<1>3. /\ c \in Seq(CoFinds) /\ coDetections \in Seq(CoFinds) /\ Finds = c \o coDetections
      /\ registry \in Seq(Seq(CoFinds)) /\ attempt \in Nat
  BY CommitTypes DEF Finds
<1> HIDE DEF c
<1>4. VisitsOf(Finds) = admitted
  <2>1. VisitsOf(Finds) \o VisitsOf(<<>>) = admitted
    BY <1>1 DEF CommitInv, AllAdmitted
  <2>2. VisitsOf(<<>>) = <<>>
    BY DEF VisitsOf
  <2>3. VisitsOf(Finds) \in Seq(Nat)
    BY CommitTypes, HaveVisits, VisitsAre
  <2>4. VisitsOf(Finds) \o <<>> = VisitsOf(Finds)
    BY ONLY <2>3
  <2> QED BY ONLY <2>1, <2>2, <2>4
<1>5. admitted' = VisitsOf(c)
  <2> DEFINE n == Len(c)
             f == Finds
  <2>1. /\ n \in Nat /\ m \in Nat /\ f \in Seq(CoFinds) /\ Len(f) = n + m /\ DOMAIN f = 1..(n + m)
        /\ DOMAIN c = 1..n /\ \A i \in 1..n : f[i] = c[i] /\ c[i] \in CoFinds
    BY ONLY <1>3
  <2> HIDE DEF n, m, f
  <2>2. VisitsOf(f) = [i \in 1..(n + m) |-> f[i].visit] /\ VisitsOf(c) = [i \in 1..n |-> c[i].visit]
    BY ONLY <2>1 DEF VisitsOf
  <2>3. VisitsOf(f) \in Seq(Nat) /\ Len(VisitsOf(f)) = n + m
    BY ONLY <2>1, HaveVisits, VisitsAre
  <2>4. SubSeq(VisitsOf(f), 1, n) = [i \in 1..n |-> VisitsOf(f)[i]]
    BY ONLY <2>1, <2>3
  <2>5. \A i \in 1..n : VisitsOf(f)[i] = c[i].visit
    <3>1. \A i \in 1..n : i \in 1..(n + m)
      BY ONLY <2>1
    <3> QED BY ONLY <2>1, <2>2, <3>1
  <2>6. SubSeq(VisitsOf(f), 1, n) = VisitsOf(c)
    BY ONLY <2>2, <2>4, <2>5
  <2>7. Len(admitted) - m = n
    BY ONLY <1>4, <2>1, <2>3 DEF f
  <2> QED BY ONLY <1>1, <1>4, <2>6, <2>7 DEF f
<1>6. c \o <<>> = c /\ VisitsOf(c) \in Seq(Nat)
  <2>1. c \o <<>> = c
    BY ONLY <1>3
  <2> QED BY <1>3, <2>1, HaveVisits, VisitsAre
<1>7. CommitsTyped'
  <2>1. <<>> \in Seq(CoFinds) /\ <<>> \in Seq(CoJobs)
    OBVIOUS
  <2> QED BY ONLY <1>1, <1>3, <1>5, <1>6, <2>1 DEF CommitsTyped
<1>8. InCycleOrder'
  <2>1. InOrder(registry, coDetections, lanes["sub"], attempt, SubAhead) /\ ~SubAhead /\ ~SubAhead'
    BY <1>1 DEF CommitInv, InCycleOrder, SubAhead
  <2>2. InOrder(registry, <<>>, <<>>, attempt, SubAhead)
    BY ONLY <2>1, OrderForget
  <2>3. InOrder(registry, <<>>, <<>>, attempt, SubAhead')
    BY ONLY <2>1, <2>2, OrderLess
  <2> QED BY ONLY <1>1, <2>3 DEF InCycleOrder
<1>9. AllAdmitted'
  <2>1. Finds' = c
    BY <1>1, <1>6 DEF Finds, c
  <2>2. VisitsOf(<<>>) = <<>>
    BY DEF VisitsOf
  <2>3. VisitsOf(c) \o <<>> = VisitsOf(c)
    BY ONLY <1>6
  <2> QED BY ONLY <1>1, <1>5, <2>1, <2>2, <2>3 DEF AllAdmitted
<1> QED BY <1>2, <1>7, <1>8, <1>9 DEF CommitInv

-----------------------------------------------------------------------------
(* Both *)

\* What the sweeps and the commits rest on, with what is known of the visits.
CyclesInv == CoInv /\ SweepInv /\ CommitInv

\* Nothing is swept, found or committed at the start.
LEMMA CyclesInit == CoInit => CyclesInv
<1> SUFFICES ASSUME CoInit PROVE CyclesInv
  OBVIOUS
<1>1. /\ coPc = "off" /\ version = 0 /\ cursors = <<>> /\ plan = <<>> /\ attempt = 0
      /\ current = <<>> /\ lanes["sub"] = <<>> /\ coDetections = <<>> /\ registry = <<>>
      /\ admitted = <<>> /\ sweeps = <<>>
  BY DEF CoInit, Kinds
<1>2. SweepInv
  <2>1. SlotsKnown
    BY <1>1 DEF SlotsKnown
  <2>2. SweepsTrue
    <3>1. DOMAIN sweeps = {}
      BY <1>1
    <3> QED BY <3>1 DEF SweepsTrue
  <2>3. CycleTrue
    BY <1>1 DEF CycleTrue
  <2> QED BY <2>1, <2>2, <2>3 DEF SweepInv
<1>3. ToSet(<<>>) = {} /\ DOMAIN <<>> = {}
  BY DEF ToSet
<1>4. LastOfSlot
  <2>1. <<>> \in Seq(CoVisits)
    OBVIOUS
  <2> QED BY <1>1, <1>3, <2>1 DEF LastOfSlot
<1>5. CommitsTyped
  <2>1. /\ <<>> \in Seq(CoFinds) /\ <<>> \in Seq(Seq(CoFinds)) /\ <<>> \in Seq(CoJobs)
        /\ <<>> \in Seq(Nat) /\ 0 \in Nat
    OBVIOUS
  <2> QED BY ONLY <1>1, <2>1 DEF CommitsTyped
<1>6. InCycleOrder
  <2>1. InOrder(<<>>, <<>>, <<>>, 0, SubAhead)
    BY ONLY <1>3 DEF InOrder, Before, NotAfter
  <2> QED BY <1>1, <2>1 DEF InCycleOrder
<1>7. AllAdmitted
  <2>1. VisitsOf(<<>>) = <<>>
    BY DEF VisitsOf
  <2>2. FlattenSeq(<<>>) = <<>>
    BY DEF FlattenSeq
  <2>3. Finds = <<>>
    <3>1. <<>> \o <<>> = <<>>
      OBVIOUS
    <3> QED BY <1>1, <2>2, <3>1 DEF Finds
  <2>4. <<>> \o <<>> = <<>>
    OBVIOUS
  <2> QED BY ONLY <1>1, <2>1, <2>3, <2>4 DEF AllAdmitted
<1> QED BY CoInvInit, <1>2, <1>4, <1>5, <1>6, <1>7 DEF CyclesInv, CommitInv

\* Every step keeps it.
LEMMA CyclesStep == CyclesInv /\ [CoNext]_coVars => CyclesInv'
<1> SUFFICES ASSUME CyclesInv, [CoNext]_coVars PROVE SweepInv' /\ CommitInv'
  BY CoInvStep DEF CyclesInv
<1>0. CoInv /\ SweepInv /\ CommitInv /\ SlotsKnown /\ CycleTrue /\ LastOfSlot
  BY DEF CyclesInv, SweepInv, CommitInv
<1>1. CASE SetMode \/ SetConflict \/ SetSchedule \/ Pause \/ UNCHANGED coVars
  <2>1. /\ UNCHANGED run
        /\ UNCHANGED <<coPc, version, cursors, plan, current, sweeps, gone>>
        /\ UNCHANGED <<coDetections, registry, admitted, lanes>>
    BY <1>1 DEF SetMode, SetConflict, SetSchedule, Pause, coVars, run, results
  <2> QED BY <1>0, <2>1, SweepQuiet, CommitBeside
<1>2. CASE Enter
  <2>1. /\ coPc = "off" /\ coPc' = "top" /\ coDetections' = <<>>
        /\ UNCHANGED <<plan, current, attempt, registry, admitted, lanes>>
    BY <1>2 DEF Enter
  <2>2. coDetections' = coDetections
    BY <1>0, <2>1 DEF CommitInv, CommitsTyped
  <2> QED BY <1>0, <1>2, <2>1, <2>2, SweepEnter, CommitOutside
<1>3. CASE Configure
  <2>1. /\ coPc = "top" /\ coPc' = "top"
        /\ UNCHANGED <<plan, current, attempt, coDetections, registry, admitted, lanes>>
    BY <1>3 DEF Configure, results
  <2> QED BY <1>0, <1>3, <2>1, SweepConfigure, CommitOutside
<1>4. CASE Plan
  <2>1. version # 0
    <3>1. version \in DOMAIN Schedules
      BY <1>0, <1>4 DEF Plan, CoInv, CoTyped
    <3>2. Schedules \in Seq(ToSet(Schedules))
      BY CoordinatedAssumption
    <3> QED BY ONLY <3>1, <3>2
  <2> QED BY <1>0, <1>4, <2>1, SweepPlan, CommitPlan
<1>5. CASE Abandon
  BY <1>0, <1>5, SweepAbandon, CommitCycleOver
<1>6. CASE BeginVisit
  BY <1>0, <1>6, SweepBeginVisit, CommitBeginVisit
<1>7. CASE CoEndCycle
  BY <1>0, <1>7, SweepEndCycle, CommitCycleOver
<1>8. CASE CoLeaveLoop
  <2>1. /\ coPc = "top" /\ coPc' = "leaving"
        /\ UNCHANGED <<version, cursors, plan, current, sweeps>>
        /\ UNCHANGED <<plan, current, attempt, coDetections, registry, admitted, lanes>>
    BY <1>8 DEF CoLeaveLoop, results
  <2> QED BY <1>0, <2>1, SweepQuiet, CommitOutside
<1>9. CASE CoLeave
  <2>1. /\ coPc = "leaving" /\ coPc' = "off"
        /\ UNCHANGED <<version, cursors, plan, current, sweeps>>
    BY <1>9 DEF CoLeave
  <2> QED BY <1>0, <1>9, <2>1, SweepQuiet, CommitLeave
<1>10. ASSUME NEW got \in {"empty", "some", "all"}, NEW here \in BOOLEAN, EndVisit(got, here)
       PROVE  SweepInv' /\ CommitInv'
  BY <1>0, <1>10, SweepEndVisit, CommitEndVisit
<1>11. ASSUME NEW fits \in BOOLEAN, RunWifiJob(fits) PROVE SweepInv' /\ CommitInv'
  <2>1. /\ UNCHANGED run
        /\ UNCHANGED <<coPc, version, cursors, plan, current, sweeps, gone>>
        /\ UNCHANGED <<coDetections, registry, admitted>>
        /\ lanes' = [lanes EXCEPT !["wifi"] = Tail(@)]
    BY <1>11 DEF RunWifiJob, run
  <2>2. lanes'["sub"] = lanes["sub"]
    BY <1>0, <2>1 DEF CoInv, CoTyped, Kinds
  <2> QED BY <1>0, <2>1, <2>2, SweepQuiet, CommitBeside
<1>12. CASE RunSubGhzVisitJob
  <2>1. UNCHANGED <<coPc, version, cursors, plan, current, sweeps, gone>>
    BY <1>12 DEF RunSubGhzVisitJob, run
  <2> QED BY <1>0, <1>12, <2>1, SweepQuiet, CommitRunJob
<1>13. CASE DetectorAnswers \/ DetectorFails
  <2>1. /\ UNCHANGED run
        /\ UNCHANGED <<coPc, version, cursors, plan, current, sweeps, gone>>
        /\ UNCHANGED <<coDetections, registry, admitted, lanes>>
    BY <1>13 DEF DetectorAnswers, DetectorFails, run
  <2> QED BY <1>0, <2>1, SweepQuiet, CommitBeside
<1> QED BY <1>1, <1>2, <1>3, <1>4, <1>5, <1>6, <1>7, <1>8, <1>9, <1>10, <1>11, <1>12,
           <1>13 DEF CoNext

\* What is committed is what was found, once and in order, no cycle in two commits.
LEMMA CommitsTrue == CommitInv => CommitsCountCycles
<1> SUFFICES ASSUME CommitInv PROVE CommitsCountCycles
  OBVIOUS
<1>1. VisitsOf(Finds) \o VisitsOf(lanes["sub"]) = admitted
  BY DEF CommitInv, AllAdmitted
<1>2. ASSUME NEW i \in DOMAIN registry, NEW k \in DOMAIN registry, i # k
      PROVE  {d.attempt : d \in ToSet(registry[i])}
               \cap {d.attempt : d \in ToSet(registry[k])} = {}
  <2>1. i \in Nat /\ k \in Nat
    <3>1. registry \in Seq(Seq(CoFinds))
      BY CommitTypes
    <3> QED BY ONLY <3>1, i \in DOMAIN registry, k \in DOMAIN registry
  <2>2. \A a, b \in DOMAIN registry : a < b =>
          \A d \in ToSet(registry[a]), e \in ToSet(registry[b]) : d.attempt < e.attempt
    BY DEF CommitInv, InCycleOrder, InOrder, Before
  <2>3. \A a \in DOMAIN registry : \A d \in ToSet(registry[a]) : d.attempt \in Nat
    BY CommitTypes, CycleOf
  <2>4. ASSUME NEW d \in ToSet(registry[i]), NEW e \in ToSet(registry[k])
        PROVE  d.attempt # e.attempt
    <3>1. d.attempt \in Nat /\ e.attempt \in Nat
      BY <2>3
    <3>2. i < k \/ k < i
      BY ONLY <2>1, i # k
    <3>3. d.attempt < e.attempt \/ e.attempt < d.attempt
      BY <2>2, <3>2
    <3> QED BY ONLY <3>1, <3>3
  <2> QED BY ONLY <2>4
<1> QED BY <1>1, <1>2 DEF CommitsCountCycles, VisitsOf, Finds

\* Whichever visits are empty or dropped for a full lane, whichever cycles are given up for a
\* conflict, another schedule or the end of the mode (Scanner::run_coordinated): a slot whose
\* cycles are not given up goes to each of its centres in as many cycles as estimate
\* announces, and what its sub-GHz visits find is committed once, in order, no cycle in two
\* commits.
THEOREM CyclesAddUpHolds == CoSpec => []CyclesAddUp
<1>1. CyclesInv => CyclesAddUp
  BY SweepsCover, CommitsTrue DEF CyclesInv, CyclesAddUp
<1> QED BY <1>1, CyclesInit, CyclesStep, PTL DEF CoSpec
=============================================================================
