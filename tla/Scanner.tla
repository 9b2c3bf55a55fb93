------------------------------ MODULE Scanner ------------------------------
(***************************************************************************)
(* The scan thread (Scanner::run in src/scanner.cpp) in its band modes,     *)
(* with the threads it feeds: the Wi-Fi processing lane, the task that     *)
(* decodes the LoRa capture before this one, and the operator who starts,  *)
(* stops, changes mode and asks for a capture to be saved.                 *)
(*                                                                         *)
(* The lane is the OrderedWorker that SerialLane implements.  A Wi-Fi      *)
(* capture is its security capture sequence number, a LoRa capture the     *)
(* number of the listen.  What is found in a capture is left out, and the   *)
(* coordinated mode, which has lanes of its own, is a phase (Coordinated). *)
(***************************************************************************)
EXTENDS Naturals, Sequences, FiniteSets, SequencesExt

CONSTANTS
  Steps,        \* [mode -> the number of steps in its plan]
  SubCaptures,  \* SUB_CAPTURES_PER_STEP
  Threshold,    \* kRxStallThreshold
  GivesUp,      \* whether all attempts to reconnect may fail
  Budgets       \* bound: sets of [steps, listens, modes, runs, saves]

ASSUME ScannerAssumption ==
  /\ SubCaptures \in Nat \ {0} /\ Threshold \in Nat \ {0} /\ GivesUp \in BOOLEAN
  /\ \A m \in DOMAIN Steps : Steps[m] \in Nat

VARIABLES
  active,      \* active_band_ (with wifi_fixed_channel_ or lora_lock_freq_)
  stopFlag,    \* stop_flag_
  operator,    \* "free", or "joining" inside stop()
  monitorOn,   \* the security monitor is started
  pc,          \* where the scan thread is
  requested,   \* the mode of this cycle
  band,        \* the band of this cycle
  nextFive,    \* next_wifi_5g
  step,        \* the step of the plan
  taken,       \* captures of this step
  held,        \* the capture just taken: it has samples
  empties, fulls,  \* the step's records, without and with samples
  count,       \* band_cycle_count
  laneOn,      \* wifi_lane has a value
  accepted, started, completed, phase,  \* the lane
  pipeline,    \* LoRa captures are processed while the next one is taken
  pending,     \* lora_pending: the capture being processed, or 0
  task,        \* what the processing has still to do
  detections,  \* LoRa captures whose detections are in `detections`
  committed,   \* LoRa captures committed to the sub-GHz registry, in order
  handle,      \* sdr_ is not null
  streak,      \* rx_fail_streak_
  saveDir, savePending, saving,  \* capture_save_directory_, capture_pending_
  published,   \* status_.cycle_count, and the captures that were taken by then
  submitted,   \* capture records in the order the security monitor got them
  inOrder,     \* history: the order they have without a lane
  spent        \* steps, listens, changes of mode, runs, saves

control == <<active, stopFlag, operator, monitorOn>>
cycle == <<requested, band, nextFive, count>>
stepVars == <<step, taken, held, empties, fulls>>
lane == <<accepted, started, completed, phase>>
lora == <<pipeline, pending, task, detections, committed>>
radio == <<handle, streak>>
save == <<saveDir, savePending, saving>>
records == <<submitted, inOrder>>
vars == <<control, pc, cycle, stepVars, laneOn, lane, lora, radio, save, published,
          records, spent>>

WiFiBand == {"2g4", "5g"}
Bands == WiFiBand \cup {"sub"}
Fixed == {"2g4_fixed", "5g_fixed"}
Mode == DOMAIN Steps

BandOf(m) ==
  CASE m = "2g4_fixed" -> "2g4" [] m = "5g_fixed" -> "5g" [] m = "locked" -> "sub" [] OTHER -> m

Jobs == [empties : Seq(Nat), fulls : Seq(Nat), marker : Nat, upTo : Nat]
Lane == INSTANCE OrderedWorker WITH Job <- Jobs

Outstanding == Len(accepted) - completed
LaneIdle == ~laneOn \/ Outstanding = 0

Spend(what) ==
  /\ spent' = [spent EXCEPT ![what] = @ + 1]
  /\ \E b \in Budgets : \A w \in DOMAIN b : spent'[w] <= b[w]

Init ==
  /\ active \in Mode /\ stopFlag = FALSE /\ operator = "free" /\ monitorOn = FALSE
  /\ pc = "off" /\ requested = "none" /\ band = "none" /\ nextFive = FALSE /\ count = 0
  /\ step = 0 /\ taken = 0 /\ held = FALSE /\ empties = <<>> /\ fulls = <<>>
  /\ laneOn = FALSE /\ accepted = <<>> /\ started = <<>> /\ completed = 0 /\ phase = "open"
  /\ pipeline \in BOOLEAN /\ pending = 0 /\ task = "none"
  /\ detections = <<>> /\ committed = <<>>
  /\ handle = FALSE /\ streak = 0
  /\ saveDir = FALSE /\ savePending = FALSE /\ saving = FALSE
  /\ published = [count |-> 0, upTo |-> 0] /\ submitted = <<>> /\ inOrder = <<>>
  /\ spent = [steps |-> 0, listens |-> 0, modes |-> 0, runs |-> 0, saves |-> 0]

-----------------------------------------------------------------------------
(* The operator *)

Start ==
  /\ operator = "free" /\ ~monitorOn /\ Spend("runs")
  /\ stopFlag' = FALSE /\ monitorOn' = TRUE /\ pc' = "connect"
  /\ UNCHANGED <<active, operator, cycle, stepVars, laneOn, lane, lora, radio, save,
                 published, records>>

SetActiveBand(m) ==
  /\ operator = "free" /\ m # active /\ Spend("modes")
  /\ active' = m
  /\ UNCHANGED <<stopFlag, operator, monitorOn, pc, cycle, stepVars, laneOn, lane, lora,
                 radio, save, published, records>>

RequestSave ==
  /\ operator = "free" /\ ~savePending /\ Spend("saves")
  /\ saveDir' = TRUE /\ savePending' = TRUE
  /\ UNCHANGED <<control, pc, cycle, stepVars, laneOn, lane, lora, radio, saving,
                 published, records>>

StopCall ==
  /\ operator = "free" /\ monitorOn
  /\ operator' = "joining" /\ stopFlag' = TRUE
  /\ UNCHANGED <<active, monitorOn, pc, cycle, stepVars, laneOn, lane, lora, radio, save,
                 published, records, spent>>

\* Defect: the directory is cleared and the request is not.
CancelHalf == saveDir' = FALSE /\ UNCHANGED <<savePending, saving>>

CancelSave == saveDir' = FALSE /\ savePending' = FALSE /\ UNCHANGED saving

\* The scan thread is joined before the security monitor is stopped.
StopReturn ==
  /\ operator = "joining" /\ pc = "off"
  /\ operator' = "free" /\ monitorOn' = FALSE
  /\ CancelSave
  /\ UNCHANGED <<active, stopFlag, pc, cycle, stepVars, laneOn, lane, lora, radio,
                 published, records, spent>>

-----------------------------------------------------------------------------
(* The scan thread: connecting, and the head of the loop *)

\* connect_sdr at the start; the lane is there if the rate fits its budget.
Connect ==
  /\ pc = "connect"
  /\ \/ /\ pc' = "top" /\ handle' = TRUE /\ laneOn' \in BOOLEAN
     \/ pc' = "off" /\ handle' = FALSE /\ laneOn' = FALSE
  /\ accepted' = <<>> /\ started' = <<>> /\ completed' = 0 /\ phase' = "open"
  /\ requested' = "none" /\ count' = 0 /\ nextFive' = FALSE
  /\ UNCHANGED <<control, band, stepVars, lora, streak, save, published, records, spent>>

\* A band cycle begins, on the next of the two bands if both are asked for.
BeginCycle ==
  /\ pc = "top" /\ ~stopFlag /\ active # "coordinated"
  /\ requested' = active
  /\ band' = IF active = "both" THEN IF nextFive THEN "5g" ELSE "2g4" ELSE BandOf(active)
  /\ nextFive' = (active = "both" /\ ~nextFive)
  /\ count' = IF requested # "none" /\ BandOf(active) = BandOf(requested) THEN count ELSE 0
  /\ step' = 1 /\ pc' = "settle"
  /\ UNCHANGED <<control, taken, held, empties, fulls, laneOn, lane, lora, radio, save,
                 published, records, spent>>

\* Defect: the capture being processed is not committed.
DrainDiscards ==
  /\ pending # 0 => task = "done"
  /\ pending' = 0 /\ task' = "none"
  /\ UNCHANGED <<pipeline, detections, committed>>

\* drain_lora: waits for the capture being processed, and commits it.
Drain ==
  /\ pending # 0 => task = "done"
  /\ pending' = 0 /\ task' = "none"
  /\ committed' = IF pending # 0 THEN Append(committed, pending) ELSE committed
  /\ UNCHANGED <<pipeline, detections>>

\* Defect: sub-GHz cycles begin at once.
LaneSettledNever == TRUE

\* Wi-Fi work is finished before any other cycle begins.
LaneSettled == band \in WiFiBand \/ LaneIdle

Settle ==
  /\ pc = "settle" /\ LaneSettled
  /\ IF band # "sub" THEN Drain ELSE UNCHANGED lora
  /\ pc' = "step"
  /\ UNCHANGED <<control, cycle, stepVars, laneOn, lane, radio, save, published, records,
                 spent>>

\* The coordinated mode runs with nothing else in the works.
BeginCoordinated ==
  /\ pc = "top" /\ ~stopFlag /\ active = "coordinated"
  /\ LaneIdle /\ Drain
  /\ pc' = "coordinated" /\ requested' = active /\ count' = 0
  /\ published' = [published EXCEPT !.count = 0]
  /\ UNCHANGED <<control, band, nextFive, stepVars, laneOn, lane, radio, save, records,
                 spent>>

LeaveCoordinated ==
  /\ pc = "coordinated" /\ (stopFlag \/ active # "coordinated")
  /\ pc' = "top"
  /\ UNCHANGED <<control, cycle, stepVars, laneOn, lane, lora, radio, save, published,
                 records, spent>>

-----------------------------------------------------------------------------
(* The steps of a cycle *)

LaneStep == laneOn /\ band \in WiFiBand

\* The band was changed, or the fixed channel (which the two-band mode ignores).
Abandoned ==
  \/ BandOf(active) # BandOf(requested)
  \/ requested # "both" /\ (active \in Fixed) # (requested \in Fixed)

BeginStep ==
  /\ pc = "step" /\ step <= Steps[requested] /\ ~stopFlag /\ ~Abandoned
  /\ Spend("steps")
  /\ taken' = 0 /\ empties' = <<>> /\ fulls' = <<>>
  /\ pc' = "capture"
  /\ UNCHANGED <<control, cycle, step, held, laneOn, lane, lora, radio, save, published,
                 records>>

\* A rate the lane's budget does not fit closes the lane for good.
Capture(got, fits) ==
  /\ pc = "capture" /\ handle
  /\ held' = got
  /\ IF LaneStep /\ ~fits THEN pc' = "close_lane" /\ Lane!Close
                          ELSE pc' = "record" /\ UNCHANGED lane
  /\ UNCHANGED <<control, cycle, step, taken, empties, fulls, laneOn, lora, radio, save,
                 published, records, spent>>

\* Defect: the lane is left to finish by itself.
LaneGoneAtOnce == TRUE

LaneGone == phase = "stopped"

\* The records kept for the lane are delivered once it has finished.
LaneClosed ==
  /\ pc = "close_lane" /\ LaneGone
  /\ laneOn' = FALSE
  /\ submitted' = submitted \o empties /\ empties' = <<>>
  /\ pc' = "record"
  /\ UNCHANGED <<control, cycle, step, taken, held, fulls, lane, lora, radio, save,
                 published, inOrder, spent>>

\* security_capture_seq_ of the capture just taken
Seqno == (spent.steps - 1) * SubCaptures + taken + 1

\* An empty capture is coverage too: it is submitted at once, or by the lane.
Record ==
  /\ pc = "record"
  /\ taken' = taken + 1
  /\ CASE band = "sub" ->
            /\ fulls' = IF held THEN Append(fulls, 0) ELSE fulls
            /\ UNCHANGED <<empties, submitted>>
       [] held /\ band # "sub" ->
            fulls' = Append(fulls, Seqno) /\ UNCHANGED <<empties, submitted>>
       [] ~held /\ LaneStep ->
            empties' = Append(empties, Seqno) /\ UNCHANGED <<fulls, submitted>>
       [] OTHER ->
            /\ submitted' = Append(submitted, Seqno)
            /\ UNCHANGED <<empties, fulls>>
  /\ inOrder' = inOrder \o
       (IF band # "sub" /\ ~held THEN <<Seqno>> ELSE <<>>) \o
       (IF band # "sub" /\ taken' = SubCaptures THEN fulls' ELSE <<>>)
  /\ IF taken' < SubCaptures
     THEN pc' = "capture" /\ UNCHANGED streak
     ELSE /\ pc' = "hand_over"
          /\ streak' = IF fulls' # <<>> THEN 0 ELSE streak + 1
  /\ UNCHANGED <<control, cycle, step, held, laneOn, lane, lora, handle, save,
                 published, spent>>

Job(e, f, m, u) == [empties |-> e, fulls |-> f, marker |-> m, upTo |-> u]

\* The step goes to the lane once the one before it is done, or is processed here.
HandOver ==
  /\ pc = "hand_over"
  /\ IF LaneStep
     THEN /\ Outstanding < 1 /\ Lane!Accept(Job(empties, fulls, 0, 0))
          /\ UNCHANGED submitted
     ELSE /\ submitted' = IF band = "sub" THEN submitted ELSE submitted \o fulls
          /\ UNCHANGED lane
  /\ step' = step + 1 /\ pc' = "step"
  /\ UNCHANGED <<control, cycle, taken, held, empties, fulls, laneOn, lora, radio, save,
                 published, inOrder, spent>>

EndSteps ==
  /\ pc = "step" /\ (step > Steps[requested] \/ stopFlag \/ Abandoned)
  /\ count' = count + 1
  /\ IF band = "sub" /\ ~stopFlag /\ BandOf(active) = "sub"
     THEN pc' = "listen" /\ Spend("listens")
     ELSE pc' = "commit" /\ UNCHANGED spent
  /\ UNCHANGED <<control, requested, band, nextFive, stepVars, laneOn, lane, lora, radio,
                 save, published, records>>

-----------------------------------------------------------------------------
(* The LoRa listen *)

Listen(got) ==
  /\ pc = "listen" /\ handle
  /\ streak' = IF got THEN 0 ELSE streak + 1
  /\ pc' = "process"
  /\ UNCHANGED <<control, cycle, stepVars, laneOn, lane, lora, handle, save, published,
                 records, spent>>

\* The capture before this one is collected, then this one's processing begins.
Process ==
  /\ pc = "process" /\ (pending # 0 => task = "done")
  /\ detections' = IF pending # 0 THEN Append(detections, pending) ELSE detections
  /\ pending' = spent.listens /\ task' = "take_request"
  /\ pc' = IF pipeline THEN "commit" ELSE "await"
  /\ UNCHANGED <<control, cycle, stepVars, laneOn, lane, pipeline, committed, radio, save,
                 published, records, spent>>

\* Without the pipeline the scan thread does the processing itself.
Await ==
  /\ pc = "await" /\ task = "done"
  /\ detections' = Append(detections, pending) /\ pending' = 0 /\ task' = "none"
  /\ pc' = "commit"
  /\ UNCHANGED <<control, cycle, stepVars, laneOn, lane, pipeline, committed, radio, save,
                 published, records, spent>>

\* process_lora takes the request to save, and later answers it.
TakeRequest ==
  /\ task = "take_request"
  /\ task' = "decode" /\ saving' = saveDir /\ saveDir' = FALSE
  /\ UNCHANGED <<control, pc, cycle, stepVars, laneOn, lane, pipeline, pending, detections,
                 committed, radio, savePending, published, records, spent>>

Decode ==
  /\ task = "decode"
  /\ task' = "done" /\ saving' = FALSE
  /\ savePending' = (savePending /\ ~saving)
  /\ UNCHANGED <<control, pc, cycle, stepVars, laneOn, lane, pipeline, pending, detections,
                 committed, radio, saveDir, published, records, spent>>

-----------------------------------------------------------------------------
(* The end of a cycle, and of the run *)

Commit ==
  /\ pc = "commit"
  /\ committed' = committed \o detections /\ detections' = <<>>
  /\ pc' = "publish"
  /\ UNCHANGED <<control, cycle, stepVars, laneOn, lane, pipeline, pending, task, radio,
                 save, published, records, spent>>

Taken == [count |-> count, upTo |-> Len(inOrder)]

\* Defect: the count is published by the scan thread.
PublishAtOnce == published' = Taken /\ UNCHANGED lane

\* The count of cycles follows the cycle's steps through the lane.
Publish ==
  IF LaneStep
  THEN /\ Outstanding < 2 /\ Lane!Accept(Job(<<>>, <<>>, count, Len(inOrder)))
       /\ UNCHANGED published
  ELSE published' = Taken /\ UNCHANGED lane

EndCycle ==
  /\ pc = "publish" /\ Publish
  /\ pc' = IF streak >= Threshold /\ ~stopFlag THEN "reconnect" ELSE "top"
  /\ UNCHANGED <<control, cycle, stepVars, laneOn, lora, radio, save, records, spent>>

\* connect_sdr: the device is given up before each attempt; once stop() is called
\* no further attempt is made.
Reconnect ==
  /\ pc = "reconnect" /\ pc' = "top"
  /\ \/ handle' = TRUE /\ streak' = 0
     \/ (GivesUp \/ stopFlag) /\ handle' = FALSE /\ UNCHANGED streak
  /\ UNCHANGED <<control, cycle, stepVars, laneOn, lane, lora, save, published, records,
                 spent>>

\* Defect: the lane is waited for but never told.
LeaveLoopOpen ==
  /\ pc = "top" /\ stopFlag /\ Drain
  /\ pc' = (IF laneOn THEN "closing" ELSE "leave") /\ UNCHANGED lane
  /\ UNCHANGED <<control, cycle, stepVars, laneOn, radio, save, published, records, spent>>

LeaveLoop ==
  /\ pc = "top" /\ stopFlag /\ Drain
  /\ IF laneOn THEN pc' = "closing" /\ Lane!Close ELSE pc' = "leave" /\ UNCHANGED lane
  /\ UNCHANGED <<control, cycle, stepVars, laneOn, radio, save, published, records, spent>>

Leave ==
  /\ \/ pc = "closing" /\ LaneGone
     \/ pc = "leave"
  /\ pc' = "off" /\ laneOn' = FALSE /\ handle' = FALSE
  /\ UNCHANGED <<control, cycle, stepVars, lane, lora, streak, save, published, records,
                 spent>>

-----------------------------------------------------------------------------
(* The lane's thread *)

LaneStart ==
  /\ Lane!Start
  /\ UNCHANGED <<control, pc, cycle, stepVars, laneOn, lora, radio, save, published,
                 records, spent>>

\* run_wifi_lane_job: empty captures, then those with samples; or the marker.
RunWifiLaneJob ==
  LET j == started[Len(started)]
  IN  /\ Lane!Complete
      /\ submitted' = submitted \o j.empties \o j.fulls
      /\ published' = IF j.marker = 0 THEN published
                      ELSE [count |-> j.marker, upTo |-> j.upTo]
      /\ UNCHANGED <<control, pc, cycle, stepVars, laneOn, lora, radio, save, inOrder, spent>>

LaneStop ==
  /\ Lane!Stop
  /\ UNCHANGED <<control, pc, cycle, stepVars, laneOn, lora, radio, save, published,
                 records, spent>>

-----------------------------------------------------------------------------
ScanThread ==
  \/ Connect \/ BeginCycle \/ Settle \/ BeginCoordinated \/ LeaveCoordinated
  \/ BeginStep \/ LaneClosed \/ Record \/ HandOver \/ EndSteps
  \/ Process \/ Await \/ Commit \/ EndCycle \/ Reconnect \/ LeaveLoop \/ Leave
  \/ \E got, fits \in BOOLEAN : Capture(got, fits)
  \/ \E got \in BOOLEAN : Listen(got)

LoraTask == TakeRequest \/ Decode
LaneThread == LaneStart \/ RunWifiLaneJob \/ LaneStop
Operator == Start \/ StopCall \/ StopReturn \/ RequestSave \/ \E m \in Mode : SetActiveBand(m)

Next == ScanThread \/ LoraTask \/ LaneThread \/ Operator

\* Every thread is scheduled, and stop() goes on once the scan thread has ended.
Fairness == WF_vars(ScanThread) /\ WF_vars(LoraTask) /\ WF_vars(LaneThread) /\ WF_vars(StopReturn)
Spec == Init /\ [][Next]_vars /\ Fairness

-----------------------------------------------------------------------------
(* What should hold *)

\* The lane changes nothing the security monitor can see: it gets the records it
\* would get from the scan thread alone, in that order, also when the lane is
\* closed in the middle of a step, and all of them before it is stopped.
AsWithoutLane ==
  /\ IsPrefix(submitted, inOrder)
  /\ ~monitorOn => submitted = inOrder

\* LoRa decoding and sub-GHz scanning never run while Wi-Fi steps are processed,
\* nor the coordinated mode while either is.
NeverTogether ==
  /\ (pending # 0 \/ pc = "coordinated") => LaneIdle
  /\ band = "sub" /\ pc \notin {"off", "connect", "top", "settle"} => LaneIdle
  /\ pc = "coordinated" => pending = 0

\* Every LoRa capture is committed once, in the order they were taken, whatever
\* the mode changes to in between, and before stop() returns.
LoraInOrder ==
  LET known == committed \o detections \o (IF pending = 0 THEN <<>> ELSE <<pending>>)
      taking == IF pc \in {"listen", "process"} THEN 1 ELSE 0
  IN  /\ known = [k \in 1..(spent.listens - taking) |-> k]
      /\ ~monitorOn => Len(committed) = spent.listens

\* A cycle that is counted has been processed: everything captured up to its end
\* has reached the security monitor when its count is shown.
CountMeansProcessed == Len(submitted) >= published.upTo

\* The lane and the LoRa task change when results appear, and nothing else: what
\* the monitor gets, what is committed and what a count stands for is in order.
ResultsInOrder == AsWithoutLane /\ LoraInOrder /\ CountMeansProcessed

\* A request to save a capture never hangs: while it is pending the directory is
\* still to be taken, or the processing that took it is under way.
SaveServed == savePending => saveDir \/ saving

\* A device is there when a capture is asked of it.
HandleHeld == pc \in {"capture", "listen", "coordinated"} => handle

\* stop() returns: the lane, the LoRa task and the scan thread all come to an end.
StopReturns == operator = "joining" ~> operator = "free"
=============================================================================
