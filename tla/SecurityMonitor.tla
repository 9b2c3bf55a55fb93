-------------------------- MODULE SecurityMonitor --------------------------
(***************************************************************************)
(* WifiSecurityMonitor (src/security/wifi_security_monitor.cpp) with the   *)
(* threads that feed it and the state its consumer owns.                   *)
(*                                                                         *)
(* Lanes process captures and submit, without ever waiting, one event per  *)
(* decoded frame and then the capture's record; the operator submits       *)
(* commands; a full queue drops and counts.  The consumer takes the whole  *)
(* queue together with the losses counted so far, ingests the items, then  *)
(* the loss notice, and publishes and saves from time to time.             *)
(*                                                                         *)
(* A push is one critical section, hence one action.  The byte limit of    *)
(* queue_admits is a refusal that may happen whenever something is queued. *)
(***************************************************************************)
EXTENDS BaselineStore

CONSTANTS
  Lane,           \* processing lanes
  QueueMaxItems,  \* queue_max_items
  CaptureReserve, \* capture_reserve: headroom for records and commands
  MaxFrames,      \* bound: frames decoded in one capture
  Budgets         \* bound: how many <<captures, commands, stops, crashes>> a
                  \* behaviour may have, lanes at work at once, and captures with frames

ASSUME MonitorAssumption ==
  /\ QueueMaxItems \in Nat \ {0}
  /\ {CaptureReserve, MaxFrames} \subseteq Nat
  /\ Budgets \subseteq [1..6 -> Nat]

VARIABLES
  running, stopping,  \* running_, stopping_
  queue,              \* queue_
  dropped,            \* events_dropped_, captures_dropped_
  pendingLoss,        \* pending_events_dropped_, pending_captures_dropped_
  worker,             \* the consumer thread: "off", "wait", "items", "wrap"
  batch, loss, finish,\* locals of one round of run()
  dirty,
  store, flood,       \* SecurityState: baselines_ and flood_
  reported,           \* SecurityState: queue_events_dropped, queue_captures_dropped
  published,          \* what snapshot() returns of `reported`
  disk,               \* the saved state: {} or {file}
  saveFailed,         \* persist_error_ of the last save
  scanning,           \* the scan thread and its lanes run
  lane,               \* per lane: {} or {the capture in hand}
  truth,              \* history: what each capture really held
  frozenCaptures,     \* history: captures ingested under an operator freeze
  air,                \* history: the last ReleaseQuiet things the rule was told
  commands, stops, crashes

monitorVars == <<running, stopping, queue, dropped, pendingLoss>>
consumerVars == <<worker, batch, loss, finish, dirty, store, flood, reported,
                  published, disk, saveFailed, frozenCaptures, air>>
envVars == <<scanning, lane, truth, commands, stops, crashes>>
vars == <<monitorVars, consumerVars, envVars>>

\* The counts stay within one of the budgets.
Within(counts) == \E b \in Budgets : \A k \in DOMAIN b : counts[k] <= b[k]
FramesSoFar == Cardinality({c \in DOMAIN truth : truth[c].decoded > 0})
LanesAtWork == Cardinality({l \in Lane : lane[l] # {}})

None == [events |-> 0, captures |-> 0]

Init ==
  /\ running = FALSE /\ stopping = FALSE
  /\ queue = <<>> /\ dropped = None /\ pendingLoss = None
  /\ worker = "off" /\ batch = <<>> /\ loss = None
  /\ finish = FALSE /\ dirty = FALSE
  /\ store = EmptyStore /\ flood = EmptyFlood
  /\ reported = None /\ published = None
  /\ disk = {} /\ saveFailed = FALSE
  /\ scanning = FALSE /\ lane = [l \in Lane |-> {}]
  /\ truth = <<>> /\ frozenCaptures = {} /\ air = <<>>
  /\ commands = 0 /\ stops = 0 /\ crashes = 0

-----------------------------------------------------------------------------
(* push(): admission, or a counted drop *)

\* Defect: records get no headroom, and a refused one is not counted.
PushUncounted(item, isCapture, fits) ==
  LET room == Len(queue) < QueueMaxItems /\ fits
  IN  IF running /\ ~stopping /\ room
      THEN /\ queue' = Append(queue, item)
           /\ UNCHANGED <<dropped, pendingLoss>>
      ELSE /\ dropped' = IF isCapture THEN [dropped EXCEPT !.captures = @ + 1]
                         ELSE [dropped EXCEPT !.events = @ + 1]
           /\ UNCHANGED <<queue, pendingLoss>>

\* queue_admits, the item count.
Admits(isCapture) ==
  Len(queue) < QueueMaxItems + (IF isCapture THEN CaptureReserve ELSE 0)
Accepts(isCapture, fits) == running /\ ~stopping /\ Admits(isCapture) /\ fits

Push(item, isCapture, fits) ==
  IF Accepts(isCapture, fits)
  THEN /\ queue' = Append(queue, item)
       /\ UNCHANGED <<dropped, pendingLoss>>
  ELSE LET k == IF isCapture THEN "captures" ELSE "events"
       IN  /\ dropped' = [dropped EXCEPT ![k] = @ + 1]
           /\ pendingLoss' = [pendingLoss EXCEPT ![k] = @ + 1]
           /\ UNCHANGED queue

\* An empty queue always has the bytes for one more item.
Fits == IF queue = <<>> THEN {TRUE} ELSE BOOLEAN

-----------------------------------------------------------------------------
(* The lanes and the operator *)

BeginCapture(l) ==
  /\ scanning /\ lane[l] = {}
  /\ Within(<<Len(truth) + 1, commands, stops, crashes, LanesAtWork + 1, FramesSoFar>>)
  /\ \E cand \in BOOLEAN :
       /\ truth' = Append(truth, [decoded |-> 0, candidate |-> cand])
       /\ lane' = [lane EXCEPT ![l] =
            {[cap |-> Len(truth) + 1, submitted |-> 0, rejected |-> 0,
              candidate |-> cand]}]
  /\ UNCHANGED <<monitorVars, consumerVars, scanning, commands, stops, crashes>>

SubmitFrame(l, fits) ==
  \E r \in lane[l] :
    /\ truth[r.cap].decoded < MaxFrames
    /\ Within(<<Len(truth), commands, stops, crashes, LanesAtWork, FramesSoFar + 1>>)
    /\ truth' = [truth EXCEPT ![r.cap].decoded = @ + 1]
    /\ Push([kind |-> "frame", cap |-> r.cap], FALSE, fits)
    /\ lane' = [lane EXCEPT ![l] =
         {IF Accepts(FALSE, fits) THEN [r EXCEPT !.submitted = @ + 1]
                                  ELSE [r EXCEPT !.rejected = @ + 1]}]
    /\ UNCHANGED <<running, stopping, consumerVars, scanning, commands, stops,
                   crashes>>

SubmitCapture(l, fits) ==
  \E r \in lane[l] :
    /\ Push([kind |-> "capture", rec |-> r], TRUE, fits)
    /\ lane' = [lane EXCEPT ![l] = {}]
    /\ UNCHANGED <<running, stopping, consumerVars, scanning, truth, commands,
                   stops, crashes>>

\* Commands come from the GUI thread, whether the scanner runs or not.
SubmitCommand(a, fits) ==
  /\ Within(<<Len(truth), commands + 1, stops, crashes, LanesAtWork, FramesSoFar>>)
  /\ commands' = commands + 1
  /\ Push([kind |-> "command", action |-> a], TRUE, fits)
  /\ UNCHANGED <<running, stopping, consumerVars, scanning, lane, truth, stops,
                 crashes>>

-----------------------------------------------------------------------------
\* The history of what the rule was told, ReleaseQuiet entries long.
Told(what) ==
  LET long == Append(air, what)
  IN  IF Len(long) > ReleaseQuiet THEN Tail(long) ELSE long

(* start() and stop(), as Scanner::start and Scanner::stop call them *)

Start ==
  /\ ~running
  /\ running' = TRUE /\ stopping' = FALSE
  /\ worker' = "wait"
  /\ scanning' = TRUE
  /\ IF disk = {} THEN UNCHANGED <<store, flood>>
     ELSE \E file \in disk : /\ store' = Import(store, file)
                             /\ flood' = FloodInterrupt(flood)
  /\ UNCHANGED <<queue, dropped, pendingLoss, batch, loss, finish, dirty,
                 reported, published, disk, saveFailed, frozenCaptures, lane,
                 truth, commands, stops, crashes>>
  /\ air' = IF disk = {} THEN air ELSE Told("restart")

\* The scan thread is joined first: its lanes have drained.
JoinScanThread ==
  /\ scanning /\ Within(<<Len(truth), commands, stops + 1, crashes, LanesAtWork, FramesSoFar>>)
  /\ \A l \in Lane : lane[l] = {}
  /\ scanning' = FALSE
  /\ stops' = stops + 1
  /\ UNCHANGED <<monitorVars, consumerVars, lane, truth, commands, crashes>>

StopCall ==
  /\ running /\ ~stopping /\ ~scanning
  /\ stopping' = TRUE
  /\ UNCHANGED <<running, queue, dropped, pendingLoss, consumerVars, envVars>>

StopReturn ==
  /\ running /\ stopping /\ worker = "off"
  /\ running' = FALSE
  /\ UNCHANGED <<stopping, queue, dropped, pendingLoss, consumerVars, envVars>>

\* A monitor as its constructor leaves it.
FreshMonitor ==
  /\ running' = FALSE /\ stopping' = FALSE
  /\ queue' = <<>> /\ dropped' = None /\ pendingLoss' = None
  /\ worker' = "off" /\ batch' = <<>> /\ loss' = None
  /\ finish' = FALSE /\ dirty' = FALSE
  /\ store' = EmptyStore /\ flood' = EmptyFlood
  /\ reported' = None /\ published' = None /\ saveFailed' = FALSE
  /\ air' = Told("restart")

\* Connect in the GUI makes a monitor anew (set_wifi_security_recording) before
\* it starts it; other callers of stop() and start() keep the one they have.
NewMonitor ==
  /\ ~running /\ ~scanning
  /\ FreshMonitor
  /\ UNCHANGED <<disk, frozenCaptures, envVars>>

\* The process dies: everything but the saved file is gone.
Crash ==
  /\ Within(<<Len(truth), commands, stops, crashes + 1, LanesAtWork, FramesSoFar>>)
  /\ crashes' = crashes + 1
  /\ FreshMonitor
  /\ scanning' = FALSE /\ lane' = [l \in Lane |-> {}]
  /\ UNCHANGED <<disk, truth, frozenCaptures, commands, stops>>

-----------------------------------------------------------------------------
(* The consumer: run() *)

\* Defect: the queue is taken, the losses are forgotten.
TakeForgetsLoss ==
  /\ worker = "wait"
  /\ batch' = queue /\ queue' = <<>>
  /\ loss' = None /\ pendingLoss' = None
  /\ finish' = stopping
  /\ worker' = "items"
  /\ UNCHANGED <<running, stopping, dropped, dirty, store, flood, reported,
                 published, disk, saveFailed, frozenCaptures, air, envVars>>

\* wait_for wakes on its predicate or on its timeout, so a round may always
\* begin; the queue and the pending loss are taken in one section.
Take ==
  /\ worker = "wait"
  /\ batch' = queue /\ queue' = <<>>
  /\ loss' = pendingLoss /\ pendingLoss' = None
  /\ finish' = stopping
  /\ worker' = "items"
  /\ UNCHANGED <<running, stopping, dropped, dirty, store, flood, reported,
                 published, disk, saveFailed, frozenCaptures, air, envVars>>

IngestFrame(item) ==
  /\ store' = NoteFrame(store, item.cap)
  /\ flood' = FloodNoteFrame(flood, item.cap)
  /\ UNCHANGED <<frozenCaptures, air>>

\* What the capture said of the air: quiet only if every frame decoded from it
\* got here and none was candidate activity.
AirOf(rec, timing) ==
  IF /\ ~truth[rec.cap].candidate /\ timing \in {"next", "gap"}
     /\ Counted(flood.pending, rec.cap) = truth[rec.cap].decoded
  THEN "quiet" ELSE "active"

NoteTruth(rec, timing) ==
  /\ frozenCaptures' = frozenCaptures \cup (IF store.frozen THEN {rec.cap} ELSE {})
  /\ air' = IF timing = "gap" THEN <<AirOf(rec, timing)>>
            ELSE Told(AirOf(rec, timing))

\* Defect: the window is fed before the rule has had its say.
IngestCaptureBaselineFirst(item, timing) ==
  LET fed == NoteCapture(store, item.rec, item.rec.rejected = 0)
  IN  /\ store' = FloodHold(flood, fed, item.rec, timing)
      /\ flood' = FloodFinish(flood, item.rec, timing)
      /\ NoteTruth(item.rec, timing)

\* The rule sees the capture first, then the window it falls in.
IngestCapture(item, timing) ==
  LET ruled == FloodHold(flood, store, item.rec, timing)
  IN  /\ store' = NoteCapture(ruled, item.rec,
                             FloodUsable(flood, item.rec, timing))
      /\ flood' = FloodFinish(flood, item.rec, timing)
      /\ NoteTruth(item.rec, timing)

IngestCommand(item) ==
  /\ store' = CASE item.action = "freeze" -> SetFrozen(store, TRUE)
                [] item.action = "unfreeze" -> SetFrozen(store, FALSE)
                [] item.action = "reset" -> Reset(store)
  /\ UNCHANGED <<flood, frozenCaptures, air>>

IngestNext(timing) ==
  /\ worker = "items" /\ batch # <<>>
  /\ LET item == Head(batch)
     IN  \/ item.kind = "frame" /\ IngestFrame(item)
         \/ item.kind = "capture" /\ IngestCapture(item, timing)
         \/ item.kind = "command" /\ IngestCommand(item)
  /\ batch' = Tail(batch)
  /\ dirty' = TRUE
  /\ UNCHANGED <<monitorVars, worker, loss, finish, reported, published, disk,
                 saveFailed, envVars>>

\* The loss notice comes after the items it was taken with.
IngestLoss ==
  /\ worker = "items" /\ batch = <<>>
  /\ worker' = "wrap"
  /\ IF loss = None THEN UNCHANGED <<store, flood, reported, dirty>>
     ELSE /\ store' = InvalidatePending(store)
          /\ flood' = FloodInterrupt(flood)
          /\ reported' = [k \in {"events", "captures"} |-> reported[k] + loss[k]]
          /\ dirty' = TRUE
  /\ loss' = None
  /\ air' = IF loss = None THEN air ELSE Told("loss")
  /\ UNCHANGED <<monitorVars, batch, finish, published, disk, saveFailed,
                 frozenCaptures, envVars>>

\* save_state: a new file replaces the old one, or the old one stays.
Save(ok) ==
  /\ disk' = IF ok THEN {Export(store)} ELSE disk
  /\ saveFailed' = ~ok

\* The end of a round that goes on: publish and save when their time has come.
Wrap(publishDue, persistDue, ok) ==
  /\ worker = "wrap" /\ ~finish
  /\ IF dirty /\ publishDue THEN published' = reported /\ dirty' = FALSE
     ELSE UNCHANGED <<published, dirty>>
  /\ IF persistDue THEN Save(ok) ELSE UNCHANGED <<disk, saveFailed>>
  /\ worker' = "wait"
  /\ UNCHANGED <<monitorVars, batch, loss, finish, store, flood, reported,
                 frozenCaptures, air, envVars>>

\* Defect: the loop stops on stopping_ as it is now, not as it was taken.
FinishOnStopping(ok) ==
  /\ worker = "wrap" /\ stopping
  /\ published' = reported /\ dirty' = FALSE
  /\ Save(ok)
  /\ worker' = "off"
  /\ UNCHANGED <<monitorVars, batch, loss, finish, store, flood, reported,
                 frozenCaptures, air, envVars>>

Finish(ok) ==
  /\ worker = "wrap" /\ finish
  /\ published' = reported /\ dirty' = FALSE
  /\ Save(ok)
  /\ worker' = "off"
  /\ UNCHANGED <<monitorVars, batch, loss, finish, store, flood, reported,
                 frozenCaptures, air, envVars>>

-----------------------------------------------------------------------------
Actions == {"freeze", "unfreeze", "reset"}

Feed ==
  \/ \E l \in Lane : BeginCapture(l)
  \/ \E l \in Lane, fits \in Fits : SubmitFrame(l, fits) \/ SubmitCapture(l, fits)
  \/ \E a \in Actions, fits \in Fits : SubmitCommand(a, fits)

Consume ==
  \/ Take
  \/ \E timing \in Timings : IngestNext(timing)
  \/ IngestLoss
  \/ \E p, s, ok \in BOOLEAN : Wrap(p, s, ok)
  \/ \E ok \in BOOLEAN : Finish(ok)

Next ==
  \/ Feed \/ Consume
  \/ Start \/ JoinScanThread \/ StopCall \/ StopReturn
  \/ NewMonitor \/ Crash

\* The consumer thread is scheduled and its publish interval passes; a stop
\* that was begun is carried through.
Fairness ==
  /\ WF_vars(Consume) /\ WF_vars(StopReturn)
  /\ SF_vars(\E s, ok \in BOOLEAN : Wrap(TRUE, s, ok))

Safety == Init /\ [][Next]_vars
Spec == Safety /\ Fairness

-----------------------------------------------------------------------------
(* Properties *)

CaptureRec == [cap : Nat, submitted : 0..MaxFrames,
               rejected : 0..MaxFrames, candidate : BOOLEAN]
Item == [kind : {"frame"}, cap : Nat]
          \cup [kind : {"capture"}, rec : CaptureRec]
          \cup [kind : {"command"}, action : Actions]

\* Every variable has its type, and the queue its two limits.
TypeOK ==
  /\ running \in BOOLEAN /\ stopping \in BOOLEAN
  /\ queue \in Seq(Item) /\ batch \in Seq(Item)
  /\ Len(queue) <= QueueMaxItems + CaptureReserve
  /\ {dropped, pendingLoss, loss, reported, published}
       \subseteq [events : Nat, captures : Nat]
  /\ worker \in {"off", "wait", "items", "wrap"}
  /\ finish \in BOOLEAN /\ dirty \in BOOLEAN /\ saveFailed \in BOOLEAN
  /\ scanning \in BOOLEAN
  /\ lane \in [Lane -> SUBSET CaptureRec]
  /\ truth \in Seq([decoded : 0..MaxFrames, candidate : BOOLEAN])
  /\ frozenCaptures \subseteq DOMAIN truth
  /\ air \in Seq({"quiet", "active", "loss", "restart"})
  /\ {commands, stops, crashes} \subseteq Nat

\* Every drop is accounted for, once: it is in a loss notice the state has
\* ingested, in the notice the consumer holds, or waiting to be taken.
DropsAccounted ==
  \A k \in {"events", "captures"} :
    dropped[k] = reported[k] + loss[k] + pendingLoss[k]

\* Only clean input is learned: a window the statistics use holds no capture
\* any of whose decoded frames was lost on the way, none with candidate flood
\* activity, and none taken while the operator had frozen learning - whatever
\* was dropped, in whatever order lanes interleaved, before or after a restart.
LearnedClean ==
  \A i \in DOMAIN store.windows :
    store.windows[i].excluded \/
      \A e \in store.windows[i].learned :
        /\ e.frames = truth[e.cap].decoded
        /\ ~truth[e.cap].candidate
        /\ e.cap \notin frozenCaptures

\* stop() drains everything already queued, publishes a final snapshot, and
\* saves: afterwards nothing is left between the queue, the state, the
\* snapshot and the file.
StopDrains ==
  (stopping /\ ~running) =>
    /\ worker = "off" /\ queue = <<>> /\ batch = <<>> /\ loss = None
    /\ published = reported /\ ~dirty
    /\ saveFailed \/ disk = {Export(store)}

\* While the monitor runs, a held baseline is released only by evidence of
\* quiet: ReleaseQuiet captures in a row, all of whose frames reached the rule,
\* with no loss, no scan gap and no reload of the saved state among them.
QuietReleases ==
  [][(running /\ running' /\ store.held /\ ~store'.held) =>
       air' = [i \in 1..ReleaseQuiet |-> "quiet"]]_vars

\* While the monitor runs, every drop resurfaces downstream as a loss notice in
\* the snapshot (a push after the last round, once stop() was called, does not).
DropsResurface ==
  \A k \in {"events", "captures"} : \A n \in 1..2 :
    (dropped[k] >= n) ~> (published[k] >= n \/ stopping \/ ~running)
=============================================================================
