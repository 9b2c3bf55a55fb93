---------------------------- MODULE ShadowWorker ----------------------------
(***************************************************************************)
(* The cyclostationary shadow worker (src/cyclostationary/shadow_worker.cpp)*)
(* with the supervisor's side of its child process (process_client.cpp).   *)
(*                                                                         *)
(* Three threads: the scan side takes captures and offers them without     *)
(* ever waiting; the operator switches the worker on and off and changes   *)
(* band or channel, which invalidates what is under way; the worker takes  *)
(* the oldest slot, has the child analyse it and publishes the result.     *)
(* The child may answer, reject, hang, die or answer nonsense at any       *)
(* request.  Samples, tiles and measurements are left out.                 *)
(*                                                                         *)
(* Names begin with sw: the module is composed with others by EXTENDS.     *)
(***************************************************************************)
EXTENDS Naturals, Sequences, FiniteSets

CONSTANTS
  Slots, NoSlot, \* the slots (slot_count of them), and none
  RestartLimit,  \* WorkerOptions::restart_limit
  Recycle,       \* requests after which a child is replaced
  MaxTaken, MaxChanges, MaxToggles, MaxWakes  \* bounds: captures, changes,
                 \* switching on or off, wake-ups nobody asked for

ASSUME ShadowAssumption ==
  /\ IsFiniteSet(Slots) /\ NoSlot \notin Slots /\ RestartLimit \in Nat /\ Recycle \in Nat \ {0}
  /\ {MaxTaken, MaxChanges, MaxToggles, MaxWakes} \subseteq Nat

VARIABLES
  swEnabled, swStopping, swEpoch,  \* enabled_, stopping_, epoch_
  slots,      \* slots_: state, sequence, epoch (and begun, see swCapture)
  latest,     \* latest_, or NoResult
  swStats,    \* submitted_, measured_, discarded_
  swWorker,   \* where the worker thread is
  job,        \* next: the slot it works on
  outcome,    \* what its analysis came to
  client,     \* ProcessClient and the counters of run()
  pipe,       \* requests the child has not answered, in order
  swUi,       \* where set_enabled is
  swCapture,  \* the capture being taken: the epoch read before it began
  swChanges,  \* history: changes of band or channel, and switching off
  swLate,     \* history: captures refused for their epoch
  misbehaved, \* history: faults of the children of this worker thread
  swSpent     \* captures, changes, toggles, wake-ups

swShared == <<swEnabled, swStopping, swEpoch, slots, latest, swStats>>
swVars == <<swShared, swWorker, job, outcome, client, pipe, swUi, swCapture,
            swChanges, swLate, misbehaved, swSpent>>

NoResult == [seq |-> 0, epoch |-> 0, begun |-> 0]
FreeSlot == [state |-> "free", seq |-> 0, epoch |-> 0, begun |-> 0]
NoClient == [running |-> FALSE, requests |-> 0, faults |-> 0]
NoCapture == [at |-> "none", epoch |-> 0, begun |-> 0]

SwInit ==
  /\ swEnabled = FALSE /\ swStopping = FALSE /\ swEpoch = 0
  /\ slots = [s \in Slots |-> FreeSlot]
  /\ latest = NoResult
  /\ swStats = [submitted |-> 0, measured |-> 0, discarded |-> 0]
  /\ swWorker = "none" /\ job = NoSlot /\ outcome = "none"
  /\ client = NoClient /\ pipe = <<>>
  /\ swUi = "free" /\ swCapture = NoCapture
  /\ swChanges = 0 /\ swLate = 0 /\ misbehaved = 0
  /\ swSpent = [taken |-> 0, changes |-> 0, toggles |-> 0, wakes |-> 0]

-----------------------------------------------------------------------------
\* queue_mutex_ is free.  Only between the two halves of the worker's first wait
\* is it held across a step (sections are otherwise single steps).
MutexFree == swWorker # "blocking"

In(state) == {s \in Slots : slots[s].state = state}

\* wake_.notify_one / notify_all: the worker is the only thread that waits.
Woken ==
  CASE swWorker = "asleep_boot" -> "boot"
    [] swWorker = "asleep" -> "wait"
    [] OTHER -> swWorker

SwSpend(what, limit) ==
  /\ swSpent[what] < limit
  /\ swSpent' = [swSpent EXCEPT ![what] = @ + 1]

\* Every queued slot is freed and counted, and nothing is shown any more.
FreeQueued(stats) ==
  /\ slots' = [s \in Slots |-> IF slots[s].state = "queued" THEN FreeSlot ELSE slots[s]]
  /\ swStats' = [stats EXCEPT !.discarded = @ + Cardinality(In("queued"))]
  /\ latest' = NoResult

-----------------------------------------------------------------------------
(* The scan side *)

\* The epoch is read before the capture begins.
CaptureEpoch ==
  /\ swCapture.at = "none"
  /\ SwSpend("taken", MaxTaken)
  /\ swCapture' = [at |-> "read", epoch |-> IF swEnabled THEN swEpoch ELSE 0, begun |-> 0]
  /\ UNCHANGED <<swShared, swWorker, job, outcome, client, pipe, swUi, swChanges,
                 swLate, misbehaved>>

CaptureBegin ==
  /\ swCapture.at = "read"
  /\ swCapture' = [swCapture EXCEPT !.at = "taken", !.begun = swChanges]
  /\ UNCHANGED <<swShared, swWorker, job, outcome, client, pipe, swUi, swChanges,
                 swLate, misbehaved, swSpent>>

\* try_submit returns false: switched off, an invalid capture, the mutex taken
\* by someone else, or no slot free.  Nothing is queued.
SubmitRefused ==
  /\ swCapture.at = "taken"
  /\ swCapture' = NoCapture
  /\ UNCHANGED <<swShared, swWorker, job, outcome, client, pipe, swUi, swChanges,
                 swLate, misbehaved, swSpent>>

SubmitLate ==
  /\ swCapture.at = "taken" /\ MutexFree
  /\ swEnabled /\ ~swStopping
  /\ swCapture.epoch # swEpoch
  /\ swStats' = [swStats EXCEPT !.discarded = @ + 1]
  /\ swLate' = swLate + 1
  /\ swCapture' = NoCapture
  /\ UNCHANGED <<swEnabled, swStopping, swEpoch, slots, latest, swWorker, job,
                 outcome, client, pipe, swUi, swChanges, misbehaved, swSpent>>

TrySubmit ==
  /\ swCapture.at = "taken" /\ MutexFree
  /\ swEnabled /\ ~swStopping
  /\ swCapture.epoch = swEpoch
  /\ \E s \in In("free") :
       slots' = [slots EXCEPT ![s] =
         [state |-> "queued", seq |-> swStats.submitted + 1, epoch |-> swEpoch,
          begun |-> swCapture.begun]]
  /\ swStats' = [swStats EXCEPT !.submitted = @ + 1]
  /\ swCapture' = [swCapture EXCEPT !.at = "signal"]
  /\ UNCHANGED <<swEnabled, swStopping, swEpoch, latest, swWorker, job, outcome,
                 client, pipe, swUi, swChanges, swLate, misbehaved, swSpent>>

\* Defect: a capture is queued and nobody is told.
SubmitWithoutSignal ==
  /\ swCapture.at = "signal"
  /\ swCapture' = NoCapture
  /\ UNCHANGED <<swShared, swWorker, job, outcome, client, pipe, swUi, swChanges,
                 swLate, misbehaved, swSpent>>

SubmitSignal ==
  /\ swCapture.at = "signal"
  /\ swWorker' = Woken
  /\ swCapture' = NoCapture
  /\ UNCHANGED <<swShared, job, outcome, client, pipe, swUi, swChanges, swLate,
                 misbehaved, swSpent>>

-----------------------------------------------------------------------------
(* The operator: invalidate() and set_enabled(), one call at a time *)

Invalidate ==
  /\ swUi = "free" /\ MutexFree
  /\ SwSpend("changes", MaxChanges)
  /\ swEpoch' = swEpoch + 1
  /\ FreeQueued(swStats)
  /\ swChanges' = swChanges + 1
  /\ UNCHANGED <<swEnabled, swStopping, swWorker, job, outcome, client, pipe, swUi,
                 swCapture, swLate, misbehaved>>

DisableCall ==
  /\ swUi = "free"
  /\ SwSpend("toggles", MaxToggles)
  /\ swEnabled' = FALSE
  /\ swUi' = "disable"
  /\ UNCHANGED <<swStopping, swEpoch, slots, latest, swStats, swWorker, job, outcome,
                 client, pipe, swCapture, swChanges, swLate, misbehaved>>

\* The section of the disabling call, and the notification after it.
DisableLocked ==
  /\ swUi = "disable" /\ MutexFree
  /\ swStopping' = TRUE /\ swEpoch' = swEpoch + 1
  /\ FreeQueued(swStats)
  /\ swWorker' = Woken
  /\ swChanges' = swChanges + 1
  /\ swUi' = "disable_join"
  /\ UNCHANGED <<swEnabled, job, outcome, client, pipe, swCapture, swLate,
                 misbehaved, swSpent>>

DisableJoin ==
  /\ swUi = "disable_join"
  /\ swWorker \in {"none", "exit"}
  /\ swWorker' = "none"
  /\ slots' = [s \in Slots |-> FreeSlot]
  /\ swUi' = "free"
  /\ UNCHANGED <<swEnabled, swStopping, swEpoch, latest, swStats, job, outcome,
                 client, pipe, swCapture, swChanges, swLate, misbehaved, swSpent>>

\* A worker that gave itself up is disabled and has still to be joined.
EnableCall ==
  /\ swUi = "free" /\ MutexFree
  /\ ~swEnabled
  /\ SwSpend("toggles", MaxToggles)
  /\ \/ /\ swWorker = "none"
        /\ swUi' = "enable"
        /\ UNCHANGED <<swStopping, swWorker>>
     \/ /\ swWorker # "none"
        /\ swStopping' = TRUE
        /\ swWorker' = Woken
        /\ swUi' = "enable_join"
  /\ UNCHANGED <<swEnabled, swEpoch, slots, latest, swStats, job, outcome, client,
                 pipe, swCapture, swChanges, swLate, misbehaved>>

EnableJoin ==
  /\ swUi = "enable_join" /\ swWorker = "exit"
  /\ swWorker' = "none"
  /\ slots' = [s \in Slots |-> FreeSlot]
  /\ swUi' = "enable"
  /\ UNCHANGED <<swEnabled, swStopping, swEpoch, latest, swStats, job, outcome,
                 client, pipe, swCapture, swChanges, swLate, misbehaved, swSpent>>

\* The slots are allocated and the thread is created, or one of the two throws.
EnableStart ==
  /\ swUi = "enable"
  /\ \/ /\ swStopping' = FALSE /\ swEpoch' = swEpoch + 1
        /\ swWorker' = "boot"
        /\ client' = NoClient /\ pipe' = <<>> /\ misbehaved' = 0
        /\ swUi' = "enable_store"
     \/ /\ swUi' = "free"
        /\ \/ UNCHANGED <<swStopping, swEpoch>>
           \/ swStopping' = FALSE /\ swEpoch' = swEpoch + 1
        /\ UNCHANGED <<swWorker, client, pipe, misbehaved>>
  /\ UNCHANGED <<swEnabled, slots, latest, swStats, job, outcome, swCapture,
                 swChanges, swLate, swSpent>>

\* enabled_ is stored and the worker notified, both with the mutex not held.
EnableStore ==
  /\ swUi = "enable_store"
  /\ swEnabled' = TRUE
  /\ swUi' = "enable_notify"
  /\ UNCHANGED <<swStopping, swEpoch, slots, latest, swStats, swWorker, job, outcome,
                 client, pipe, swCapture, swChanges, swLate, misbehaved, swSpent>>

EnableNotify ==
  /\ swUi = "enable_notify"
  /\ swWorker' = Woken
  /\ swUi' = "free"
  /\ UNCHANGED <<swShared, job, outcome, client, pipe, swCapture, swChanges, swLate,
                 misbehaved, swSpent>>

-----------------------------------------------------------------------------
(* The worker thread, run() *)

uiVars == <<swUi, swCapture, swChanges, swLate, swSpent>>

\* The first wait: until the parent has stored enabled_.
Boot ==
  /\ swWorker = "boot"
  /\ swWorker' = IF swStopping THEN "exit" ELSE IF swEnabled THEN "wait" ELSE "blocking"
  /\ UNCHANGED <<swShared, job, outcome, client, pipe, misbehaved, uiVars>>

BootSleep ==
  /\ swWorker = "blocking"
  /\ swWorker' = "asleep_boot"
  /\ UNCHANGED <<swShared, job, outcome, client, pipe, misbehaved, uiVars>>

\* The loop's wait.  Its predicate changes under the mutex only.
WorkerWait ==
  /\ swWorker = "wait" /\ ~swStopping /\ In("queued") = {}
  /\ swWorker' = "asleep"
  /\ UNCHANGED <<swShared, job, outcome, client, pipe, misbehaved, uiVars>>

\* The loop ends: the client's destructor terminates the child.
WorkerStop ==
  /\ swWorker = "wait" /\ swStopping
  /\ swWorker' = "exit"
  /\ client' = [client EXCEPT !.running = FALSE] /\ pipe' = <<>>
  /\ UNCHANGED <<swShared, job, outcome, misbehaved, uiVars>>

TakeOldest ==
  /\ swWorker = "wait" /\ ~swStopping
  /\ \E s \in In("queued") :
       /\ \A t \in In("queued") : slots[s].seq <= slots[t].seq
       /\ slots' = [slots EXCEPT ![s].state = "working"]
       /\ job' = s
  /\ swWorker' = "launch"
  /\ UNCHANGED <<swEnabled, swStopping, swEpoch, latest, swStats, outcome, client,
                 pipe, misbehaved, uiVars>>

Cancelled == ~swEnabled \/ swEpoch # slots[job].epoch

\* Defect: the child is kept, with the request it was sent.
OnCancelledKeepChild ==
  /\ outcome' = "discard"
  /\ UNCHANGED <<client, pipe>>

\* catch (const WorkerError&): a cancelled request costs the child but no fault.
OnCancelled ==
  /\ client' = [client EXCEPT !.running = FALSE] /\ pipe' = <<>>
  /\ outcome' = "discard"

OnFault ==
  /\ client' = [client EXCEPT !.running = FALSE, !.faults = @ + 1] /\ pipe' = <<>>
  /\ outcome' = IF client.faults + 1 > RestartLimit THEN "exhausted" ELSE "discard"

\* After a request was answered: the child is recycled in time.
Answered(o) ==
  /\ outcome' = o
  /\ IF client.requests + 1 >= Recycle
       THEN /\ client' = [client EXCEPT !.running = FALSE, !.requests = 0]
            /\ pipe' = <<>>
       ELSE /\ client' = [client EXCEPT !.requests = @ + 1]
            /\ pipe' = Tail(pipe)

\* ProcessClient::start: the child is spawned and says hello, or it does not.
Launch ==
  /\ swWorker = "launch"
  /\ \/ /\ client.running
        /\ swWorker' = "send"
        /\ UNCHANGED <<outcome, client, pipe, misbehaved>>
     \/ /\ ~client.running /\ ~Cancelled
        /\ client' = [client EXCEPT !.running = TRUE, !.requests = 0]
        /\ swWorker' = "send"
        /\ UNCHANGED <<outcome, pipe, misbehaved>>
     \/ /\ ~client.running /\ Cancelled
        /\ OnCancelled
        /\ swWorker' = "publish"
        /\ UNCHANGED misbehaved
     \/ /\ ~client.running
        /\ OnFault
        /\ misbehaved' = misbehaved + 1
        /\ swWorker' = "publish"
  /\ UNCHANGED <<swShared, job, uiVars>>

Send ==
  /\ swWorker = "send"
  /\ pipe' = Append(pipe, slots[job].seq)
  /\ swWorker' = "receive"
  /\ UNCHANGED <<swShared, job, outcome, client, misbehaved, uiVars>>

\* The reply: a measurement or a rejection with the id of a request, nothing in
\* time, or nonsense.  An id that is not this request's counts as nonsense.
Receive ==
  /\ swWorker = "receive"
  /\ \/ /\ Head(pipe) = slots[job].seq
        /\ \E o \in {"result", "discard"} : Answered(o)
        /\ UNCHANGED misbehaved
     \/ /\ Head(pipe) # slots[job].seq
        /\ OnFault
        /\ UNCHANGED misbehaved
     \/ /\ Cancelled
        /\ OnCancelled
        /\ UNCHANGED misbehaved
     \/ /\ OnFault
        /\ misbehaved' = misbehaved + 1
  /\ swWorker' = "publish"
  /\ UNCHANGED <<swShared, job, uiVars>>

\* Defect: what the child answers is shown whatever was changed meanwhile.
PublishableAnyEpoch == outcome = "result" /\ ~swStopping /\ swEnabled

Publishable ==
  /\ outcome = "result"
  /\ ~swStopping /\ swEnabled /\ slots[job].epoch = swEpoch

Publish ==
  /\ swWorker = "publish"
  /\ IF Publishable
       THEN /\ latest' = [seq |-> slots[job].seq, epoch |-> slots[job].epoch,
                          begun |-> slots[job].begun]
            /\ swStats' = [swStats EXCEPT !.measured = @ + 1]
            /\ slots' = [slots EXCEPT ![job] = FreeSlot]
            /\ swWorker' = "wait"
            /\ UNCHANGED swEnabled
     ELSE IF outcome = "exhausted"
       THEN /\ swEnabled' = FALSE
            /\ slots' = [s \in Slots |-> FreeSlot]
            /\ swStats' = [swStats EXCEPT !.discarded = @ + 1 + Cardinality(In("queued"))]
            /\ latest' = NoResult
            /\ swWorker' = "exit"
       ELSE /\ swStats' = [swStats EXCEPT !.discarded = @ + 1]
            /\ slots' = [slots EXCEPT ![job] = FreeSlot]
            /\ swWorker' = "wait"
            /\ UNCHANGED <<swEnabled, latest>>
  /\ job' = NoSlot /\ outcome' = "none"
  /\ UNCHANGED <<swStopping, swEpoch, client, pipe, misbehaved, uiVars>>

SwSpuriousWake ==
  /\ Woken # swWorker
  /\ SwSpend("wakes", MaxWakes)
  /\ swWorker' = Woken
  /\ UNCHANGED <<swShared, job, outcome, client, pipe, misbehaved, swUi, swCapture,
                 swChanges, swLate>>

-----------------------------------------------------------------------------
SwScan == CaptureEpoch \/ CaptureBegin \/ SubmitRefused \/ SubmitLate \/ TrySubmit
          \/ SubmitSignal
SwCall == Invalidate \/ DisableCall \/ EnableCall
SwCallGoesOn == DisableLocked \/ DisableJoin \/ EnableJoin \/ EnableStart
                \/ EnableStore \/ EnableNotify
SwWorkerStep == Boot \/ BootSleep \/ WorkerWait \/ WorkerStop \/ TakeOldest \/ Launch
                \/ Send \/ Receive \/ Publish

SwNext == SwScan \/ SwCall \/ SwCallGoesOn \/ SwWorkerStep \/ SwSpuriousWake

\* Threads run; a request ends, because the deadline ends it.
SwFairness ==
  /\ WF_swVars(SwWorkerStep)
  /\ WF_swVars(SwCallGoesOn)
  /\ WF_swVars(SubmitSignal)

-----------------------------------------------------------------------------
(* Properties *)

\* What is shown was measured on a capture that began after the last change of
\* band or channel and after the worker was last switched off.
SwFresh == latest # NoResult => latest.begun = swChanges /\ latest.epoch = swEpoch

\* No accepted capture is forgotten: it is queued, at work, shown once or counted.
SwAccounted ==
  swStats.submitted + swLate =
    swStats.measured + swStats.discarded + Cardinality(In("queued") \cup In("working"))

\* Nothing stale is shown, and nothing accepted disappears.
SwSafe == SwFresh /\ SwAccounted

\* The worker gives itself up only after more faults of its children than it may
\* restart: requests that were cancelled, and answers to them, never count.
SwGivesUp ==
  [][swWorker = "publish" /\ swWorker' = "exit" => misbehaved > RestartLimit]_swVars

\* Switching on or off returns, and no accepted capture waits for ever.
SwServed ==
  /\ swUi # "free" ~> swUi = "free"
  /\ \A s \in Slots : slots[s].state = "queued" ~> slots[s].state # "queued"
=============================================================================
