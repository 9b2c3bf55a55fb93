---------------------------- MODULE Coordinated ----------------------------
(***************************************************************************)
(* The coordinated mode (Scanner::run_coordinated in src/scanner.cpp and    *)
(* src/coordinated_schedule.hpp): one thread tunes through the slots of a   *)
(* schedule and hands each visit to one of two processing lanes, or drops  *)
(* it if the lane is full; the panel judges from the visits how fresh a     *)
(* detected emitter is.                                                     *)
(*                                                                         *)
(* A lane is the sequence of its outstanding jobs, the first one running:   *)
(* SerialLane does them in order and one at a time.  A visit takes one unit *)
(* of time, a job any number of them.  One emitter (a drone) is followed, at *)
(* one centre of a Wi-Fi slot.  The lane only hands a capture on to a       *)
(* detector, which has a queue and a thread of its own and drops what it    *)
(* has no room for; the emitter is last seen when the capture its detector  *)
(* finds it in was handed on, which the panel knows once that has answered. *)
(***************************************************************************)
EXTENDS Naturals, Sequences, FiniteSets, SequencesExt, FiniteSetsExt

CONSTANTS
  Schedules,    \* successive schedules: slots of [kind, enabled, size, perCycle]
  LaneLimit,  \* kLaneOutstanding
  Emitter,      \* <<slot, centre>> of the emitter
  DroneOnly,    \* the <<slot, centre>> without a Wi-Fi channel
  Grace,        \* grace_s
  DetectorRoom, \* bound: captures of the emitter's centre a detector has at a time
  MaxVisits, MaxPauses, MaxConflicts  \* bounds

ASSUME CoordinatedAssumption ==
  /\ LaneLimit \in Nat \ {0} /\ Grace \in Nat /\ DetectorRoom \in Nat
  /\ {MaxVisits, MaxPauses, MaxConflicts} \subseteq Nat
  /\ \A s \in ToSet(Schedules) : \A i \in DOMAIN s :
       /\ s[i].kind \in {"sub", "wifi"} /\ s[i].enabled \in BOOLEAN
       /\ s[i].size \in Nat \ {0} /\ s[i].perCycle \in Nat \ {0}
  \* the editor of schedules keeps the slots of the default one, a slot for each band:
  \* the sub-GHz registry is committed once a cycle, at the end of its slot
  /\ Schedules \in Seq(ToSet(Schedules)) \ {<<>>} /\ Emitter \in Nat \X Nat
  /\ \A s \in ToSet(Schedules) :
       /\ s \in Seq(ToSet(s)) /\ Emitter[1] \in DOMAIN s /\ s[Emitter[1]].kind = "wifi"
       /\ \A i, j \in DOMAIN s : s[i].kind = "sub" /\ s[j].kind = "sub" => i = j

VARIABLES
  mode,        \* the coordinated mode is asked for
  conflict,    \* a channel is fixed or a frequency locked
  config,      \* coordinated_schedule_version_
  coPc,        \* where run_coordinated is
  version,     \* the version it runs
  cursors,     \* per slot the centre the next cycle starts with
  plan,        \* visits of this cycle that are still to come
  attempt,     \* cycles begun
  current,     \* visit in progress, if any
  ledger,      \* coordinated_visits_, of the emitter's centre only
  visits,      \* visit_seq
  lanes,       \* per kind the outstanding jobs
  coDetections, \* coordinated_subghz_detections_: visits that fed it
  registry,    \* commits to the sub-GHz registry: of each the visits
  detector,    \* captures of the emitter's centre a detector has not answered, in order
  now, lastSeen,  \* time; when the emitter was last reported
  heard,       \* history: visits that received the emitter
  analysed,    \* history: visits to the emitter's centre a detector has answered
  dropped,     \* history: visits to it a detector took no capture of, or failed with
  admitted,    \* history: sub-GHz visits admitted, in order, but for those
               \* given up with the mode
  sweeps,      \* history: per slot the centres of the last whole cycles
  gone,        \* history: <<slot, centre>> visited in this cycle
  coSpent      \* pauses, conflicts

coOperator == <<mode, conflict, config>>
run == <<coPc, version, cursors, plan, attempt, current>>
results == <<coDetections, registry, detector, lastSeen, analysed, dropped>>
coVars == <<coOperator, run, ledger, visits, lanes, results, now, heard, admitted, sweeps, gone, coSpent>>

Kinds == {"sub", "wifi"}
NoVisit == 0
Schedule == Schedules[version]

CoInit ==
  /\ mode = TRUE /\ conflict = FALSE /\ config = 1
  /\ coPc = "off" /\ version = 0 /\ cursors = <<>> /\ plan = <<>> /\ attempt = 0
  /\ current = <<>> /\ ledger = <<>> /\ visits = 0
  /\ lanes = [k \in Kinds |-> <<>>] /\ coDetections = <<>> /\ registry = <<>>
  /\ now = 1 /\ lastSeen = 0 /\ heard = {} /\ analysed = {} /\ admitted = <<>>
  /\ detector = <<>> /\ dropped = {}
  /\ sweeps = <<>> /\ gone = {} /\ coSpent = [pauses |-> 0, conflicts |-> 0]

-----------------------------------------------------------------------------
(* coordinated_schedule.hpp *)

\* next_visits
NextVisits(slot, cursor) ==
  IF slot.enabled THEN [i \in 1..slot.perCycle |-> (cursor + i - 1) % slot.size] ELSE <<>>

\* Defect: the cursor goes one too far.
NextCursorTooFar(slot, cursor) ==
  IF slot.enabled THEN (cursor + slot.perCycle + 1) % slot.size ELSE cursor

NextCursor(slot, cursor) ==
  IF slot.enabled THEN (cursor + slot.perCycle) % slot.size ELSE cursor

\* estimate
CyclesPerSweep(slot) == (slot.size + slot.perCycle - 1) \div slot.perCycle

\* Defect: a visit that was dropped counts too.
CountsIfValid(v) == v.valid

\* A visit that can say the emitter is not there
Counts(v) == v.valid /\ v.analysed

\* freshness of the emitter, before it expires
Freshness ==
  LET later == {v \in ToSet(ledger) : v.start > lastSeen /\ v.end + Grace <= now}
  IN  CASE current # <<>> /\ current.covers -> "receiving"
        [] \E v \in later : Counts(v) -> "notReacquired"
        [] later # {} /\ ~\E v \in later : Counts(v) -> "insufficientCoverage"
        [] OTHER -> "recent"

-----------------------------------------------------------------------------
(* The operator, and time *)

CoSpend(what, bound) == coSpent[what] < bound /\ coSpent' = [coSpent EXCEPT ![what] = @ + 1]

SetMode ==
  /\ mode' = ~mode /\ CoSpend("conflicts", MaxConflicts)
  /\ UNCHANGED <<conflict, config, run, ledger, visits, lanes, results, now, heard,
                 admitted, sweeps, gone>>

SetConflict ==
  /\ conflict' = ~conflict /\ CoSpend("conflicts", MaxConflicts)
  /\ UNCHANGED <<mode, config, run, ledger, visits, lanes, results, now, heard, admitted,
                 sweeps, gone>>

SetSchedule ==
  /\ config < Len(Schedules) /\ config' = config + 1
  /\ UNCHANGED <<mode, conflict, run, ledger, visits, lanes, results, now, heard, admitted,
                 sweeps, gone, coSpent>>

\* Time passes without a visit: in another mode, or waiting for a conflict to end.
Pause ==
  /\ coPc = "off" \/ (coPc = "top" /\ conflict)
  /\ CoSpend("pauses", MaxPauses)
  /\ now' = now + 1
  /\ UNCHANGED <<coOperator, run, ledger, visits, lanes, results, heard, admitted, sweeps, gone>>

-----------------------------------------------------------------------------
(* run_coordinated *)

Enter ==
  /\ coPc = "off" /\ mode
  /\ coPc' = "top" /\ version' = 0 /\ coDetections' = <<>> /\ ledger' = <<>>
  /\ cursors' = <<>> /\ sweeps' = <<>>
  /\ UNCHANGED <<coOperator, plan, attempt, current, visits, lanes, registry, detector,
                 lastSeen, analysed, dropped, now, heard, admitted, gone, coSpent>>

\* A changed schedule starts all over.
Configure ==
  /\ coPc = "top" /\ mode /\ version # config
  /\ version' = config
  /\ cursors' = [i \in DOMAIN Schedules[config] |-> 0]
  /\ sweeps' = [i \in DOMAIN Schedules[config] |-> <<>>]
  /\ UNCHANGED <<coOperator, coPc, plan, attempt, current, ledger, visits, lanes, results, now,
                 heard, admitted, gone, coSpent>>

\* The whole cycle is planned and every cursor moved before the first visit.
PlanSlot(i) ==
  LET centres == NextVisits(Schedule[i], cursors[i])
  IN  [k \in DOMAIN centres |->
         [slot |-> i, centre |-> centres[k], last |-> k = Len(centres)]]

Plan ==
  /\ coPc = "top" /\ mode /\ version = config /\ ~conflict
  /\ plan' = FlattenSeq([i \in DOMAIN Schedule |-> PlanSlot(i)])
  /\ cursors' = [i \in DOMAIN Schedule |-> NextCursor(Schedule[i], cursors[i])]
  /\ attempt' = attempt + 1
  /\ gone' = {}
  /\ coPc' = "visit"
  /\ UNCHANGED <<coOperator, version, current, ledger, visits, lanes, results, now, heard,
                 admitted, sweeps, coSpent>>

\* The cycle is given up if the mode, the schedule or a conflict says so.
GiveUp == ~mode \/ version # config \/ conflict

Abandon ==
  /\ coPc = "visit" /\ current = <<>> /\ plan # <<>> /\ GiveUp
  /\ plan' = <<>> /\ coPc' = "top"
  /\ sweeps' = [i \in DOMAIN sweeps |-> <<>>]
  /\ UNCHANGED <<coOperator, version, cursors, attempt, current, ledger, visits, lanes,
                 results, now, heard, admitted, gone, coSpent>>

BeginVisit ==
  LET p == Head(plan)
  IN  /\ coPc = "visit" /\ current = <<>> /\ plan # <<>> /\ ~GiveUp
      /\ visits < MaxVisits /\ visits' = visits + 1
      /\ current' = [slot |-> p.slot, centre |-> p.centre, last |-> p.last,
                     covers |-> <<p.slot, p.centre>> = Emitter, start |-> now]
      /\ plan' = Tail(plan)
      /\ UNCHANGED <<coOperator, coPc, version, cursors, attempt, ledger, lanes, results, now,
                     heard, admitted, sweeps, gone, coSpent>>

\* The slot's last visit commits the sub-GHz registry.
EndsCycle(v) == v.last

\* try_push
Room(k) == Len(lanes[k]) < LaneLimit

\* What the receiver gave: nothing, samples that are not contiguous, or all of them.
EndVisit(got, here) ==
  LET k == Schedule[current.slot].kind
      job == [visit |-> visits, attempt |-> attempt, ends |-> EndsCycle(current),
              found |-> here, covers |-> current.covers /\ got # "empty"]
      \* an empty capture of a Wi-Fi channel goes to the lane too, as coverage
      wifiChannel == k = "wifi" /\ <<current.slot, current.centre>> \notin DroneOnly
      offered == got # "empty" \/ wifiChannel
      taken == offered /\ Room(k)
  IN  /\ coPc = "visit" /\ current # <<>>
      /\ here => current.covers /\ got # "empty"
      /\ got = "some" => current.covers   \* the same as "all" for the others
      /\ now' = now + 1
      /\ lanes' = IF taken THEN [lanes EXCEPT ![k] = Append(@, job)] ELSE lanes
      /\ admitted' = IF taken /\ k = "sub" THEN Append(admitted, visits) ELSE admitted
      /\ heard' = IF here THEN heard \cup {visits} ELSE heard
      /\ ledger' = IF current.covers
                   THEN Append(ledger, [visit |-> visits, start |-> current.start,
                          end |-> now + 1, valid |-> got = "all",
                          analysed |-> taken /\ got # "empty"])
                   ELSE ledger
      /\ gone' = gone \cup {<<current.slot, current.centre>>}
      /\ current' = <<>>
      /\ UNCHANGED <<coOperator, coPc, version, cursors, plan, attempt, visits, results, sweeps,
                     coSpent>>

\* A cycle is over; the centres it went to are remembered for a whole sweep.
CoEndCycle ==
  /\ coPc = "visit" /\ current = <<>> /\ plan = <<>>
  /\ coPc' = "top"
  /\ sweeps' = [i \in DOMAIN sweeps |->
       LET n == CyclesPerSweep(Schedule[i])
           all == Append(sweeps[i], {g[2] : g \in {h \in gone : h[1] = i}})
       IN  SubSeq(all, IF Len(all) > n THEN 2 ELSE 1, Len(all))]
  /\ UNCHANGED <<coOperator, version, cursors, plan, attempt, current, ledger, visits, lanes,
                 results, now, heard, admitted, gone, coSpent>>

CoLeaveLoop ==
  /\ coPc = "top" /\ ~mode /\ coPc' = "leaving"
  /\ UNCHANGED <<coOperator, version, cursors, plan, attempt, current, ledger, visits, lanes,
                 results, now, heard, admitted, sweeps, gone, coSpent>>

\* Both lanes are closed, which does what is outstanding; the rest is given up.
CoLeave ==
  /\ coPc = "leaving" /\ \A k \in Kinds : lanes[k] = <<>>
  /\ coPc' = "off" /\ coDetections' = <<>>
  /\ admitted' = SubSeq(admitted, 1, Len(admitted) - Len(coDetections))
  /\ UNCHANGED <<coOperator, version, cursors, plan, attempt, current, ledger, visits, lanes,
                 registry, detector, lastSeen, analysed, dropped, now, heard, sweeps, gone,
                 coSpent>>

-----------------------------------------------------------------------------
(* The lanes, and the detectors *)

\* A capture of the emitter's centre is handed to its detector, which takes it or drops it:
\* it may have no room, or be busy with its queue.
RunWifiJob(taken) ==
  LET j == Head(lanes["wifi"])
  IN  /\ lanes["wifi"] # <<>>
      /\ lanes' = [lanes EXCEPT !["wifi"] = Tail(@)]
      /\ \/ ~j.covers /\ ~taken /\ UNCHANGED <<detector, dropped>>
         \/ /\ j.covers /\ taken /\ Len(detector) < DetectorRoom
            /\ detector' = Append(detector, [visit |-> j.visit, found |-> j.found, at |-> now])
            /\ dropped' = dropped
         \/ /\ j.covers /\ ~taken
            /\ detector' = detector
            /\ dropped' = dropped \cup {j.visit}
      /\ UNCHANGED <<coOperator, run, ledger, visits, coDetections, registry, lastSeen, analysed,
                     now, heard, admitted, sweeps, gone, coSpent>>

\* Detector::run: an observation carries the time at which its samples were queued.
DetectorAnswers ==
  LET r == Head(detector)
  IN  /\ detector # <<>>
      /\ detector' = Tail(detector)
      /\ analysed' = analysed \cup {r.visit}
      /\ lastSeen' = IF r.found THEN r.at ELSE lastSeen
      /\ UNCHANGED <<coOperator, run, ledger, visits, lanes, coDetections, registry, dropped, now,
                     heard, admitted, sweeps, gone, coSpent>>

\* The worker fails, or is stopped with its queue.
DetectorFails ==
  /\ detector # <<>>
  /\ detector' = <<>>
  /\ dropped' = dropped \cup {r.visit : r \in ToSet(detector)}
  /\ UNCHANGED <<coOperator, run, ledger, visits, lanes, coDetections, registry, lastSeen,
                 analysed, now, heard, admitted, sweeps, gone, coSpent>>

RunSubGhzVisitJob ==
  LET j == Head(lanes["sub"])
      all == Append(coDetections, [visit |-> j.visit, attempt |-> j.attempt])
  IN  /\ lanes["sub"] # <<>>
      /\ lanes' = [lanes EXCEPT !["sub"] = Tail(@)]
      /\ registry' = IF j.ends THEN Append(registry, all) ELSE registry
      /\ coDetections' = IF j.ends THEN <<>> ELSE all
      /\ UNCHANGED <<coOperator, run, ledger, visits, detector, lastSeen, analysed, dropped, now,
                     heard, admitted, sweeps, gone, coSpent>>

CoNext ==
  \/ SetMode \/ SetConflict \/ SetSchedule \/ Pause
  \/ Enter \/ Configure \/ Plan \/ Abandon \/ BeginVisit \/ CoEndCycle \/ CoLeaveLoop \/ CoLeave
  \/ \E got \in {"empty", "some", "all"}, here \in BOOLEAN : EndVisit(got, here)
  \/ (\E taken \in BOOLEAN : RunWifiJob(taken)) \/ RunSubGhzVisitJob
  \/ DetectorAnswers \/ DetectorFails

CoSpec == CoInit /\ [][CoNext]_coVars

-----------------------------------------------------------------------------
(* What should hold *)

\* A slot whose cycles are not given up goes to each of its centres in the number
\* of cycles the estimate announces, from wherever the cursor is.
SweepCovers ==
  coPc = "top" => \A i \in DOMAIN sweeps :
    LET slot == Schedule[i]
    IN  slot.enabled /\ Len(sweeps[i]) = CyclesPerSweep(slot)
          => UNION ToSet(sweeps[i]) = 0..(slot.size - 1)

\* The registry counts cycles: what a sub-GHz visit found is committed once, in
\* order, with nothing of one cycle in two commits, whichever visits are dropped
\* or empty and whichever cycles are given up.
CommitsCountCycles ==
  LET committed == FlattenSeq(registry)
      inWorks == lanes["sub"]
      known == committed \o coDetections
  IN  /\ [i \in DOMAIN known |-> known[i].visit] \o
           [i \in DOMAIN inWorks |-> inWorks[i].visit] = admitted
      /\ \A i, j \in DOMAIN registry : i # j =>
           {d.attempt : d \in ToSet(registry[i])}
             \cap {d.attempt : d \in ToSet(registry[j])} = {}

\* Nothing a cycle promises is lost or done twice: centres swept, finds committed.
CyclesAddUp == SweepCovers /\ CommitsCountCycles

\* Visits whose capture is still with the lane or a detector, or was dropped by one
Unanswered ==
  {j.visit : j \in ToSet(lanes["wifi"])} \cup {r.visit : r \in ToSet(detector)} \cup dropped

\* An emitter is said not to be reacquired only after a later visit to its centre had all of
\* its samples in the lane for grace_s, and nothing found in that visit has been answered: an
\* answer with the emitter takes the verdict back, however late it comes and whatever the
\* lane or a detector dropped in between.
NotReacquiredIsFounded ==
  (lastSeen > 0 /\ Freshness = "notReacquired") =>
    \E v \in ToSet(ledger) :
      /\ v.start > lastSeen /\ v.valid /\ v.end + Grace <= now
      /\ v.visit \in (analysed \ heard) \cup Unanswered

\* An emitter is said not to be reacquired only after a later visit to its centre was
\* analysed and did not have it: grace_s is there for that visit's own results to arrive
\* (the comment of freshness).
NotReacquiredIsTrue ==
  (lastSeen > 0 /\ Freshness = "notReacquired") =>
    \E v \in ToSet(ledger) : v.start > lastSeen /\ v.visit \in analysed \ heard
=============================================================================
