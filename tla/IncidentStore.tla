--------------------------- MODULE IncidentStore ---------------------------
(***************************************************************************)
(* The incidents of the Wi-Fi security monitor                             *)
(* (src/security/wifi_security_incidents.cpp), as SecurityState drives     *)
(* them capture by capture, with the saved file, crashes and restarts.     *)
(*                                                                         *)
(* A thing is what observations coalesce by: rule, channel, addresses and  *)
(* receiver profile.  A capture is one unit of analysed air; evidence,     *)
(* texts, rates and the timeline of an incident are left out.              *)
(***************************************************************************)
EXTENDS Naturals, Sequences, FiniteSets, SequencesExt

CONSTANTS
  Thing,         \* what may be observed
  Capture,       \* pairs of channel and receiver profile a capture may have
  Covers(_, _),  \* Covers(c, t): captures c are evidence about t
  MaxIncidents,  \* max_incidents
  CloseQuiet,    \* close_after_quiet_analysed_s, in captures
  MaxOpened,     \* bound: incidents opened in a behaviour
  MaxSaves, MaxCrashes, MaxRestarts  \* bounds

ASSUME IncidentAssumption ==
  /\ IsFiniteSet(Thing)
  /\ {MaxIncidents, CloseQuiet} \subseteq Nat \ {0}
  /\ {MaxOpened, MaxSaves, MaxCrashes, MaxRestarts} \subseteq Nat

VARIABLES
  incidents,   \* incidents_, oldest first
  nextId,      \* next_id_
  file,        \* the saved state: {} or {[incidents, nextId]}
  up,          \* a started monitor owns the state
  quietAir,    \* history: per thing, quiet captures in a row (to CloseQuiet)
  opened, saves, crashes, restarts

vars == <<incidents, nextId, file, up, quietAir, opened, saves, crashes,
          restarts>>

NoQuiet == [t \in Thing |-> 0]

Init ==
  /\ incidents = <<>> /\ nextId = 1
  /\ file = {} /\ up = FALSE
  /\ quietAir = NoQuiet
  /\ opened = 0 /\ saves = 0 /\ crashes = 0 /\ restarts = 0

-----------------------------------------------------------------------------
(* observe, on a store [list, next] *)

\* Defect: the oldest goes, open or closed.
MakeRoomOldest(list) ==
  IF Len(list) < MaxIncidents THEN list ELSE Tail(list)

\* The oldest closed incident goes first; if all are open, the oldest.
MakeRoom(list) ==
  LET closed == SelectInSeq(list, LAMBDA i : ~i.open)
  IN  IF Len(list) < MaxIncidents THEN list
      ELSE RemoveAt(list, IF closed # 0 THEN closed ELSE 1)

Opened(s, t) ==
  [list |-> Append(MakeRoom(s.list),
                   [id |-> s.next, thing |-> t, open |-> TRUE, quiet |-> 0]),
   next |-> s.next + 1]

\* Defect: every observation opens an incident.
ObserveAnew(s, t) == Opened(s, t)

Observe(s, t) ==
  LET k == SelectInSeq(s.list, LAMBDA i : i.open /\ i.thing = t)
  IN  IF k # 0 THEN [s EXCEPT !.list[k].quiet = 0] ELSE Opened(s, t)

\* reset_quiet: activity short of an observation.
ResetQuiet(list, ts) ==
  [k \in DOMAIN list |-> IF list[k].open /\ list[k].thing \in ts
                         THEN [list[k] EXCEPT !.quiet = 0] ELSE list[k]]

\* Defect: incidents observed in this very capture are not exempt, and a
\* capture of another profile counts.
NoteAnalysedAll(list, c, exempt) ==
  [k \in DOMAIN list |->
     IF ~list[k].open THEN list[k]
     ELSE [list[k] EXCEPT !.quiet = @ + 1,
                          !.open = list[k].quiet + 1 < CloseQuiet]]

\* note_analysed: one more quiet capture for the incidents it is evidence about.
NoteAnalysed(list, c, exempt) ==
  [k \in DOMAIN list |->
     IF ~list[k].open \/ list[k].thing \in exempt \/ ~Covers(c, list[k].thing)
     THEN list[k]
     ELSE [list[k] EXCEPT !.quiet = @ + 1,
                          !.open = list[k].quiet + 1 < CloseQuiet]]

\* The orders in which the rules may report what they saw.
Orders(ts) ==
  {order \in [1..Cardinality(ts) -> ts] : \A t \in ts : \E k \in DOMAIN order : order[k] = t}

\* The store after these reports, one by one.
Reported(s, order) ==
  LET after[k \in 0..Len(order)] ==
        IF k = 0 THEN s ELSE Observe(after[k - 1], order[k])
  IN  after[Len(order)]

\* What the rules make of a thing in one capture: they observe it, see activity
\* that only stops its clock, cannot use the capture for it, or see nothing.
Roles == {"seen", "active", "unjudged", "absent"}

\* ingest(CaptureRecord): the rules report what they saw; then, if the capture
\* can prove quiet, the other open incidents age.
IngestCapture(c, role, usable) ==
  LET seen == {t \in Thing : role[t] = "seen"}
      active == {t \in Thing : role[t] = "active"}
      quiet == {t \in Thing : usable /\ Covers(c, t) /\ role[t] = "absent"}
  IN  /\ up
      /\ \A t \in seen \cup active : Covers(c, t)
      /\ \E order \in Orders(seen) :
           LET reported == Reported([list |-> incidents, next |-> nextId], order)
               stopped == ResetQuiet(reported.list, active)
           IN  /\ reported.next - nextId + opened <= MaxOpened
               /\ incidents' = IF usable
                               THEN NoteAnalysed(stopped, c, {t \in Thing : role[t] # "absent"})
                               ELSE stopped
               /\ nextId' = reported.next
               /\ opened' = opened + (reported.next - nextId)
      /\ quietAir' = [t \in Thing |->
           IF t \in seen \cup active THEN 0
           ELSE IF t \in quiet /\ quietAir[t] < CloseQuiet
                THEN quietAir[t] + 1 ELSE quietAir[t]]
      /\ UNCHANGED <<file, up, saves, crashes, restarts>>

-----------------------------------------------------------------------------
(* The saved state *)

\* export_json
Export == [incidents |-> incidents, nextId |-> nextId]

\* Defect: the file's next id is not looked at.
ImportForgetsIds(f) ==
  LET restored == [k \in DOMAIN f.incidents |-> [f.incidents[k] EXCEPT !.quiet = 0]]
      all == incidents \o restored
  IN  /\ incidents' = IF Len(all) > MaxIncidents
                      THEN SubSeq(all, Len(all) - MaxIncidents + 1, Len(all)) ELSE all
      /\ UNCHANGED nextId

\* import_json: restored incidents are pushed behind those in memory, their
\* quiet clocks at zero; the oldest beyond the limit go.
Import(f) ==
  LET restored == [k \in DOMAIN f.incidents |-> [f.incidents[k] EXCEPT !.quiet = 0]]
      all == incidents \o restored
  IN  /\ incidents' = IF Len(all) > MaxIncidents
                      THEN SubSeq(all, Len(all) - MaxIncidents + 1, Len(all)) ELSE all
      /\ nextId' = Max({nextId, f.nextId} \cup {all[k].id + 1 : k \in DOMAIN all})

Start ==
  /\ ~up
  /\ up' = TRUE
  /\ IF file = {} THEN UNCHANGED <<incidents, nextId>>
     ELSE \E f \in file : Import(f)
  /\ quietAir' = NoQuiet
  /\ UNCHANGED <<file, opened, saves, crashes, restarts>>

\* A periodic save that succeeds; one that fails changes nothing.
SaveState ==
  /\ up /\ saves < MaxSaves
  /\ saves' = saves + 1
  /\ file' = {Export}
  /\ UNCHANGED <<incidents, nextId, up, quietAir, opened, crashes, restarts>>

\* The store is gone with its process, or with its monitor: Connect in the GUI
\* makes a new one, whose predecessor's last save may have failed.
Crash ==
  /\ crashes < MaxCrashes
  /\ crashes' = crashes + 1
  /\ incidents' = <<>> /\ nextId' = 1 /\ up' = FALSE
  /\ UNCHANGED <<file, quietAir, opened, saves, restarts>>

\* stop() with its last save, then start() on the same Scanner: the store is
\* still there when the file is read.
Stop(ok) ==
  /\ up /\ restarts < MaxRestarts
  /\ restarts' = restarts + 1
  /\ up' = FALSE
  /\ file' = IF ok THEN {Export} ELSE file
  /\ UNCHANGED <<incidents, nextId, quietAir, opened, saves, crashes>>

Capturing ==
  \E c \in Capture, role \in [Thing -> Roles], usable \in BOOLEAN :
    IngestCapture(c, role, usable)

Next ==
  \/ Capturing
  \/ Start \/ SaveState \/ Crash
  \/ \E ok \in BOOLEAN : Stop(ok)

Spec == Init /\ [][Next]_vars

-----------------------------------------------------------------------------
(* Properties *)

IncidentType == [id : Nat \ {0}, thing : Thing, open : BOOLEAN, quiet : Nat]

\* Every variable has its type and the store its limit.
TypeOK ==
  /\ incidents \in Seq(IncidentType) /\ Len(incidents) <= MaxIncidents
  /\ nextId \in Nat \ {0}
  /\ \A f \in file : f.incidents \in Seq(IncidentType) /\ f.nextId \in Nat \ {0}
  /\ up \in BOOLEAN
  /\ quietAir \in [Thing -> 0..CloseQuiet]
  /\ {opened, saves, crashes, restarts} \subseteq Nat

\* Repeated observations of the same thing coalesce into one open incident,
\* across saves and crashes; only reading a file into a store that already holds
\* incidents may break it.
OneOpenPerThing ==
  restarts = 0 => \A j, k \in DOMAIN incidents :
    (incidents[j].open /\ incidents[k].open /\ incidents[j].thing = incidents[k].thing)
      => j = k

\* An id names one incident, in memory and in the file: never two in the store,
\* and never one thing here and another in the saved state.
IdsNameOneIncident ==
  /\ restarts = 0 => \A j, k \in DOMAIN incidents : incidents[j].id = incidents[k].id => j = k
  /\ \A f \in file : \A j \in DOMAIN incidents, k \in DOMAIN f.incidents :
       incidents[j].id = f.incidents[k].id => incidents[j].thing = f.incidents[k].thing

\* What the operator sees as one incident is one: a thing has one open incident
\* and an id one thing, whatever was saved, lost in a crash and read again.
IncidentsAreOne == OneOpenPerThing /\ IdsNameOneIncident

\* An incident is closed only by CloseQuiet captures in a row that could prove
\* quiet on its channel: another profile's air, a scan gap, a capture some rule
\* could not use, or a restart is not evidence that activity stopped.
ClosedByQuiet ==
  \A j \in DOMAIN incidents, k \in DOMAIN incidents' :
    (restarts = 0 /\ incidents[j].id = incidents'[k].id /\ incidents[j].open /\ ~incidents'[k].open)
      => quietAir'[incidents[j].thing] = CloseQuiet

\* While a monitor runs an open incident is forgotten only for want of room, and
\* never while a closed one is kept in its stead.
ForgottenForRoom ==
  (up /\ up') =>
    \A j \in DOMAIN incidents :
      (incidents[j].open /\ \A k \in DOMAIN incidents' : incidents'[k].id # incidents[j].id)
        => /\ Len(incidents') = MaxIncidents
           /\ \A i \in DOMAIN incidents, k \in DOMAIN incidents' :
                incidents[i].id = incidents'[k].id
                  => \E o \in DOMAIN incidents :
                       incidents[o].open /\ incidents[o].id = incidents[i].id

\* An open incident ends in these two ways only (note_analysed, make_room):
\* closed by quiet that was heard, or forgotten for room.
OpenIncidentsEnd == [][ClosedByQuiet /\ ForgottenForRoom]_vars
=============================================================================
