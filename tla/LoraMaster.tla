----------------------------- MODULE LoraMaster -----------------------------
(***************************************************************************)
(* The permanent LoRa emitter list (src/lora_master.cpp) and its files,     *)
(* with crashes and failing writes.                                        *)
(*                                                                         *)
(* Every operation holds the list's mutex, so one changes memory at a time; *)
(* what it writes is a script of file operations, each of which a crash may *)
(* precede.  Readings are numbered in the order of their recording, which  *)
(* is also their time; what a device looks like is left open, so a reading *)
(* may match any device or none.  A reading parsed from a line that is none *)
(* has number 0.                                                           *)
(***************************************************************************)
EXTENDS Naturals, Sequences, FiniteSets, SequencesExt, FiniteSetsExt, Functions

CONSTANTS
  Label,        \* labels the operator gives
  MaxKept,      \* MAX_READINGS_PER_DEVICE
  Trigger,      \* COMPACT_TRIGGER_READINGS
  MayFail,      \* bound: file operations that may fail
  MaxReadings, MaxLabels, MaxMerges, MaxCrashes, MaxFaults  \* bounds

ASSUME MasterAssumption ==
  /\ MaxKept \in Nat \ {0} /\ Trigger \in Nat /\ Trigger >= MaxKept
  /\ {MaxReadings, MaxLabels, MaxMerges, MaxCrashes, MaxFaults} \subseteq Nat
  /\ MayFail \subseteq {"meta", "append", "compact", "labels"}

VARIABLES
  devices,   \* devices_: a sequence of [id, first, readings, label]
  nextId,    \* next_id_
  files,     \* <id>.ndjson: per id its lines
  labels,    \* enrolment.json: per id its label
  script,    \* file operations the running call still has to do
  up,        \* the list is loaded
  recorded,  \* readings recorded so far
  written,   \* history: readings appended to a file
  pruned,    \* history: readings dropped over the cap
  covered,   \* history: <<label, reading>>: the operator's label is about the
             \* emitter of the reading
  torn,      \* history: a crash or a fault cut a call short
  cut,       \* history: the labels file was cut short and not written since
  masterSpent      \* labels given, merges, crashes, faults

masterVars == <<devices, nextId, files, labels, script, up, recorded, written, pruned,
          covered, torn, cut, masterSpent>>

Unreviewed == "unreviewed"
Meta(id, first) == [meta |-> TRUE, id |-> id, reading |-> first, whole |-> TRUE]
Line(r) == [meta |-> FALSE, id |-> 0, reading |-> r, whole |-> TRUE]

MasterSpend(what) == masterSpent' = [masterSpent EXCEPT ![what] = @ + 1]

MasterInit ==
  /\ devices = <<>> /\ nextId = 1 /\ files = <<>> /\ labels = <<>>
  /\ script = <<>> /\ up = FALSE
  /\ recorded = 0 /\ written = {} /\ pruned = {} /\ covered = {} /\ torn = FALSE
  /\ cut = FALSE
  /\ masterSpent = [labels |-> 0, merges |-> 0, crashes |-> 0, faults |-> 0]

-----------------------------------------------------------------------------
(* Reading the files back *)

Newest(s, n) == IF Len(s) <= n THEN s ELSE SubSeq(s, Len(s) - n + 1, Len(s))

\* The first line names the device, whatever it is; every other is a reading.
Parsed(lines) ==
  [id |-> Head(lines).id,
   first |-> IF Head(lines).meta THEN Head(lines).reading ELSE 0,
   readings |-> Newest([k \in 1..(Len(lines) - 1) |->
                        IF lines[k + 1].meta THEN 0 ELSE lines[k + 1].reading],
                     MaxKept),
   label |-> Unreviewed]

\* Files with no line but the first are skipped.
Loadable(fs) == {f \in DOMAIN fs : Len(fs[f]) >= 2}

\* load_enrolment: labels of ids that no device has are dropped.
LabelOf(ls, id) == IF id \in DOMAIN ls THEN ls[id] ELSE Unreviewed

LoadedDevices(fs, ls) ==
  LET order == SetToSortSeq(Loadable(fs), LAMBDA a, b : a < b)
  IN  [k \in DOMAIN order |->
         LET d == Parsed(fs[order[k]])
         IN  [d EXCEPT !.label = LabelOf(ls, d.id)]]

Holds(lines, r) == \E l \in ToSet(Tail(lines)) : ~l.meta /\ l.reading = r

NextId(ds) == Max({1} \cup {d.id + 1 : d \in ToSet(ds)})

Load ==
  /\ ~up /\ up' = TRUE
  /\ devices' = LoadedDevices(files, labels)
  /\ nextId' = NextId(devices')
  /\ pruned' = pruned \cup {r \in 1..recorded :
       /\ \E f \in Loadable(files) : Holds(files[f], r)
       /\ \A d \in ToSet(devices') : r \notin ToSet(d.readings)}
  /\ cut' = FALSE
  /\ UNCHANGED <<files, labels, script, recorded, written, covered, torn, masterSpent>>

-----------------------------------------------------------------------------
(* The calls: memory at once, files by script *)

Idle == up /\ script = <<>>
With(id) == SelectInSeq(devices, LAMBDA d : d.id = id)

SaveLabels == [op |-> "labels", id |-> 0, old |-> Unreviewed]
Append1(id, r) == [op |-> "append", id |-> id, line |-> Line(r)]

RecordNew(r) ==
  LET id == nextId
  IN  /\ devices' = Append(devices, [id |-> id, first |-> r, readings |-> <<r>>,
                                     label |-> Unreviewed])
      /\ nextId' = id + 1
      /\ script' = <<[op |-> "meta", id |-> id, line |-> Meta(id, r)],
                     Append1(id, r)>>
      /\ UNCHANGED <<pruned, covered>>

RecordMatch(k, r) ==
  LET d == devices[k]
      all == Append(d.readings, r)
      compacts == Len(all) > Trigger
      kept == IF compacts THEN Newest(all, MaxKept) ELSE all
  IN  /\ devices' = [devices EXCEPT ![k].readings = kept]
      /\ script' = <<Append1(d.id, r)>> \o
                   (IF compacts THEN <<[op |-> "compact", id |-> d.id]>> ELSE <<>>)
      /\ pruned' = pruned \cup (ToSet(all) \ ToSet(kept))
      /\ covered' = covered \cup (IF d.label = Unreviewed THEN {} ELSE {<<d.label, r>>})
      /\ UNCHANGED nextId

\* record_reading
Record ==
  /\ Idle /\ recorded < MaxReadings
  /\ recorded' = recorded + 1
  /\ \/ RecordNew(recorded + 1)
     \/ \E k \in DOMAIN devices : RecordMatch(k, recorded + 1)
  /\ UNCHANGED <<files, labels, up, written, torn, cut, masterSpent>>

\* set_enrolment: put back in memory if it cannot be saved.
SetEnrolment(k, l) ==
  /\ Idle /\ masterSpent.labels < MaxLabels /\ MasterSpend("labels")
  /\ devices' = [devices EXCEPT ![k].label = l]
  /\ script' = <<[SaveLabels EXCEPT !.id = devices[k].id, !.old = devices[k].label]>>
  /\ covered' = covered \cup {<<l, r>> : r \in ToSet(devices[k].readings)}
  /\ UNCHANGED <<nextId, files, labels, up, recorded, written, pruned, torn, cut>>

\* Defect: the other file goes first.
MergeScriptRemovesFirst(into, from) ==
  <<[op |-> "remove", id |-> from], [op |-> "compact", id |-> into], SaveLabels>>

MergeScript(into, from) ==
  <<[op |-> "compact", id |-> into], [op |-> "remove", id |-> from], SaveLabels>>

\* merge: the readings of both, by time, capped; the label of `from` only where
\* `into` has none.
Merge(a, b) ==
  LET into == devices[a]  from == devices[b]
      all == SortSeq(into.readings \o from.readings, LAMBDA x, y : x < y)
      l == IF into.label = Unreviewed THEN from.label ELSE into.label
      kept == Newest(all, MaxKept)
  IN  /\ Idle /\ into.id # from.id
      /\ masterSpent.merges < MaxMerges /\ MasterSpend("merges")
      /\ devices' = RemoveAt([devices EXCEPT ![a].readings = kept,
                        ![a].first = Min({into.first, from.first}), ![a].label = l], b)
      /\ script' = MergeScript(into.id, from.id)
      /\ pruned' = pruned \cup (ToSet(all) \ ToSet(kept))
      /\ covered' = covered \cup
           (IF l = Unreviewed THEN {} ELSE {<<l, r>> : r \in ToSet(all)})
      /\ UNCHANGED <<nextId, files, labels, up, recorded, written, torn, cut>>

-----------------------------------------------------------------------------
(* The file operations *)

PutFile(m, k, v) == (k :> v) @@ m

\* What is appended goes on a line that was cut short: the fields of a line are looked for
\* from its start, so it reads as what was there, if that was all of a reading, as what is
\* appended, if nothing could be read of it, and else as no reading that was.
Joined(f, l) == {[x EXCEPT !.whole = l.whole] : x \in IF f.reading # 0 THEN {f} ELSE {f, l}}

Appended(lines, l) ==
  IF lines = <<>> \/ Last(lines).whole THEN {Append(lines, l)}
  ELSE {Append(Front(lines), x) : x \in Joined(Last(lines), l)}

LinesOf(id) == IF id \in DOMAIN files THEN files[id] ELSE <<>>

\* Meta line and reading are appended to whatever file there is.
AppendLine(o) ==
  /\ \E lines \in Appended(LinesOf(o.id), o.line) :
       /\ files' = PutFile(files, o.id, lines)
       /\ written' = written \cup {r \in {o.line.reading} : Holds(lines, r)}
  /\ UNCHANGED <<labels, devices, cut>>

Written(d) == <<Meta(d.id, d.first)>> \o [k \in DOMAIN d.readings |-> Line(d.readings[k])]

\* compact_device_file: a temporary file renamed over the old one.
Compact(o) ==
  /\ files' = PutFile(files, o.id, Written(devices[With(o.id)]))
  /\ UNCHANGED <<labels, devices, written, cut>>

RemoveFile(o) ==
  /\ files' = Restrict(files, DOMAIN files \ {o.id})
  /\ UNCHANGED <<labels, devices, written, cut>>

\* save_enrolment: the labels that are any, renamed over the old file.
SaveEnrolment ==
  LET labelled == {k \in DOMAIN devices : devices[k].label # Unreviewed}
  IN  /\ labels' = [id \in {devices[k].id : k \in labelled} |-> devices[With(id)].label]
      /\ cut' = FALSE
      /\ UNCHANGED <<files, devices, written>>

FileStep ==
  /\ up /\ script # <<>>
  /\ LET o == Head(script)
     IN  \/ o.op \in {"meta", "append"} /\ AppendLine(o)
         \/ o.op = "compact" /\ Compact(o)
         \/ o.op = "remove" /\ RemoveFile(o)
         \/ o.op = "labels" /\ SaveEnrolment
  /\ script' = Tail(script)
  /\ UNCHANGED <<nextId, up, recorded, pruned, covered, torn, masterSpent>>

RollBack(o) ==
  devices' = IF o.id = 0 THEN devices ELSE [devices EXCEPT ![With(o.id)].label = o.old]

\* Nothing can be written: a line is lost, a file stays as it was, and a label just set is
\* put back.
NotWritten(o) ==
  /\ IF o.op = "labels" THEN RollBack(o) ELSE UNCHANGED devices
  /\ torn' = (torn \/ o.op # "labels" \/ o.id = 0)
  /\ UNCHANGED <<files, labels, written, cut>>

\* The disk is full in the middle of a write.  Nobody looks at the stream once it is flushed,
\* so a line stays without its end, perhaps without its newline only; a compaction renames
\* what it has over the file; and of the labels, which are in the stream's buffer until it is
\* closed, a part replaces the file, as which it cannot be parsed and is no labels at all,
\* while the call returns true.
Fragments(l) ==
  {[l EXCEPT !.whole = FALSE], [l EXCEPT !.whole = FALSE, !.reading = 0],
   [l EXCEPT !.whole = FALSE, !.reading = 0, !.id = 0]}

CutLine(o) ==
  /\ o.op \in {"meta", "append"}
  /\ \E f \in Fragments(o.line) : \E lines \in Appended(LinesOf(o.id), f) :
       /\ files' = PutFile(files, o.id, lines)
       /\ written' = written \cup {r \in {o.line.reading} : Holds(lines, r)}
  /\ torn' = TRUE
  /\ UNCHANGED <<labels, devices, cut>>

CutCompaction(o) ==
  /\ o.op = "compact"
  /\ LET lines == Written(devices[With(o.id)])
     IN  \E n \in DOMAIN lines :
           \E end \in {<<>>} \cup {<<f>> : f \in Fragments(lines[n])} :
             files' = PutFile(files, o.id, SubSeq(lines, 1, n - 1) \o end)
  /\ torn' = TRUE
  /\ UNCHANGED <<labels, devices, written, cut>>

CutLabels(o) ==
  /\ o.op = "labels"
  /\ labels' = <<>> /\ cut' = TRUE
  /\ UNCHANGED <<files, devices, written, torn>>

FailStep ==
  /\ up /\ script # <<>> /\ Head(script).op \in MayFail
  /\ masterSpent.faults < MaxFaults /\ MasterSpend("faults")
  /\ LET o == Head(script)
     IN  NotWritten(o) \/ CutLine(o) \/ CutCompaction(o) \/ CutLabels(o)
  /\ script' = Tail(script)
  /\ UNCHANGED <<nextId, up, recorded, pruned, covered>>

\* The process ends, perhaps in the middle of a call.
Crash ==
  /\ up /\ masterSpent.crashes < MaxCrashes /\ MasterSpend("crashes")
  /\ up' = FALSE /\ devices' = <<>> /\ nextId' = 1 /\ script' = <<>>
  /\ torn' = (torn \/ script # <<>>)
  /\ UNCHANGED <<files, labels, recorded, written, pruned, covered, cut>>

MasterNext ==
  \/ Load \/ Record
  \/ \E k \in DOMAIN devices, l \in Label : SetEnrolment(k, l)
  \/ \E a, b \in DOMAIN devices : Merge(a, b)
  \/ FileStep \/ FailStep \/ Crash

MasterSpec == MasterInit /\ [][MasterNext]_masterVars

-----------------------------------------------------------------------------
(* What should hold *)

Trimmed(d) == [d EXCEPT !.readings = Newest(@, MaxKept)]

\* Between calls, if none was cut short, a restart brings back what is in memory:
\* every device with its first sighting, its label and its recent readings,
\* whatever was recorded, compacted, merged, labelled, or failed to be labelled; all but the
\* labels if their file was cut short and they were not saved again since.
RestartKeepsAll ==
  (Idle /\ ~torn) =>
    LET back == LoadedDevices(files, labels)
        shown == {Trimmed(d) : d \in ToSet(devices)}
    IN  /\ ToSet(back) = IF cut THEN {[d EXCEPT !.label = Unreviewed] : d \in shown} ELSE shown
        /\ Len(back) = Len(devices)
        /\ DOMAIN labels \subseteq {d.id : d \in ToSet(devices)}

\* A reading that could once be read from a file is never lost but to the cap: through
\* compaction and merging, wherever a crash cuts them, and after a line that was cut short,
\* some file a restart would load has it.
ReadingsKept ==
  \A r \in written \ pruned : \E f \in Loadable(files) : Holds(files[f], r)

\* A device carries a label only if the operator gave it to the emitter of one of
\* the device's readings: ids are not reused for a device with a label.
LabelsAreGiven ==
  ~torn => \A k \in DOMAIN devices :
    devices[k].label = Unreviewed \/
      \E r \in ToSet(devices[k].readings) : <<devices[k].label, r>> \in covered

\* The list survives restarts, crashes and failing writes with the readings and the
\* labels it was given, and with no others.
ListSurvives == RestartKeepsAll /\ ReadingsKept /\ LabelsAreGiven
=============================================================================
