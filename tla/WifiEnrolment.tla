---------------------------- MODULE WifiEnrolment ----------------------------
(***************************************************************************)
(* The Wi-Fi emitter store: the list of devices with one append-only file  *)
(* each (wifi_master.cpp) and the operator's enrolment of them with one    *)
(* replaced file each (wifi_enrolment.cpp), written by one worker thread   *)
(* that takes captures and operator commands from a queue.                 *)
(*                                                                         *)
(* The machine may stop at any step.  What was flushed (fsync) survives;   *)
(* of a device file any longer part may, its last line perhaps torn.  A    *)
(* device is its address, an enrolment its policy: what is measured of a   *)
(* device, its windows and references are left out.                        *)
(***************************************************************************)
EXTENDS Naturals, Sequences, FiniteSets

CONSTANTS
  WeKeys,        \* addresses
  WeQueue,       \* kMaxJobs
  WeReserve,     \* queue places kept for commands (8)
  WeCompactAt,   \* records after which a device file is rewritten
  WeMaxJobs, WeMaxFaults, WeMaxStarts  \* bounds: jobs; failed writes; runs

ASSUME WifiEnrolmentAssumption ==
  /\ IsFiniteSet(WeKeys) /\ WeQueue \in Nat \ {0}
  /\ {WeReserve, WeCompactAt, WeMaxJobs, WeMaxFaults, WeMaxStarts} \subseteq Nat

VARIABLES
  weBase,      \* device files: their lines, how many are flushed; history: rewritten
  weEnrol,     \* enrolment files: content, and the contents a stop may leave
  weAlive,     \* "off", "on", "stopping": the process, and stopping_
  weDevices,   \* devices_
  weStates,    \* states_: the policy per device; corrupt keeps a bad file
  weError,     \* storage_error()
  weJobs, weJob, weStep,  \* jobs_; the job at work, and its next step
  weChanged,   \* changed: what process() has yet to save
  weTaken, weFaults, weStarts,
  weAnswered   \* history: policies the answers given allow, per device

weFiles == <<weBase, weEnrol>>
weMemory == <<weDevices, weStates, weError>>
weWork == <<weJob, weStep, weChanged>>
weBounds == <<weTaken, weFaults, weStarts>>
weVars == <<weFiles, weAlive, weMemory, weJobs, weWork, weBounds, weAnswered>>

Policies == {"unreviewed", "acknowledged", "approved", "disallowed"}
NoJob == [kind |-> "none", keys |-> {}, policy |-> "none"]
CommandFor(k, p) == [kind |-> "command", keys |-> {k}, policy |-> p]
BatchOf(K) == [kind |-> "batch", keys |-> K, policy |-> "none"]
KeyOf(job) == CHOOSE k \in job.keys : TRUE

WeInit ==
  /\ weBase = [k \in WeKeys |-> [lines |-> <<>>, flushed |-> 0, rewritten |-> "no"]]
  /\ weEnrol = [k \in WeKeys |-> [now |-> "none", may |-> {"none"}]]
  /\ weAlive = "off" /\ weDevices = {} /\ weStates = [k \in {} |-> "unreviewed"]
  /\ weError = FALSE /\ weJobs = <<>> /\ weJob = NoJob /\ weStep = "wait" /\ weChanged = {}
  /\ weTaken = 0 /\ weFaults = 0 /\ weStarts = 0
  /\ weAnswered = [k \in WeKeys |-> {"unreviewed"}]

MayFail == weFaults < WeMaxFaults

-----------------------------------------------------------------------------
(* Start, stop, and the machine stopping *)

\* load_all_devices: a file counts with its first line whole and a record.
Loads(lines) == lines # <<>> /\ lines[1] = "meta" /\ \E i \in DOMAIN lines : lines[i] = "seen"
Malformed(lines) ==
  \E i \in DOMAIN lines : lines[i] # IF i = 1 THEN "meta" ELSE "seen"

\* The constructors of both lists, and the worker's start.
WeStart ==
  /\ weAlive = "off" /\ weStarts < WeMaxStarts
  /\ weStarts' = weStarts + 1 /\ weAlive' = "on"
  /\ weDevices' = {k \in WeKeys : Loads(weBase[k].lines)}
  /\ weStates' = [k \in {d \in WeKeys : Loads(weBase[d].lines)} |->
                    IF weEnrol[k].now = "none" THEN "unreviewed" ELSE weEnrol[k].now]
  /\ weError' = \E k \in WeKeys : Malformed(weBase[k].lines)
  /\ weJobs' = <<>> /\ weJob' = NoJob /\ weStep' = "wait" /\ weChanged' = {}
  /\ UNCHANGED <<weFiles, weTaken, weFaults, weAnswered>>

\* The destructor: the worker still empties the queue.
WeStop ==
  /\ weAlive = "on" /\ weAlive' = "stopping"
  /\ UNCHANGED <<weFiles, weMemory, weJobs, weWork, weBounds, weAnswered>>

WeStopped ==
  /\ weAlive = "stopping" /\ weStep = "wait" /\ weJobs = <<>>
  /\ weAlive' = "off"
  /\ UNCHANGED <<weFiles, weMemory, weJobs, weWork, weBounds, weAnswered>>

\* A part of the lines at least as long as the flushed one; a line may be torn.
Survivors(b) ==
  LET part(lines) == [lines |-> lines, flushed |-> Len(lines),
                      rewritten |-> IF b.rewritten = "no" THEN "no" ELSE "stopped"] IN
  {part(SubSeq(b.lines, 1, n)) : n \in b.flushed..Len(b.lines)} \cup
  {part(Append(SubSeq(b.lines, 1, n), "torn")) : n \in b.flushed..(Len(b.lines) - 1)}

\* The machine stops: an unanswered command may or may not have been applied.
WeCrash ==
  /\ weAlive # "off"
  /\ weAlive' = "off"
  /\ weBase' \in {f \in [WeKeys -> UNION {Survivors(weBase[k]) : k \in WeKeys}] :
                   \A k \in WeKeys : f[k] \in Survivors(weBase[k])}
  /\ weEnrol' \in {f \in [WeKeys -> UNION {{[now |-> p, may |-> {p}] : p \in weEnrol[k].may} :
                                            k \in WeKeys}] :
                    \A k \in WeKeys : f[k].now \in weEnrol[k].may}
  /\ weAnswered' = IF weJob.kind # "command" THEN weAnswered
                   ELSE [weAnswered EXCEPT ![KeyOf(weJob)] = @ \cup {weJob.policy}]
  /\ UNCHANGED <<weMemory, weJobs, weWork, weBounds>>

\* A bad sector, an edit: the file of an enrolment cannot be read any more.
WeDamage ==
  /\ weAlive = "off" /\ MayFail /\ weFaults' = weFaults + 1
  /\ \E k \in WeKeys : weEnrol[k].now \in Policies
                       /\ weEnrol' = [weEnrol EXCEPT ![k] = [now |-> "corrupt", may |-> {"corrupt"}]]
  /\ UNCHANGED <<weBase, weAlive, weMemory, weJobs, weWork, weTaken, weStarts, weAnswered>>

-----------------------------------------------------------------------------
(* The queue *)

\* submit() of a capture; a full queue refuses it, and counts it.
WeSubmit ==
  /\ weAlive = "on" /\ weTaken < WeMaxJobs /\ Len(weJobs) < WeQueue
  /\ \E K \in SUBSET WeKeys : K # {} /\ weJobs' = Append(weJobs, BatchOf(K))
  /\ weTaken' = weTaken + 1
  /\ UNCHANGED <<weFiles, weAlive, weMemory, weWork, weFaults, weStarts, weAnswered>>

\* command() of the operator.
WeCommand ==
  /\ weAlive = "on" /\ weTaken < WeMaxJobs /\ Len(weJobs) < WeQueue + WeReserve
  /\ \E k \in WeKeys, p \in Policies \ {"unreviewed"} : weJobs' = Append(weJobs, CommandFor(k, p))
  /\ weTaken' = weTaken + 1
  /\ UNCHANGED <<weFiles, weAlive, weMemory, weWork, weFaults, weStarts, weAnswered>>

WeTake ==
  /\ weAlive # "off" /\ weStep = "wait" /\ weJobs # <<>>
  /\ weJob' = Head(weJobs) /\ weJobs' = Tail(weJobs)
  /\ weStep' = IF Head(weJobs).kind = "batch" THEN "record" ELSE "check"
  /\ weChanged' = {}
  /\ UNCHANGED <<weFiles, weAlive, weMemory, weBounds, weAnswered>>

-----------------------------------------------------------------------------
(* process(): the observations of a capture, then the saves *)

Longer(k, line) == [weBase[k] EXCEPT !.lines = Append(@, line)]

\* append_line: written, or the disk is full, which the device does not show.
WeAppend(k, line, after) ==
  \/ weBase' = [weBase EXCEPT ![k] = after] /\ UNCHANGED <<weError, weFaults>>
  \/ /\ MayFail /\ weFaults' = weFaults + 1
     /\ weError' = TRUE
     /\ weBase' \in {weBase} \cup {[weBase EXCEPT ![k] = Longer(k, l)] : l \in {line, "torn"}}

\* A new device's first line goes out on its own.
WeName ==
  /\ weAlive # "off" /\ weStep = "record"
  /\ \E k \in weJob.keys \ weDevices :
       /\ WeAppend(k, "meta", Longer(k, "meta"))
       /\ weDevices' = weDevices \cup {k}
  /\ UNCHANGED <<weEnrol, weAlive, weStates, weJobs, weWork, weTaken, weStarts, weAnswered>>

\* Defect: the rewritten file has the readings only.
CompactedNoIdentity(b) ==
  IF Len(b.lines) <= WeCompactAt THEN b
  ELSE [lines |-> <<"seen">>, flushed |-> 0,
        rewritten |-> IF b.rewritten = "stopped" THEN "stopped" ELSE "pending"]

\* compact_device_file: the new file replaces the old one, not yet flushed.
Compacted(b) ==
  IF Len(b.lines) <= WeCompactAt THEN b
  ELSE [lines |-> <<"meta", "seen">>, flushed |-> 0,
        rewritten |-> IF b.rewritten = "stopped" THEN "stopped" ELSE "pending"]

\* record_transmitter or record_identity, then the state of a new device.
WeRecord ==
  /\ weAlive # "off" /\ weStep = "record"
  /\ \E k \in weJob.keys \cap weDevices :
       /\ WeAppend(k, "seen", Compacted(Longer(k, "seen")))
       /\ weStates' = [d \in DOMAIN weStates \cup {k} |->
                         IF d \in DOMAIN weStates THEN weStates[d] ELSE "unreviewed"]
       /\ weChanged' = weChanged \cup {k}
       /\ weJob' = [weJob EXCEPT !.keys = @ \ {k}]
  /\ UNCHANGED <<weEnrol, weAlive, weDevices, weJobs, weStep, weTaken, weStarts, weAnswered>>

\* No room for another device, an address that is none, a failed backup.
WeSkip ==
  /\ weAlive # "off" /\ weStep = "record" /\ MayFail
  /\ \E k \in weJob.keys : weJob' = [weJob EXCEPT !.keys = @ \ {k}]
  /\ weFaults' = weFaults + 1
  /\ weError' \in {weError, TRUE}
  /\ UNCHANGED <<weFiles, weAlive, weDevices, weStates, weJobs, weStep, weChanged, weTaken, weStarts,
                 weAnswered>>

WeRecorded ==
  /\ weAlive # "off" /\ weStep = "record" /\ weJob.keys = {}
  /\ weStep' = IF weChanged = {} THEN "wait" ELSE "save"
  /\ UNCHANGED <<weFiles, weAlive, weMemory, weJobs, weJob, weChanged, weBounds, weAnswered>>

-----------------------------------------------------------------------------
(* save(): flush the device file, replace the enrolment, flush the directory *)

\* What is being saved: the states in turn, or the command's edited copy.
Saving ==
  IF weJob.kind = "batch" THEN CHOOSE k \in weChanged : TRUE ELSE KeyOf(weJob)
NewPolicy == IF weJob.kind = "batch" THEN weStates[Saving] ELSE weJob.policy

AnswerWith(set) == weAnswered' = IF weJob.kind = "batch" THEN weAnswered
                                 ELSE [weAnswered EXCEPT ![Saving] = set]
\* The end of one save: the next one, or the job is done.
SaveEnds ==
  /\ weChanged' = weChanged \ {Saving}
  /\ IF weChanged \ {Saving} = {} THEN weStep' = "wait" /\ weJob' = NoJob
     ELSE weStep' = "save" /\ UNCHANGED weJob
Commits(policy) == weStates' = [weStates EXCEPT ![Saving] = policy]

\* apply(): unknown device, storage error or unreadable record refuse.
WeRefuse ==
  /\ weAlive # "off" /\ weStep = "check"
  /\ \/ KeyOf(weJob) \notin {k \in DOMAIN weStates : weStates[k] # "corrupt"}
     \/ weError
  /\ weStep' = "wait" /\ weJob' = NoJob
  /\ UNCHANGED <<weFiles, weAlive, weMemory, weJobs, weChanged, weBounds, weAnswered>>

\* "acknowledge" leaves a reviewed device as it is, "unapprove" does not.
WeApply ==
  /\ weAlive # "off" /\ weStep = "check"
  /\ KeyOf(weJob) \in {k \in DOMAIN weStates : weStates[k] # "corrupt"} /\ ~weError
  /\ \/ UNCHANGED weJob
     \/ /\ weJob.policy = "acknowledged" /\ weStates[KeyOf(weJob)] # "unreviewed"
        /\ weJob' = [weJob EXCEPT !.policy = weStates[KeyOf(weJob)]]
  /\ weStep' = "save" /\ weChanged' = {}
  /\ UNCHANGED <<weFiles, weAlive, weMemory, weJobs, weBounds, weAnswered>>

\* An unreadable record is preserved, another save goes on.
WeSaveCorrupt ==
  /\ weAlive # "off" /\ weStep = "save" /\ NewPolicy = "corrupt"
  /\ SaveEnds
  /\ UNCHANGED <<weFiles, weAlive, weMemory, weJobs, weBounds, weAnswered>>

\* Defect: the enrolment is replaced without flushing the device file.
WeSaveUnflushed ==
  /\ weAlive # "off" /\ weStep = "save" /\ NewPolicy # "corrupt"
  /\ weStep' = "replace"
  /\ UNCHANGED <<weFiles, weAlive, weMemory, weJobs, weJob, weChanged, weBounds, weAnswered>>

\* The device file must be durable first.
WeSaveFlush ==
  /\ weAlive # "off" /\ weStep = "save" /\ NewPolicy # "corrupt"
  /\ weBase' = [weBase EXCEPT ![Saving].flushed = Len(weBase[Saving].lines),
                              ![Saving].rewritten = IF @ = "pending" THEN "no" ELSE @]
  /\ weStep' = "replace"
  /\ UNCHANGED <<weEnrol, weAlive, weMemory, weJobs, weJob, weChanged, weBounds, weAnswered>>

\* The flush of the device file or the write of the new file fails: nothing
\* is replaced, the edited copy is dropped.
WeSaveFails ==
  /\ weAlive # "off" /\ weStep \in {"save", "replace"} /\ NewPolicy # "corrupt" /\ MayFail
  /\ weFaults' = weFaults + 1
  /\ SaveEnds
  /\ UNCHANGED <<weFiles, weAlive, weMemory, weJobs, weTaken, weStarts, weAnswered>>

\* write_atomic: renamed; the directory is not yet flushed.
WeReplace ==
  /\ weAlive # "off" /\ weStep = "replace"
  /\ weEnrol' = [weEnrol EXCEPT ![Saving] = [now |-> NewPolicy, may |-> @.may \cup {NewPolicy}]]
  /\ weStep' = "confirm"
  /\ UNCHANGED <<weBase, weAlive, weMemory, weJobs, weJob, weChanged, weBounds, weAnswered>>

\* "Saved": durable.
WeConfirm ==
  /\ weAlive # "off" /\ weStep = "confirm"
  /\ weEnrol' = [weEnrol EXCEPT ![Saving].may = {NewPolicy}]
  /\ Commits(NewPolicy) /\ AnswerWith({NewPolicy})
  /\ SaveEnds
  /\ UNCHANGED <<weBase, weAlive, weDevices, weError, weJobs, weBounds>>

\* Defect: an unconfirmed change is dropped, but the file has it.
WeUnconfirmedDropped ==
  /\ weAlive # "off" /\ weStep = "confirm" /\ MayFail
  /\ weFaults' = weFaults + 1
  /\ UNCHANGED <<weStates, weAnswered>>
  /\ SaveEnds
  /\ UNCHANGED <<weFiles, weAlive, weDevices, weError, weJobs, weTaken, weStarts>>

\* "Applied, durability UNCONFIRMED": the directory's flush failed.
WeUnconfirmed ==
  /\ weAlive # "off" /\ weStep = "confirm" /\ MayFail
  /\ weFaults' = weFaults + 1
  /\ Commits(NewPolicy) /\ AnswerWith(weAnswered[Saving] \cup {NewPolicy})
  /\ SaveEnds
  /\ UNCHANGED <<weFiles, weAlive, weDevices, weError, weJobs, weTaken, weStarts>>

WeWorker ==
  \/ WeTake \/ WeName \/ WeRecord \/ WeRecorded \/ WeRefuse \/ WeApply
  \/ WeSaveCorrupt \/ WeSaveFlush \/ WeReplace \/ WeConfirm

WeNext ==
  \/ WeStart \/ WeStop \/ WeStopped \/ WeCrash \/ WeDamage
  \/ WeSubmit \/ WeCommand \/ WeWorker
  \/ WeSkip \/ WeSaveFails \/ WeUnconfirmed

WeSpec == WeInit /\ [][WeNext]_weVars

-----------------------------------------------------------------------------
(* Properties *)

\* The program never shows a policy the operator was not promised: whatever
\* the crashes, failed writes and captures in between, what memory and file
\* hold of a device is the last policy answered as saved, or one of those
\* answered as unconfirmed since; an unreadable file is kept and shown as
\* such (apply, save, the constructor, wifi_enrolment.cpp).  A device is left
\* out once the machine stopped between the rewriting of its file and the next
\* flush: compact_device_file does not flush what it renames.
WeAnswersHold ==
  weAlive # "off" =>
    \A k \in DOMAIN weStates :
      weBase[k].rewritten # "stopped" => weStates[k] \in weAnswered[k] \cup {"corrupt"}

\* "Policy acknowledgement must not outlive its underlying identity on
\* crash" (wifi_enrolment.cpp:172): whenever the machine stops, a device
\* whose enrolment file may hold a reviewed policy still loads.  It does, but
\* from the rewriting of the device's file until its next flush.
WePolicyHasIdentity ==
  \A k \in WeKeys :
    /\ weEnrol[k].may \cap {"acknowledged", "approved", "disallowed"} # {}
    /\ weBase[k].rewritten = "no"
    => \A b \in Survivors(weBase[k]) : Loads(b.lines)

\* What the operator sees of a device and what a restart finds of it agree with
\* what was answered (wifi_enrolment.cpp, apply and save).
WeSound == WeAnswersHold /\ WePolicyHasIdentity
=============================================================================
