# Verification of the RF emitter monitor

TLA+ models, model-checking runs and machine-checked proofs for the program in
`src/` (C++17: a receive-only monitor of sub-GHz, LoRa, short-range and Wi-Fi
emitters on a USRP B210 or X310). File names below are relative to `src/src/`.

The subject is the program's *control* — threads, queues, locks, child processes,
saved files, restarts, counters — and the rules that draw conclusions from what
was received. Of the signal processing, the two LoRa decoders are modelled from
symbols upwards; for the rest, what it finds in a capture is a choice the models
leave open.

## 1. The system

### 1.1 Components

| Component (source) | State it keeps | Operations | Modelled in |
|---|---|---|---|
| Ordered lane (`serial_lane.hpp`) | queue, running job, closing flag | `push`, `try_push`, `wait_idle`, `close`, worker loop | `SerialLane`, `OrderedWorker` |
| Scan thread (`scanner.cpp`, `run`, `start`, `stop`) | active mode, cycle, lane, LoRa task, RX failure streak, capture-save request | one cycle per round in a band mode; mode change; reconnect; stop | `Scanner` |
| Coordinated mode (`run_coordinated`, `coordinated_schedule.hpp`) | schedule version, cursors, two lanes, visit ledger, pending sub-GHz detections, captures with a detector | plan and run a cycle of visits; abandon; commit; a detector's answer; freshness verdict | `Coordinated` |
| Wi-Fi security monitor (`security/wifi_security_monitor.cpp`) | bounded queue, drop counters, consumer thread, saved state | submit, command, start, stop, one consumer round | `SecurityMonitor` |
| Baseline and flood hold (`security/wifi_security_baseline.cpp`, `..._flood.cpp`) | learning windows, freeze, hold, pending counts | frame, capture, loss, freeze, reset, export, import | `BaselineStore` |
| Incidents (`security/wifi_security_incidents.cpp`) | incidents, next id, quiet time | observe, quiet captures, close, evict, save, export, import | `IncidentStore` |
| Replay rules (`security/wifi_security_beacon_replay.cpp`, `..._transactions.cpp`) | pending frames, history per link and profile | frame, interrupt, finish a capture | `WifiReplay` |
| RF-identity rule (`security/wifi_security_rf_identity.cpp`) | pending frames, readings per address, device | frame, interrupt, finish a capture | `RfIdentity` |
| Wi-Fi emitter list and enrolment (`wifi_master.cpp`, `wifi_enrolment.cpp`) | queue, writer thread, one file per device, one per policy | submit, command, writer's round, save, compact, load, start, stop | `WifiEnrolment` |
| Cyclostationary shadow worker (`cyclostationary/shadow_worker.cpp`, `process_client.cpp`) | slots, epoch, child process, fault budget | enable, submit, invalidate, analyse, restart the child | `ShadowWorker` |
| ML inference client (`ml_inference.cpp`) | generation, source, one pending job, thread, child | start, stop, invalidate, observe, the thread | `MlInference` |
| Drone decoder (`drones/addon.hpp`, `drones/detector.cpp`) | queue, continuity number, thread, child | observe, start, stop, the thread | `DroneDetector` |
| Short-range monitor (`shortrange/monitor.cpp`, `ble.cpp`) | byte budget, queue, worker, senders and their links | observe, decode, link, evict, clear | `ShortRange` |
| LoRa rules (`security/lora_rules.cpp`) | per-device counters, nonces, RF tallies, incidents | ingest a frame, merge clusters, operator acts | `LoraRules` |
| LoRa security monitor (`security/lora_security.cpp`) | queue, losses, receiver's timeline | submit, consumer's round, start, stop | `LoraSecurity` |
| LoRa emitter list (`lora_master.cpp`) | devices, one file per device, labels file | load, record, compact, label, merge | `LoraMaster` |
| LoRa session (`scanner.cpp`, `lora_observation.cpp`) | device list, packet log | tag images, group, commit a capture, merge | `LoraSession` |
| LoRa channel plan (`lora_channel_plan.hpp`) | none | normalise, place a centre, plan | `LoraPlan` |
| Emitter registries (`registry.cpp`) | devices of one band, fingerprints | update with a cycle's detections | `Registry` |
| LoRa laboratory codec (`lora_phy_std.cpp`) | none | modulate, demodulate | `LoraBits`, `LoraCodec` |
| LoRa production receiver (`lora_receiver.cpp`) | none | search a capture, decode, both polarities | `LoraBits`, `LoraReceiver` |
| Test bench (`bench/bench_capture.cpp`, `bench/bench_tx.cpp`) | thread, settings with dirty flags, request to send | connect, disconnect, set, the radio thread | `BenchRadio` |
| Frame parsers, demodulators of Wi-Fi, BLE and FSK, cyclostationary analysis, radio wrapper, device inventory, GUI | see section 5 | | not modelled |

### 1.2 How they interact

The scan thread captures; in the Wi-Fi modes it hands a step's captures to a
`SerialLane` (`push` waits for room), in the LoRa mode to one `std::async` task
that decodes capture *n* while capture *n+1* is taken, in the coordinated mode to
two lanes of its own (`try_push` drops). Lane jobs and the scan thread submit to
monitors with queues of their own — Wi-Fi security, enrolment, LoRa security,
short-range, drones, ML, the shadow worker — none of which ever makes the
submitter wait: each is bounded and drops, and each counts what it drops. Three
of them keep a child process they launch, time out, kill and replace. The Wi-Fi
monitor's consumer owns the learning state, the replay and RF-identity rules and
the incidents, and saves them; the LoRa rules, list and session are changed by
the task that commits a capture. The GUI thread starts and stops the scanner,
changes mode and schedule, asks for a capture to be saved, sends commands to the
monitors, switches workers on and off, labels and merges emitters. Status goes
back through snapshots under a mutex.

### 1.3 What is hard here

* Concurrency: the lane's two condition variables; flags stored without the
  mutex that the waiting thread tests under; mode changes and stop while a lane,
  a LoRa task or two coordinated lanes are at work; queues fed by several
  threads; a merge by the operator in the middle of a commit.
* Loss: what is refused by a full queue or never decoded must not look like
  quiet air, complete coverage, a clean baseline, or an unbroken stretch that a
  replay or a second transmitter can be concluded from.
* Staleness: a result computed for a selection, source or receiver that has
  changed since must not be shown, joined or compared.
* Order: captures are processed later than they were taken, channels of one
  wide capture are committed by frequency and the frames of a channel by decoder
  hypothesis, losses are noted before older items.
* Child processes that hang, die, answer late or lie.
* Crashes and failing writes: the saved security state, incident ids, the
  one-file-per-device lists, labels and policies.
* Wrapping counters, bounded maps, eviction, limits met exactly.
* Liveness: stop, `wait_idle`, `close`, enable must return; drops must surface;
  accepted work must be served.

`PROJECT.json` lists each hazard at its line with the properties that would
catch it, and with a note where a case of it is left out.

## 2. The modules

Every module has one action per operation or critical section of the code.
A push into a mutex-protected queue is one step; what the code does with the
mutex released is a step of its own. Names are the source's names where TLA+
allows; in the modules that are composed by EXTENDS they carry a prefix (`sl`, `sw`,
`ml`, `dt`, `br`, `wr`, `ri`, `we`, `ls`, `ss`, `lp`, `rg`, `sr`, `cd`, `rv`, `co`). A
definition whose comment starts with "Defect:" is a plausible mistake in the
code; it is not used by the specification, and each property is known to fail
when the definition after it is replaced by the defect.

### 2.1 Scanning

**`OrderedWorker`** is what the lane promises: jobs start in the order they were
accepted, one at a time, each is completed, and a closed worker stops when all
is done. **`SerialLane`** is the class itself, at the granularity of its critical
sections: `push` blocks, is admitted, unlocks and then notifies; the worker
takes a job, runs it, destroys it and re-locks to count it. Whether each
thread sleeps on a condition variable is part of the state, so a lost wake-up
is visible. One producer, as in the program.

**`Scanner`** is `run()` with the Wi-Fi lane as an `OrderedWorker` (the lane is
shown to implement it, so the scan thread is checked against the promise), the
LoRa task, and the operator. The lane exists only at a sample rate it can keep
up with and is closed in the middle of a step when the rate turns out otherwise.
`connect_sdr` with all attempts failing is a constant of the model, `GivesUp`.
**`Coordinated`** is `run_coordinated`: a schedule with a version the operator
changes, a conflict, the whole-cycle plan that moves all cursors first, visits of
one unit of time, two lanes of at most two jobs, and the verdict of `freshness`
about one emitter. Its captures go from the lane to a detector with a queue and a
thread of its own, which drops what it has no room for; how long a capture waits
in the lane or with the detector is not bounded, as it is not in the code.

### 2.2 Wi-Fi security and enrolment

**`BaselineStore`** is operators only: the learning window and the flood rule as
functions of records. **`SecurityMonitor`** extends it with the threads. The
per-metric counts of a capture are one number; the byte limit of the queue is a
refusal that may happen whenever something is queued. `stop` is three steps, as
`Scanner::stop` does them. A crash loses everything but the saved file.

**`IncidentStore`** drives one store capture by capture: observations coalesce,
captures that cover a thing without observing it count as quiet, a full store
evicts, the state is saved, the process crashes or restarts over the file. What
the rules of one capture report comes in any order, each thing once.

**`WifiReplay`** has one access point and one client on the air; frames and whole
capture records may be lost, the radio may reconnect, lose a session or pause.
Every frame carries the stretch of unbroken observation it belongs to, which the
code has not: the property compares the rules' conclusions with it. Sequence
numbers have 12 bits and are compared modulo 4096, as the code does; the client
may step forward by less than half of that, over the wrap too.
**`RfIdentity`** has one address used by its owner, a forger of disconnects or a
clone; the transmitter behind each frame is known to the model only. Thresholds in
ppm are the code's; the numbers of frames asked for and the windows are small
constants, time is counted in captures, and the eviction of the address by others
is a fault that may happen. A reconnection to the same device does not
interrupt the rule; another device has another carrier offset.

**`WifiEnrolment`** has the queue with its reserve for commands, the writer, and
the files: of a device file only what was flushed survives a stop of the machine,
of what was not, any prefix, the last line perhaps torn. A policy file is
replaced as a whole. A capture appends, flushes and counts in the order of the
code, and each step may fail. A device file whose first line is torn or doubled
is not loaded, and the program then refuses every command.

### 2.3 Workers with a thread or a child process of their own

**`ShadowWorker`**, **`MlInference`**, **`DroneDetector`**: the side that offers
captures without waiting, the operator's calls, and the thread with its child. In
the first two, stores into atomics without the mutex are steps of their own. A
child may answer, answer to something else, hang, die, or refuse to start.
**`BenchRadio`** is the radio thread of either side of the test bench, with its
six attempts to connect, the settings it takes over chunk by chunk, and the GUI
that starts it, sets it and joins it.

### 2.4 LoRa and short range

**`LoraRules`** puts the rule engine against devices that send, repeat, join and
restart. Frames are missed (never more than `MaxGap` in a row), heard twice, or
heard in another channel of the same capture. A capture of length `Listen` hears
any number of frames, on several channels and at several rates (bandwidth and
spreading factor); when it ends they are committed as `commit_lora_analysis` does:
channel by channel, within a channel hypothesis by hypothesis, and only within a
hypothesis in order of time. The bounded maps evict as in the
code. **`LoraSecurity`** is the evidence monitor: a batch is its device time, and
what must be accounted for is every batch and every unit of time.
**`LoraMaster`** separates memory from files. A call changes memory under the
mutex and leaves a script of file operations, each of which a crash may precede
and some of which may fail: nothing is written, or the disk is full in the middle. Then
a line stays without its end and takes up the next one appended, a
compaction replaces a file by its first part, and a labels file cut short
replaces the good one without the call noticing, since `save_enrolment` tests the
stream before it is flushed. A restart reads the files back as `load_all` and
`load_enrolment` do, including what they skip or cannot parse.
**`LoraSession`** commits captures row by row: images of both polarities and of
the mirrored channel, two hypotheses of one transmission, and a merge that takes
the locks of list and session one after the other. **`LoraPlan`** is the pure
planning over lists of frequencies: what it returns is compared with the smallest
plan there is. Its centres are tried on whole kHz, as the code does for bands
under 3 MHz; wider bands are stepped coarser there and are not instantiated.
**`Registry`** is `update_cycle`, **`ShortRange`** the queue, the worker and the
list of senders with the links between changing private addresses.

### 2.5 LoRa decoders

**`LoraBits`** has what both decoders share: Gray code, the diagonal interleaver,
Hamming codes, header and CRC on bit vectors. **`LoraCodec`** is `modulate` and
`demodulate` of the laboratory codec; **`LoraReceiver`** the production receiver
fed by the sender the repository's test vectors come from. A symbol is the bin of
its dechirped peak (in the receiver, in sixteenths of a bin); windows begin where
symbols do. The air shifts, drifts, disturbs and cuts.

### 2.6 Composition for TLC

Components that share no state are checked in one run by a *sum*: an `MC` module
extends them all, a variable `moves` names the part that moves in this behaviour,
and the others stay in one initial state (`MCWorkers`, `MCWifi`, `MCLora`,
`MCScanThread`, `MCLaneDecoders`; `MCScanner`, `MCSecurityMonitor`, `MCLoraRules`
and `MCRegistry` hold constants of one part). The state space is the sum, not the product,
so nothing is gained or lost against separate runs; the parts really share
nothing, or, for `MCScanThread`, never run at the same time. Where components do
interact they are composed: the scan thread with the abstract lane, the monitor
with its learning state, the enrolment writer with the emitter list it writes.

## 3. The runs

All bounds are constants named in the modules (`Budgets`, `MaxX`), in guards, so
no behaviour is cut by an anonymous constraint.

| Run | Properties | States | Bounds, and why they are enough |
|---|---|---|---|
| `lane_decoders` | `NoLostWakeup` `CloseDrains` `ReturnsWhenPromised` `CallersReturn` `ImplementsOrderedWorker`; `DropsResurface`; `CdDelivers`; `RvReadsFrames` | 68 095 | Lane: 4 jobs with limits 1, 2 and 3 mixed: a producer can be blocked, admitted and blocked again, and `close` can meet 0, 1 or more jobs; the proofs cover any number. Drops of the security monitor: one lane, two captures, one and two drops. Codec: spreading factors 5 to 8, where drift and synchronisation words are closest, every coding rate, both LDRO modes, with and without CRC; the preamble's bin moves up, down, there and back, by up to three; one or two wrong symbols; cuts. Receiver: up to two frames in a capture, of either polarity, with and without LDRO and CRC, damaged in eight ways, adjacent or apart, with drift in both directions. |
| `security` | `DropsAccounted` `StopDrains` `LearnedClean` `QuietReleases` | 1 550 640 | A queue of one item and one of headroom is full at once; five budgets put two captures against a command, a crash, a stop with a restart, three captures, and two lanes. Deadlock is checked; the two lanes are symmetric. |
| `workers` | `SwSafe` `SwGivesUp` `SwServed`; `MlOneSource` `MlServed`; `DtJoinsUnbroken` `DtStops`; `BrGainTrue` `BrServes` | 438 428 | Two slots and three captures fill the shadow worker and displace a slot; one restart allowed and a child recycled after two requests reach the end of the budget and a recycling. Two sources, three captures and two starts of the ML client. A queue of one and captures of two messages drop, omit and join. Bench: two connects of two attempts, three clicks on settings or the send button, one period of the repetition. |
| `wifi` | `IncidentsAreOne` `OpenIncidentsEnd`; `WrReplaysReal`; `RiVerdictsRight`; `WeSound` | 1 912 373 | Incidents: two things under different profiles, a store of two, three opened, a save, a crash and a restart. Replay: four captures over two channels, histories of three, sequence numbers on both sides of the wrap and the farthest step forward there is, one fault anywhere. RF identity: five frames, thresholds of two, one fault. Enrolment: one device, four jobs, three starts, a crash anywhere, a file rewritten after two records, one failing write. |
| `lora` | `AlarmsAreReal` `BooksAddUp`; `LsCoverageTrue`; `ListSurvives`; `SsSessionTrue`; `LpPlanSound`; `RgBestOfBucket`; `SrSound` | 1 473 283 | Rules: a counter of 8 values with 2 remembered wraps within 9 frames; nine budgets, one per way of going wrong, five of them with two or three frames in one capture, over two channels and two rates. Where a capture may swap frames at most one is missed, so that a swap looks like less than half of the counter's space, as it does in the code. Monitor: queue of two, two channels per capture, two sessions, one step back of the clock. List: caps of 2 and 3 compact within 4 readings; two crashes, a reading or label save not written or cut short. Session: lists of two fill and evict. Plan: all lists of up to four out of nine frequencies, so that edges, centre and mirror lie on, inside and outside each limit. Registry: three cycles of up to two detections in any order. Short range: three addresses for a list of two, so every new one evicts. |
| `scan_thread` | `ResultsInOrder` `NeverTogether` `SaveServed` `CyclesAddUp` `NotReacquiredIsFounded` `StopReturns` | 1 015 182 | `run()`: six budgets with cycles of 2 and 3 steps, each mode change, two runs of the object, two LoRa listens with a save request. Coordinated: two schedules (four visits to three Wi-Fi centres a cycle, so one repeats; a sweep of two cycles with a disabled slot), five visits, lanes that lag until they are full, a grace of two visits, a detector with room for two captures, one pause, one conflict. |
| `lora_channels` | `RegressionIsReal`, violated | | finding 1 |
| `lora_master_full` | `ReadingsKept`, violated | | finding 2 |
| `scanner_gives_up` | `HandleHeld`, violated | | finding 3 |
| `ml_restart` | `MlStarts`, violated | | finding 4 |
| `coordinated_verdict` | `NotReacquiredIsTrue`, violated | | finding 5 |
| `bench_restart` | `BrStaysUp`, violated | | finding 6 |

A property named above may be the conjunction of named parts that a reader finds in
the module (`AlarmsAreReal` of five rules, `ListSurvives` of three facts about
files, `ResultsInOrder` of what the lane, the LoRa task and the count promise). The
type invariants are stated in every module that is proved about and proved there;
they are not run.

### 3.1 Fairness

Liveness is checked only where the scheduling justifies it. Nothing is ever
assumed about when captures come or the operator acts.

* `SerialLane`: weak fairness of the worker's steps and of the producer's own
  steps (a running thread runs). The producer's re-checks after a wake-up are
  strongly fair: each needs the mutex that the worker takes and releases
  over and over, and the operating system lets a waiter have it eventually.
* `SecurityMonitor`: the consumer thread runs, a `stop` that was begun is
  carried through, and its publish interval (a timer) passes infinitely often.
* `Scanner`: the scan thread, the LoRa task, the lane and a `stop` that was begun
  go on. Captures end because the radio call has a timeout.
* `ShadowWorker`, `MlInference`, `DroneDetector`, `BenchRadio`: the threads and a
  call that was begun go on, weakly fair. A request to a child ends because its deadline ends it
  and kills the child, and waits of the drone decoder have time limits; the
  waits of the ML client do not, which is why it can be blocked (finding 4).
* The other modules have safety properties only.

Deadlock checking is off where a behaviour ends because its budget is used up.

### 3.2 What the runs show, and their limits

* A pushed job counts until it has been destroyed, so `push(job, 1)` really means
  that the previous IQ buffers are gone; nobody sleeps through a notification
  although `push` notifies outside the mutex.
* The Wi-Fi security monitor never learns from a window that lost anything it had
  decoded. A hold is released only by uninterrupted quiet.
  `DropsResurface` holds while the monitor runs; a push after the consumer's
  last round is counted and never reported (`wifi_security_monitor.hpp:9` claims
  more).
* `IncidentStore`: one open incident per thing and unique ids hold across saves
  and crashes. A second `start` of the *same* object imports the file into a store
  that still holds its incidents and duplicates them; the properties exempt that
  case by the count of restarts.
* `WifiReplay`: no replay is concluded across a break, with one fault at any
  point. That a newer counter is the higher one is said of beacons and handshakes
  only. A client's attempts were each sent after the one before, but each may go
  forward by nearly half of the 4096 numbers, so from the original to
  the newer one they may have wrapped or gone past half the range, and then the plain
  comparison of the two says nothing. `RfIdentity`: no owner alone is accused, and
  a forger or a clone with as many frames as the rule asks for, in the order it
  looks for, is found.
* `WifiEnrolment`: what the program shows of a policy is what it answered, across
  crashes and failing writes, and a reviewed policy always finds its device again,
  except between a compaction and the next flush: `compact_device_file`
  (`wifi_master.cpp:266`) renames a file it has not flushed. `WeSound`, which is
  both facts, exempts exactly that.
* `ShadowWorker`: nothing measured before a change of selection is shown,
  everything accepted is measured, discarded or still there, and the worker gives
  up only for faults of its children. `MlInference`: what is shown is of one
  source and one unbroken stretch. `MlForgotten`, which is not run, would be
  false: `invalidate()` moves the generation before it takes the mutex, so a
  capture observed before the call can be shown after it.
* `LoraRules`: no number of missed frames up to `MaxGap` makes a counter rule
  fire. With half of the counter space (32768 frames) missed in a row a device
  that never restarted does look restarted; `MaxGap` stays below it on purpose.
  Devices whose frames one capture committed in another order than they were sent
  are accused falsely of a counter that went backwards (finding 1); `AlarmsAreReal`
  excepts exactly those from that one rule, so it says that no such device is
  accused of a reused counter, a replay or a reused nonce for it, and that a swap
  which raised nothing in its own capture raises nothing in a later one. After join
  requests were swapped, the requests reported as a flood lie within the window and
  the length of a capture, instead of within the window.
* `LoraSecurity`: batches are accounted for and the unsampled time shown is never
  more than what was not taken in. `LsNeverSampled`, which is what
  `lora_gui.cpp:239` tells the operator, is not run and would be false: the loss
  is noted before older batches, and the time of a lost capture that *was*
  sampled is then shown as never sampled.
* `LoraMaster`: a crash between the line that names a device and its first reading
  leaves a file that is skipped on load, whose id is then given out again;
  `RestartKeepsAll` speaks of calls that ran to their end. A reading cut short by a
  full disk has no newline, so the next one joins its line (`lora_master.cpp:295`) and is
  lost with it or read with its fields; `ReadingsKept` speaks of readings that
  could once be read back. A label save cut short loses all labels on the next load
  though `set_enrolment` returned true (`lora_master.cpp:116`, against
  `lora_master.hpp:137`, "Persisted atomically before returning true"): TLC finds this
  without the exception `cut` that `RestartKeepsAll` makes for the labels until their
  next save. No run lets the line that names a device fail to be written; it would be
  the file skipped on load once more.
* `Registry`: two fingerprinted packets of one device in one cycle count as two
  cycles in `hits` (`registry.cpp:148`, against `registry.hpp:102`). It is an
  observation of one call, which no run checks.
* `LoraSession`: rows committed under an id taken before a merge stay in the log
  (`ssRaced`); of all other ids the property is shown.
* `Coordinated`: a visit counts as analysed once the lane has admitted its capture,
  and the panel waits a fixed grace of 2 s for the result; nothing bounds how long
  lane and detector take, and the detector may drop the capture.
  So "not reacquired" does not mean that somebody looked and did not find the emitter
  (`NotReacquiredIsTrue`, finding 5). What it does mean is `NotReacquiredIsFounded`: a
  later visit to its centre delivered all of its samples, the grace has passed, and
  its capture either was answered without the emitter, or waits, or was dropped;
  never does the verdict stand against an answer that has come, however late it came
  and whatever was dropped in between. A cycle
  given up for a conflict has moved the cursors past centres it never visited,
  contrary to the comment at `coordinated_schedule.hpp:184`; the part of
  `CyclesAddUp` about sweeps speaks of whole cycles.
* `LoraCodec`: `CdWhitening` in the cfg holds the positions of `whiten_seq` these
  packets reach that are 1. Left out of `CdDelivers`, and seen by TLC without the
  exceptions: at spreading factor 5 one bin of drift into the sync word is
  swallowed (the comment at `lora_phy_std.cpp:178` names a zero nibble only);
  downward drift fails the sync check unless it is skipped, as laboratory mode
  always does; and a reduced-rate packet whose header also passes at full rate is
  read at full rate.
* `LoraReceiver`: every readable frame is reported whatever surrounds it, but for
  `Free`: a frame cut within its header and followed at once by another takes the
  second's preamble for its own, and the search resumes after it
  (`lora_receiver.cpp:238`), against the intent of `tests/test_lora_receiver.cpp:79`.
  `Followable` states the drift the tracker can follow: the first data symbol
  comes 2.25 symbols after the reference, so a steady drift must stay under 0.89
  bins per symbol, not the 2 of `docs/LORA_RECEIVER_UPGRADE.md`; a wrong symbol
  whose residue reaches two bins moves the tracker with it.

### 3.3 Findings

1. `lora_channels`: a wide LoRa capture commits its channels in plan order, and the
   frames of a channel by bandwidth and spreading factor before time. Two
   uplinks of one device on two channels, or at two rates, may reach the rules
   swapped, and the device is reported as having gone backwards (`scanner.cpp:978`,
   `scanner.cpp:1137`, `security/lora_rules.cpp:124`).
2. `lora_master_full`: `compact_device_file` never looks at the stream before the
   rename, so a full disk replaces a device's readings by the part that could be
   written (`lora_master.cpp:309`, against `lora_master.hpp:171`).
3. `scanner_gives_up`: when a reconnect in the middle of a run fails in all its
   attempts, `sdr_` is null and the next cycle captures through it
   (`scanner.cpp:2606`, against `README.md:215`).
4. `ml_restart`: `stop()` notifies without the mutex; the thread can test its
   condition before and sleep after, and the join in the next `start()` does not
   return (`ml_inference.cpp:121`, against `tests/test_ml_inference.cpp:94`).
5. `coordinated_verdict`: an emitter is called not reacquired 2 s after a visit whose
   capture no detector has answered yet, because being admitted to the lane counts as
   analysed (`coordinated_schedule.hpp:238`, against its comment at
   `coordinated_schedule.hpp:226`; F2 of
   `docs/DRONE_COORDINATED_CHANGE_REVIEW_2026-11-03.md` describes it).
6. `bench_restart`: when every attempt of `connect_sdr` fails the thread ends and is
   never joined; the next Connect assigns a new thread to it, which is
   `std::terminate` (`bench/bench_capture.cpp:41`, against
   `bench/bench_capture.hpp:126` and `bench/bench_gui.cpp:640`).


## 4. The proofs

TLC checks an instance; the theorems hold for every value of the constants and
any length of behaviour, under the `ASSUME`s of the modules (limits are naturals,
positive where the code divides by them or needs room for one; schedules keep
the emitter's slot a Wi-Fi slot and have one sub-GHz slot at most, as the editor leaves
them, which changes the settings of the default slots but neither adds nor removes
one; a connection is tried at least once; the things
incidents are about are finitely many). None of the properties is inductive as it
stands. Each proof module states the inductive invariant as a conjunction of named
parts, shows that it holds initially and that every action keeps it, one lemma
or step per action, and concludes by temporal logic.

**`SerialLaneProofs`.** `TypeCorrect`, `FifoHolds`, `NoLostWakeupHolds`,
`OutstandingBoundedHolds`, `CloseDrainsHolds`, `ReturnsWhenPromisedHolds`, and
`Refinement` (every behaviour of the lane is one of `OrderedWorker`'s safety part).
Whether a sleeping worker has a notification under way depends on where the
producer is, and whether the counters bound the live jobs on where the worker is:
`ThreadsAgree` ties `running_`, the closing flag and the exit of the worker to the
two threads' positions. The refinement maps each action to a step of the
abstract worker or a stutter.

**`SecurityMonitorProofs`.** The queue: `DropsAccountedHolds`, `StopDrainsHolds`. The
invariant says what the consumer holds at each point of its loop (`Rounds`), that a
last round has emptied the queue for good because it read `stopping_` in the
section in which it took the queue (`LastRound`), and that a consumer that has left
the loop left nothing behind (`LeftNothing`). The learning: `TypeOKHolds`,
`LearnedCleanHolds`, `QuietReleasesHolds`. A window is clean because the frames
counted for a capture are compared with what its record says was decoded, and the
record comes last: `Books` follows every capture record from its lane through the
queue to the consumer, says there is one of it, that it tells the truth about the
capture, and that no frame is counted for a capture whose record counts none;
`Learned` and `Saved` then say what each window, open, closed or on disk, may
have learned, and `Quiet` ties the rule's counter to the evidence it was given.

**`LoraSecurityProofs`.** `LsCoverageTrueHolds`: batches are accounted for, and the time
shown as not sampled never exceeds what was not taken in. The second needs a
point of time `T` such that all that was taken in ended before it, the device's
timeline is no further (`ContextTrue`), and everything that waits begins at or
after it or is a lower channel of the same capture (`ToCome`, `InOrder`).
`BooksAddUpHolds`: the rule engine has one open incident at most for a rule and a
subject (`OneOpenIn`, with the lists that `Books` allows), and a device's tally of
clusters adds up to its total (`TallyOk`). The total is a fold over a function,
which takes its members in an order of its own: `SumsExist` and `SumsAre` show by
induction on the size of a set that there is such a sum and that any member can be
taken first, whence counting (`TallyCounts`) and merging (`TallyMerges`) move the
sum as they should; the loops over the rows of a
hypothesis, the hypotheses and the channels keep the engine in order
(`CommitRateKeeps`, `CommitKeeps`, `CommitAllKeeps`).

**`WorkersProofs`.** `SwSafeHolds`, `SwGivesUpHolds` (shadow worker), `MlOneSourceHolds`,
`DtJoinsUnbrokenHolds`, `BrGainTrueHolds`. Staleness is excluded by tying what is
in a slot, at the child or in a call that was begun to the epoch it read, for
every interleaving of the operator, the capturing thread and the worker
(`FreshState`, `OneJob`, `OneRequest`, `OffState`); for the drone decoder every two
neighbouring messages in the queue are `Steady`.

**`ScannerProofs`.** The scan thread with its lane and LoRa task:
`ResultsInOrderHolds`, `NeverTogetherHolds`, `SaveServedHolds`, for any plans and
any number of captures. The invariant writes down where the records are: what the
monitor got, what the jobs of the lane carry, what the scan thread holds back, put
behind each other, is what was taken (`InPlaces`); the markers of cycles point into
that sequence (`Counted`); the LoRa captures known of are 1, 2, 3, ...
(`LoraKnown`); and the scan thread's position says what may be under way. The
coordinated mode: `NotReacquiredIsFoundedHolds`, with no bound on how late a result
comes: a visit the ledger calls analysed is answered (`Done`), still with the lane
(`ToCome`) or the detector (`HandedOn`), or was dropped (`AnalysedTrue`), and a
detector answers in the order of handing on (`DetectorInOrder`). `CyclesAddUpHolds`:
for any slots, a sweep goes to every centre, and what sub-GHz visits find is
committed once and cycle by cycle. Of each remembered cycle the invariant says which
centres it went to, as those the cursor went by so many cycles ago (`Met`,
`SweepsTrue`, for the cycle under way `CycleTrue`); a cursor that goes on moves
every centre by one cycle (`OneCycleLater`), and as many cycles as `estimate`
announces leave none out. Finds, lane and commits are the admitted visits in order
(`AllAdmitted`) and in the order of the cycles (`InOrder`), and as long as a sub-GHz
visit of the cycle is still to come (`SubAhead`) no job of that cycle ends it: this
rests on the plan, in which a slot's last visit is marked (`LastOfSlot`).

**`EmitterListProofs`.** `WeSoundHolds`: what the Wi-Fi list shows of a policy was
answered, and a reviewed policy finds its device, across crashes at any point.
The invariant relates memory to files (`MemoryTrue`), the writer's step to both
(`WorkTrue`), and says what a stop of the machine may leave (`PromisesKept`,
`FilesAnswered`). `SrSoundHolds`: the links of the short-range list form groups that
an eviction or a new link leaves sound (`GroupsOk`), and the bytes held are the
bytes of what waits and what is decoded (`SrHeld`). `RgBestOfBucketHolds`: what a
registry shows of a bucket does not depend on the order of a cycle's detections.
The invariant says it in the middle of a cycle too, of the detections taken so far
(`MidCycle`), and what is best of them is computed one by one (`Bettered`), so that
the merge of one more detection keeps it.

**`IncidentStoreProofs`.** `IncidentsAreOneHolds`, `OpenIncidentsEndHolds`. A list that
is trimmed, aged, evicted from or restored *derives* from the one before: some of
its items, some closed since; `IdsApart` relates the store and the file, `Once`
says there is one of each, `ClocksTrue` ties an incident's clock to the quiet its
thing had. `WrReplaysRealHolds`: what the two replay rules report rests on one
unbroken stretch of observation, and the attempts in between were sent one after
the other by their counters, modulo 4096. Every frame and stored exchange carries a stamp
(stretch, deauthentications before it), which the code has not; the invariant says
that what a profile remembers is in order of time and of one stamp (`ProfileOk`),
that between captures this is the stamp with which the next capture goes on if
the pause is short (`Settled`), and that the capture being delivered begins there
and ends in the stamp of its channel, as long as nothing of it was lost (`GoesOn`,
`Whole`). The loops over a capture keep it frame by frame (`BeaconsAt`, `LinksAt`).

**`Iteration`** has no code behind it: induction over 0..n stated with a set instead of
a predicate, which lets the provers reason about recursive functions (the reports
of a capture one after the other, the frames of a capture in the replay rules, the
detections of a cycle, the totals of a queue, the plan of a cycle slot by slot, the
sums over a set by its size).

Only model-checked:

* liveness (`CallersReturn`, `DropsResurface`, `SwServed`, `MlServed`, `DtStops`,
  `BrServes`, `StopReturns`, the fairness half of the refinement): the prover does not
  handle fairness and ENABLED;
* `CdDelivers` and `RvReadsFrames`: what the decoders compute is recursive over their
  data, and their modules use RECURSIVE operators, which exclude proof;
* `RiVerdictsRight`: it depends on what the devices of a scene do, which the run
  gives; the thresholds of the rule are statistics over those scenes;
* `AlarmsAreReal`: true of the constants of the run, not of all. A counter's bytes
  are remembered for so many frames, and a wrap of the counter, a swap of frames far
  apart or an eviction from the maps brings a false alarm when the limits are small
  against what is missed;
* `ListSurvives`, `SsSessionTrue`, `LpPlanSound`: they rest on folds
  and sorted sequences of the community modules, about whose results nothing can be
  cited (induction over data).

## 5. Not modelled

`PROJECT.json` maps each definition to the lines it stands for and says for each
component what is left out. Abstractions common to all modules: payloads and
addresses are members of small sets; texts, logging, plots and status strings are
left out; times are whole units; an exception inside an analysis is an analysis
that found nothing. History variables are marked "history" where they are
declared and never guard an action.

The models stand for the control and the rules. The larger part of the
implementation's lines is neither:

* Numeric code on samples: Wi-Fi OFDM and DSSS demodulation, FSK, BLE and
  802.15.4 demodulation, energy detection, cyclostationary estimation, filters,
  the transforms in front of the two LoRa decoders. Floating point over thousands
  of samples is out of reach; its result is a choice.
* Tables (`shortrange/assigned_numbers.cpp` alone is 3440 lines), drawing (`main.cpp`,
  `lora_gui.cpp`, `gui/`, `bench/bench_gui.cpp`), driver calls (`sdr_capture.cpp`),
  replay and benchmark tools: no state that other parts depend on.
* Parsers of frames (`security/wifi_mac_frame.cpp`, `lorawan_inspect.hpp`): pure
  functions from bytes to records, byte by byte; a small alphabet of frames would
  show nothing about them.
* Of the test bench: the decoding of packets, the signal it sends, the counters and
  the plots.
* In the two decoders: peak ratios, the eighth-of-a-bin search, windows that
  straddle two symbols, `fec_disagreements`, `sync_word`, `demodulate_implicit`.

## 6. What is left

The modelling is done but for small parts named in `PROJECT.json`. The properties
that are only model-checked are in section 4. Those of them that rest on folds
(`SsSessionTrue`, `LpPlanSound`, `ListSurvives`) could be approached as
`WrReplaysReal`, `RgBestOfBucket`, `BooksAddUp` and `CyclesAddUp` were: the fold written as a
recursive function over an interval, and the lemmas of `Iteration`. Liveness needs a
prover that handles ENABLED.
