---------------------------- MODULE LoraSession -----------------------------
(***************************************************************************)
(* What the LoRa listen makes of a decoded capture: images tagged over all *)
(* channels (tag_lora_iq_images), then per channel commit_lora_analysis,   *)
(* next to the operator's merge_lora_emitters.                             *)
(*                                                                         *)
(* A row is one hypothesis of the decoder.  Of the transmission behind it  *)
(* it carries packet, which the code has not; data is its aligned start in *)
(* quarters of a symbol, of which a true start may be missed by one.       *)
(* Bandwidth, spreading factor and coding rate are the same for all rows.  *)
(* The emitter list is its set of ids: LoraMaster has the rest.            *)
(***************************************************************************)
EXTENDS Naturals, Sequences, FiniteSets, SequencesExt, FiniteSetsExt

CONSTANTS
  SsAir,         \* captures: per channel (two, mirrored) a sequence of rows
  SsOtherMax, SsDecodedMax,  \* LORA_PACKET_LOG_MAX, LORA_DECODED_LOG_MAX
  SsDevicesMax, SsClustersMax,  \* LORA_DEVICES_MAX, and 8 clusters of a device
  SsMaxCaptures, SsMaxMerges, SsMaxEmitters  \* bounds

ASSUME SessionAssumption ==
  {SsOtherMax, SsDecodedMax, SsDevicesMax, SsClustersMax} \subseteq Nat \ {0}

VARIABLES
  ssCaptures,  \* captures taken
  ssLeft,      \* channels of the capture still to commit
  ssRows,      \* display_rows of the channel being committed
  ssNext,      \* the row commit_lora_analysis is at, or 0 outside
  ssHeard,     \* disallowed_heard
  ssList,      \* lora_master_: ids of the emitters
  ssDisallowed,\* emitters marked disallowed
  ssNextId, ssMerge,  \* merge_lora_emitters between its two locks: <<into, from>>
  ssNow,       \* seconds
  ssDevices,   \* lora_devices_
  ssLog,       \* lora_packet_log_
  ssMerges,    \* what the operator did so far
  ssRuled,     \* history: packets given to the rules, and findings raised
  ssCounts,    \* history: per device, packets received since it was listed
  ssCommitted, \* history: all rows ever logged
  ssRaced      \* history: emitters merged away during a commit that knew them

ssCapture == <<ssCaptures, ssLeft, ssRows, ssNext, ssHeard>>
ssMaster == <<ssList, ssDisallowed, ssNextId>>
ssHistory == <<ssRuled, ssCounts, ssCommitted>>
ssVars == <<ssCapture, ssMaster, ssMerge, ssNow, ssDevices, ssLog, ssMerges, ssHistory, ssRaced>>

SsSymbol == 4      \* a symbol, in quarters
SsTolerance == 1   \* same_reception's

Unknown == 0

SsRow(packet, device, data, valid, inverted, strength, fitted) ==
  [packet |-> packet, device |-> device, data |-> data, valid |-> valid,
   inverted |-> inverted, strength |-> strength, fitted |-> fitted,
   image |-> FALSE, reception |-> 0, cluster |-> Unknown]

SsInit ==
  /\ ssCaptures = 0 /\ ssLeft = <<>> /\ ssRows = <<>> /\ ssNext = 0 /\ ssHeard = <<>>
  /\ ssList = {} /\ ssDisallowed = {} /\ ssNextId = 1 /\ ssMerge = <<>> /\ ssNow = 1
  /\ ssDevices = <<>> /\ ssLog = <<>> /\ ssMerges = 0
  /\ ssRuled = [frames |-> <<>>, findings |-> {}] /\ ssCounts = <<>> /\ ssCommitted = <<>>
  /\ ssRaced = {}

-----------------------------------------------------------------------------
(* One capture *)

\* Same bytes: the device's name stands for them.
SameBytesOf(r, q) == r.device = q.device /\ r.valid = q.valid

\* The row r of one channel is the image of q, of the mirrored channel.
IsImageOf(r, q) ==
  /\ r.inverted # q.inverted
  /\ r.data - q.data <= 4 * SsSymbol /\ q.data - r.data <= 4 * SsSymbol
  /\ IF r.valid THEN q.valid /\ q.strength > r.strength /\ SameBytesOf(r, q)
     ELSE q.valid \/ q.strength > r.strength

\* tag_lora_iq_images
TagImages(channels) ==
  [c \in DOMAIN channels |->
    [k \in DOMAIN channels[c] |->
      [channels[c][k] EXCEPT !.image =
         \E o \in DOMAIN channels \ {c} : \E j \in DOMAIN channels[o] :
           IsImageOf(channels[c][k], channels[o][j])]]]

\* process_lora: a capture is decoded; its transmissions are new ones.
SsListen ==
  /\ ssLeft = <<>> /\ ssNext = 0 /\ ssCaptures < SsMaxCaptures
  /\ \E channels \in SsAir, s \in {0, 1} :
       /\ ssLeft' = TagImages([c \in DOMAIN channels |->
                      [k \in DOMAIN channels[c] |->
                        [channels[c][k] EXCEPT !.packet = <<ssCaptures, @>>]]])
       /\ ssNow' = ssNow + s
  /\ ssCaptures' = ssCaptures + 1
  /\ UNCHANGED <<ssRows, ssNext, ssHeard, ssMaster, ssMerge, ssDevices, ssLog, ssMerges,
                 ssHistory, ssRaced>>

\* commit_lora_analysis is called for the next channel.
SsBegin ==
  /\ ssNext = 0 /\ ssLeft # <<>>
  /\ ssRows' = Head(ssLeft) /\ ssLeft' = Tail(ssLeft) /\ ssNext' = 1 /\ ssHeard' = <<>>
  /\ UNCHANGED <<ssCaptures, ssMaster, ssMerge, ssNow, ssDevices, ssLog, ssMerges,
                 ssHistory, ssRaced>>

\* One row: record_reading matches an emitter or starts one, under its own lock.
SsIdentify ==
  /\ ssNext \in DOMAIN ssRows
  /\ IF ~ssRows[ssNext].fitted \/ ssRows[ssNext].image
     THEN UNCHANGED <<ssRows, ssHeard, ssMaster>>
     ELSE \E id \in ssList \cup {ssNextId} :
            /\ id <= SsMaxEmitters
            /\ ssList' = ssList \cup {id} /\ ssNextId' = IF id = ssNextId THEN id + 1 ELSE ssNextId
            /\ ssRows' = [ssRows EXCEPT ![ssNext].cluster = id]
            /\ ssHeard' = IF id \in ssDisallowed THEN Append(ssHeard, id) ELSE ssHeard
            /\ UNCHANGED ssDisallowed
  /\ ssNext' = ssNext + 1
  /\ UNCHANGED <<ssCaptures, ssLeft, ssMerge, ssNow, ssDevices, ssLog, ssMerges, ssHistory, ssRaced>>

-----------------------------------------------------------------------------
(* lora_observation.cpp *)

\* Rows of one reception; opposite polarity only when both are verified.
SameReception(r, q) ==
  /\ SameBytesOf(r, q) /\ (r.inverted # q.inverted => r.valid)
  /\ r.data - q.data <= SsTolerance /\ q.data - r.data <= SsTolerance

\* group_lora_receptions: each row joins the first group whose first row it matches.
Groups(rows) ==
  FoldLeft(LAMBDA gs, k :
             LET g == SelectInSeq(gs, LAMBDA h : SameReception(rows[h[1]], rows[k])) IN
             IF g = 0 THEN Append(gs, <<k>>) ELSE [gs EXCEPT ![g] = Append(@, k)],
           <<>>, [k \in DOMAIN rows |-> k])

\* annotate_lora_receptions
Annotate(rows) ==
  LET gs == Groups(rows) IN
  [k \in DOMAIN rows |->
    [rows[k] EXCEPT !.reception = SelectInSeq(gs, LAMBDA g : k \in ToSet(g))]]

\* Defect: every hypothesis of a reception counts.
FirstOfAll(rows, k) == rows[k].valid /\ ~rows[k].image

\* The row that stands for its reception in the counts.
FirstOf(rows, k) ==
  /\ rows[k].valid /\ ~rows[k].image
  /\ \A j \in 1..(k - 1) : rows[j].reception = rows[k].reception => rows[j].image

Chosen(rows, Test(_)) ==
  LET ks == SelectSeq([k \in DOMAIN rows |-> k], Test) IN [i \in DOMAIN ks |-> rows[ks[i]]]

LatestOf(s, n) == IF Len(s) > n THEN SubSeq(s, Len(s) - n + 1, Len(s)) ELSE s

\* Defect: one budget for all the rows.
TrimLogTogether(log) == LatestOf(log, SsDecodedMax + SsOtherMax)

\* trim_lora_packet_log: rows over either budget go, the oldest first.
TrimLog(log) ==
  Chosen(log, LAMBDA k :
    Cardinality({j \in DOMAIN log : j > k /\ log[j].valid = log[k].valid})
      < IF log[k].valid THEN SsDecodedMax ELSE SsOtherMax)

-----------------------------------------------------------------------------
(* The commit, under lora_log_mutex_ *)

NewDevice == [frames |-> 0, seen |-> 0, clusters |-> <<>>]

\* lora_devices_ with one more frame.
Counted(devices, r) ==
  LET d == IF r.device \in DOMAIN devices THEN devices[r.device] ELSE NewDevice
      more == IF r.cluster = Unknown \/ r.cluster \in ToSet(d.clusters) THEN d.clusters
              ELSE LatestOf(Append(d.clusters, r.cluster), SsClustersMax) IN
  [k \in DOMAIN devices \cup {r.device} |->
     IF k = r.device THEN [frames |-> d.frames + 1, seen |-> ssNow, clusters |-> more] ELSE devices[k]]

\* Over the limit the devices not heard for the longest time go.
Evicted(devices) ==
  LET later(k) == {j \in DOMAIN devices :
                     \/ devices[j].seen > devices[k].seen
                     \/ devices[j].seen = devices[k].seen /\ j > k} IN
  [k \in {k \in DOMAIN devices : Cardinality(later(k)) < SsDevicesMax} |-> devices[k]]

\* Devices and rules count each reception once; the rows join the log.
SsCommit ==
  /\ ssNext = Len(ssRows) + 1
  /\ LET rows == Annotate(ssRows)
         counted == Chosen(rows, LAMBDA k : FirstOf(rows, k)) IN
     /\ ssDevices' = Evicted(FoldLeft(Counted, ssDevices, counted))
     /\ ssCounts' = [d \in DOMAIN ssDevices' |->
                       (IF d \in DOMAIN ssDevices THEN ssCounts[d] ELSE {}) \cup
                       {r.packet : r \in {q \in ToSet(rows) : q.valid /\ q.device = d}}]
     /\ ssRuled' = [frames |-> ssRuled.frames \o [k \in DOMAIN counted |-> counted[k].packet],
                    findings |-> ssRuled.findings \cup ToSet(ssHeard)]
     /\ ssLog' = TrimLog(ssLog \o rows)
     /\ ssCommitted' = ssCommitted \o rows
  /\ ssNext' = 0 /\ ssRows' = <<>> /\ ssHeard' = <<>>
  /\ UNCHANGED <<ssCaptures, ssLeft, ssMaster, ssMerge, ssNow, ssMerges, ssRaced>>

-----------------------------------------------------------------------------
(* The operator *)

\* set_lora_enrolment: an emitter is marked disallowed, or no longer.
SsMark ==
  /\ \E id \in ssList :
       ssDisallowed' = IF id \in ssDisallowed THEN ssDisallowed \ {id} ELSE ssDisallowed \cup {id}
  /\ ssMerges < SsMaxMerges /\ ssMerges' = ssMerges + 1
  /\ UNCHANGED <<ssCapture, ssList, ssNextId, ssMerge, ssNow, ssDevices, ssLog, ssHistory, ssRaced>>

\* merge_lora_emitters: the list, under its own lock; into keeps its own mark.
SsMergeList ==
  /\ ssMerge = <<>> /\ ssMerges < SsMaxMerges /\ ssMerges' = ssMerges + 1
  /\ \E into, from \in ssList :
       /\ into # from
       /\ ssList' = ssList \ {from} /\ ssMerge' = <<into, from>>
       /\ ssDisallowed' = (ssDisallowed \ {from}) \cup (IF from \in ssDisallowed THEN {into} ELSE {})
       /\ ssRaced' = ssRaced \cup (IF \E r \in ToSet(ssRows) : r.cluster = from THEN {from} ELSE {})
  /\ UNCHANGED <<ssCapture, ssNextId, ssNow, ssDevices, ssLog, ssHistory>>

\* Defect: the rows of the log keep the id that is gone.
RemapLogNot(log, into, from) == log

RemapLog(log, into, from) ==
  [k \in DOMAIN log |-> IF log[k].cluster = from THEN [log[k] EXCEPT !.cluster = into] ELSE log[k]]

\* The ids of a device: replaced, in order, each once.
RemapClusters(clusters, into, from) ==
  SetToSortSeq({IF c = from THEN into ELSE c : c \in ToSet(clusters)}, <)

\* Then the session, under lora_log_mutex_ (the rules: LoraRules!RemapCluster).
SsMergeSession ==
  /\ ssMerge # <<>> /\ ssMerge' = <<>>
  /\ ssLog' = RemapLog(ssLog, ssMerge[1], ssMerge[2])
  /\ ssDevices' = [d \in DOMAIN ssDevices |->
       [ssDevices[d] EXCEPT !.clusters = RemapClusters(@, ssMerge[1], ssMerge[2])]]
  /\ UNCHANGED <<ssCapture, ssMaster, ssNow, ssMerges, ssHistory, ssRaced>>

SsNext == SsListen \/ SsBegin \/ SsIdentify \/ SsCommit \/ SsMark \/ SsMergeList \/ SsMergeSession

SsSpec == SsInit /\ [][SsNext]_ssVars

-----------------------------------------------------------------------------
(* Properties *)

\* A verified transmission counts once for its device and once for the rules,
\* whether it was decoded twice, in both polarities, or with its mirror image
\* on another channel; and it is never discarded as an image of itself
\* (tag_lora_iq_images, group_lora_receptions, commit_lora_analysis).
SsCountedOnce ==
  ssLeft = <<>> /\ ssNext = 0 =>
    /\ \A d \in DOMAIN ssDevices : ssDevices[d].frames = Cardinality(ssCounts[d])
    /\ \A j, k \in DOMAIN ssRuled.frames : ssRuled.frames[j] = ssRuled.frames[k] => j = k

\* A flood of rows of one sort never pushes rows of the other out of the log:
\* of each it holds the latest, in order (trim_lora_packet_log).
SsLogLatest ==
  \A valid \in BOOLEAN :
    LET of(s) == SelectSeq([k \in DOMAIN s |-> <<s[k].packet, s[k].data, s[k].valid>>],
                           LAMBDA r : r[3] = valid) IN
    of(ssLog) = LatestOf(of(ssCommitted), IF valid THEN SsDecodedMax ELSE SsOtherMax)

\* Once a merge is done nothing in the session names the emitter that is gone,
\* unless a commit had already taken its id when the list was merged
\* (merge_lora_emitters takes the locks one after the other).
SsMergesHold ==
  ssMerge = <<>> =>
    \A id \in {r.cluster : r \in ToSet(ssLog)} \cup
              UNION {ToSet(ssDevices[d].clusters) : d \in DOMAIN ssDevices} :
      id \in ssList \cup ssRaced \cup {Unknown}

\* The session tells what was received: counts, log and ids agree with it.
SsSessionTrue == SsCountedOnce /\ SsLogLatest /\ SsMergesHold

=============================================================================
