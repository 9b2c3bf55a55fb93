------------------------------ MODULE Registry ------------------------------
(***************************************************************************)
(* registry.cpp: the emitters of one band.  update_cycle folds what one    *)
(* cycle detected into the devices.  A detection is the device key its     *)
(* frequency and source give (bucket_key), whether its modulation was      *)
(* confirmed, its power, and one fingerprint feature or none (0); a        *)
(* device shows the detection it was last updated with.                    *)
(***************************************************************************)
EXTENDS Naturals, Sequences, FiniteSets, SequencesExt, FiniteSetsExt

CONSTANTS
  RgDetections,  \* what a cycle may detect
  RgTolerance, RgMinReadings, RgHistory,  \* tolerance, MIN_READINGS_TO_MATCH, FP_HISTORY_MAX
  RgMaxCycles, RgMaxDetections  \* bounds: cycles, and detections in one

ASSUME RegistryAssumption ==
  /\ RgHistory \in Nat \ {0}
  /\ {RgTolerance, RgMinReadings, RgMaxCycles, RgMaxDetections} \subseteq Nat
  /\ RgDetections \subseteq [key : Nat, confirmed : BOOLEAN, power : Nat, feature : Nat]

VARIABLES
  rgDevices,  \* devices_
  rgCycle,    \* now
  rgLast      \* history: what the last cycle detected

rgVars == <<rgDevices, rgCycle, rgLast>>

RgInit == rgDevices = <<>> /\ rgCycle = 0 /\ rgLast = <<>>

-----------------------------------------------------------------------------

\* Twice the median.
Median2(values) ==
  LET s == SortSeq(values, <)  n == Len(s) IN
  IF n % 2 = 1 THEN 2 * s[n \div 2 + 1] ELSE s[n \div 2] + s[n \div 2 + 1]

\* fingerprints_match, of the rolling median and one reading.
Matches(device, feature) ==
  LET m == Median2(device.readings) IN
  /\ Len(device.readings) >= RgMinReadings
  /\ m <= 2 * (feature + RgTolerance) /\ 2 * feature <= m + 2 * RgTolerance

\* find_fingerprint_match, or else the detection's own bucket.
KeyFor(devices, d) ==
  LET found == {k \in DOMAIN devices : Matches(devices[k], d.feature)} IN
  IF found = {} THEN d.key ELSE Min(found)

\* push_fingerprint_reading
Pushed(readings, feature) ==
  IF feature = 0 THEN readings
  ELSE LET s == Append(readings, feature) IN IF Len(s) > RgHistory THEN Tail(s) ELSE s

Unseen == [hits |-> 0, cycles |-> {}, readings |-> <<>>]

\* update_one, of a device or of none
Updated(devices, k, d) ==
  LET old == IF k \in DOMAIN devices THEN devices[k] ELSE Unseen IN
  [hits |-> old.hits + 1, cycles |-> old.cycles \cup {rgCycle + 1},
   readings |-> Pushed(old.readings, d.feature), shown |-> d, seen |-> rgCycle + 1]

UpdateOne(devices, k, d) ==
  [j \in DOMAIN devices \cup {k} |-> IF j = k THEN Updated(devices, k, d) ELSE devices[j]]

\* Defect: the stronger one, whatever it is.
BeatsByPower(d, best) == d.power > best.power

\* What replaces the best of a bucket so far.
Beats(d, best) ==
  \/ d.confirmed /\ ~best.confirmed
  \/ d.confirmed = best.confirmed /\ d.power > best.power

\* best_per_bucket, of the detections without a fingerprint
BestPerBucket(ds) ==
  LET best[n \in 0..Len(ds)] ==
        IF n = 0 THEN <<>>
        ELSE LET b == best[n - 1]  d == ds[n] IN
             IF d.feature # 0 \/ (d.key \in DOMAIN b /\ ~Beats(d, b[d.key])) THEN b
             ELSE [k \in DOMAIN b \cup {d.key} |-> IF k = d.key THEN d ELSE b[k]]
  IN best[Len(ds)]

\* Each bucket is updated with its best.
InBuckets(devices, best) ==
  [k \in DOMAIN devices \cup DOMAIN best |->
     IF k \in DOMAIN best THEN Updated(devices, k, best[k]) ELSE devices[k]]

\* Then come the detections with a fingerprint, one by one.
ByFingerprint(devices, ds) ==
  LET after[n \in 0..Len(ds)] ==
        IF n = 0 THEN devices
        ELSE IF ds[n].feature = 0 THEN after[n - 1]
        ELSE UpdateOne(after[n - 1], KeyFor(after[n - 1], ds[n]), ds[n])
  IN after[Len(ds)]

\* update_cycle
RgUpdateCycle ==
  /\ rgCycle < RgMaxCycles
  /\ \E ds \in SeqOf(RgDetections, RgMaxDetections) :
       /\ rgDevices' = ByFingerprint(InBuckets(rgDevices, BestPerBucket(ds)), ds)
       /\ rgLast' = ds
  /\ rgCycle' = rgCycle + 1

RgSpec == RgInit /\ [][RgUpdateCycle]_rgVars

-----------------------------------------------------------------------------
(* Properties *)

\* In whatever order a cycle's detections come, a bucket of the last cycle that
\* only energy and modulation detectors saw shows a confirmed modulation if there
\* was one, and the strongest of its kind; it counts the cycles it was seen in.
RgBestOfBucket ==
  \A k \in DOMAIN rgDevices :
    LET d == rgDevices[k]
        here == {x \in ToSet(rgLast) : x.key = k /\ x.feature = 0} IN
    d.readings = <<>> =>
      /\ d.hits = Cardinality(d.cycles)
      /\ d.seen = rgCycle =>
           /\ d.shown \in here
           /\ d.shown.confirmed = (\E x \in here : x.confirmed)
           /\ \A x \in here : x.confirmed = d.shown.confirmed => x.power <= d.shown.power

=============================================================================
