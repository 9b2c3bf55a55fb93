----------------------------- MODULE RfIdentity -----------------------------
(***************************************************************************)
(* The RF-identity rule of the Wi-Fi security consumer                     *)
(* (wifi_security_rf_identity.cpp): whether the carrier of a frame is that *)
(* of the transmitter it claims to come from.                              *)
(*                                                                         *)
(* One address on one channel.  A frame is what the tracker sees of it,    *)
(* and, which the tracker cannot see, the transmitter it came from.        *)
(* Carriers are in hundredths of a ppm and spreads in ten thousandths of   *)
(* that, with the thresholds of the code; the numbers of frames it asks    *)
(* for and its windows are constants, time is counted in captures.         *)
(***************************************************************************)
EXTENDS Integers, Sequences, FiniteSets, SequencesExt, FiniteSetsExt

CONSTANTS
  RiScenes,                 \* what is on the air under the address: sets of frames
  RiOffsets,                \* what a later receiver adds to every carrier, compared to the first
  RiWindow, RiFallback,     \* window_s, fallback_window_s
  RiReference, RiInconsistent, RiCluster,  \* min_reference, min_inconsistent, min_cluster
  RiAlternations,           \* min_alternations
  RiHistory, RiPendingLimit,  \* history_per_identity, max_pending_frames
  RiGaps,                   \* time from a capture to the next
  RiCaptureFrames, RiMaxFrames, RiMaxFaults  \* bounds: frames of a capture, of all; faults

ASSUME RfIdentityAssumption ==
  /\ RiWindow \in Nat /\ RiFallback \in Nat /\ RiGaps \subseteq Nat \ {0}
  /\ {RiReference, RiInconsistent, RiCluster, RiAlternations, RiHistory, RiPendingLimit}
       \subseteq Nat \ {0}

VARIABLES
  riScene, riStepped,  \* the scene; its carriers have moved for good
  riOffset, riNow,     \* the receiver's offset; time of the capture on the way
  riHeard, riFaults,   \* frames heard, faults: bounds only
  riPending, riStray,  \* pending_: of this capture; how many of captures without a record
  riOwed,              \* a refused item of which the loss notice is still to come
  riKept, riRole,      \* ids_ and roles_ of the address
  riFound              \* what the last step led to, if it finished a capture

riAir == <<riScene, riStepped, riOffset, riNow, riHeard>>
riVars == <<riAir, riFaults, riPending, riStray, riOwed, riKept, riRole, riFound>>

\* In hundredths of a ppm: min_delta_ppm, client_min_delta_ppm,
\* spread_floor_ppm, mixed_class_allowance_ppm, min_cluster_gap_ppm.
MinDelta == 25
ClientMinDelta == 200
SpreadFloor == 2
MixedAllowance == 15
MinClusterGap == 30
Spreads == 8  \* score_threshold and cluster_gap_spreads
Unit == 10000

Undecided == [done |-> FALSE, found |-> {}]
NoRole == [ap |-> FALSE, client |-> FALSE]
Absolute(x) == IF x < 0 THEN -x ELSE x
Entry(o) == [o |-> o, judged |-> FALSE, evaluable |-> FALSE, inconsistent |-> FALSE]

RiInit ==
  /\ riScene \in RiScenes /\ riStepped = FALSE
  /\ riOffset = 0 /\ riNow = 1 /\ riHeard = 0 /\ riFaults = 0
  /\ riPending = <<>> /\ riStray = 0 /\ riOwed = FALSE
  /\ riKept = <<>> /\ riRole = NoRole /\ riFound = Undecided

-----------------------------------------------------------------------------
(* The tracker *)

Median(xs) == IF xs = <<>> THEN 0 ELSE SortSeq(xs, <)[Len(xs) \div 2 + 1]
Spread(xs) ==
  LET m == Median(xs) IN
  Max({14826 * Median([i \in DOMAIN xs |-> Absolute(xs[i] - m)]), Unit * SpreadFloor})

Carriers(d, at) == LET s == SetToSortSeq(at, <) IN [i \in DOMAIN s |-> d[s[i]].o.ppm]

\* A disconnect of the BSSID claims the access point.
ClaimedClient(o, role) ==
  IF o.bssid # "none" THEN o.bssid = "other" ELSE role.client \/ ~role.ap

\* add: the role it shows, and the frame, within the history and its time.
Added(mem, o) ==
  LET d == Append(mem.kept, Entry(o))
      keep == Max({2 * RiWindow, RiFallback})
      recent == {i \in DOMAIN d : Len(d) - i < RiHistory /\ o.t - d[i].o.t <= keep} IN
  [kept |-> SubSeq(d, Min(recent), Len(d)),
   role |-> [ap |-> mem.role.ap \/ o.bssid = "own", client |-> mem.role.client \/ o.client]]

\* Defect: disconnects serve as their own reference.
NearOfAll(d, t, span) == {i \in DOMAIN d : Absolute(d[i].o.t - t) <= span}

Near(d, t, span) == {i \in DOMAIN d : ~d[i].o.disconnect /\ Absolute(d[i].o.t - t) <= span}

\* The claimed sender's own frames about t, of the same length class if there
\* are enough, else of all with an allowance; the empty set if there are none.
Reference(d, o) ==
  LET close == Near(d, o.t, RiWindow)
      all == IF Cardinality(close) >= RiReference THEN close
             ELSE Near(d, o.t, Max({RiWindow, RiFallback}))
      same == {i \in all : d[i].o.class = o.class}
      enough(s) == Cardinality(s) >= RiReference
      of(s, allowance) == LET v == Carriers(d, s) IN
        {[centre |-> Median(v), spread |-> Spread(v), allowance |-> allowance, frames |-> s]} IN
  IF enough(same) THEN of(same, 0) ELSE IF enough(all) THEN of(all, MixedAllowance) ELSE {}

Inconsistent(o, ref, role) ==
  LET delta == Absolute(o.ppm - ref.centre)
      floor == IF ClaimedClient(o, role) THEN ClientMinDelta ELSE MinDelta IN
  /\ delta * Unit >= Spreads * ref.spread + ref.allowance * Unit
  /\ delta >= floor + ref.allowance

\* Rule 1: every disconnect is judged once, with what is known by then.
Judged(d, role) ==
  [i \in DOMAIN d |->
     IF ~d[i].o.disconnect \/ d[i].judged THEN d[i]
     ELSE [d[i] EXCEPT !.judged = TRUE,
                       !.evaluable = Reference(d, d[i].o) # {},
                       !.inconsistent = \E ref \in Reference(d, d[i].o) : Inconsistent(d[i].o, ref, role)]]

Forged(before, d) ==
  LET judged == {i \in DOMAIN d : d[i].o.disconnect /\ d[i].evaluable}
      within == {i \in judged : \A j \in judged : d[j].o.t - d[i].o.t <= RiWindow}
      bad == {i \in within : d[i].inconsistent}
      new == \E i \in DOMAIN d : d[i].inconsistent /\ ~before[i].inconsistent IN
  IF new /\ Cardinality(bad) >= RiInconsistent /\ 2 * Cardinality(bad) >= Cardinality(within)
  THEN {[kind |-> "forged", frames |-> {d[i].o : i \in bad}]} ELSE {}

\* Changes of side in time order.
Changes(d, at, boundary2) ==
  LET s == SetToSortSeq(at, <) IN
  Cardinality({i \in 2..Len(s) : (2 * d[s[i]].o.ppm >= boundary2) # (2 * d[s[i - 1]].o.ppm >= boundary2)})

\* Defect: one step of a carrier passes for interleaving.
InterleavedOnce(changes) == changes + 1 >= RiAlternations

Interleaved(changes) == changes >= RiAlternations

\* Two clusters of carriers, apart at the widest gap that leaves enough frames
\* on either side, and both active over the same time.
TwoClusters(d, at, allowance) ==
  LET v == SortSeq(Carriers(d, at), <)  n == Len(v)
      cuts == RiCluster..n - RiCluster
      gap(i) == v[i + 1] - v[i]
      widest == {i \in cuts : \A j \in cuts : gap(i) > gap(j) \/ (gap(i) = gap(j) /\ i <= j)} IN
  \E i \in widest :
    LET a == SubSeq(v, 1, i)  b == SubSeq(v, i + 1, n)
        needed == Max({MinClusterGap * Unit, Spreads * Max({Spread(a), Spread(b)})}) IN
    /\ (Median(b) - Median(a)) * Unit >= needed + allowance * Unit
    /\ Interleaved(Changes(d, at, v[i] + v[i + 1]))

\* Rule 2: one length class at a time, then all of them with the allowance.
TwoTransmitters(d, role) ==
  LET newest == d[Len(d)].o.t
      pooled == {i \in DOMAIN d : ~d[i].o.disconnect /\ newest - d[i].o.t <= RiWindow}
      classes == {d[i].o.class : i \in pooled}
      of(c) == {i \in pooled : d[i].o.class = c}
      apart(at, allowance) == Cardinality(at) >= 2 * RiCluster /\ TwoClusters(d, at, allowance)
      found == {c \in classes : apart(of(c), 0)}
      report(at) == [kind |-> "two", frames |-> {d[i].o : i \in at}] IN
  IF ~role.ap \/ role.client THEN {}
  ELSE IF found = {} /\ Cardinality(classes) > 1 /\ apart(pooled, MixedAllowance) THEN {report(pooled)}
  ELSE {report(of(c)) : c \in found}

-----------------------------------------------------------------------------
(* The rule *)

Cleared == riKept' = <<>> /\ riRole' = NoRole

\* Defect: what was learned before a gap is kept.
InterruptedPendingOnly == riPending' = <<>> /\ riStray' = 0 /\ UNCHANGED <<riKept, riRole>>

\* interrupt: nothing is compared across a gap.
Interrupted == riPending' = <<>> /\ riStray' = 0 /\ Cleared

\* note_frame: the frame waits for the record of its capture; too many
\* waiting and all is forgotten, this frame too.
RiNoteFrame ==
  /\ riHeard < RiMaxFrames /\ Len(riPending) < RiCaptureFrames
  /\ \E f \in riScene.frames :
       LET ppm == f.ppm + riOffset + (IF riStepped THEN riScene.step ELSE 0)
           o == [f EXCEPT !.ppm = ppm] @@ [t |-> riNow] IN
       IF Len(riPending) + riStray >= RiPendingLimit THEN Interrupted
       ELSE riPending' = Append(riPending, o) /\ UNCHANGED <<riStray, riKept, riRole>>
  /\ riHeard' = riHeard + 1 /\ riFound' = Undecided
  /\ UNCHANGED <<riScene, riStepped, riOffset, riNow, riFaults, riOwed>>

NextCapture == \E g \in RiGaps : riNow' = riNow + g

\* finish_capture of a usable capture: its frames are added, then judged.
RiFinish ==
  LET mem == FoldLeft(Added, [kept |-> riKept, role |-> riRole], riPending)
      d == Judged(mem.kept, mem.role) IN
  /\ riPending # <<>>
  /\ riKept' = d /\ riRole' = mem.role
  /\ riFound' = [done |-> TRUE, found |-> Forged(mem.kept, d) \cup TwoTransmitters(d, mem.role)]
  /\ riPending' = <<>> /\ NextCapture
  /\ UNCHANGED <<riScene, riStepped, riOffset, riHeard, riFaults, riStray, riOwed>>

\* finish_capture of a capture that is not usable: its frames are left out.
RiExclude ==
  /\ riPending # <<>> /\ riFaults < RiMaxFaults
  /\ riPending' = <<>> /\ NextCapture
  /\ riFaults' = riFaults + 1 /\ riFound' = Undecided
  /\ UNCHANGED <<riScene, riStepped, riOffset, riHeard, riStray, riOwed, riKept, riRole>>

\* push refuses the record: its frames wait until the loss is noticed.
RiMissRecord ==
  /\ riPending # <<>> /\ riFaults < RiMaxFaults
  /\ riStray' = riStray + Len(riPending) /\ riPending' = <<>> /\ NextCapture
  /\ riFaults' = riFaults + 1 /\ riOwed' = TRUE /\ riFound' = Undecided
  /\ UNCHANGED <<riScene, riStepped, riOffset, riHeard, riKept, riRole>>

\* ingest(LossNotice).
RiLossNotice ==
  /\ riOwed /\ Interrupted
  /\ riOwed' = FALSE /\ riFound' = Undecided
  /\ UNCHANGED <<riAir, riFaults>>

\* stop, perhaps another receiver, start: import_persistent interrupts.
RiRestart ==
  /\ riPending = <<>> /\ riFaults < RiMaxFaults /\ Interrupted
  /\ riOffset' \in RiOffsets
  /\ riFaults' = riFaults + 1 /\ riOwed' = FALSE /\ riFound' = Undecided
  /\ UNCHANGED <<riScene, riStepped, riNow, riHeard>>

\* add() of another address when max_identities are known: this one is the
\* one heard least recently.
RiEvicted ==
  /\ riKept # <<>> /\ riFaults < RiMaxFaults /\ Cleared
  /\ riFaults' = riFaults + 1 /\ riFound' = Undecided
  /\ UNCHANGED <<riAir, riPending, riStray, riOwed>>

\* A carrier moves for good: a retune, the temperature, another device.
RiStep ==
  /\ riScene.step # 0 /\ ~riStepped /\ riStepped' = TRUE /\ riFound' = Undecided
  /\ UNCHANGED <<riScene, riOffset, riNow, riHeard, riFaults, riPending, riStray, riOwed, riKept, riRole>>

RiNext ==
  \/ RiNoteFrame \/ RiFinish \/ RiExclude \/ RiMissRecord \/ RiLossNotice
  \/ RiRestart \/ RiEvicted \/ RiStep

RiSpec == RiInit /\ [][RiNext]_riVars

-----------------------------------------------------------------------------
(* Properties *)

Senders(frames) == {o.from : o \in frames}

\* An address is accused only if two transmitters used it: a device whose
\* carrier jitters, whose short and long frames differ a little, which steps
\* once, or as a client again and again, is not, whatever was lost, left out
\* or forgotten, and whichever receiver took over.
RiNoFalseAccusation ==
  \A f \in riFound.found :
    /\ f.kind = "two" => Cardinality(Senders(f.frames)) = 2
    /\ f.kind = "forged" => Senders(f.frames) = {"forger"}

\* Forged disconnects, and a clone that takes turns with the owner, are
\* reported at the record that completes them, however many captures the
\* evidence is spread over, while what is remembered holds enough of it.
RiFindsForgers ==
  (riFound.done /\ riScene.step = 0 /\ riScene.steady) =>
    LET newest == riKept[Len(riKept)].o.t
        by(from, disconnect, span) ==
          {i \in DOMAIN riKept : LET o == riKept[i].o IN
             o.from = from /\ o.disconnect = disconnect /\ newest - o.t <= span}
        forged == by("forger", TRUE, 0)
        turns == SetToSortSeq(by("owner", FALSE, RiWindow) \cup by("clone", FALSE, RiWindow), <)
        taken == {k \in 2..Len(turns) : riKept[turns[k]].o.from # riKept[turns[k - 1]].o.from} IN
    /\ (/\ Cardinality(forged) >= RiInconsistent
        /\ Cardinality(by("owner", FALSE, RiFallback)) >= RiReference
        /\ by("owner", TRUE, RiFallback) = {})
         => \E f \in riFound.found : f.kind = "forged"
    /\ (/\ \A from \in {"owner", "clone"} : Cardinality(by(from, FALSE, RiWindow)) >= RiCluster
        /\ Cardinality(taken) >= RiAlternations)
         => \E f \in riFound.found : f.kind = "two"

\* The rule names a second transmitter when there is one, and only then.
RiVerdictsRight == RiNoFalseAccusation /\ RiFindsForgers
=============================================================================
