------------------------------ MODULE LoraPlan ------------------------------
(***************************************************************************)
(* lora_channel_plan.hpp: the captures that cover a list of LoRa channels. *)
(* Frequencies are integers of half a kHz, counted from some origin below  *)
(* all of them; centres are tried on whole kHz, which is the code's step   *)
(* in a band of less than 3 MHz.  A wideband rate is its usable half span  *)
(* (usable_half_span): rates are compared, never added.                    *)
(* The model begins with the channels that are finite and in range.        *)
(***************************************************************************)
EXTENDS Integers, Sequences, FiniteSets, SequencesExt, FiniteSetsExt

CONSTANTS
  LpInputs,       \* sets of frequencies the operator may enter
  LpSpans,        \* half spans of the usable wideband rates, widest last
  LpChannelHalf,  \* channel_rate / 2
  LpMinClear, LpMinMirror,  \* min_dc_clearance, min_mirror_clearance
  LpCovers,       \* ranges to keep in the capture, <<lo, hi>>; none: <<0, 0>>
  LpMaxChannels   \* MAX_CHANNELS

ASSUME LoraPlanAssumption ==
  /\ LpChannelHalf \in Nat \ {0} /\ LpMaxChannels \in Nat \ {0}
  /\ \A j, k \in DOMAIN LpSpans : j < k => LpSpans[j] < LpSpans[k]
  /\ \A f \in UNION LpInputs : f \in Nat

VARIABLES
  lpEntered,  \* what the operator entered
  lpOptions,  \* PlanOptions: wideband, the rates to try, fixed, cover
  lpNext,     \* i: the first channel that is not covered yet
  lpOut       \* the captures planned so far

lpVars == <<lpEntered, lpOptions, lpNext, lpOut>>

KHz == 2
Distance(a, b) == IF a > b THEN a - b ELSE b - a

\* normalise: in order, without duplicates (to 1 kHz), bounded.
Normalised(channels) ==
  LET s == FoldLeft(LAMBDA acc, f :
                      IF acc # <<>> /\ Distance(acc[Len(acc)], f) < KHz THEN acc ELSE Append(acc, f),
                    <<>>, SetToSortSeq(channels, <)) IN
  IF Len(s) > LpMaxChannels THEN SubSeq(s, 1, LpMaxChannels) ELSE s

PlanChannels == Normalised(lpEntered)

LpInit ==
  /\ lpEntered \in LpInputs
  /\ \E wide \in BOOLEAN, cover \in LpCovers :
       \E spans \in {LpSpans, <<>>} \cup {<<LpSpans[k]>> : k \in DOMAIN LpSpans} :
         lpOptions = [wideband |-> wide, spans |-> spans, fixed |-> Len(spans) = 1, cover |-> cover]
  /\ lpNext = 1 /\ lpOut = <<>>

-----------------------------------------------------------------------------
(* Where to tune *)

Clearance(cluster, c) == Min({Distance(f, c) : f \in ToSet(cluster)})

\* mirror_clearance
Mirror(cluster, c) == Min({Distance(f + g, 2 * c) : f, g \in ToSet(cluster)})

\* The centres that keep the cluster, and the range if it can be, in the band.
Band(cluster, half) ==
  LET reach == half - LpChannelHalf
      lo == cluster[Len(cluster)] - reach
      hi == cluster[1] + reach
      coverLo == lpOptions.cover[1]  coverHi == lpOptions.cover[2]
      clo == Max({lo, coverHi - half})  chi == Min({hi, coverLo + half})
      covers == coverHi > coverLo /\ clo <= chi IN
  [fits |-> reach > 0 /\ lo <= hi, covers |-> covers,
   lo |-> IF covers THEN clo ELSE lo, hi |-> IF covers THEN chi ELSE hi,
   first |-> IF covers THEN Min({cluster[1], coverLo}) ELSE cluster[1],
   last |-> IF covers THEN Max({cluster[Len(cluster)], coverHi}) ELSE cluster[Len(cluster)]]

\* mid, doubled.
Middle(band) == Max({2 * band.lo, Min({2 * band.hi, band.first + band.last})})

\* Candidates, whole kHz, in ascending order.
Candidates(band) ==
  SelectSeq([k \in 1..(band.hi - band.lo + 1) |-> band.lo + k - 1], LAMBDA c : c % KHz = 0)

\* The first candidate no other is better than.
FirstBest(candidates, Better(_, _)) ==
  candidates[SelectInSeq(candidates, LAMBDA c : ~\E d \in ToSet(candidates) : Better(d, c))]

\* Defect: the images are not looked at.
ClearOfDcOnly(cluster, c) == Clearance(cluster, c) >= LpMinClear

ClearOfBoth(cluster, c) ==
  Clearance(cluster, c) >= LpMinClear /\ Mirror(cluster, c) >= LpMinMirror

\* place_center, doubled like mid when no whole kHz is inside.
Place(cluster, half) ==
  LET band == Band(cluster, half)
      all == Candidates(band)
      dc == SelectSeq(all, LAMBDA c : Clearance(cluster, c) >= LpMinClear)
      ok == SelectSeq(dc, LAMBDA c : ClearOfBoth(cluster, c))
      away(c) == Distance(2 * c, Middle(band)) IN
  IF ok # <<>> THEN 2 * FirstBest(ok, LAMBDA c, d : away(c) < away(d))
  ELSE IF dc # <<>>
  THEN 2 * FirstBest(dc, LAMBDA c, d :
             \/ Mirror(cluster, c) > Mirror(cluster, d)
             \/ Mirror(cluster, c) = Mirror(cluster, d) /\ away(c) < away(d))
  ELSE IF all # <<>> THEN 2 * FirstBest(all, LAMBDA c, d : Clearance(cluster, c) > Clearance(cluster, d))
  ELSE Middle(band)

-----------------------------------------------------------------------------
(* plan *)

\* With doubled centres, all distances are doubled.
Twice(cluster) == [k \in DOMAIN cluster |-> 2 * cluster[k]]

\* rank: DC-clear first, then mirror clearance up to the guard.
Rank(cluster, center) ==
  LET dc == Clearance(Twice(cluster), center) IN
  IF dc >= 2 * LpMinClear
  THEN <<1, Min({Mirror(Twice(cluster), center), 2 * LpMinMirror})>> ELSE <<0, dc>>

Above(a, b) == a[1] > b[1] \/ (a[1] = b[1] /\ a[2] > b[2])
Clear(cluster, center) == Rank(cluster, center) = <<1, 2 * LpMinMirror>>

\* The narrowest rate with a clear centre, or the one with the best.
BestCapture(cluster) ==
  LET spans == SelectSeq(lpOptions.spans, LAMBDA s : Band(cluster, s).fits)
      centers == [k \in DOMAIN spans |-> Place(cluster, spans[k])]
      clear == SelectInSeq(centers, LAMBDA c : Clear(cluster, c))
      best == SelectInSeq(centers, LAMBDA c :
                ~\E d \in ToSet(centers) : Above(Rank(cluster, d), Rank(cluster, c)))
      k == IF clear > 0 THEN clear ELSE best IN
  IF spans = <<>> THEN <<>>
  ELSE << [center |-> centers[k], half |-> spans[k], channels |-> cluster, wideband |-> TRUE,
           covers |-> Band(cluster, spans[k]).covers] >>

Single(f) ==
  [center |-> 2 * f, half |-> LpChannelHalf, channels |-> <<f>>, wideband |-> FALSE, covers |-> FALSE]

\* Channels i to j fit the widest rate.
Fits(i, j) ==
  LET spans == lpOptions.spans IN
  /\ spans # <<>>
  /\ PlanChannels[j] - PlanChannels[i] + 2 * LpChannelHalf <= 2 * spans[Len(spans)]

\* One round of the loop: as many of the next channels as fit.
LpPlan ==
  /\ lpNext <= Len(PlanChannels)
  /\ LET last == IF lpOptions.wideband
                 THEN CHOOSE j \in lpNext..Len(PlanChannels) :
                        /\ \A k \in (lpNext + 1)..j : Fits(lpNext, k)
                        /\ j = Len(PlanChannels) \/ ~Fits(lpNext, j + 1)
                 ELSE lpNext
         cluster == SubSeq(PlanChannels, lpNext, last)
         narrow == ~lpOptions.wideband \/ lpOptions.spans = <<>> \/ (last = lpNext /\ ~lpOptions.fixed)
         best == IF narrow THEN <<>> ELSE BestCapture(cluster) IN
     /\ lpOut' = lpOut \o (IF best = <<>> THEN [k \in DOMAIN cluster |-> Single(cluster[k])] ELSE best)
     /\ lpNext' = last + 1
  /\ UNCHANGED <<lpEntered, lpOptions>>

LpSpec == LpInit /\ [][LpPlan]_lpVars

-----------------------------------------------------------------------------
(* Properties *)

LpDone == lpNext > Len(PlanChannels)

\* Every channel entered, or one within 1 kHz of it, is listened to once per
\* rotation, inside the usable band of its capture, while the list is not too
\* long; what is called covered is inside too (normalise, place_center, plan).
LpCoversAll ==
  LpDone =>
    /\ FlattenSeq([k \in DOMAIN lpOut |-> lpOut[k].channels]) = PlanChannels
    /\ Len(PlanChannels) < LpMaxChannels =>
         \A f \in lpEntered : \E g \in ToSet(PlanChannels) : Distance(f, g) < KHz
    /\ \A k \in DOMAIN lpOut :
         LET c == lpOut[k] IN
         /\ \A f \in ToSet(c.channels) : Distance(2 * f, c.center) + 2 * LpChannelHalf <= 2 * c.half
         /\ c.covers => /\ 2 * lpOptions.cover[1] >= c.center - 2 * c.half
                        /\ 2 * lpOptions.cover[2] <= c.center + 2 * c.half

\* No plan has fewer captures: no two captures begin with channels that one
\* capture could hold.
LpFewest ==
  LpDone /\ lpOptions.wideband /\ lpOptions.spans # <<>> =>
    \A j, k \in DOMAIN lpOut :
      LET reach == lpOptions.spans[Len(lpOptions.spans)] - LpChannelHalf IN
      j < k /\ reach >= 0 => lpOut[k].channels[1] - lpOut[j].channels[1] > 2 * reach

\* A capture has its centre and the images of its channels off every channel if
\* any rate has such a centre, and is then no wider than it must be.
LpClear ==
  LpDone =>
    \A k \in DOMAIN lpOut :
      LET c == lpOut[k]
          wasClear(half) ==
            LET band == Band(c.channels, half) IN
            band.fits /\ \E x \in band.lo..band.hi : x % KHz = 0 /\ ClearOfBoth(c.channels, x) IN
      c.wideband =>
        \A half \in ToSet(lpOptions.spans) :
          wasClear(half) =>
            /\ c.half <= half
            /\ Clearance(Twice(c.channels), c.center) >= 2 * LpMinClear
            /\ Mirror(Twice(c.channels), c.center) >= 2 * LpMinMirror

\* The plan covers every channel with the fewest captures, each tuned clear.
LpPlanSound == LpCoversAll /\ LpFewest /\ LpClear

=============================================================================
