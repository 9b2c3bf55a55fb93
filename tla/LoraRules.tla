------------------------------ MODULE LoraRules ------------------------------
(***************************************************************************)
(* The keyless LoRaWAN rules (src/security/lora_rules.cpp) on what the LoRa *)
(* listen hears (src/scanner.cpp), against devices on the air.             *)
(*                                                                         *)
(* A device numbers its frames; the frame carries the number modulo Width  *)
(* (2^16 in the code) and bytes no other frame has.  A capture hears some  *)
(* of the frames; when it ends its channels are committed one after the     *)
(* other in the order of the channel plan, and of a channel one decoder    *)
(* hypothesis after the other: only those of one hypothesis are in order   *)
(* of time.  Times are whole units; texts and evidence of an incident are  *)
(* left out.                                                               *)
(***************************************************************************)
EXTENDS Integers, Sequences, FiniteSets, SequencesExt, FiniteSetsExt, Functions

CONSTANTS
  Device, Cluster,  \* what is heard; RF clusters of the master list
  Channels,         \* the channel plan, a sequence
  Rates,            \* number of hypotheses: bandwidths and spreading factors, in order
  Listen,           \* length of a capture (lora_capture_seconds_, 1 to 30 s)
  Width,            \* values of the counter on the air
  Remember,         \* counters whose bytes are kept (256)
  Window,           \* RETRANSMIT_WINDOW_S
  FloodCount, FloodWindow,  \* JOIN_FLOOD_COUNT, JOIN_FLOOD_WINDOW_S
  BaselineMin,      \* RF_BASELINE_MIN
  MaxTracked,       \* MAX_TRACKED
  MaxIncidents,     \* MAX_INCIDENTS
  MaxGap,           \* bound: frames of one device missed in a row
  Budgets           \* bounds: how often each thing may happen, one choice of them a record

ASSUME RulesAssumption ==
  /\ {Width, Rates, Remember, FloodCount, BaselineMin, MaxTracked, MaxIncidents}
       \subseteq Nat \ {0}
  /\ {Window, FloodWindow, MaxGap, Listen} \subseteq Nat
  /\ Width % 2 = 0 /\ Channels \in Seq(STRING)

VARIABLES
  engine,     \* the rule engine
  sent,       \* per device: its next frame and nonce, epoch, frames missed in a row
  last,       \* per device: {} or the set of its last frame, with its time
  heard,      \* the frames of the capture being taken, in order of time
  captures,   \* lora_security_capture_seq_
  now,
  resets,     \* history: devices that restarted their counters
  joined,     \* history: <<bytes, time>> of the join requests sent
  swapped,    \* history: whose frames the engine got in another order than sent (Swapped)
  left        \* how often each thing may still happen

vars == <<engine, sent, last, heard, captures, now, resets, joined, swapped, left>>

None == -1
Rules == {"replay", "fcnt_regression", "fcnt_reuse", "nonce_reuse",
          "join_flood", "rf_mismatch"}

NewEngine ==
  [frames |-> <<>>, counters |-> <<>>, nonces |-> <<>>, rf |-> <<>>,
   joins |-> <<>>, floodUntil |-> 0, incidents |-> <<>>, nextId |-> 1]

Init ==
  /\ engine = NewEngine
  /\ sent = [d \in Device |-> [next |-> 0, epoch |-> 0, missed |-> 0, nonce |-> 0]]
  /\ last = [d \in Device |-> {}]
  /\ heard = <<>> /\ captures = 0 /\ now = 0
  /\ resets = {} /\ joined = {} /\ swapped = {}
  /\ left \in Budgets

-----------------------------------------------------------------------------
(* Maps: functions of growing domain *)

Put(m, k, v) == [x \in DOMAIN m \cup {k} |-> IF x = k THEN v ELSE m[x]]

\* bound: the least recently seen entry goes.
Bound(m, seen) ==
  IF Cardinality(DOMAIN m) <= MaxTracked THEN m
  ELSE Restrict(m, DOMAIN m \ {CHOOSE k \in DOMAIN m :
         \A j \in DOMAIN m : seen[k] <= seen[j]})

\* A new incident goes to the front; over MAX_INCIDENTS the oldest goes.
Opened(e, rule, subject) ==
  [e EXCEPT !.incidents = SubSeq(<<[id |-> e.nextId, rule |-> rule, subject |-> subject,
                                    open |-> TRUE]>> \o @, 1, Min({MaxIncidents, Len(@) + 1})),
            !.nextId = @ + 1]

\* The open incidents of a rule and subject.
OpenOf(incidents, rule, subject) ==
  {k \in DOMAIN incidents : /\ incidents[k].open /\ incidents[k].rule = rule
                            /\ incidents[k].subject = subject}

\* raise: an open incident of the rule and subject counts on (its count is left out).
Raise(e, rule, subject) ==
  IF OpenOf(e.incidents, rule, subject) # {} THEN e ELSE Opened(e, rule, subject)

-----------------------------------------------------------------------------
(* ingest, rule by rule.  A frame is [dev, bytes, fcnt, nonce, cluster, ts,
   ch, rate] and the capture number it is committed under *)

\* Defect: no window for retransmissions.
CopyNoWindow(e, f, seq) ==
  IF f.bytes \notin DOMAIN e.frames THEN "first" ELSE "replay"

\* Identical bytes: a retransmission within the window, a replay after it.
Copy(e, f, seq) ==
  LET seen == e.frames[f.bytes]
  IN  IF f.bytes \notin DOMAIN e.frames THEN "first"
      ELSE IF seq = seen.capture \/ f.ts - seen.last <= Window
           THEN "retransmission" ELSE "replay"

SeeBytes(e, f, seq) ==
  LET all == Put(e.frames, f.bytes, [last |-> f.ts, capture |-> seq])
  IN  [e EXCEPT !.frames = Bound(all, [k \in DOMAIN all |-> all[k].last])]

Backward(from, to) == (from - to) % Width

\* Is going from one counter to another a step back?  Less than half the space.
IsRegression(from, to) ==
  Backward(from, to) # 0 /\ Backward(from, to) < Width \div 2

\* The recent counters and their bytes, oldest forgotten first.
RememberBytes(c, f) ==
  IF f.fcnt \in DOMAIN c.bytes THEN c
  ELSE LET order == Append(c.order, f.fcnt)
           kept == IF Len(order) > Remember THEN Tail(order) ELSE order
       IN  [c EXCEPT !.bytes = Restrict(Put(@, f.fcnt, f.bytes), ToSet(kept)),
                     !.order = kept]

\* Does the last counter follow this frame?
Follow(from, to) == (to - from) % Width < Width \div 2

\* The counter was heard before, with other bytes.
Reused(c, f) == f.fcnt \in DOMAIN c.bytes /\ c.bytes[f.fcnt] # f.bytes

CounterRule(e, f) ==
  LET fresh == f.dev \notin DOMAIN e.counters
      c == IF fresh THEN [last |-> f.fcnt, ts |-> f.ts, bytes |-> <<>>, order |-> <<>>]
           ELSE e.counters[f.dev]
      raised == IF Reused(c, f) THEN Raise(e, "fcnt_reuse", f.dev)
                ELSE IF ~fresh /\ IsRegression(c.last, f.fcnt)
                THEN Raise(e, "fcnt_regression", f.dev) ELSE e
      moved == IF fresh \/ Follow(c.last, f.fcnt)
               THEN [c EXCEPT !.last = f.fcnt, !.ts = f.ts] ELSE c
      all == Put(e.counters, f.dev, RememberBytes(moved, f))
  IN  [raised EXCEPT !.counters = Bound(all, [k \in DOMAIN all |-> all[k].ts])]

NonceRule(e, f) ==
  LET used == IF f.dev \in DOMAIN e.nonces THEN e.nonces[f.dev] ELSE <<>>
      raised == IF f.nonce \in DOMAIN used THEN Raise(e, "nonce_reuse", f.dev) ELSE e
      all == Put(e.nonces, f.dev, Put(used, f.nonce, f.ts))
  IN  [raised EXCEPT !.nonces =
         Bound(all, [k \in DOMAIN all |-> Max(Range(all[k]))])]

\* Old join requests leave at the front, as long as the front is old.
RecentJoins(e, f) ==
  LET all == Append(e.joins, f.ts)
      young == SelectInSeq(all, LAMBDA t : f.ts - t <= FloodWindow)
  IN  SubSeq(all, young, Len(all))

FloodRule(e, f) ==
  LET joins == RecentJoins(e, f)
  IN  IF Len(joins) >= FloodCount /\ f.ts >= e.floodUntil
      THEN [Raise(e, "join_flood", "all") EXCEPT
              !.joins = joins, !.floodUntil = f.ts + FloodWindow]
      ELSE [e EXCEPT !.joins = joins]

\* The device's usual cluster had at least four fifths of its tagged frames.
ClusterRule(e, f) ==
  LET r == IF f.dev \in DOMAIN e.rf THEN e.rf[f.dev]
           ELSE [clusters |-> <<>>, total |-> 0, ts |-> f.ts]
      most == Max({0} \cup Range(r.clusters))
      dominant == {c \in DOMAIN r.clusters : r.clusters[c] = most}
      raised == IF /\ r.total >= BaselineMin /\ f.cluster \notin dominant
                   /\ 5 * most >= 4 * r.total
                THEN Raise(e, "rf_mismatch", f.dev) ELSE e
      before == IF f.cluster \in DOMAIN r.clusters THEN r.clusters[f.cluster] ELSE 0
      all == Put(e.rf, f.dev, [clusters |-> Put(r.clusters, f.cluster, before + 1),
                               total |-> r.total + 1, ts |-> f.ts])
  IN  [raised EXCEPT !.rf = Bound(all, [k \in DOMAIN all |-> all[k].ts])]

\* The rules in their order; a copy reaches none but the replay rule.
Ingest(e, f, seq) ==
  LET copy == Copy(e, f, seq)
      replayed == copy = "replay" /\ f.nonce = None
      seen == SeeBytes(IF replayed THEN Raise(e, "replay", f.dev) ELSE e, f, seq)
      counted == IF f.nonce = None THEN CounterRule(seen, f)
                 ELSE FloodRule(NonceRule(seen, f), f)
  IN  IF copy = "retransmission" \/ replayed THEN seen
      ELSE IF f.cluster = None THEN counted ELSE ClusterRule(counted, f)

-----------------------------------------------------------------------------
(* On the air *)

\* Each of these things happens once more.
Spend(things) ==
  /\ \A k \in things : left[k] > 0
  /\ left' = [k \in DOMAIN left |-> left[k] - (IF k \in things THEN 1 ELSE 0)]

Alike(d, epoch, n, nonce) == <<d, epoch, n, nonce>>

Places == [ch : 1..Len(Channels), rate : 1..Rates]

\* The capture hears the frame on a channel at a rate, no longer after its first frame
\* than a capture is long.  The budgets bound the frames that share a capture, and those
\* on another than the first channel.
Hears(f, things) ==
  /\ heard # <<>> => now - heard[1].ts <= Listen
  /\ \E place \in Places :
       /\ heard' = Append(heard, [f EXCEPT !.ts = now, !.ch = place.ch, !.rate = place.rate])
       /\ Spend(things \cup (IF heard = <<>> THEN {} ELSE {"together"})
                       \cup (IF place.ch = 1 THEN {} ELSE {"elsewhere"}))

\* No capture hears it.
Misses(d, things) ==
  /\ sent[d].missed < MaxGap
  /\ heard' = heard
  /\ Spend(things \cup {"missed"})

\* How many frames of the device were missed in a row, after this one.
MissedNow(d) == IF heard' = heard THEN sent[d].missed + 1 ELSE 0

Send(d) ==
  \E c \in Cluster \cup {None} :
    LET s == sent[d]
        f == [dev |-> d, bytes |-> Alike(d, s.epoch, s.next, None),
              fcnt |-> s.next % Width, nonce |-> None, cluster |-> c,
              ts |-> now, ch |-> 1, rate |-> 1]
        things == {"frames"} \cup (IF c = None THEN {} ELSE {"tags"})
    IN  /\ Hears(f, things) \/ Misses(d, things)
        /\ sent' = [sent EXCEPT ![d].next = @ + 1, ![d].missed = MissedNow(d)]
        /\ last' = [last EXCEPT ![d] = {f}]
        /\ UNCHANGED <<engine, captures, now, resets, joined, swapped>>

\* A compliant device takes a new nonce for every join request.
Join(d) ==
  LET s == sent[d]
      f == [dev |-> d, bytes |-> Alike(d, s.epoch, 0, s.nonce), fcnt |-> None,
            nonce |-> s.nonce, cluster |-> None, ts |-> now, ch |-> 1, rate |-> 1]
  IN  /\ Hears(f, {"joins"}) \/ Misses(d, {"joins"})
      /\ sent' = [sent EXCEPT ![d].nonce = @ + 1, ![d].missed = MissedNow(d)]
      /\ last' = [last EXCEPT ![d] = {f}]
      /\ joined' = joined \cup {<<f.bytes, now>>}
      /\ UNCHANGED <<engine, captures, now, resets, swapped>>

\* The last frame again, while it is still being repeated, on any channel at any rate.
Repeat(d) ==
  \E f \in last[d] :
    /\ now - f.ts <= Window
    /\ Hears(f, {"copies"})
    /\ joined' = IF f.nonce = None THEN joined ELSE joined \cup {<<f.bytes, now>>}
    /\ UNCHANGED <<engine, sent, last, captures, now, resets, swapped>>

\* A device restarts: its counters begin again, with the same data or with new.
Reset(d) ==
  \E fresh \in {0, 1} :
    /\ d \notin resets /\ Spend({"resets"})
    /\ resets' = resets \cup {d}
    /\ sent' = [sent EXCEPT ![d].next = 0, ![d].nonce = 0, ![d].epoch = @ + fresh]
    /\ last' = [last EXCEPT ![d] = {}]
    /\ UNCHANGED <<engine, heard, captures, now, joined, swapped>>

Tick ==
  /\ now' = now + 1 /\ Spend({"ticks"})
  /\ UNCHANGED <<engine, sent, last, heard, captures, resets, joined, swapped>>

\* A row of the capture is given to the engine with those of its channel and hypothesis;
\* each channel has a capture number of its own.
IngestRow(e, i, ch, rate) ==
  IF heard[i].ch = ch /\ heard[i].rate = rate THEN Ingest(e, heard[i], captures + ch) ELSE e

\* The rows of one hypothesis of a channel, in order of time.
CommitRate(e, ch, rate) ==
  LET after[i \in 0..Len(heard)] == IF i = 0 THEN e ELSE IngestRow(after[i - 1], i, ch, rate)
  IN after[Len(heard)]

\* commit_lora_analysis of one channel: hypothesis by hypothesis.
Commit(e, ch) ==
  LET after[rate \in 0..Rates] == IF rate = 0 THEN e ELSE CommitRate(after[rate - 1], ch, rate)
  IN after[Rates]

CommitAll ==
  LET after[ch \in 0..Len(Channels)] == IF ch = 0 THEN engine ELSE Commit(after[ch - 1], ch)
  IN after[Len(Channels)]

\* The frame f is committed before the frame g, which was heard before it.
Overtakes(f, g) == f.ch < g.ch \/ (f.ch = g.ch /\ f.rate < g.rate)

\* The devices whose frames with a counter, and "all" when join requests, of this capture
\* reach the engine in another order than they were heard.
Swapped ==
  {subject \in Device \cup {"all"} :
     \E i, j \in DOMAIN heard :
       /\ i < j /\ Overtakes(heard[j], heard[i])
       /\ IF subject = "all" THEN None \notin {heard[i].nonce, heard[j].nonce}
          ELSE /\ {heard[i].dev, heard[j].dev} = {subject}
               /\ None \notin {heard[i].fcnt, heard[j].fcnt}}

Raised(rule) == {i.subject : i \in {j \in ToSet(engine.incidents) : j.rule = rule}}

\* The capture ends: channel by channel, in the order of the plan.
EndCapture ==
  /\ heard # <<>>
  /\ engine' = CommitAll
  /\ captures' = captures + Len(Channels)
  /\ heard' = <<>>
  \* a device that was swapped and is not accused is not swapped any more
  /\ swapped' = Swapped \cup (swapped \cap ({"all"} \cup Raised("fcnt_regression")))
  /\ UNCHANGED <<sent, last, now, resets, joined, left>>

-----------------------------------------------------------------------------
(* The operator *)

Acknowledge(id) ==
  \E k \in DOMAIN engine.incidents :
    /\ engine.incidents[k].id = id /\ engine.incidents[k].open /\ Spend({"acts"})
    /\ engine' = [engine EXCEPT !.incidents[k].open = FALSE]
    /\ UNCHANGED <<sent, last, heard, captures, now, resets, joined, swapped>>

\* The incidents that are open, in their order.
OpenOnly(incidents) ==
  LET kept[i \in 0..Len(incidents)] ==
        IF i = 0 THEN <<>>
        ELSE IF incidents[i].open THEN Append(kept[i - 1], incidents[i]) ELSE kept[i - 1]
  IN kept[Len(incidents)]

ClearClosed ==
  /\ Spend({"acts"})
  /\ engine' = [engine EXCEPT !.incidents = OpenOnly(@)]
  /\ UNCHANGED <<sent, last, heard, captures, now, resets, joined, swapped>>

\* Defect: the tally of the merged cluster is lost.
RemapForgets(r, from, to) ==
  IF from \notin DOMAIN r.clusters THEN r
  ELSE [r EXCEPT !.clusters = Restrict(@, DOMAIN @ \ {from})]

Remap(r, from, to) ==
  IF from \notin DOMAIN r.clusters THEN r
  ELSE LET old == IF to \in DOMAIN r.clusters THEN r.clusters[to] ELSE 0
       IN  [r EXCEPT !.clusters =
              Restrict(Put(@, to, old + @[from]), (DOMAIN @ \cup {to}) \ {from})]

\* remap_cluster: the operator said the two clusters are one emitter.
RemapCluster(from, to) ==
  /\ from # to /\ Spend({"acts"})
  /\ engine' = [engine EXCEPT !.rf = [d \in DOMAIN @ |-> Remap(@[d], from, to)]]
  /\ UNCHANGED <<sent, last, heard, captures, now, resets, joined, swapped>>

Next ==
  \/ \E d \in Device : Send(d) \/ Join(d) \/ Repeat(d) \/ Reset(d)
  \/ Tick \/ EndCapture
  \/ \E i \in 1..(engine.nextId - 1) : Acknowledge(i)
  \/ ClearClosed
  \/ \E c1, c2 \in Cluster : RemapCluster(c1, c2)

Spec == Init /\ [][Next]_vars

-----------------------------------------------------------------------------
(* What should hold *)

\* The maps stay within MAX_TRACKED, the incidents within MAX_INCIDENTS with
\* distinct ids, and no counter remembers more bytes than it may
\* (bound, raise and the trimming in ingest).
TypeOK ==
  /\ \A m \in {"frames", "counters", "nonces", "rf"} :
       Cardinality(DOMAIN engine[m]) <= MaxTracked
  /\ Len(engine.incidents) <= MaxIncidents
  /\ IsInjective([k \in DOMAIN engine.incidents |-> engine.incidents[k].id])
  /\ \A d \in DOMAIN engine.counters :
       DOMAIN engine.counters[d].bytes = ToSet(engine.counters[d].order)
       /\ Len(engine.counters[d].order) <= Remember

\* Missed frames never make a counter rule fire (lora_rules.hpp:3): a counter that
\* went backwards belongs to a device that restarted.
RegressionIsReal == Raised("fcnt_regression") \subseteq resets

\* It is untrue of a device whose frames one capture committed in another order than they
\* were sent, but of no other: not across captures, not within one hypothesis, and not in
\* the captures after one that swapped them without accusing the device.
RegressionIsExplained == Raised("fcnt_regression") \subseteq resets \cup swapped

\* The same of a counter heard with other bytes than before.
ReuseIsReal == Raised("fcnt_reuse") \subseteq resets

\* Retransmissions, on any channel and in any capture, are never taken for a replay:
\* only a restarted device sends the same bytes again later.
ReplayIsReal == Raised("replay") \subseteq resets

\* A join nonce reported as reused was used by two join requests of a device that
\* restarted; copies of one join request do not count.
NonceReuseIsReal == Raised("nonce_reuse") \subseteq resets

\* The number of join requests reported is a lower bound: a burst on record was on
\* the air, that many distinct requests within one window; within a window and the length
\* of a capture once a capture has committed join requests out of order, as only the
\* oldest of the list is looked at when it is shortened.
FloodIsReal ==
  LET span == FloodWindow + (IF "all" \in swapped THEN Listen ELSE 0)
  IN  Raised("join_flood") # {} =>
        \E t \in 0..now :
          Cardinality({j[1] : j \in {i \in joined : i[2] \in t..(t + span)}}) >= FloodCount

\* What the engine reports of a device happened: bytes used again, a replay and a nonce
\* used again each come from a device that restarted, a counter that goes back from one
\* that restarted or was swapped within a capture, and a join flood was on the air.
AlarmsAreReal ==
  RegressionIsExplained /\ ReuseIsReal /\ ReplayIsReal /\ NonceReuseIsReal /\ FloodIsReal

\* A finding that repeats an open one counts on; there is one open incident for
\* each rule and subject.
OneOpenPerSubject ==
  \A j, k \in DOMAIN engine.incidents :
    LET a == engine.incidents[j]  b == engine.incidents[k]
    IN  a.open /\ b.open /\ a.rule = b.rule /\ a.subject = b.subject => j = k

\* A device's tally of clusters adds up to the frames tallied, however its clusters
\* are merged while captures are committed: the share rule divides by the total.
TallyAddsUp ==
  \A d \in DOMAIN engine.rf :
    engine.rf[d].total = FoldFunction(LAMBDA a, b : a + b, 0, engine.rf[d].clusters)

\* What the engine counts adds up: one open incident for a rule and a subject, and
\* tallies that agree with their parts.
BooksAddUp == OneOpenPerSubject /\ TallyAddsUp
=============================================================================
