----------------------------- MODULE WifiReplay -----------------------------
(***************************************************************************)
(* The two replay rules of the Wi-Fi security consumer                     *)
(* (wifi_security_beacon_replay.cpp, wifi_security_transactions.cpp), as   *)
(* SecurityState drives them: note_frame for every accepted frame of a     *)
(* capture, finish_capture at its record, interrupt at a loss notice.      *)
(*                                                                         *)
(* One access point and one client.  A frame is what the rules compare of  *)
(* it; two frames have the same bytes when they differ in retry at most.   *)
(* Both rules keep the same pending frames, so the model keeps them once.  *)
(* A frame and a stored exchange carry a stamp, which the code has not:    *)
(* the stretch of unbroken observation they belong to, the deauthentications *)
(* and the restarts before them.  The eviction of one link by another is   *)
(* left out.                                                               *)
(***************************************************************************)
EXTENDS Integers, Sequences, FiniteSets, SequencesExt, FiniteSetsExt

CONSTANTS
  WrChannels, WrTraffic,  \* channels; a set of sets of frame sequences
  WrMinDelay, WrRetention, WrMaxGap,  \* min_delay_s, retention_s, max_gap_s
  WrHistory, WrProfiles,  \* history_per_identity and history; max_profiles
  WrMaxCaptures, WrMaxFaults  \* bounds: captures; faults of delivery or radio

WrSpan == 2  \* length of a capture: at most one frame in each unit
SequenceNumbers == 4096  \* of management frames

Kinds == {"authentication", "association", "reassociation", "eapol"}
WrContent == [kind : Kinds \cup {"beacon", "reset"}, counter : Nat, epoch : Nat,
              request : BOOLEAN, stage : Nat, retry : BOOLEAN, time : Nat, stamp : Nat \X Nat]

ASSUME WifiReplayAssumption ==
  /\ IsFiniteSet(WrChannels) /\ WrRetention >= WrMinDelay
  /\ {WrMinDelay, WrRetention, WrMaxGap, WrHistory, WrProfiles} \subseteq Nat \ {0}
  /\ \A traffic \in WrTraffic : \A content \in traffic :
       content \in Seq(WrContent) /\ Len(content) <= WrSpan

VARIABLES
  wrTraffic,   \* what this network sends: the contents a capture may have
  wrNow, wrSession, wrCaptures, wrFaults,
  wrAir,       \* the capture being delivered: its frames and the next of them
  wrReceived,  \* pending_: the frames of it that arrived
  wrLost,      \* lost_: an interrupt since the last capture record
  wrProfiles,  \* profiles_ of both rules
  wrOwed,      \* a refused item of which the loss notice is still to come
  wrContext,   \* history: stretch of unbroken observation, per channel
  wrEnds,      \* history: end of the last capture, per channel
  wrResets,    \* history: deauthentications sent, per channel
  wrAlarms     \* history: the incidents, as the frames they rest on, with the
               \* attempts kept since the original one, which the code does not store

wrRadio == <<wrTraffic, wrNow, wrSession, wrCaptures, wrEnds, wrResets>>
wrVars == <<wrRadio, wrFaults, wrAir, wrReceived, wrLost, wrProfiles, wrOwed, wrContext, wrAlarms>>

NoFrame == [kind |-> "none", counter |-> 0, epoch |-> 0, request |-> FALSE, stage |-> 0,
            retry |-> FALSE, time |-> 0, stamp |-> <<0, 0>>]
\* epoch: of a beacon, the restarts of the access point; of a handshake, its nonce.
BeaconFrame(tsf, epoch) == [NoFrame EXCEPT !.kind = "beacon", !.counter = tsf, !.epoch = epoch]
Attempt(kind, counter, retry) ==
  [NoFrame EXCEPT !.kind = kind, !.counter = counter, !.request = TRUE, !.retry = retry]
Answer(kind) == [NoFrame EXCEPT !.kind = kind]
Handshake(stage, counter, nonce) ==
  [NoFrame EXCEPT !.kind = "eapol", !.counter = counter, !.epoch = nonce,
                  !.request = stage \in {1, 3}, !.stage = stage]
Deauthentication == [NoFrame EXCEPT !.kind = "reset"]

SameBytes(a, b) ==
  /\ a.kind = b.kind /\ a.counter = b.counter /\ a.epoch = b.epoch
  /\ a.request = b.request /\ a.stage = b.stage

NoLink == [nonce |-> 0, history |-> <<>>]
NoBeacons == [frames |-> <<>>, newest |-> NoFrame]
NoProfile == [session |-> 0, end |-> 0, beacons |-> NoBeacons, links |-> [k \in Kinds |-> NoLink]]
NoAir == [channel |-> "none", start |-> 0, frames |-> <<>>, next |-> 0, healthy |-> TRUE]

Delivering == wrAir.start > 0

WrInit ==
  /\ wrTraffic \in WrTraffic
  /\ wrNow = 1 /\ wrSession = 1 /\ wrCaptures = 0 /\ wrFaults = 0
  /\ wrAir = NoAir /\ wrReceived = <<>> /\ wrLost = FALSE
  /\ wrProfiles = [c \in {} |-> NoProfile] /\ wrOwed = FALSE
  /\ wrContext = [c \in WrChannels |-> 0] /\ wrEnds = [c \in WrChannels |-> 0]
  /\ wrResets = [c \in WrChannels |-> 0] /\ wrAlarms = {}

-----------------------------------------------------------------------------
(* The radio *)

\* A capture on some channel, at once or after a pause (no pause matters before the
\* first), perhaps unhealthy.
WrCapture ==
  /\ wrAir = NoAir /\ wrCaptures < WrMaxCaptures
  /\ \E c \in WrChannels, pause \in (IF wrCaptures = 0 THEN {0} ELSE {0, WrMaxGap + 1}),
        content \in wrTraffic, healthy \in BOOLEAN :
       LET start == wrNow + pause
           broken == ~healthy \/ start - wrEnds[c] > WrMaxGap
           context == wrContext[c] + (IF broken THEN 1 ELSE 0)
           resetsBefore(i) == wrResets[c] + Cardinality({j \in 1..i : content[j].kind = "reset"}) IN
       /\ ~healthy => wrFaults < WrMaxFaults
       /\ wrFaults' = wrFaults + (IF healthy THEN 0 ELSE 1)
       /\ wrAir' = [channel |-> c, start |-> start, next |-> 1, healthy |-> healthy,
                    frames |-> [i \in DOMAIN content |->
                                  [content[i] EXCEPT !.time = start + i - 1,
                                                     !.stamp = <<context, resetsBefore(i)>>]]]
       /\ wrContext' = [wrContext EXCEPT ![c] = context + (IF healthy THEN 0 ELSE 1)]
       /\ wrNow' = start + WrSpan /\ wrEnds' = [wrEnds EXCEPT ![c] = start + WrSpan]
       /\ wrResets' = [wrResets EXCEPT ![c] = resetsBefore(Len(content))]
  /\ wrCaptures' = wrCaptures + 1
  /\ UNCHANGED <<wrTraffic, wrSession, wrReceived, wrLost, wrProfiles, wrOwed, wrAlarms>>

\* A new radio session: nothing observed before it continues.
WrReconnect ==
  /\ wrAir = NoAir /\ wrFaults < WrMaxFaults
  /\ wrSession' = wrSession + 1 /\ wrFaults' = wrFaults + 1
  /\ wrContext' = [c \in WrChannels |-> wrContext[c] + 1]
  /\ UNCHANGED <<wrTraffic, wrNow, wrCaptures, wrEnds, wrResets, wrAir, wrReceived, wrLost,
                 wrProfiles, wrOwed, wrAlarms>>

-----------------------------------------------------------------------------
(* Delivery: the queue of the monitor, and SecurityState *)

\* note_frame of both rules.
WrNoteFrame ==
  /\ Delivering /\ wrAir.next <= Len(wrAir.frames)
  /\ wrReceived' = Append(wrReceived, wrAir.frames[wrAir.next])
  /\ wrAir' = [wrAir EXCEPT !.next = @ + 1]
  /\ UNCHANGED <<wrRadio, wrFaults, wrLost, wrProfiles, wrOwed, wrContext, wrAlarms>>

\* A frame the queue refuses, or one that is not accepted (its FCS).
WrMissFrame ==
  /\ Delivering /\ wrAir.next <= Len(wrAir.frames) /\ wrFaults < WrMaxFaults
  /\ wrAir' = [wrAir EXCEPT !.next = @ + 1]
  /\ wrOwed' \in {wrOwed, TRUE}
  /\ wrFaults' = wrFaults + 1
  /\ wrContext' = [wrContext EXCEPT ![wrAir.channel] = @ + 1]
  /\ UNCHANGED <<wrRadio, wrReceived, wrLost, wrProfiles, wrAlarms>>

\* The queue refuses the capture's record: it refuses all until the notice.
WrMissRecord ==
  /\ Delivering /\ wrAir.next > Len(wrAir.frames) /\ wrFaults < WrMaxFaults
  /\ wrAir' = [NoAir EXCEPT !.channel = "refused"]
  /\ wrOwed' = TRUE /\ wrFaults' = wrFaults + 1
  /\ wrContext' = [wrContext EXCEPT ![wrAir.channel] = @ + 1]
  /\ UNCHANGED <<wrRadio, wrReceived, wrLost, wrProfiles, wrAlarms>>

\* Defect: what was observed before the loss is kept.
WrInterruptPendingOnly ==
  /\ wrReceived' = <<>> /\ wrLost' = FALSE /\ UNCHANGED wrProfiles

\* interrupt().
WrInterrupt ==
  /\ wrReceived' = <<>> /\ wrLost' = TRUE /\ wrProfiles' = [c \in {} |-> NoProfile]

\* SecurityState::ingest(LossNotice), between any two items.
WrLossNotice ==
  /\ wrOwed /\ wrOwed' = FALSE
  /\ WrInterrupt
  /\ wrAir' = IF wrAir.channel = "refused" THEN NoAir ELSE wrAir
  /\ UNCHANGED <<wrRadio, wrFaults, wrContext, wrAlarms>>

-----------------------------------------------------------------------------
(* What a rule makes of one frame of a usable capture *)

\* What is left when the front of a history, too old by now, is popped; frames are
\* those whose time counts.
Recent(history, frames, now) ==
  LET young == {i \in DOMAIN frames : now - frames[i].time <= WrRetention} IN
  SubSeq(history, Min(young \cup {Len(history) + 1}), Len(history))

LastOf(s, n) == IF Len(s) > n THEN SubSeq(s, Len(s) - n + 1, Len(s)) ELSE s

\* The first of the frames with the bytes of v, or 0.
FirstSame(frames, v) ==
  LET same == {i \in DOMAIN frames : SameBytes(frames[i], v)} IN
  IF same = {} THEN 0 ELSE Min(same)

\* An unexplained step back of the TSF is a restart: nothing before it counts.
BeaconAfter(h, b) ==
  IF h.newest # NoFrame /\ b.counter < h.newest.counter THEN NoBeacons ELSE h

\* The history when b comes: nothing in it is too old.
BeaconsBefore(h, b) ==
  IF h.newest # NoFrame /\ b.time - h.newest.time > WrRetention THEN NoBeacons
  ELSE [newest |-> h.newest, frames |-> Recent(h.frames, h.frames, b.time)]

\* A beacon heard before, after one with a later timestamp, is reported.
BeaconAlarms(h, b) ==
  LET i == FirstSame(h.frames, b) IN
  IF /\ i > 0 /\ h.newest # NoFrame
     /\ h.newest.counter > b.counter
     /\ h.newest.time > h.frames[i].time /\ b.time > h.newest.time
     /\ b.time - h.frames[i].time >= WrMinDelay
  THEN {[old |-> h.frames[i], newer |-> h.newest, again |-> b, since |-> <<>>]} ELSE {}

\* The history with b; a known beacon leaves the frames as they are.
WithBeacon(h, b) ==
  LET known == FirstSame(h.frames, b) > 0
      g == IF known THEN h ELSE BeaconAfter(h, b) IN
  [newest |-> IF g.newest = NoFrame \/ b.counter > g.newest.counter THEN b ELSE g.newest,
   frames |-> IF known THEN g.frames ELSE LastOf(Append(g.frames, b), WrHistory)]

\* BeaconReplayRule::finish_capture, the body of the loop over the frames.
BeaconStep(acc, b) ==
  LET h == BeaconsBefore(acc.h, b) IN
  [alarms |-> acc.alarms \cup BeaconAlarms(h, b), h |-> WithBeacon(h, b)]

\* A repeated request is reported once a later exchange was answered too.
Reportable(history, i, v) ==
  LET old == history[i]  latest == history[Len(history)] IN
  /\ i < Len(history) /\ old.response # NoFrame /\ latest.response # NoFrame
  /\ ~v.retry /\ v.time - old.request.time >= WrMinDelay
  /\ v.time > latest.response.time
  /\ v.kind = "eapol" => latest.request.counter > v.counter /\ latest.request.stage >= v.stage

\* Replay counters rise; sequence numbers, of 12 bits, go forward by less than half
\* their range, over the wrap too.
CounterAhead(kind, counter, last) ==
  IF kind = "eapol" THEN counter > last
  ELSE (counter - last) % SequenceNumbers \in 1..(SequenceNumbers \div 2 - 1)

\* Defect: sequence numbers are compared as if they never wrapped.
StaleUnwrapped(history, v) ==
  history # <<>> /\ v.counter <= history[Len(history)].request.counter

\* What went before a counter that is not ahead does not count.
Stale(history, v) ==
  history # <<>> /\ ~CounterAhead(v.kind, v.counter, history[Len(history)].request.counter)

\* An answer completes the latest exchange, if it has none.
WithAnswer(history, v) ==
  LET last == history[Len(history)] IN
  IF /\ history # <<>> /\ last.response = NoFrame
     /\ v.kind = "eapol" => v.counter = last.request.counter /\ v.stage = last.request.stage + 1
  THEN [history EXCEPT ![Len(history)].response = v] ELSE history

\* Defect: a deauthentication leaves the exchanges before it in place.
LinksAfterResetKept(links) == links

LinksAfterReset(links) == [k \in Kinds |-> NoLink]

\* A handshake stays with the nonce of its first message.
LinkAtNonce(link, v) ==
  IF v.kind # "eapol" \/ ~v.request \/ link.nonce = v.epoch THEN link
  ELSE IF v.stage = 1 THEN [nonce |-> v.epoch, history |-> <<>>] ELSE NoLink

\* A third message counts only after an answered first one.
OutOfPlace(link, v) ==
  /\ v.kind = "eapol" /\ v.request
  /\ \/ link.nonce = 0
     \/ /\ v.stage = 3
        /\ \/ link.history = <<>>
           \/ link.history[1].request.stage # 1 \/ link.history[1].response = NoFrame

Requests(history) == [i \in DOMAIN history |-> history[i].request]

\* The exchanges v is compared with.
LinkBefore(link, v) ==
  LET recent == Recent(link.history, Requests(link.history), v.time) IN
  LinkAtNonce([nonce |-> IF recent = <<>> THEN 0 ELSE link.nonce, history |-> recent], v)

\* A fresh attempt begins an exchange.
Fresh(link, v) ==
  /\ v.request /\ ~v.retry /\ ~OutOfPlace(link, v)
  /\ FirstSame(Requests(link.history), v) = 0

HistoryWith(link, v) ==
  IF Fresh(link, v)
  THEN LastOf(Append(IF Stale(link.history, v) THEN <<>> ELSE link.history,
                     [request |-> v, response |-> NoFrame]), WrHistory)
  ELSE IF v.request THEN link.history ELSE WithAnswer(link.history, v)

TransactionAlarms(link, v) ==
  LET history == link.history  i == FirstSame(Requests(history), v) IN
  IF v.request /\ ~OutOfPlace(link, v) /\ i > 0 /\ Reportable(history, i, v)
  THEN {[old |-> history[i].request, newer |-> history[Len(history)].request, again |-> v,
         since |-> SubSeq(Requests(history), i, Len(history))]}
  ELSE {}

\* A fresh attempt of management: the other exchanges of the pair are no longer current.
LinksWith(links, link, v) ==
  [k \in Kinds |->
     IF k = v.kind THEN [nonce |-> link.nonce, history |-> HistoryWith(link, v)]
     ELSE IF v.kind # "eapol" /\ Fresh(link, v) THEN NoLink ELSE links[k]]

\* TransactionReplayRule::finish_capture, the body of the loop.
TransactionStep(acc, v) ==
  IF v.kind = "reset" THEN [alarms |-> acc.alarms, links |-> LinksAfterReset(acc.links)]
  ELSE LET link == LinkBefore(acc.links[v.kind], v) IN
       [alarms |-> acc.alarms \cup TransactionAlarms(link, v),
        links |-> LinksWith(acc.links, link, v)]

-----------------------------------------------------------------------------
(* finish_capture *)

\* Every frame of the capture arrived, none was lost since the last record.
Usable == wrAir.healthy /\ ~wrLost /\ Len(wrReceived) = Len(wrAir.frames)

\* Defect: a pause in the observation of the channel goes unnoticed.
ContinuesAnyGap(p, start) == p.session = wrSession /\ start >= p.end

\* The profile goes on only in one session and without a long gap.
Continues(p, start) ==
  /\ p.session = wrSession
  /\ start >= p.end /\ start - p.end <= WrMaxGap

Without(profiles, channels) ==
  [c \in DOMAIN profiles \ channels |-> profiles[c]]

\* Room for the profile of c: the first in order goes (std::map::begin).
WithRoom(c) ==
  IF c \in DOMAIN wrProfiles \/ Cardinality(DOMAIN wrProfiles) < WrProfiles THEN wrProfiles
  ELSE Without(wrProfiles, {CHOOSE k \in DOMAIN wrProfiles : TRUE})

\* The loops over the frames of a usable capture.
BeaconLoop(h, frames) ==
  LET after[i \in 0..Len(frames)] ==
        IF i = 0 THEN [alarms |-> {}, h |-> h]
        ELSE IF frames[i].kind = "beacon" THEN BeaconStep(after[i - 1], frames[i])
        ELSE after[i - 1]
  IN after[Len(frames)]

TransactionLoop(links, frames) ==
  LET after[i \in 0..Len(frames)] ==
        IF i = 0 THEN [alarms |-> {}, links |-> links]
        ELSE IF frames[i].kind # "beacon" THEN TransactionStep(after[i - 1], frames[i])
        ELSE after[i - 1]
  IN after[Len(frames)]

WrFinish ==
  /\ Delivering /\ wrAir.next > Len(wrAir.frames)
  /\ LET c == wrAir.channel IN
     IF ~Usable
     THEN wrProfiles' = Without(wrProfiles, {c}) /\ UNCHANGED wrAlarms
     ELSE LET old == IF c \in DOMAIN wrProfiles THEN wrProfiles[c] ELSE NoProfile
              p == IF Continues(old, wrAir.start) THEN old ELSE NoProfile
              b == BeaconLoop(p.beacons, wrReceived)
              t == TransactionLoop(p.links, wrReceived)
              q == [session |-> wrSession, end |-> wrAir.start + WrSpan,
                    beacons |-> b.h, links |-> t.links] IN
          /\ wrProfiles' = [k \in DOMAIN WithRoom(c) \cup {c} |->
                              IF k = c THEN q ELSE wrProfiles[k]]
          /\ wrAlarms' = wrAlarms \cup b.alarms \cup t.alarms
  /\ wrAir' = NoAir /\ wrReceived' = <<>> /\ wrLost' = FALSE
  /\ UNCHANGED <<wrRadio, wrFaults, wrOwed, wrContext>>

WrNext ==
  \/ WrCapture \/ WrReconnect \/ WrNoteFrame \/ WrMissFrame \/ WrMissRecord
  \/ WrLossNotice \/ WrFinish

WrSpec == WrInit /\ [][WrNext]_wrVars

-----------------------------------------------------------------------------
(* Properties *)

\* From the original to the newer attempt, each one's counter is ahead of the last.
SentInOrder(a) ==
  /\ a.since # <<>> /\ a.since[1] = a.old /\ a.since[Len(a.since)] = a.newer
  /\ \A i \in 1..(Len(a.since) - 1) :
       CounterAhead(a.again.kind, a.since[i + 1].counter, a.since[i].counter)

\* No replay is reported across a break.  The original, the newer frame and
\* the repetition were heard in this order, the last two the minimum delay
\* apart, on one channel in one stretch of observation: no session change, no
\* lost frame or record, no unhealthy capture and no long pause between them,
\* and no deauthentication of the pair either.  The newer frame of a beacon or
\* a handshake, there under the same nonce, has the higher counter; the
\* attempts kept from the original to the newer one were sent each after the
\* one before, by their counters, which may have wrapped in between and may
\* together have gone past half of the range (interrupt, finish_capture of
\* both rules).
WrReplaysReal ==
  \A a \in wrAlarms :
    /\ a.old.time < a.newer.time /\ a.newer.time < a.again.time
    /\ a.again.time - a.old.time \in WrMinDelay..WrRetention
    /\ a.old.stamp[1] = a.again.stamp[1] /\ a.newer.stamp[1] = a.again.stamp[1]
    /\ a.again.kind \in {"beacon", "eapol"} => a.newer.counter > a.again.counter
    /\ a.again.kind # "beacon" => a.old.stamp = a.again.stamp /\ SentInOrder(a)
    /\ a.again.kind = "eapol" => a.newer.epoch = a.again.epoch

=============================================================================
