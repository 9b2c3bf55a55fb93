----------------------- MODULE SecurityMonitorProofs -----------------------
(***************************************************************************)
(* Theorems about the Wi-Fi security monitor, for any number of lanes, any *)
(* limits, windows and budgets: no drop of its queue is lost count of, a   *)
(* stop drains, what it learns was heard whole, and what releases a held   *)
(* baseline was quiet.                                                     *)
(*                                                                         *)
(* None of it is inductive.  The queue needs that a consumer which is off  *)
(* holds nothing, and that the last round of its loop has left the queue   *)
(* empty for good: it read stopping_ with the queue, and nothing is        *)
(* accepted after.  For what is learned, the record of a capture is in one *)
(* place: with its lane, on its way, or ingested; while it is not ingested *)
(* it tells what the capture held, and when it counts no frame there is    *)
(* none on the way or counted.  The quiet the flood rule counts is the     *)
(* quiet at the end of what it was told.                                   *)
(***************************************************************************)
EXTENDS SecurityMonitor, SequenceTheorems, TLAPS

-----------------------------------------------------------------------------
(* The queue and its losses *)


Losses == [events : Nat, captures : Nat]

\* The losses are counts.
CountsAreCounts ==
  /\ dropped \in Losses /\ pendingLoss \in Losses /\ loss \in Losses
  /\ reported \in Losses

\* What the consumer holds at each place of its loop.
Rounds ==
  /\ worker \in {"off", "wait", "items", "wrap"}
  /\ ~running => worker = "off"
  /\ running /\ ~stopping => worker # "off"
  /\ worker # "items" => loss = None /\ batch = <<>>

\* The last round has emptied the queue and nothing is accepted any more.
LastRound ==
  (worker \in {"items", "wrap"} /\ finish) => stopping /\ queue = <<>>

\* A consumer that has left the loop after a stop has left nothing behind.
LeftNothing ==
  (stopping /\ worker = "off") =>
    /\ queue = <<>>
    /\ published = reported /\ ~dirty
    /\ saveFailed \/ disk = {Export(store)}

IInv == CountsAreCounts /\ Rounds /\ LastRound /\ LeftNothing /\ DropsAccounted

-----------------------------------------------------------------------------
(* Lemmas *)

\* A loss notice that counts nothing is a count.
LEMMA NoneIsLoss == None \in Losses
  BY DEF None, Losses

\* push() adds one to what was dropped and to what is to be reported, or neither.
LEMMA PushCounts ==
  ASSUME NEW item, NEW isCapture \in BOOLEAN, NEW fits \in BOOLEAN,
         CountsAreCounts, DropsAccounted, Push(item, isCapture, fits),
         UNCHANGED <<loss, reported>>
  PROVE  CountsAreCounts' /\ DropsAccounted'
<1>1. CASE Accepts(isCapture, fits)
  BY <1>1 DEF Push, CountsAreCounts, DropsAccounted
<1>2. CASE ~Accepts(isCapture, fits) /\ isCapture
  BY <1>2 DEF Push, CountsAreCounts, DropsAccounted, Losses
<1>3. CASE ~Accepts(isCapture, fits) /\ ~isCapture
  BY <1>3 DEF Push, CountsAreCounts, DropsAccounted, Losses
<1> QED BY <1>1, <1>2, <1>3

\* push() changes the queue only while the monitor runs and is not stopping.
LEMMA PushWhileStopping ==
  ASSUME NEW item, NEW isCapture \in BOOLEAN, NEW fits \in BOOLEAN,
         Push(item, isCapture, fits), ~running \/ stopping
  PROVE  queue' = queue
  BY DEF Push, Accepts

\* A push that leaves the rest of the monitor and the consumer alone.
LEMMA PushKeeps ==
  ASSUME NEW item, NEW isCapture \in BOOLEAN, NEW fits \in BOOLEAN,
         IInv, Push(item, isCapture, fits),
         UNCHANGED <<running, stopping, consumerVars>>
  PROVE  IInv'
<1>1. CountsAreCounts' /\ DropsAccounted'
  BY PushCounts DEF IInv, consumerVars
<1>2. Rounds'
  BY DEF IInv, Rounds, consumerVars
<1>3. stopping => queue' = queue
  BY PushWhileStopping
<1>4. LastRound'
  BY <1>3 DEF IInv, LastRound, consumerVars
<1>5. LeftNothing'
  BY <1>3 DEF IInv, LeftNothing, consumerVars, Export
<1> QED BY <1>1, <1>2, <1>4, <1>5 DEF IInv

\* A monitor as its constructor leaves it has lost count of nothing.
LEMMA FreshKeeps ==
  ASSUME FreshMonitor PROVE IInv'
  BY NoneIsLoss DEF FreshMonitor, IInv, CountsAreCounts, Rounds, LastRound,
     LeftNothing, DropsAccounted, None

-----------------------------------------------------------------------------
(* The invariant *)

\* The queue at the start.
LEMMA InitHolds == Init => IInv
  BY NoneIsLoss DEF Init, IInv, CountsAreCounts, Rounds, LastRound, LeftNothing,
     DropsAccounted, None

\* What the lanes and the operator do.
LEMMA FeedKeeps ==
  ASSUME IInv, Feed PROVE IInv'
<1>1. ASSUME NEW l \in Lane, BeginCapture(l) PROVE IInv'
  BY <1>1 DEF BeginCapture, monitorVars, consumerVars, IInv, CountsAreCounts, Rounds,
     LastRound, LeftNothing, DropsAccounted, Export
<1>2. \A f \in Fits : f \in BOOLEAN
  BY DEF Fits
<1>3. ASSUME NEW l \in Lane, NEW fits \in Fits, SubmitFrame(l, fits) PROVE IInv'
  <2>1. PICK r \in lane[l] : /\ Push([kind |-> "frame", cap |-> r.cap], FALSE, fits)
                             /\ UNCHANGED <<running, stopping, consumerVars>>
    BY <1>3 DEF SubmitFrame
  <2> QED BY <2>1, <1>2, PushKeeps
<1>4. ASSUME NEW l \in Lane, NEW fits \in Fits, SubmitCapture(l, fits) PROVE IInv'
  <2>1. PICK r \in lane[l] : /\ Push([kind |-> "capture", rec |-> r], TRUE, fits)
                             /\ UNCHANGED <<running, stopping, consumerVars>>
    BY <1>4 DEF SubmitCapture
  <2> QED BY <2>1, <1>2, PushKeeps
<1>5. ASSUME NEW a \in Actions, NEW fits \in Fits, SubmitCommand(a, fits) PROVE IInv'
  <2>1. /\ Push([kind |-> "command", action |-> a], TRUE, fits)
        /\ UNCHANGED <<running, stopping, consumerVars>>
    BY <1>5 DEF SubmitCommand
  <2> QED BY <2>1, <1>2, PushKeeps
<1> QED BY <1>1, <1>3, <1>4, <1>5 DEF Feed

\* What the consumer does.
LEMMA ConsumeKeeps ==
  ASSUME IInv, Consume PROVE IInv'
<1> USE DEF IInv
<1>1. CASE Take
  <2>1. CountsAreCounts'
    BY <1>1, NoneIsLoss DEF Take, CountsAreCounts
  <2>2. Rounds' /\ LastRound' /\ LeftNothing'
    BY <1>1 DEF Take, Rounds, LastRound, LeftNothing
  <2>3. DropsAccounted'
    BY <1>1 DEF Take, DropsAccounted, Rounds, CountsAreCounts, Losses, None
  <2> QED BY <2>1, <2>2, <2>3
<1>2. ASSUME NEW timing \in Timings, IngestNext(timing) PROVE IInv'
  <2>1. /\ worker = "items" /\ worker' = "items"
        /\ UNCHANGED <<monitorVars, loss, finish, reported>>
    BY <1>2 DEF IngestNext
  <2> QED BY <2>1 DEF monitorVars, CountsAreCounts, Rounds, LastRound, LeftNothing,
          DropsAccounted
<1>3. CASE IngestLoss
  <2>1. /\ worker = "items" /\ batch = <<>> /\ worker' = "wrap" /\ loss' = None
        /\ reported' = [k \in {"events", "captures"} |-> reported[k] + loss[k]]
        /\ UNCHANGED <<monitorVars, batch, finish>>
    <3>1. loss = None => reported = [k \in {"events", "captures"} |-> reported[k] + loss[k]]
      BY DEF None, CountsAreCounts, Losses
    <3> QED BY <1>3, <3>1 DEF IngestLoss
  <2>2. CountsAreCounts'
    BY <2>1, NoneIsLoss DEF CountsAreCounts, Losses, monitorVars
  <2>3. Rounds' /\ LastRound' /\ LeftNothing'
    BY <2>1 DEF Rounds, LastRound, LeftNothing, monitorVars
  <2>4. DropsAccounted'
    BY <2>1 DEF DropsAccounted, CountsAreCounts, Losses, monitorVars, None
  <2> QED BY <2>2, <2>3, <2>4
<1>4. ASSUME NEW p \in BOOLEAN, NEW s \in BOOLEAN, NEW ok \in BOOLEAN, Wrap(p, s, ok)
      PROVE  IInv'
  BY <1>4 DEF Wrap, monitorVars, CountsAreCounts, Rounds, LastRound, LeftNothing,
     DropsAccounted
<1>5. ASSUME NEW ok \in BOOLEAN, Finish(ok) PROVE IInv'
  <2>1. LeftNothing'
    BY <1>5 DEF Finish, Save, LastRound, LeftNothing, monitorVars, Export
  <2> QED BY <1>5, <2>1 DEF Finish, monitorVars, CountsAreCounts, Rounds, LastRound,
          DropsAccounted
<1> QED BY <1>1, <1>2, <1>3, <1>4, <1>5 DEF Consume

\* Every step keeps the invariant.
LEMMA NextHolds == IInv /\ [Next]_vars => IInv'
<1> SUFFICES ASSUME IInv, [Next]_vars PROVE IInv' OBVIOUS
<1>1. CASE Feed BY <1>1, FeedKeeps
<1>2. CASE Consume BY <1>2, ConsumeKeeps
<1>3. CASE Start
  BY <1>3 DEF Start, IInv, CountsAreCounts, Rounds, LastRound, LeftNothing,
     DropsAccounted
<1>4. CASE JoinScanThread
  BY <1>4 DEF JoinScanThread, monitorVars, consumerVars, IInv, CountsAreCounts, Rounds,
     LastRound, LeftNothing, DropsAccounted, Export
<1>5. CASE StopCall
  <2>1. worker # "off"
    BY <1>5 DEF StopCall, IInv, Rounds
  <2> QED BY <1>5, <2>1 DEF StopCall, consumerVars, IInv, CountsAreCounts, Rounds,
          LastRound, LeftNothing, DropsAccounted
<1>6. CASE StopReturn
  BY <1>6 DEF StopReturn, consumerVars, IInv, CountsAreCounts, Rounds,
     LastRound, LeftNothing, DropsAccounted, Export
<1>7. CASE NewMonitor BY <1>7, FreshKeeps DEF NewMonitor
<1>8. CASE Crash BY <1>8, FreshKeeps DEF Crash
<1>9. CASE UNCHANGED vars
  BY <1>9 DEF vars, monitorVars, consumerVars, IInv, CountsAreCounts, Rounds, LastRound,
     LeftNothing, DropsAccounted, Export
<1> QED BY <1>1, <1>2, <1>3, <1>4, <1>5, <1>6, <1>7, <1>8, <1>9 DEF Next

\* What is inductive about the queue of WifiSecurityMonitor (wifi_security_monitor.cpp).
THEOREM Invariance == Safety => []IInv
  BY InitHolds, NextHolds, PTL DEF Safety

\* Every drop of the queue is accounted for, once.
THEOREM DropsAccountedHolds == Safety => []DropsAccounted
<1>1. IInv => DropsAccounted BY DEF IInv
<1> QED BY <1>1, Invariance, PTL

\* stop() leaves nothing between the queue, the state, the snapshot and the file.
THEOREM StopDrainsHolds == Safety => []StopDrains
<1>1. IInv => StopDrains
  BY DEF IInv, Rounds, LeftNothing, StopDrains
<1> QED BY <1>1, Invariance, PTL
-----------------------------------------------------------------------------
(* What is learned, and when a held baseline is released *)


Entries == [cap : Nat, frames : Nat]
Windows == [learned : SUBSET Entries, excluded : BOOLEAN, held : BOOLEAN]
Stores == [known : BOOLEAN, frozen : BOOLEAN, held : BOOLEAN, windows : Seq(Windows),
           current : Windows, pending : Seq(Entries)]
Files == [known : BOOLEAN, windows : Seq(Windows), frozen : BOOLEAN, held : BOOLEAN]
Floods == [pending : Seq(Entries), lost : BOOLEAN, quiet : Nat]
Captures == [decoded : 0..MaxFrames, candidate : BOOLEAN]

Types ==
  /\ TypeOK
  /\ store \in Stores /\ flood \in Floods /\ disk \subseteq Files

-----------------------------------------------------------------------------
(* Where the records are: q the items on their way, p the frames counted,   *)
(* ln the lanes, t what the captures held.                                  *)

\* The items the consumer has still to ingest, in their order.
Handed == batch \o queue

IsRecord(x) == x.kind = "capture"
Carried(q, c) == \E i \in 1..Len(q) : IsRecord(q[i]) /\ q[i].rec.cap = c
FrameIn(q, c) == \E i \in 1..Len(q) : q[i].kind = "frame" /\ q[i].cap = c
CountedIn(p, c) == \E i \in 1..Len(p) : p[i].cap = c
InLane(ln, c) == \E l \in Lane : \E r \in ln[l] : r.cap = c

\* A record tells how many frames were decoded, and whether there was candidate
\* activity.
Tells(r, t) ==
  /\ r.cap \in DOMAIN t
  /\ r.submitted + r.rejected = t[r.cap].decoded /\ r.candidate = t[r.cap].candidate

LanesTell(ln, t) ==
  /\ \A l \in Lane : \A r \in ln[l] : Tells(r, t)
  /\ \A l, m \in Lane : \A r \in ln[l], s \in ln[m] : r.cap = s.cap => l = m /\ r = s

ItemsTell(q, ln, t) ==
  \A i \in 1..Len(q) : IsRecord(q[i]) =>
    /\ Tells(q[i].rec, t) /\ ~InLane(ln, q[i].rec.cap)
    /\ \A j \in 1..Len(q) : IsRecord(q[j]) /\ q[j].rec.cap = q[i].rec.cap => i = j

\* A record that counts no frames has none before it.
FramesCounted(q, p, ln, t) ==
  \A c \in Nat : FrameIn(q, c) \/ CountedIn(p, c) =>
    /\ c \in DOMAIN t
    /\ \A l \in Lane : \A r \in ln[l] : r.cap = c => r.submitted > 0
    /\ \A i \in 1..Len(q) : IsRecord(q[i]) /\ q[i].rec.cap = c => q[i].rec.submitted > 0

Books(q, p, ln, t) == LanesTell(ln, t) /\ ItemsTell(q, ln, t) /\ FramesCounted(q, p, ln, t)

\* The captures that are not with a lane or on their way any more.
Done(q, ln, t) == {c \in DOMAIN t : ~InLane(ln, c) /\ ~Carried(q, c)}

-----------------------------------------------------------------------------
(* What is learned: done the captures ingested, fr those under a freeze *)

\* What a window learned is true, or it takes no part; candidate activity is
\* learned only while the window is held.
True(e, t, fr) == e.frames = t[e.cap].decoded /\ e.cap \notin fr
Closed(w, done, t, fr) ==
  \A e \in w.learned :
    e.cap \in done /\ (w.excluded \/ (True(e, t, fr) /\ ~t[e.cap].candidate))
Open(w, done, t, fr) ==
  \A e \in w.learned :
    e.cap \in done /\ (w.excluded \/ (True(e, t, fr) /\ (t[e.cap].candidate => w.held)))
AllClosed(ws, done, t, fr) == \A i \in 1..Len(ws) : Closed(ws[i], done, t, fr)

Learned(s, done, t, fr) ==
  /\ AllClosed(s.windows, done, t, fr) /\ Open(s.current, done, t, fr)
  /\ ~s.known => s.current.learned = {}
Saved(d, done, t, fr) == \A file \in d : AllClosed(file.windows, done, t, fr)

-----------------------------------------------------------------------------
(* The quiet counted, n, and what the rule was told, a *)

Quiet(a, n) ==
  /\ Len(a) <= ReleaseQuiet
  /\ n <= Len(a) \/ Len(a) = ReleaseQuiet
  /\ \A i \in 1..Len(a) : Len(a) - i < n => a[i] = "quiet"

Ingested == Done(Handed, lane, truth)

LInv ==
  /\ Types
  /\ Books(Handed, store.pending, lane, truth)
  /\ Learned(store, Ingested, truth, frozenCaptures)
  /\ Saved(disk, Ingested, truth, frozenCaptures)
  /\ frozenCaptures \subseteq Ingested
  /\ Quiet(air, flood.quiet)

-----------------------------------------------------------------------------
(* The operators of BaselineStore *)

\* A sequence has an element less, or one more.
LEMMA Elements ==
  ASSUME NEW S, NEW q \in Seq(S), NEW x \in S
  PROVE  /\ Append(q, x) \in Seq(S) /\ Tail(Append(q, x)) \in Seq(S)
         /\ \A i \in 1..Len(Append(q, x)) :
              Append(q, x)[i] = x \/ \E j \in 1..Len(q) : Append(q, x)[i] = q[j]
         /\ \A i \in 1..Len(Tail(Append(q, x))) :
              \/ Tail(Append(q, x))[i] = x
              \/ \E j \in 1..Len(q) : Tail(Append(q, x))[i] = q[j]
<1> DEFINE a == Append(q, x)
<1>1. /\ a \in Seq(S) /\ a # <<>> /\ Len(a) = Len(q) + 1 /\ a[Len(q) + 1] = x
      /\ \A i \in 1..Len(q) : a[i] = q[i]
      /\ Len(q) \in Nat
  BY AppendProperties, LenProperties
<1> HIDE DEF a
<1>2. /\ Tail(a) \in Seq(S) /\ Len(Tail(a)) = Len(a) - 1
      /\ \A i \in 1..Len(Tail(a)) : Tail(a)[i] = a[i + 1]
  BY ONLY <1>1, HeadTailProperties
<1>3. \A i \in 1..Len(a) : a[i] = x \/ \E j \in 1..Len(q) : a[i] = q[j]
  BY ONLY <1>1
<1>4. \A i \in 1..Len(Tail(a)) : i + 1 \in 1..Len(a)
  BY ONLY <1>1, <1>2
<1>5. \A i \in 1..Len(Tail(a)) : Tail(a)[i] = x \/ \E j \in 1..Len(q) : Tail(a)[i] = q[j]
  BY ONLY <1>2, <1>3, <1>4
<1> QED BY <1>1, <1>2, <1>3, <1>5 DEF a

\* The frames counted are those of the captures counted already, and the new one.
LEMMA CountFrameIs ==
  ASSUME NEW p \in Seq(Entries), NEW c \in Nat
  PROVE  /\ CountFrame(p, c) \in Seq(Entries)
         /\ \A d : CountedIn(CountFrame(p, c), d) => CountedIn(p, d) \/ d = c
<1> DEFINE e == [cap |-> c, frames |-> 1]
<1>1. e \in Entries /\ e.cap = c
  BY DEF Entries
<1>2. Len(p) \in Nat /\ DOMAIN p = 1..Len(p) /\ \A i \in 1..Len(p) : p[i] \in Entries
  BY LenProperties, ElementOfSeq
<1>3. CASE \E i \in DOMAIN p : p[i].cap = c
  <2> DEFINE g == [i \in DOMAIN p |-> IF p[i].cap = c THEN [p[i] EXCEPT !.frames = @ + 1]
                                      ELSE p[i]]
  <2>1. CountFrame(p, c) = g
    BY <1>3 DEF CountFrame
  <2>2. \A i \in 1..Len(p) : g[i] \in Entries /\ g[i].cap = p[i].cap
    BY SMTT(30), <1>2 DEF Entries
  <2>3. DOMAIN g = 1..Len(p)
    BY <1>2
  <2>4. g = [i \in 1..Len(p) |-> g[i]]
    BY <2>3
  <2> HIDE DEF g
  <2>5. g \in Seq(Entries) /\ Len(g) = Len(p)
    BY <1>2, <2>2, <2>4
  <2> QED BY <2>1, <2>2, <2>5 DEF CountedIn
<1>4. CASE ~\E i \in DOMAIN p : p[i].cap = c
  <2>1. CountFrame(p, c) = Append(p, e)
    BY <1>4 DEF CountFrame
  <2> HIDE DEF e
  <2> QED BY <1>1, <2>1, Elements DEF CountedIn
<1> QED BY <1>3, <1>4

\* A capture whose record came is counted no more.
LEMMA WithoutIs ==
  ASSUME NEW p \in Seq(Entries), NEW c
  PROVE  /\ Without(p, c) \in Seq(Entries)
         /\ \A d : CountedIn(Without(p, c), d) => CountedIn(p, d)
<1>1. Len(p) \in Nat /\ DOMAIN p = 1..Len(p) /\ \A i \in 1..Len(p) : p[i] \in Entries
  BY LenProperties, ElementOfSeq
<1>2. CASE \E i \in DOMAIN p : p[i].cap = c
  <2> DEFINE k == CHOOSE i \in DOMAIN p : p[i].cap = c
             g == [i \in 1..Len(p) - 1 |-> IF i < k THEN p[i] ELSE p[i + 1]]
  <2>1. Without(p, c) = g
    BY <1>2 DEF Without
  <2>2. k \in 1..Len(p)
    BY <1>1, <1>2
  <2> HIDE DEF k
  <2>3. \A i \in 1..Len(p) - 1 : /\ g[i] \in Entries
                                 /\ \E j \in 1..Len(p) : g[i] = p[j]
    BY <1>1, <2>2
  <2>4. g = [i \in 1..Len(p) - 1 |-> g[i]] /\ Len(p) - 1 \in Nat
    BY <1>1, <2>2
  <2> HIDE DEF g
  <2>5. g \in Seq(Entries) /\ Len(g) = Len(p) - 1
    BY <1>1, <2>3, <2>4
  <2> QED BY <2>1, <2>3, <2>5 DEF CountedIn
<1>3. CASE ~\E i \in DOMAIN p : p[i].cap = c
  BY <1>3 DEF Without
<1> QED BY <1>2, <1>3

\* The empty state of the rules.
LEMMA EmptyIs ==
  /\ EmptyStore \in Stores /\ EmptyFlood \in Floods /\ EmptyWindow \in Windows
  /\ EmptyStore.windows = <<>> /\ EmptyStore.pending = <<>>
  /\ EmptyStore.current.learned = {} /\ EmptyWindow.learned = {} /\ EmptyFlood.quiet = 0
<1>1. <<>> \in Seq(Windows) /\ <<>> \in Seq(Entries)
  BY EmptySeq
<1> QED BY <1>1 DEF EmptyStore, EmptyFlood, EmptyWindow, Stores, Floods, Windows

\* note_frame counts a frame and changes nothing else.
LEMMA NoteFrameIs ==
  ASSUME NEW s \in Stores, NEW c \in Nat
  PROVE  /\ NoteFrame(s, c) \in Stores
         /\ NoteFrame(s, c).windows = s.windows /\ NoteFrame(s, c).current = s.current
         /\ NoteFrame(s, c).known = s.known /\ NoteFrame(s, c).held = s.held
         /\ \A d : CountedIn(NoteFrame(s, c).pending, d) => CountedIn(s.pending, d) \/ d = c
<1> DEFINE p == CountFrame(s.pending, c)
           q == IF Len(p) > MaxPending THEN Tail(p) ELSE p
<1>1. s.pending \in Seq(Entries)
  BY DEF Stores
<1>2. /\ p \in Seq(Entries)
      /\ \A d : CountedIn(p, d) => CountedIn(s.pending, d) \/ d = c
  BY <1>1, CountFrameIs
<1>3. NoteFrame(s, c) = [s EXCEPT !.pending = q]
  BY DEF NoteFrame
<1> HIDE DEF p
<1>4. q \in Seq(Entries) /\ \A d : CountedIn(q, d) => CountedIn(p, d)
  <2>1. CASE Len(p) > MaxPending
    <3>1. Len(p) \in Nat /\ MaxPending \in Nat
      BY <1>2, LenProperties, BaselineLimitsAssumption
    <3>2. p # <<>>
      BY <2>1, <3>1, EmptySeq
    <3>3. /\ Tail(p) \in Seq(Entries) /\ Len(Tail(p)) = Len(p) - 1
          /\ \A i \in 1..Len(Tail(p)) : Tail(p)[i] = p[i + 1]
      BY <1>2, <3>2, HeadTailProperties
    <3>4. \A i \in 1..Len(Tail(p)) : i + 1 \in 1..Len(p)
      BY <3>1, <3>3
    <3> QED BY <2>1, <3>3, <3>4 DEF CountedIn
  <2>2. CASE ~(Len(p) > MaxPending)
    BY <1>2, <2>2
  <2> QED BY <2>1, <2>2
<1> HIDE DEF q
<1>5. /\ [s EXCEPT !.pending = q] \in Stores /\ [s EXCEPT !.pending = q].windows = s.windows
      /\ [s EXCEPT !.pending = q].current = s.current /\ [s EXCEPT !.pending = q].known = s.known
      /\ [s EXCEPT !.pending = q].held = s.held /\ [s EXCEPT !.pending = q].pending = q
  BY <1>4 DEF Stores
<1> QED BY <1>2, <1>3, <1>4, <1>5

\* A window that is closed takes no part if learning was frozen or held in it.
ClosedWindow(s) == [s.current EXCEPT !.excluded = @ \/ s.frozen \/ s.current.held]

\* Closing a window adds it to those closed, of which the oldest may go.
LEMMA CloseWindowIs ==
  ASSUME NEW s \in Stores
  PROVE  /\ CloseWindow(s) \in Stores
         /\ ClosedWindow(s) \in Windows /\ ClosedWindow(s).learned = s.current.learned
         /\ ClosedWindow(s).excluded = (s.current.excluded \/ s.frozen \/ s.current.held)
         /\ CloseWindow(s).current = EmptyWindow /\ CloseWindow(s).pending = s.pending
         /\ CloseWindow(s).known = s.known /\ CloseWindow(s).held = s.held
         /\ \A i \in 1..Len(CloseWindow(s).windows) :
              \/ CloseWindow(s).windows[i] = ClosedWindow(s)
              \/ \E j \in 1..Len(s.windows) : CloseWindow(s).windows[i] = s.windows[j]
<1> DEFINE w == ClosedWindow(s)
           ws == Append(s.windows, w)
           new == IF Len(ws) > MaxWindows THEN Tail(ws) ELSE ws
<1>1. /\ w \in Windows /\ w.learned = s.current.learned
      /\ w.excluded = (s.current.excluded \/ s.frozen \/ s.current.held)
  BY DEF Stores, Windows, ClosedWindow
<1>2. s.windows \in Seq(Windows)
  BY DEF Stores
<1>3. CloseWindow(s) = [s EXCEPT !.windows = new, !.current = EmptyWindow]
  BY DEF CloseWindow, ClosedWindow
<1> HIDE DEF w
<1>4. /\ new \in Seq(Windows)
      /\ \A i \in 1..Len(new) : new[i] = w \/ \E j \in 1..Len(s.windows) : new[i] = s.windows[j]
  <2> DEFINE old == s.windows
             t == Tail(ws)
  <2>1. old \in Seq(Windows) /\ w \in Windows
    BY ONLY <1>1, <1>2
  <2> HIDE DEF old
  <2>2. /\ ws \in Seq(Windows) /\ t \in Seq(Windows)
        /\ \A i \in 1..Len(ws) : ws[i] = w \/ \E j \in 1..Len(old) : ws[i] = old[j]
        /\ \A i \in 1..Len(t) : t[i] = w \/ \E j \in 1..Len(old) : t[i] = old[j]
    BY ONLY <2>1, Elements DEF old
  <2>3. new \in {ws, t}
    OBVIOUS
  <2> HIDE DEF ws, t, new
  <2>4. /\ new \in Seq(Windows)
        /\ \A i \in 1..Len(new) : new[i] = w \/ \E j \in 1..Len(old) : new[i] = old[j]
    BY ONLY <2>2, <2>3
  <2> QED BY ONLY <2>4 DEF old
<1> HIDE DEF new
<1> DEFINE x == [s EXCEPT !.windows = new, !.current = EmptyWindow]
<1>5. /\ x \in Stores /\ x.windows = new /\ x.current = EmptyWindow /\ x.pending = s.pending
      /\ x.known = s.known /\ x.held = s.held
  BY <1>4, EmptyIs DEF Stores
<1> HIDE DEF x
<1> QED BY <1>1, <1>3, <1>4, <1>5 DEF w, x

\* What note_capture makes of a window: the capture is learned, or spoils it.
Noted(s, rec) ==
  [s EXCEPT !.known = TRUE, !.pending = Without(@, rec.cap), !.current.held = @ \/ s.held]
Entry(s, rec) == [cap |-> rec.cap, frames |-> Counted(s.pending, rec.cap)]
Usable(s, rec, usable) ==
  usable /\ rec.rejected = 0 /\ (rec.submitted > 0 => Counted(s.pending, rec.cap) = rec.submitted)
Learns(s, rec) ==
  [Noted(s, rec) EXCEPT !.current.learned = @ \cup {Entry(s, rec)},
                        !.current.excluded = @ \/ s.frozen]

\* The number of frames counted is a number.
LEMMA CountedIs ==
  ASSUME NEW p \in Seq(Entries), NEW c
  PROVE  /\ Counted(p, c) \in Nat
         /\ ~CountedIn(p, c) => Counted(p, c) = 0
<1>1. DOMAIN p = 1..Len(p) /\ \A i \in 1..Len(p) : p[i] \in Entries
  BY LenProperties, ElementOfSeq
<1>2. CASE \E i \in DOMAIN p : p[i].cap = c
  <2> DEFINE k == CHOOSE i \in DOMAIN p : p[i].cap = c
  <2>1. k \in DOMAIN p /\ Counted(p, c) = p[k].frames
    BY <1>2 DEF Counted
  <2> HIDE DEF k
  <2> QED BY <1>1, <1>2, <2>1 DEF Entries, CountedIn
<1>3. CASE ~\E i \in DOMAIN p : p[i].cap = c
  BY <1>3 DEF Counted
<1> QED BY <1>2, <1>3

\* A capture's record makes the baseline known, and marks the window held.
LEMMA NotedIs ==
  ASSUME NEW s \in Stores, NEW rec, rec.cap \in Nat
  PROVE  /\ Noted(s, rec) \in Stores /\ Learns(s, rec) \in Stores
         /\ [Noted(s, rec) EXCEPT !.current.excluded = TRUE] \in Stores
         /\ Noted(s, rec).windows = s.windows /\ Noted(s, rec).held = s.held
         /\ Noted(s, rec).frozen = s.frozen
         /\ Noted(s, rec).known /\ Noted(s, rec).current.learned = s.current.learned
         /\ Noted(s, rec).current.excluded = s.current.excluded
         /\ Noted(s, rec).current.held = (s.current.held \/ s.held)
         /\ \A d : CountedIn(Noted(s, rec).pending, d) => CountedIn(s.pending, d)
<1> DEFINE q == Without(s.pending, rec.cap)
           h == s.current.held \/ s.held
           n == [s EXCEPT !.known = TRUE, !.pending = q, !.current.held = h]
           e == Entry(s, rec)
<1>1. s.pending \in Seq(Entries)
  BY DEF Stores
<1>2. q \in Seq(Entries) /\ \A d : CountedIn(q, d) => CountedIn(s.pending, d)
  BY <1>1, WithoutIs
<1>3. e \in Entries
  BY <1>1, CountedIs DEF Entry, Entries
<1>4. Noted(s, rec) = n
  BY DEF Noted
<1> HIDE DEF q, e
<1>5. /\ n \in Stores /\ n.windows = s.windows /\ n.held = s.held /\ n.frozen = s.frozen
      /\ n.known /\ n.current.learned = s.current.learned /\ n.pending = q
      /\ n.current.excluded = s.current.excluded /\ n.current.held = h
  BY <1>2 DEF Stores, Windows
<1> HIDE DEF n
<1>6. [n EXCEPT !.current.excluded = TRUE] \in Stores
  BY <1>5 DEF Stores, Windows
<1>7. [n EXCEPT !.current.learned = @ \cup {e}, !.current.excluded = @ \/ s.frozen] \in Stores
  BY <1>3, <1>5 DEF Stores, Windows
<1> QED BY <1>2, <1>4, <1>5, <1>6, <1>7 DEF Learns, e

\* What learning does to the window in progress.
LEMMA LearnsIs ==
  ASSUME NEW s \in Stores, NEW rec, rec.cap \in Nat
  PROVE  /\ Entry(s, rec) \in Entries /\ Entry(s, rec).cap = rec.cap
         /\ Learns(s, rec).windows = s.windows /\ Learns(s, rec).held = s.held
         /\ Learns(s, rec).frozen = s.frozen /\ Learns(s, rec).known
         /\ Learns(s, rec).pending = Noted(s, rec).pending
         /\ Learns(s, rec).current.learned = s.current.learned \cup {Entry(s, rec)}
         /\ Learns(s, rec).current.excluded = (s.current.excluded \/ s.frozen)
         /\ Learns(s, rec).current.held = (s.current.held \/ s.held)
<1> DEFINE n == Noted(s, rec)
           e == Entry(s, rec)
<1>1. /\ n \in Stores /\ n.windows = s.windows /\ n.held = s.held /\ n.known
      /\ n.current.learned = s.current.learned /\ n.current.excluded = s.current.excluded
      /\ n.current.held = (s.current.held \/ s.held) /\ n.frozen = s.frozen
  BY NotedIs
<1>2. e \in Entries /\ e.cap = rec.cap
  BY CountedIs DEF Entry, Entries, Stores
<1>3. Learns(s, rec) = [n EXCEPT !.current.learned = @ \cup {e}, !.current.excluded = @ \/ s.frozen]
  BY DEF Learns
<1> HIDE DEF n, e
<1> DEFINE x == [n EXCEPT !.current.learned = @ \cup {e}, !.current.excluded = @ \/ s.frozen]
<1>4. /\ x.windows = n.windows /\ x.held = n.held /\ x.frozen = n.frozen /\ x.known = n.known
      /\ x.pending = n.pending /\ x.current.learned = n.current.learned \cup {e}
      /\ x.current.excluded = (n.current.excluded \/ s.frozen) /\ x.current.held = n.current.held
  BY <1>1 DEF Stores, Windows
<1> HIDE DEF x
<1> QED BY <1>1, <1>2, <1>3, <1>4 DEF n, e, x

\* note_capture: the window in progress is spoilt, or learns, or is closed with
\* what it learned.
LEMMA NoteCaptureIs ==
  ASSUME NEW s \in Stores, NEW rec \in CaptureRec, NEW usable \in BOOLEAN
  PROVE  /\ NoteCapture(s, rec, usable) \in Stores
         /\ NoteCapture(s, rec, usable).known /\ NoteCapture(s, rec, usable).held = s.held
         /\ \A d : CountedIn(NoteCapture(s, rec, usable).pending, d) => CountedIn(s.pending, d)
         /\ \/ /\ NoteCapture(s, rec, usable).windows = s.windows
               /\ NoteCapture(s, rec, usable).current.learned = s.current.learned
               /\ NoteCapture(s, rec, usable).current.excluded
            \/ /\ Usable(s, rec, usable) /\ NoteCapture(s, rec, usable) = Learns(s, rec)
            \/ /\ Usable(s, rec, usable)
               /\ NoteCapture(s, rec, usable) = CloseWindow(Learns(s, rec))
<1> DEFINE x == NoteCapture(s, rec, usable)
           n == Noted(s, rec)
           l == Learns(s, rec)
           sp == [n EXCEPT !.current.excluded = TRUE]
<1>1. /\ \/ x = sp
         \/ Usable(s, rec, usable) /\ x = l
         \/ Usable(s, rec, usable) /\ x = CloseWindow(l)
  <2> DEFINE bad == \/ ~usable
                    \/ rec.rejected > 0
                    \/ rec.submitted > 0 /\ Counted(s.pending, rec.cap) # rec.submitted
  <2>1. x = IF bad THEN sp
            ELSE IF Cardinality(l.current.learned) >= WindowCaptures THEN CloseWindow(l) ELSE l
    BY Zenon DEF NoteCapture, Noted, Learns, Entry
  <2>2. rec.rejected \in Nat
    BY MonitorAssumption DEF CaptureRec
  <2>3. ~bad => Usable(s, rec, usable)
    BY ONLY <2>2 DEF Usable
  <2> HIDE DEF bad, x, sp, l
  <2> QED BY ONLY <2>1, <2>3, Zenon
<1>0. rec.cap \in Nat
  BY DEF CaptureRec
<1>2. /\ n \in Stores /\ n.windows = s.windows /\ n.held = s.held /\ n.known
      /\ n.current.learned = s.current.learned /\ sp \in Stores /\ l \in Stores
      /\ \A d : CountedIn(n.pending, d) => CountedIn(s.pending, d)
  BY <1>0, NotedIs
<1>3. l.held = s.held /\ l.known /\ l.pending = n.pending
  BY <1>0, LearnsIs
<1> HIDE DEF n, l, x
<1>4. /\ sp.windows = n.windows /\ sp.held = n.held /\ sp.known = n.known
      /\ sp.pending = n.pending /\ sp.current.learned = n.current.learned /\ sp.current.excluded
  BY <1>2 DEF Stores, Windows
<1> HIDE DEF sp
<1>5. CASE x = sp
  BY <1>2, <1>4, <1>5 DEF x
<1>6. CASE Usable(s, rec, usable) /\ x = l
  BY <1>2, <1>3, <1>6 DEF x, l
<1>8. CASE Usable(s, rec, usable) /\ x = CloseWindow(l)
  <2>1. /\ CloseWindow(l) \in Stores /\ CloseWindow(l).pending = l.pending
        /\ CloseWindow(l).known = l.known /\ CloseWindow(l).held = l.held
    BY <1>2, CloseWindowIs
  <2> QED BY <1>2, <1>3, <1>8, <2>1 DEF x, l
<1> QED BY <1>1, <1>5, <1>6, <1>8

\* The operator's freeze and reset, the hold, a loss and the saved state.
LEMMA OthersAre ==
  ASSUME NEW s \in Stores, NEW on \in BOOLEAN, NEW file \in Files
  PROVE  /\ SetFrozen(s, on) \in Stores /\ Reset(s) \in Stores /\ SetHold(s, on) \in Stores
         /\ InvalidatePending(s) \in Stores /\ Import(s, file) \in Stores /\ Export(s) \in Files
<1>1. <<>> \in Seq(Windows) /\ <<>> \in Seq(Entries) /\ EmptyWindow \in Windows
  BY EmptySeq, EmptyIs
<1>2. SetFrozen(s, on) \in Stores
  BY DEF SetFrozen, Stores, Windows
<1>3. Reset(s) \in Stores
  BY <1>1 DEF Reset, Stores
<1>4. SetHold(s, on) \in Stores
  BY DEF SetHold, Stores, Windows
<1>5. InvalidatePending(s) \in Stores
  BY <1>1 DEF InvalidatePending, Stores, Windows
<1>6. Import(s, file) \in Stores
  BY <1>1 DEF Import, Stores, Files
<1>7. Export(s) \in Files
  BY DEF Export, Stores, Files
<1> QED BY <1>2, <1>3, <1>4, <1>5, <1>6, <1>7

\* What they leave of the windows, and of the frames counted.
LEMMA OthersLeave ==
  ASSUME NEW s \in Stores, NEW on \in BOOLEAN, NEW file \in Files
  PROVE  /\ SetFrozen(s, on).windows = s.windows /\ SetFrozen(s, on).pending = s.pending
         /\ SetFrozen(s, on).known = s.known /\ SetFrozen(s, on).held = s.held
         /\ SetFrozen(s, on).current.learned = s.current.learned
         /\ SetFrozen(s, on).current.held = s.current.held
         /\ s.current.excluded => SetFrozen(s, on).current.excluded
         /\ Reset(s).windows = <<>> /\ Reset(s).current = EmptyWindow /\ Reset(s).held = s.held
         /\ Reset(s).pending = s.pending /\ Reset(s).known = s.known
         /\ SetHold(s, on).windows = s.windows /\ SetHold(s, on).pending = s.pending
         /\ SetHold(s, on).known = s.known /\ SetHold(s, on).held = on
         /\ SetHold(s, on).frozen = s.frozen
         /\ SetHold(s, on).current.learned = s.current.learned
         /\ SetHold(s, on).current.excluded = s.current.excluded
         /\ s.current.held => SetHold(s, on).current.held
         /\ InvalidatePending(s).windows = s.windows /\ InvalidatePending(s).pending = <<>>
         /\ InvalidatePending(s).known = s.known /\ InvalidatePending(s).held = s.held
         /\ InvalidatePending(s).current.learned = s.current.learned
         /\ InvalidatePending(s).current.excluded = s.known
         /\ Export(s).windows = s.windows /\ Import(s, file).pending = s.pending
         /\ \/ Import(s, file).windows = s.windows /\ Import(s, file).current = s.current
               /\ Import(s, file).known = s.known
            \/ Import(s, file).windows = file.windows /\ Import(s, file).current = EmptyWindow
<1>1. /\ SetFrozen(s, on).windows = s.windows /\ SetFrozen(s, on).pending = s.pending
      /\ SetFrozen(s, on).known = s.known /\ SetFrozen(s, on).held = s.held
      /\ SetFrozen(s, on).current.learned = s.current.learned
      /\ SetFrozen(s, on).current.held = s.current.held
      /\ s.current.excluded => SetFrozen(s, on).current.excluded
  BY DEF SetFrozen, Stores, Windows
<1>2. /\ Reset(s).windows = <<>> /\ Reset(s).current = EmptyWindow /\ Reset(s).held = s.held
      /\ Reset(s).pending = s.pending /\ Reset(s).known = s.known
  BY DEF Reset, Stores
<1>3. /\ SetHold(s, on).windows = s.windows /\ SetHold(s, on).pending = s.pending
      /\ SetHold(s, on).known = s.known /\ SetHold(s, on).held = on
      /\ SetHold(s, on).frozen = s.frozen
      /\ SetHold(s, on).current.learned = s.current.learned
      /\ SetHold(s, on).current.excluded = s.current.excluded
      /\ s.current.held => SetHold(s, on).current.held
  BY DEF SetHold, Stores, Windows
<1>4. /\ InvalidatePending(s).windows = s.windows /\ InvalidatePending(s).pending = <<>>
      /\ InvalidatePending(s).known = s.known /\ InvalidatePending(s).held = s.held
      /\ InvalidatePending(s).current.learned = s.current.learned
      /\ InvalidatePending(s).current.excluded = s.known
  BY DEF InvalidatePending, Stores, Windows
<1>5. /\ Export(s).windows = s.windows /\ Import(s, file).pending = s.pending
      /\ \/ Import(s, file).windows = s.windows /\ Import(s, file).current = s.current
            /\ Import(s, file).known = s.known
         \/ Import(s, file).windows = file.windows /\ Import(s, file).current = EmptyWindow
  BY DEF Export, Import, Stores, Files
<1> QED BY <1>1, <1>2, <1>3, <1>4, <1>5

-----------------------------------------------------------------------------
(* The books: what a lane, the queue and the consumer do to them *)

Lanes == [Lane -> SUBSET CaptureRec]

\* A lane has other records, a sequence one element more, a capture one frame more.
Refills(ln2, ln, l, recs) == ln2 = [ln EXCEPT ![l] = recs]
Grows(q2, q, x) == q2 = Append(q, x)
Decodes(t2, t, c) == t2 = [t EXCEPT ![c].decoded = @ + 1]

\* A frame x is on its way, and record r2 counts it, or it counts it as rejected.
Submits(q2, q, x, r2, r) ==
  /\ r2.cap = r.cap /\ r2.candidate = r.candidate
  /\ \/ Grows(q2, q, x) /\ r2.submitted = r.submitted + 1 /\ r2.rejected = r.rejected
     \/ q2 = q /\ r2.submitted = r.submitted /\ r2.rejected = r.rejected + 1

\* What captures cs held is what it was.
Agree(t2, t, cs) == \A c \in cs : c \in DOMAIN t2 /\ t2[c] = t[c]

\* A capture begins with no frames, and with a number that no other has.
LEMMA BeginBooks ==
  ASSUME NEW q, NEW p, NEW ln \in Lanes, NEW t \in Seq(Captures), NEW l \in Lane,
         Books(q, p, ln, t), ln[l] = {}, NEW n \in Captures, n.decoded = 0,
         NEW r, r.cap = Len(t) + 1, r.submitted = 0, r.rejected = 0, r.candidate = n.candidate,
         NEW ln2, Refills(ln2, ln, l, {r}), NEW t2, Grows(t2, t, n)
  PROVE  /\ Books(q, p, ln2, t2) /\ Done(q, ln, t) \subseteq Done(q, ln2, t2)
         /\ Agree(t2, t, DOMAIN t)
<1>1. /\ Len(t) \in Nat /\ DOMAIN t = 1..Len(t) /\ DOMAIN t2 = 1..Len(t) + 1
      /\ t2[Len(t) + 1] = n /\ \A c \in 1..Len(t) : t2[c] = t[c]
  BY AppendProperties, LenProperties DEF Grows
<1>2. ln2[l] = {r} /\ \A m \in Lane : m # l => ln2[m] = ln[m]
  BY DEF Lanes, Refills
<1>3. n.decoded = 0 /\ r.candidate = n.candidate
  OBVIOUS
<1>4. \A c \in DOMAIN t : c \in DOMAIN t2 /\ t2[c] = t[c] /\ c # r.cap
  BY ONLY <1>1, r.cap = Len(t) + 1
<1>5. r.cap \in DOMAIN t2 /\ t2[r.cap] = n
  BY ONLY <1>1, r.cap = Len(t) + 1
<1>6. Tells(r, t2)
  BY ONLY <1>3, <1>5, r.submitted = 0, r.rejected = 0 DEF Tells
<1>7. \A x : Tells(x, t) => Tells(x, t2) /\ x.cap # r.cap
  BY ONLY <1>4 DEF Tells
<1>8. \A m \in Lane : \A x \in ln2[m] : (m = l /\ x = r) \/ (m # l /\ x \in ln[m])
  BY ONLY <1>2
<1>9. LanesTell(ln2, t2)
  BY ONLY <1>6, <1>7, <1>8, Books(q, p, ln, t) DEF Books, LanesTell
<1>10. \A c \in DOMAIN t : InLane(ln2, c) => InLane(ln, c)
  BY ONLY <1>4, <1>8 DEF InLane
<1>11. ItemsTell(q, ln2, t2)
  <2>1. \A x : Tells(x, t) => x.cap \in DOMAIN t
    BY DEF Tells
  <2> QED BY ONLY <2>1, <1>7, <1>10, Books(q, p, ln, t) DEF Books, ItemsTell
<1>12. FramesCounted(q, p, ln2, t2)
  BY ONLY <1>4, <1>8, Books(q, p, ln, t) DEF Books, FramesCounted
<1>13. Done(q, ln, t) \subseteq Done(q, ln2, t2)
  BY ONLY <1>4, <1>10 DEF Done
<1> QED BY <1>4, <1>9, <1>11, <1>12, <1>13 DEF Books, Agree

\* A frame is decoded; it is on its way, or its record says it was not let in.
LEMMA FrameBooks ==
  ASSUME NEW q \in Seq(Item), NEW p, NEW ln \in Lanes, NEW t \in Seq(Captures),
         NEW l \in Lane, Books(q, p, ln, t), NEW r \in ln[l],
         NEW x \in Item, x.kind = "frame", x.cap = r.cap,
         NEW q2, NEW r2, Submits(q2, q, x, r2, r),
         NEW ln2, Refills(ln2, ln, l, {r2}), NEW t2, Decodes(t2, t, r.cap)
  PROVE  /\ Books(q2, p, ln2, t2) /\ Done(q, ln, t) \subseteq Done(q2, ln2, t2)
         /\ Agree(t2, t, Done(q, ln, t))
<1>0. /\ r2.cap = r.cap /\ r2.candidate = r.candidate
      /\ \/ Grows(q2, q, x) /\ r2.submitted = r.submitted + 1 /\ r2.rejected = r.rejected
         \/ q2 = q /\ r2.submitted = r.submitted /\ r2.rejected = r.rejected + 1
  BY DEF Submits
<1>1. /\ r \in CaptureRec /\ r.submitted \in Nat /\ r.rejected \in Nat
      /\ Tells(r, t) /\ r.cap \in DOMAIN t /\ t[r.cap] \in Captures
      /\ t[r.cap].decoded \in Nat
  <2>1. r \in CaptureRec
    BY DEF Lanes
  <2>2. r.submitted \in Nat /\ r.rejected \in Nat
    BY ONLY <2>1, MonitorAssumption DEF CaptureRec
  <2>3. Tells(r, t) /\ r.cap \in DOMAIN t
    BY DEF Books, LanesTell, Tells
  <2>4. t[r.cap] \in Captures
    BY <2>3, ElementOfSeq, LenProperties
  <2>5. t[r.cap].decoded \in Nat
    BY ONLY <2>4, MonitorAssumption DEF Captures
  <2> QED BY <2>1, <2>2, <2>3, <2>4, <2>5
<1>2. /\ DOMAIN t2 = DOMAIN t /\ \A c \in DOMAIN t : c # r.cap => t2[c] = t[c]
      /\ t2[r.cap].decoded = t[r.cap].decoded + 1
      /\ t2[r.cap].candidate = t[r.cap].candidate
  BY <1>1 DEF Captures, Decodes
<1>3. ln2[l] = {r2} /\ \A m \in Lane : m # l => ln2[m] = ln[m]
  BY DEF Lanes, Refills
<1>4. \A i \in 1..Len(q2) : (i \in 1..Len(q) /\ q2[i] = q[i]) \/ q2[i] = x
  <2>1. Len(q) \in Nat
    BY LenProperties
  <2>2. Len(Append(q, x)) = Len(q) + 1 /\ Append(q, x)[Len(q) + 1] = x
        /\ \A i \in 1..Len(q) : Append(q, x)[i] = q[i]
    BY ONLY AppendProperties, q \in Seq(Item), x \in Item
  <2> QED BY ONLY <1>0, <2>1, <2>2 DEF Grows
<1>5. \A m \in Lane : \A y \in ln2[m] : (m = l /\ y = r2) \/ (m # l /\ y \in ln[m] /\ y.cap # r.cap)
  BY ONLY <1>3, r \in ln[l], Books(q, p, ln, t) DEF Books, LanesTell
<1>6. Tells(r2, t2)
  <2>1. r2.submitted + r2.rejected = r.submitted + r.rejected + 1
    <3>1. CASE r2.submitted = r.submitted + 1 /\ r2.rejected = r.rejected
      BY ONLY <1>1, <3>1
    <3>2. CASE r2.submitted = r.submitted /\ r2.rejected = r.rejected + 1
      BY ONLY <1>1, <3>2
    <3> QED BY <1>0, <3>1, <3>2
  <2>2. /\ r.submitted + r.rejected = t[r.cap].decoded /\ r.candidate = t[r.cap].candidate
        /\ r.cap \in DOMAIN t
    BY ONLY <1>1 DEF Tells
  <2>3. /\ r2.submitted + r2.rejected = t2[r2.cap].decoded
        /\ r2.candidate = t2[r2.cap].candidate /\ r2.cap \in DOMAIN t2
    BY ONLY <2>1, <2>2, <1>2, <1>0
  <2> QED BY ONLY <2>3 DEF Tells
<1>7. \A y : Tells(y, t) /\ y.cap # r.cap => Tells(y, t2)
  BY ONLY <1>2 DEF Tells
<1>8. LanesTell(ln2, t2)
  BY ONLY <1>5, <1>6, <1>7, Books(q, p, ln, t), <1>0 DEF Books, LanesTell
<1>9. \A c : InLane(ln2, c) => InLane(ln, c)
  BY ONLY <1>5, r \in ln[l], <1>0 DEF InLane
<1>10. InLane(ln, r.cap)
  BY DEF InLane
<1>11. \A i \in 1..Len(q2) : IsRecord(q2[i]) => i \in 1..Len(q) /\ q2[i] = q[i]
  BY ONLY <1>4, x.kind = "frame" DEF IsRecord
<1>12. \A i \in 1..Len(q2) : IsRecord(q2[i]) => q2[i].rec.cap # r.cap
  BY ONLY <1>10, <1>11, Books(q, p, ln, t) DEF Books, ItemsTell
<1>13. ItemsTell(q2, ln2, t2)
  BY ONLY <1>7, <1>9, <1>11, <1>12, Books(q, p, ln, t) DEF Books, ItemsTell
<1>14. FramesCounted(q2, p, ln2, t2)
  <2>1. \A c \in Nat : (FrameIn(q2, c) \/ CountedIn(p, c)) /\ c # r.cap =>
          FrameIn(q, c) \/ CountedIn(p, c)
    BY ONLY <1>4, x.cap = r.cap DEF FrameIn
  <2>2. FrameIn(q2, r.cap) \/ CountedIn(p, r.cap) => r2.submitted > 0
    <3>1. CASE r2.submitted = r.submitted + 1
      BY <1>1, <3>1
    <3>2. CASE q2 = q /\ r2.submitted = r.submitted
      BY ONLY <1>1, <3>2, r \in ln[l], l \in Lane, Books(q, p, ln, t)
         DEF Books, FramesCounted, CaptureRec
    <3> QED BY <1>0, <3>1, <3>2
  <2>3. \A c \in Nat : FrameIn(q2, c) \/ CountedIn(p, c) =>
          \A m \in Lane : \A y \in ln2[m] : y.cap = c => y.submitted > 0
    BY ONLY <1>5, <2>1, <2>2, Books(q, p, ln, t), <1>0 DEF Books, FramesCounted
  <2>4. \A c \in Nat : FrameIn(q2, c) \/ CountedIn(p, c) => c \in DOMAIN t2
    BY ONLY <1>1, <1>2, <2>1, Books(q, p, ln, t) DEF Books, FramesCounted
  <2>5. \A c \in Nat : FrameIn(q2, c) \/ CountedIn(p, c) =>
          \A i \in 1..Len(q2) : IsRecord(q2[i]) /\ q2[i].rec.cap = c => q2[i].rec.submitted > 0
    BY ONLY <1>11, <1>12, <2>1, Books(q, p, ln, t) DEF Books, FramesCounted
  <2> QED BY <2>3, <2>4, <2>5 DEF FramesCounted
<1>15. \A c : Carried(q2, c) => Carried(q, c)
  BY ONLY <1>11 DEF Carried
<1>16. Done(q, ln, t) \subseteq Done(q2, ln2, t2) /\ Agree(t2, t, Done(q, ln, t))
  BY ONLY <1>2, <1>9, <1>10, <1>15 DEF Done, Agree
<1> QED BY <1>8, <1>13, <1>14, <1>16 DEF Books

\* A capture's record leaves its lane, and is on its way or dropped.
LEMMA RecordBooks ==
  ASSUME NEW q \in Seq(Item), NEW p, NEW ln \in Lanes, NEW t,
         NEW l \in Lane, Books(q, p, ln, t), NEW r \in ln[l],
         NEW x \in Item, IsRecord(x), x.rec = r, NEW q2, q2 = q \/ Grows(q2, q, x),
         NEW ln2, Refills(ln2, ln, l, {})
  PROVE  Books(q2, p, ln2, t) /\ Done(q, ln, t) \subseteq Done(q2, ln2, t)
<1>1. ln2[l] = {} /\ \A m \in Lane : m # l => ln2[m] = ln[m]
  BY DEF Lanes, Refills
<1>2. /\ Len(q) \in Nat
      /\ \A i \in 1..Len(q2) : \/ i \in 1..Len(q) /\ q2[i] = q[i]
                               \/ q2[i] = x /\ i = Len(q) + 1
  <2>1. Len(q) \in Nat
    BY LenProperties
  <2>2. Len(Append(q, x)) = Len(q) + 1 /\ Append(q, x)[Len(q) + 1] = x
        /\ \A i \in 1..Len(q) : Append(q, x)[i] = q[i]
    BY ONLY AppendProperties, q \in Seq(Item), x \in Item
  <2> QED BY ONLY <2>1, <2>2, q2 = q \/ Grows(q2, q, x) DEF Grows
<1>3. /\ LanesTell(ln, t) /\ ItemsTell(q, ln, t) /\ FramesCounted(q, p, ln, t)
      /\ Tells(r, t) /\ InLane(ln, r.cap)
  BY DEF Books, LanesTell, InLane
<1>4. r.cap \in Nat
  BY DEF Lanes, CaptureRec
<1>5. \A m \in Lane : \A y \in ln2[m] : y \in ln[m] /\ m # l
  BY ONLY <1>1
<1>6. LanesTell(ln2, t)
  BY ONLY <1>3, <1>5 DEF LanesTell
<1>7. ~InLane(ln2, r.cap) /\ \A c : InLane(ln2, c) => InLane(ln, c)
  <2>1. \A m \in Lane : \A y \in ln[m] : y.cap = r.cap => m = l
    BY ONLY <1>3, r \in ln[l], l \in Lane DEF LanesTell
  <2> QED BY ONLY <1>5, <2>1 DEF InLane
<1>8. \A i \in 1..Len(q) : IsRecord(q[i]) => q[i].rec.cap # r.cap
  BY ONLY <1>3 DEF ItemsTell
<1>9. ItemsTell(q2, ln2, t)
  <2> SUFFICES ASSUME NEW i \in 1..Len(q2), IsRecord(q2[i])
               PROVE  /\ Tells(q2[i].rec, t) /\ ~InLane(ln2, q2[i].rec.cap)
                      /\ \A j \in 1..Len(q2) :
                           IsRecord(q2[j]) /\ q2[j].rec.cap = q2[i].rec.cap => i = j
    BY DEF ItemsTell
  <2>1. CASE i \in 1..Len(q) /\ q2[i] = q[i]
    <3>1. /\ Tells(q[i].rec, t) /\ ~InLane(ln, q[i].rec.cap) /\ q[i].rec.cap # r.cap
          /\ \A j \in 1..Len(q) : IsRecord(q[j]) /\ q[j].rec.cap = q[i].rec.cap => i = j
      BY ONLY <1>3, <1>8, <2>1, IsRecord(q2[i]) DEF ItemsTell
    <3> QED BY ONLY <3>1, <2>1, <1>2, <1>7, x.rec = r
  <2>2. CASE q2[i] = x /\ i = Len(q) + 1
    BY ONLY <2>2, <1>2, <1>3, <1>7, <1>8, x.rec = r
  <2> QED BY <1>2, <2>1, <2>2
<1>10. FramesCounted(q2, p, ln2, t)
  <2>1. \A c \in Nat : FrameIn(q2, c) => FrameIn(q, c)
    BY ONLY <1>2, IsRecord(x) DEF FrameIn, IsRecord
  <2>2. FrameIn(q, r.cap) \/ CountedIn(p, r.cap) => r.submitted > 0
    BY ONLY <1>3, <1>4, r \in ln[l], l \in Lane DEF FramesCounted
  <2>3. \A c \in Nat : FrameIn(q2, c) \/ CountedIn(p, c) =>
          \A i \in 1..Len(q2) : IsRecord(q2[i]) /\ q2[i].rec.cap = c => q2[i].rec.submitted > 0
    BY ONLY <1>2, <1>3, <2>1, <2>2, x.rec = r DEF FramesCounted
  <2>4. \A c \in Nat : FrameIn(q2, c) \/ CountedIn(p, c) =>
          c \in DOMAIN t /\ \A m \in Lane : \A y \in ln2[m] : y.cap = c => y.submitted > 0
    BY ONLY <1>3, <1>5, <2>1 DEF FramesCounted
  <2> QED BY ONLY <2>3, <2>4 DEF FramesCounted
<1>11. Done(q, ln, t) \subseteq Done(q2, ln2, t)
  <2>1. \A c : Carried(q2, c) => Carried(q, c) \/ c = r.cap
    BY ONLY <1>2, x.rec = r DEF Carried
  <2> QED BY ONLY <2>1, <1>3, <1>7 DEF Done
<1> QED BY <1>6, <1>9, <1>10, <1>11 DEF Books

\* A command is on its way.
LEMMA CommandBooks ==
  ASSUME NEW q \in Seq(Item), NEW p, NEW ln, NEW t, Books(q, p, ln, t),
         NEW x \in Item, x.kind = "command", NEW q2, q2 = q \/ Grows(q2, q, x)
  PROVE  Books(q2, p, ln, t) /\ Done(q, ln, t) \subseteq Done(q2, ln, t)
<1>1. \A i \in 1..Len(q2) : (i \in 1..Len(q) /\ q2[i] = q[i]) \/ q2[i] = x
  <2>1. Len(q) \in Nat
    BY LenProperties
  <2>2. Len(Append(q, x)) = Len(q) + 1 /\ Append(q, x)[Len(q) + 1] = x
        /\ \A i \in 1..Len(q) : Append(q, x)[i] = q[i]
    BY ONLY AppendProperties, q \in Seq(Item), x \in Item
  <2> QED BY ONLY <2>1, <2>2, q2 = q \/ Grows(q2, q, x) DEF Grows
<1>2. \A i \in 1..Len(q2) : IsRecord(q2[i]) => i \in 1..Len(q) /\ q2[i] = q[i]
  BY ONLY <1>1, x.kind = "command" DEF IsRecord
<1>3. \A c : FrameIn(q2, c) => FrameIn(q, c)
  BY ONLY <1>1, x.kind = "command" DEF FrameIn
<1>4. \A c : Carried(q2, c) => Carried(q, c)
  BY ONLY <1>2 DEF Carried
<1>5. ItemsTell(q2, ln, t)
  BY ONLY <1>2, Books(q, p, ln, t) DEF Books, ItemsTell
<1>6. FramesCounted(q2, p, ln, t)
  BY ONLY <1>2, <1>3, Books(q, p, ln, t) DEF Books, FramesCounted
<1> QED BY <1>4, <1>5, <1>6 DEF Books, Done

\* The frames counted after an item: those counted before it, or the item itself.
CountsAfter(q, p, p2) ==
  \A d \in Nat : CountedIn(p2, d) => CountedIn(p, d) \/ (q[1].kind = "frame" /\ q[1].cap = d)

\* What a record at the head makes of its capture: it was not done, and is.
MakesDone(q, p, ln, t, r) ==
  /\ r.cap \in Done(Tail(q), ln, t) /\ r.cap \notin Done(q, ln, t) /\ Tells(r, t)
  /\ r.cap \in Nat /\ CountedIn(p, r.cap) => r.submitted > 0

\* An item is ingested: a frame may be counted now, a record makes its capture done.
LEMMA TailBooks ==
  ASSUME NEW q \in Seq(Item), q # <<>>, NEW p, NEW ln, NEW t, Books(q, p, ln, t), NEW p2,
         CountsAfter(q, p, p2)
  PROVE  /\ Books(Tail(q), p2, ln, t) /\ Done(q, ln, t) \subseteq Done(Tail(q), ln, t)
         /\ IsRecord(q[1]) => MakesDone(q, p, ln, t, q[1].rec)
<1> DEFINE z == Tail(q)
<1>1. Len(q) \in Nat /\ Len(q) > 0 /\ Len(z) = Len(q) - 1 /\ \A i \in 1..Len(z) : z[i] = q[i + 1]
  BY HeadTailProperties, LenProperties, EmptySeq
<1> HIDE DEF z
<1>2. \A i \in 1..Len(z) : i + 1 \in 1..Len(q) /\ z[i] = q[i + 1] /\ i + 1 # 1
  BY ONLY <1>1
<1>3. 1 \in 1..Len(q)
  BY ONLY <1>1
<1>4. \A c : (FrameIn(z, c) => FrameIn(q, c)) /\ (Carried(z, c) => Carried(q, c))
  BY ONLY <1>2 DEF FrameIn, Carried
<1>5. \A d \in Nat : CountedIn(p2, d) => CountedIn(p, d) \/ FrameIn(q, d)
  BY ONLY <1>3, CountsAfter(q, p, p2) DEF FrameIn, CountsAfter
<1>6. LanesTell(ln, t) /\ ItemsTell(q, ln, t) /\ FramesCounted(q, p, ln, t)
  BY DEF Books
<1>7. ItemsTell(z, ln, t)
  <2> SUFFICES ASSUME NEW i \in 1..Len(z), IsRecord(z[i])
               PROVE  /\ Tells(z[i].rec, t) /\ ~InLane(ln, z[i].rec.cap)
                      /\ \A j \in 1..Len(z) :
                           IsRecord(z[j]) /\ z[j].rec.cap = z[i].rec.cap => i = j
    BY DEF ItemsTell
  <2>1. /\ Tells(z[i].rec, t) /\ ~InLane(ln, z[i].rec.cap)
        /\ \A j \in 1..Len(q) : IsRecord(q[j]) /\ q[j].rec.cap = z[i].rec.cap => i + 1 = j
    BY ONLY <1>2, <1>6, i \in 1..Len(z), IsRecord(z[i]) DEF ItemsTell
  <2>2. \A j \in 1..Len(z) : IsRecord(z[j]) /\ z[j].rec.cap = z[i].rec.cap => i + 1 = j + 1
    BY ONLY <2>1, <1>2
  <2>3. \A j \in 1..Len(z) : i + 1 = j + 1 => i = j
    BY ONLY <1>1, i \in 1..Len(z)
  <2> QED BY ONLY <2>1, <2>2, <2>3
<1>8. FramesCounted(z, p2, ln, t)
  BY ONLY <1>2, <1>4, <1>5, <1>6 DEF FramesCounted
<1>9. Done(q, ln, t) \subseteq Done(z, ln, t)
  BY ONLY <1>4 DEF Done
<1>10. ASSUME IsRecord(q[1])
       PROVE  /\ q[1].rec.cap \in Done(z, ln, t) /\ q[1].rec.cap \notin Done(q, ln, t)
              /\ Tells(q[1].rec, t)
              /\ q[1].rec.cap \in Nat /\ CountedIn(p, q[1].rec.cap) => q[1].rec.submitted > 0
  <2>1. /\ Tells(q[1].rec, t) /\ ~InLane(ln, q[1].rec.cap)
        /\ \A j \in 1..Len(q) : IsRecord(q[j]) /\ q[j].rec.cap = q[1].rec.cap => 1 = j
    BY ONLY <1>3, <1>6, <1>10 DEF ItemsTell
  <2>2. ~Carried(z, q[1].rec.cap) /\ Carried(q, q[1].rec.cap)
    BY ONLY <2>1, <1>2, <1>3, <1>10 DEF Carried
  <2>3. q[1].rec.cap \in DOMAIN t
    BY ONLY <2>1 DEF Tells
  <2>4. q[1].rec.cap \in Nat /\ CountedIn(p, q[1].rec.cap) => q[1].rec.submitted > 0
    BY ONLY <1>3, <1>6, <1>10 DEF FramesCounted
  <2> QED BY ONLY <2>1, <2>2, <2>3, <2>4 DEF Done
<1>11. IsRecord(q[1]) => MakesDone(q, p, ln, t, q[1].rec)
  BY ONLY <1>10 DEF MakesDone, z
<1> QED BY ONLY <1>6, <1>7, <1>8, <1>9, <1>11 DEF Books, z

\* Frames counted may be forgotten.
LEMMA FewerBooks ==
  ASSUME NEW q, NEW p, NEW ln, NEW t, Books(q, p, ln, t), NEW p2,
         \A d \in Nat : CountedIn(p2, d) => CountedIn(p, d)
  PROVE  Books(q, p2, ln, t)
  BY DEF Books, FramesCounted

\* When everything on its way is lost, with the lanes or without them.
LEMMA EmptyBooks ==
  ASSUME NEW q, NEW p, NEW ln, NEW t, Books(q, p, ln, t),
         NEW ln2 \in {ln, [l \in Lane |-> {}]}
  PROVE  Books(<<>>, <<>>, ln2, t) /\ Done(q, ln, t) \subseteq Done(<<>>, ln2, t)
<1>1. 1..Len(<<>>) = {}
  OBVIOUS
<1>2. \A m \in Lane : \A y \in ln2[m] : y \in ln[m]
  OBVIOUS
<1>3. LanesTell(ln2, t)
  BY ONLY <1>2, Books(q, p, ln, t) DEF Books, LanesTell
<1>4. ItemsTell(<<>>, ln2, t) /\ FramesCounted(<<>>, <<>>, ln2, t)
  BY ONLY <1>1 DEF ItemsTell, FramesCounted, FrameIn, CountedIn
<1>5. Done(q, ln, t) \subseteq Done(<<>>, ln2, t)
  BY ONLY <1>1, <1>2 DEF Done, InLane, Carried
<1> QED BY <1>3, <1>4, <1>5 DEF Books

-----------------------------------------------------------------------------
(* What is learned: what ingesting does to it *)

\* What was learned stays true while what is known of the captures done stays.
LEMMA LearnedStays ==
  ASSUME NEW done, NEW t, NEW fr, NEW done2, NEW t2, NEW fr2, done \subseteq done2,
         \A c \in done : t2[c] = t[c] /\ (c \in fr2 => c \in fr)
  PROVE  /\ \A s : Learned(s, done, t, fr) => Learned(s, done2, t2, fr2)
         /\ \A d : Saved(d, done, t, fr) => Saved(d, done2, t2, fr2)
<1>1. \A w : Closed(w, done, t, fr) => Closed(w, done2, t2, fr2)
  BY DEF Closed, True
<1>2. \A w : Open(w, done, t, fr) => Open(w, done2, t2, fr2)
  BY DEF Open, True
<1>3. \A ws : AllClosed(ws, done, t, fr) => AllClosed(ws, done2, t2, fr2)
  BY ONLY <1>1 DEF AllClosed
<1> QED BY ONLY <1>2, <1>3 DEF Learned, Saved

\* A capture's record falls in the window in progress, once, and its count is true.
LEMMA LearnedCapture ==
  ASSUME NEW s \in Stores, NEW rec \in CaptureRec, NEW usable \in BOOLEAN,
         NEW done, NEW t, NEW fr, Learned(s, done, t, fr), rec.cap \in done,
         Tells(rec, t), s.frozen \/ rec.cap \notin fr,
         CountedIn(s.pending, rec.cap) => rec.submitted > 0,
         usable /\ rec.candidate => s.held
  PROVE  Learned(NoteCapture(s, rec, usable), done, t, fr)
<1> DEFINE x == NoteCapture(s, rec, usable)
           l == Learns(s, rec)
           e == Entry(s, rec)
<1>1. /\ x.known
      /\ \/ x.windows = s.windows /\ x.current.learned = s.current.learned /\ x.current.excluded
         \/ Usable(s, rec, usable) /\ x = l
         \/ Usable(s, rec, usable) /\ x = CloseWindow(l)
  BY NoteCaptureIs
<1>2. /\ rec.cap \in Nat /\ rec.submitted \in Nat /\ rec.rejected \in Nat
  BY MonitorAssumption DEF CaptureRec
<1>3. /\ l \in Stores /\ e \in Entries /\ e.cap = rec.cap
      /\ l.windows = s.windows /\ l.known
      /\ l.current.learned = s.current.learned \cup {e}
      /\ l.current.excluded = (s.current.excluded \/ s.frozen)
      /\ l.current.held = (s.current.held \/ s.held)
  <2>1. s \in Stores /\ rec.cap \in Nat
    BY <1>2
  <2>2. l \in Stores
    BY ONLY <2>1, NotedIs
  <2>3. /\ e \in Entries /\ e.cap = rec.cap /\ l.windows = s.windows /\ l.known
        /\ l.current.learned = s.current.learned \cup {e}
        /\ l.current.excluded = (s.current.excluded \/ s.frozen)
        /\ l.current.held = (s.current.held \/ s.held)
    BY ONLY <2>1, LearnsIs
  <2> QED BY <2>2, <2>3
<1>4. e.frames = Counted(s.pending, rec.cap) /\ Counted(s.pending, rec.cap) \in Nat
      /\ (~CountedIn(s.pending, rec.cap) => Counted(s.pending, rec.cap) = 0)
  BY CountedIs DEF Stores, Entry
<1> HIDE DEF x, l, e
<1>5. AllClosed(s.windows, done, t, fr) /\ Open(s.current, done, t, fr)
  BY DEF Learned
<1>6. ASSUME Usable(s, rec, usable) PROVE Open(l.current, done, t, fr)
  <2>1. e.frames = t[rec.cap].decoded
    BY ONLY <1>2, <1>4, <1>6, Tells(rec, t), CountedIn(s.pending, rec.cap) => rec.submitted > 0
       DEF Usable, Tells
  <2>2. t[rec.cap].candidate => s.held
    BY ONLY <1>6, Tells(rec, t), usable /\ rec.candidate => s.held DEF Usable, Tells
  <2>3. \A y \in s.current.learned : y.cap \in done /\
          (l.current.excluded \/ (True(y, t, fr) /\ (t[y.cap].candidate => l.current.held)))
    BY ONLY <1>3, <1>5 DEF Open
  <2>4. e.cap \in done /\
          (l.current.excluded \/ (True(e, t, fr) /\ (t[e.cap].candidate => l.current.held)))
    BY ONLY <1>3, <2>1, <2>2, rec.cap \in done, s.frozen \/ rec.cap \notin fr DEF True
  <2> QED BY ONLY <1>3, <2>3, <2>4 DEF Open
<1>7. CASE x.windows = s.windows /\ x.current.learned = s.current.learned /\ x.current.excluded
  <2>1. Open(x.current, done, t, fr)
    BY ONLY <1>5, <1>7 DEF Open
  <2> QED BY <1>1, <1>5, <1>7, <2>1 DEF Learned, x
<1>8. CASE Usable(s, rec, usable) /\ x = l
  BY <1>3, <1>5, <1>6, <1>8 DEF Learned, x
<1>9. CASE Usable(s, rec, usable) /\ x = CloseWindow(l)
  <2> DEFINE w == ClosedWindow(l)
  <2>1. /\ w.learned = l.current.learned
        /\ w.excluded = (l.current.excluded \/ l.frozen \/ l.current.held)
        /\ CloseWindow(l).current = EmptyWindow
        /\ \A i \in 1..Len(CloseWindow(l).windows) :
             \/ CloseWindow(l).windows[i] = w
             \/ \E j \in 1..Len(l.windows) : CloseWindow(l).windows[i] = l.windows[j]
    BY <1>3, CloseWindowIs
  <2> HIDE DEF w
  <2>2. Closed(w, done, t, fr)
    BY ONLY <1>6, <1>9, <2>1 DEF Open, Closed
  <2>3. AllClosed(x.windows, done, t, fr)
    BY ONLY <1>3, <1>5, <1>9, <2>1, <2>2 DEF AllClosed
  <2>4. Open(x.current, done, t, fr)
    BY ONLY <1>9, <2>1 DEF Open, EmptyWindow
  <2> QED BY <1>1, <2>3, <2>4 DEF Learned, x
<1> QED BY <1>1, <1>7, <1>8, <1>9 DEF x

\* The hold, the operator's freeze and reset, a loss and a restart teach nothing.
LEMMA LearnedOthers ==
  ASSUME NEW s \in Stores, NEW on \in BOOLEAN, NEW file \in Files,
         NEW done, NEW t, NEW fr, Learned(s, done, t, fr)
  PROVE  /\ Learned(SetFrozen(s, on), done, t, fr) /\ Learned(Reset(s), done, t, fr)
         /\ Learned(SetHold(s, on), done, t, fr) /\ Learned(InvalidatePending(s), done, t, fr)
         /\ AllClosed(file.windows, done, t, fr) => Learned(Import(s, file), done, t, fr)
         /\ AllClosed(Export(s).windows, done, t, fr)
         /\ Learned(EmptyStore, done, t, fr)
<1>1. /\ AllClosed(s.windows, done, t, fr) /\ Open(s.current, done, t, fr)
      /\ ~s.known => s.current.learned = {}
  BY DEF Learned
<1>2. Open(EmptyWindow, done, t, fr) /\ AllClosed(<<>>, done, t, fr)
  BY DEF Open, AllClosed, EmptyWindow
<1>3. Learned(SetFrozen(s, on), done, t, fr)
  <2> DEFINE x == SetFrozen(s, on)
  <2>1. /\ x.windows = s.windows /\ x.known = s.known /\ x.current.learned = s.current.learned
        /\ x.current.held = s.current.held /\ (s.current.excluded => x.current.excluded)
    BY OthersLeave
  <2> HIDE DEF x
  <2>2. Learned(x, done, t, fr)
    BY ONLY <1>1, <2>1 DEF Learned, Open
  <2> QED BY <2>2 DEF x
<1>4. Learned(Reset(s), done, t, fr)
  <2> DEFINE x == Reset(s)
  <2>1. x.windows = <<>> /\ x.current = EmptyWindow
    BY OthersLeave
  <2> HIDE DEF x
  <2>2. Learned(x, done, t, fr)
    BY ONLY <1>2, <2>1 DEF Learned, EmptyWindow
  <2> QED BY <2>2 DEF x
<1>5. Learned(SetHold(s, on), done, t, fr)
  <2> DEFINE x == SetHold(s, on)
  <2>1. /\ x.windows = s.windows /\ x.known = s.known /\ x.current.learned = s.current.learned
        /\ x.current.excluded = s.current.excluded /\ (s.current.held => x.current.held)
    BY OthersLeave
  <2> HIDE DEF x
  <2>2. Learned(x, done, t, fr)
    BY ONLY <1>1, <2>1 DEF Learned, Open
  <2> QED BY <2>2 DEF x
<1>6. Learned(InvalidatePending(s), done, t, fr)
  <2> DEFINE x == InvalidatePending(s)
  <2>1. /\ x.windows = s.windows /\ x.known = s.known /\ x.current.learned = s.current.learned
        /\ x.current.excluded = s.known
    BY OthersLeave
  <2> HIDE DEF x
  <2>2. Learned(x, done, t, fr)
    BY ONLY <1>1, <2>1 DEF Learned, Open
  <2> QED BY <2>2 DEF x
<1>7. ASSUME AllClosed(file.windows, done, t, fr) PROVE Learned(Import(s, file), done, t, fr)
  <2> DEFINE x == Import(s, file)
  <2>1. \/ x.windows = s.windows /\ x.current = s.current /\ x.known = s.known
        \/ x.windows = file.windows /\ x.current = EmptyWindow
    BY OthersLeave
  <2> HIDE DEF x
  <2>2. Learned(x, done, t, fr)
    BY ONLY <1>1, <1>2, <1>7, <2>1 DEF Learned, EmptyWindow
  <2> QED BY <2>2 DEF x
<1>8. AllClosed(Export(s).windows, done, t, fr)
  BY <1>1, OthersLeave
<1>9. Learned(EmptyStore, done, t, fr)
  BY <1>2 DEF Learned, EmptyStore, EmptyWindow
<1> QED BY <1>3, <1>4, <1>5, <1>6, <1>7, <1>8, <1>9

-----------------------------------------------------------------------------
(* The flood rule *)

\* What the rule makes of the hold.
LEMMA FloodHoldIs ==
  ASSUME NEW f, NEW s, NEW rec, NEW timing
  PROVE  /\ \/ FloodHold(f, s, rec, timing) = s
            \/ FloodHold(f, s, rec, timing) = SetHold(s, TRUE)
            \/ /\ FloodHold(f, s, rec, timing) = SetHold(s, FALSE)
               /\ FloodFinish(f, rec, timing).quiet >= ReleaseQuiet
         /\ FloodUsable(f, rec, timing) /\ rec.candidate =>
              FloodHold(f, s, rec, timing) = SetHold(s, TRUE)
  BY DEF FloodHold, FloodUsable

\* The operators of the rule.
LEMMA FloodIs ==
  ASSUME NEW f \in Floods, NEW rec \in CaptureRec, NEW c \in Nat,
         NEW timing \in Timings
  PROVE  /\ EmptyFlood \in Floods /\ FloodInterrupt(f) \in Floods
         /\ FloodNoteFrame(f, c) \in Floods /\ FloodFinish(f, rec, timing) \in Floods
         /\ FloodInterrupt(f).quiet = 0 /\ EmptyFlood.quiet = 0
         /\ FloodNoteFrame(f, c).quiet \in {0, f.quiet}
         /\ \/ FloodFinish(f, rec, timing).quiet = 0
            \/ /\ FloodUsable(f, rec, timing) /\ ~rec.candidate
               /\ FloodFinish(f, rec, timing).quiet =
                    IF timing = "gap" THEN 1 ELSE f.quiet + 1
<1>1. f.pending \in Seq(Entries) /\ f.quiet \in Nat /\ <<>> \in Seq(Entries)
  BY EmptySeq DEF Floods
<1>2. /\ EmptyFlood \in Floods /\ FloodInterrupt(f) \in Floods
      /\ FloodInterrupt(f).quiet = 0 /\ EmptyFlood.quiet = 0
  BY <1>1 DEF EmptyFlood, FloodInterrupt, Floods
<1>3. FloodNoteFrame(f, c) \in Floods /\ FloodNoteFrame(f, c).quiet \in {0, f.quiet}
  <2> DEFINE room == \/ \E i \in DOMAIN f.pending : f.pending[i].cap = c
                     \/ Len(f.pending) < FloodMaxPending
             g == IF room THEN f ELSE FloodInterrupt(f)
             q == CountFrame(g.pending, c)
  <2>1. g \in Floods /\ g.quiet \in {0, f.quiet}
    <3> HIDE DEF room
    <3>1. f \in Floods
      OBVIOUS
    <3> QED BY ONLY <1>2, <3>1
  <2>2. FloodNoteFrame(f, c) = [g EXCEPT !.pending = q]
    BY DEF FloodNoteFrame
  <2> HIDE DEF g
  <2>3. q \in Seq(Entries)
    BY <2>1, CountFrameIs DEF Floods
  <2> HIDE DEF q
  <2> QED BY <2>1, <2>2, <2>3 DEF Floods
<1>4. /\ FloodFinish(f, rec, timing) \in Floods
      /\ \/ FloodFinish(f, rec, timing).quiet = 0
         \/ /\ FloodUsable(f, rec, timing) /\ ~rec.candidate
            /\ FloodFinish(f, rec, timing).quiet = IF timing = "gap" THEN 1 ELSE f.quiet + 1
  <2> DEFINE q == Without(f.pending, rec.cap)
             base == [f EXCEPT !.pending = q, !.lost = FALSE]
             n == IF timing = "gap" THEN 1 ELSE f.quiet + 1
  <2>1. q \in Seq(Entries)
    BY <1>1, WithoutIs
  <2>2. FloodFinish(f, rec, timing) =
          IF ~FloodUsable(f, rec, timing) \/ rec.candidate
          THEN [base EXCEPT !.quiet = 0]
          ELSE [base EXCEPT !.quiet = IF timing = "gap" THEN 1 ELSE @ + 1]
    BY DEF FloodFinish
  <2> HIDE DEF q
  <2>3. base \in Floods /\ base.quiet = f.quiet
    BY <2>1 DEF Floods
  <2> HIDE DEF base
  <2>4. n \in Nat
    BY <1>1
  <2>5. /\ [base EXCEPT !.quiet = 0] \in Floods /\ [base EXCEPT !.quiet = 0].quiet = 0
        /\ [base EXCEPT !.quiet = n] \in Floods /\ [base EXCEPT !.quiet = n].quiet = n
    BY <2>3, <2>4 DEF Floods
  <2>6. [base EXCEPT !.quiet = IF timing = "gap" THEN 1 ELSE @ + 1] = [base EXCEPT !.quiet = n]
    BY <2>3
  <2> QED BY ONLY <2>2, <2>5, <2>6 DEF n
<1> QED BY <1>2, <1>3, <1>4

-----------------------------------------------------------------------------
(* The quiet, and what is on its way *)

Words == {"quiet", "active", "loss", "restart"}

\* What the rule is told last is quiet, or the quiet ends with it.
LEMMA QuietTold ==
  ASSUME air \in Seq(Words), NEW n \in Nat, Quiet(air, n), NEW what \in Words
  PROVE  /\ Told(what) \in Seq(Words) /\ Quiet(Told(what), 0)
         /\ what = "quiet" => Quiet(Told(what), n + 1)
         /\ <<what>> \in Seq(Words) /\ Quiet(<<what>>, 0)
         /\ what = "quiet" => Quiet(<<what>>, 1)
<1> DEFINE a == Append(air, what)
           z == Tail(a)
           new == IF Len(a) > ReleaseQuiet THEN z ELSE a
<1>1. /\ Len(air) \in Nat /\ a \in Seq(Words) /\ a # <<>> /\ Len(a) = Len(air) + 1
      /\ a[Len(air) + 1] = what
      /\ \A i \in 1..Len(air) : a[i] = air[i]
  BY AppendProperties, LenProperties
<1> HIDE DEF a
<1>2. z \in Seq(Words) /\ Len(z) = Len(air) /\ \A i \in 1..Len(z) : z[i] = a[i + 1]
  BY <1>1, HeadTailProperties
<1> HIDE DEF z
<1>3. ReleaseQuiet \in Nat /\ ReleaseQuiet > 0
  BY BaselineLimitsAssumption
<1>4. /\ Len(air) <= ReleaseQuiet /\ (n <= Len(air) \/ Len(air) = ReleaseQuiet)
      /\ \A i \in 1..Len(air) : Len(air) - i < n => air[i] = "quiet"
  BY DEF Quiet
<1>5. Told(what) = new
  BY DEF Told, a, z
<1>6. new \in Seq(Words) /\ Quiet(new, 0)
  BY <1>1, <1>2, <1>3, <1>4 DEF Quiet
<1>7. ASSUME what = "quiet" PROVE Quiet(new, n + 1)
  <2>1. CASE Len(air) < ReleaseQuiet
    <3>1. new = a
      BY ONLY <1>1, <1>3, <2>1
    <3>2. \A i \in 1..Len(a) : Len(a) - i < n + 1 => a[i] = "quiet"
      <4> TAKE i \in 1..Len(a)
      <4>1. CASE i = Len(air) + 1
        BY ONLY <1>1, <1>7, <4>1
      <4>2. CASE i \in 1..Len(air)
        BY ONLY <1>1, <1>4, <4>2, n \in Nat
      <4> QED BY ONLY <1>1, <4>1, <4>2
    <3> QED BY ONLY <1>1, <1>3, <1>4, <2>1, <3>1, <3>2, n \in Nat DEF Quiet
  <2>2. CASE Len(air) = ReleaseQuiet
    <3>1. new = z
      BY ONLY <1>1, <1>3, <2>2
    <3>2. \A i \in 1..Len(z) : Len(z) - i < n + 1 => z[i] = "quiet"
      <4> TAKE i \in 1..Len(z)
      <4>1. CASE i = Len(air)
        BY ONLY <1>1, <1>2, <1>7, <4>1
      <4>2. CASE i + 1 \in 1..Len(air)
        BY ONLY <1>1, <1>2, <1>4, <4>2, n \in Nat
      <4> QED BY ONLY <1>1, <1>2, <4>1, <4>2
    <3> QED BY ONLY <1>1, <1>2, <1>3, <2>2, <3>1, <3>2, n \in Nat DEF Quiet
  <2> QED BY <1>1, <1>3, <1>4, <2>1, <2>2
<1>8. /\ <<what>> \in Seq(Words) /\ Len(<<what>>) = 1 /\ <<what>>[1] = what
  OBVIOUS
<1>9. Quiet(<<what>>, 0) /\ (what = "quiet" => Quiet(<<what>>, 1))
  BY <1>3, <1>8 DEF Quiet
<1> QED BY <1>5, <1>6, <1>7, <1>8, <1>9

\* Enough quiet counted is all that the rule was told.
LEMMA QuietEnough ==
  ASSUME NEW a \in Seq(Words), NEW n \in Nat, Quiet(a, n), n >= ReleaseQuiet
  PROVE  a = [i \in 1..ReleaseQuiet |-> "quiet"]
<1>1. ReleaseQuiet \in Nat /\ ReleaseQuiet > 0
  BY BaselineLimitsAssumption
<1>2. Len(a) \in Nat /\ DOMAIN a = 1..Len(a) /\ a = [i \in DOMAIN a |-> a[i]]
  BY LenProperties
<1>3. Len(a) = ReleaseQuiet
  BY ONLY <1>1, <1>2, Quiet(a, n), n \in Nat, n >= ReleaseQuiet DEF Quiet
<1>4. \A i \in 1..Len(a) : a[i] = "quiet"
  BY ONLY <1>1, <1>2, <1>3, Quiet(a, n), n \in Nat, n >= ReleaseQuiet DEF Quiet
<1> QED BY ONLY <1>2, <1>3, <1>4

\* Items pushed come last, and the batch comes first.
LEMMA HandedIs ==
  ASSUME NEW b \in Seq(Item), NEW q \in Seq(Item)
  PROVE  /\ b \o q \in Seq(Item) /\ <<>> \o q = q /\ q \o <<>> = q
         /\ \A x \in Item : /\ Append(q, x) \in Seq(Item)
                            /\ b \o Append(q, x) = Append(b \o q, x)
                            /\ Len(Append(q, x)) = Len(q) + 1
         /\ b # <<>> => /\ b \o q # <<>> /\ (b \o q)[1] = Head(b) /\ Head(b) \in Item
                        /\ Tail(b) \o q = Tail(b \o q) /\ Tail(b) \in Seq(Item)
<1>1. b \o q \in Seq(Item) /\ <<>> \o q = q /\ q \o <<>> = q
  BY ConcatProperties, ConcatEmptySeq
<1>2. ASSUME NEW x \in Item
      PROVE  /\ Append(q, x) \in Seq(Item) /\ b \o Append(q, x) = Append(b \o q, x)
             /\ Len(Append(q, x)) = Len(q) + 1
  <2>1. <<x>> \in Seq(Item)
    OBVIOUS
  <2>2. /\ Append(q, x) = q \o <<x>> /\ Append(b \o q, x) = (b \o q) \o <<x>>
        /\ (b \o q) \o <<x>> = b \o (q \o <<x>>)
    BY <1>1, <2>1, AppendIsConcat, ConcatAssociative
  <2>3. Append(q, x) \in Seq(Item) /\ Len(Append(q, x)) = Len(q) + 1
    BY AppendProperties
  <2> QED BY ONLY <2>2, <2>3
<1>3. ASSUME b # <<>>
      PROVE  /\ b \o q # <<>> /\ (b \o q)[1] = Head(b) /\ Head(b) \in Item
             /\ Tail(b) \o q = Tail(b \o q) /\ Tail(b) \in Seq(Item)
  <2> DEFINE h == b \o q
             u == Tail(b) \o q
             v == Tail(h)
  <2>1. /\ Head(b) \in Item /\ Tail(b) \in Seq(Item) /\ Len(Tail(b)) = Len(b) - 1
        /\ \A i \in 1..Len(Tail(b)) : Tail(b)[i] = b[i + 1]
    BY <1>3, HeadTailProperties
  <2>2. Len(b) \in Nat /\ Len(b) > 0 /\ Len(q) \in Nat
    BY <1>3, LenProperties, EmptySeq
  <2>3. /\ h \in Seq(Item) /\ Len(h) = Len(b) + Len(q)
        /\ \A i \in 1..Len(b) + Len(q) : h[i] = IF i <= Len(b) THEN b[i] ELSE q[i - Len(b)]
    BY ConcatProperties
  <2>4. /\ u \in Seq(Item) /\ Len(u) = Len(Tail(b)) + Len(q)
        /\ \A i \in 1..Len(Tail(b)) + Len(q) :
             u[i] = IF i <= Len(Tail(b)) THEN Tail(b)[i] ELSE q[i - Len(Tail(b))]
    BY <2>1, ConcatProperties
  <2> HIDE DEF h, u
  <2>5. h # <<>>
    BY <2>2, <2>3, EmptySeq
  <2>6. v \in Seq(Item) /\ Len(v) = Len(h) - 1 /\ \A i \in 1..Len(v) : v[i] = h[i + 1]
    BY <2>3, <2>5, HeadTailProperties
  <2> HIDE DEF v
  <2>7. Len(u) = Len(v) /\ \A i \in 1..Len(u) : u[i] = v[i]
    <3>1. Len(u) = Len(b) + Len(q) - 1 /\ Len(v) = Len(b) + Len(q) - 1
      BY ONLY <2>1, <2>2, <2>3, <2>4, <2>6
    <3> SUFFICES ASSUME NEW i \in 1..Len(u) PROVE u[i] = v[i]
      BY <3>1
    <3>2. CASE i <= Len(b) - 1
      BY ONLY <2>1, <2>2, <2>3, <2>4, <2>6, <3>1, <3>2, i \in 1..Len(u)
    <3>3. CASE ~(i <= Len(b) - 1)
      <4>1. u[i] = q[i - (Len(b) - 1)] /\ v[i] = q[i + 1 - Len(b)]
        BY ONLY <2>1, <2>2, <2>3, <2>4, <2>6, <3>1, <3>3, i \in 1..Len(u)
      <4>2. i - (Len(b) - 1) = i + 1 - Len(b)
        BY ONLY <2>2, <3>1, i \in 1..Len(u)
      <4> QED BY ONLY <4>1, <4>2
    <3> QED BY ONLY <3>2, <3>3
  <2>8. u = v
    BY <2>4, <2>6, <2>7, SeqEqual
  <2>9. Head(b) = b[1] /\ h[1] = b[1]
    BY <1>3, <2>2, <2>3
  <2> QED BY <2>1, <2>5, <2>8, <2>9 DEF h, u, v
<1> QED BY <1>1, <1>2, <1>3

-----------------------------------------------------------------------------
(* The lanes and the operator *)

\* What holds when a step adds captures done and leaves the consumer's state alone.
LEMMA StateStays ==
  ASSUME LInv, Types', Books(Handed, store.pending, lane, truth)', Ingested \subseteq Ingested',
         \A c \in Ingested : truth'[c] = truth[c],
         UNCHANGED <<store, flood, disk, frozenCaptures, air>>
  PROVE  LInv'
<1>1. /\ Learned(store, Ingested, truth, frozenCaptures)
      /\ Saved(disk, Ingested, truth, frozenCaptures)
      /\ frozenCaptures \subseteq Ingested /\ Quiet(air, flood.quiet)
  BY DEF LInv
<1> DEFINE i1 == Ingested
           i2 == Ingested'
           t2 == truth'
<1>2. i1 \subseteq i2 /\ \A c \in i1 : t2[c] = truth[c]
  OBVIOUS
<1> HIDE DEF i1, i2, t2
<1>3. /\ Learned(store, i1, truth, frozenCaptures) => Learned(store, i2, t2, frozenCaptures)
      /\ Saved(disk, i1, truth, frozenCaptures) => Saved(disk, i2, t2, frozenCaptures)
  BY <1>2, LearnedStays
<1>4. /\ Learned(store, i2, t2, frozenCaptures) /\ Saved(disk, i2, t2, frozenCaptures)
      /\ frozenCaptures \subseteq i2
  BY <1>1, <1>2, <1>3 DEF i1
<1>5. /\ Learned(store, Ingested, truth, frozenCaptures)'
      /\ Saved(disk, Ingested, truth, frozenCaptures)'
      /\ (frozenCaptures \subseteq Ingested)' /\ Quiet(air, flood.quiet)'
  BY <1>1, <1>4 DEF i2, t2
<1> QED BY <1>5 DEF LInv

\* What a push does to the queue.
LEMMA PushIs ==
  ASSUME NEW item \in Item, NEW isCapture \in BOOLEAN, NEW fits \in BOOLEAN, LInv,
         CountsAreCounts', Push(item, isCapture, fits), batch' = batch
  PROVE  /\ Handed' = (IF Accepts(isCapture, fits) THEN Append(Handed, item) ELSE Handed)
         /\ queue' \in Seq(Item) /\ Len(queue') <= QueueMaxItems + CaptureReserve
         /\ {dropped, pendingLoss}' \subseteq Losses
         /\ Handed \in Seq(Item)
<1>1. /\ batch \in Seq(Item) /\ queue \in Seq(Item)
      /\ Len(queue) <= QueueMaxItems + CaptureReserve
  BY DEF LInv, Types, TypeOK
<1>2. /\ Handed \in Seq(Item) /\ Append(queue, item) \in Seq(Item)
      /\ batch \o Append(queue, item) = Append(Handed, item)
      /\ Len(Append(queue, item)) = Len(queue) + 1
  BY <1>1, HandedIs DEF Handed
<1>3. {dropped, pendingLoss}' \subseteq Losses
  BY DEF CountsAreCounts
<1>4. CASE Accepts(isCapture, fits)
  <2>1. queue' = Append(queue, item)
    BY <1>4 DEF Push
  <2>2. Len(queue) < QueueMaxItems + CaptureReserve
    <3>1. Len(queue) \in Nat
      BY <1>1, LenProperties
    <3> QED BY <1>4, <3>1, MonitorAssumption DEF Accepts, Admits
  <2>3. Handed' = batch \o queue'
    BY DEF Handed
  <2>4. Len(queue') <= QueueMaxItems + CaptureReserve
    <3>1. Len(queue) \in Nat
      BY <1>1, LenProperties
    <3> QED BY <1>2, <2>1, <2>2, <3>1, MonitorAssumption
  <2> QED BY <1>2, <1>3, <1>4, <2>1, <2>3, <2>4
<1>5. CASE ~Accepts(isCapture, fits)
  <2>1. queue' = queue
    BY <1>5 DEF Push
  <2> QED BY <1>1, <1>2, <1>3, <1>5, <2>1 DEF Handed
<1> QED BY <1>4, <1>5

\* A lane begins a capture.
LEMMA BeginKeeps ==
  ASSUME LInv, NEW l \in Lane, BeginCapture(l) PROVE LInv'
<1>1. PICK cand \in BOOLEAN :
        /\ lane[l] = {} /\ truth' = Append(truth, [decoded |-> 0, candidate |-> cand])
        /\ lane' = [lane EXCEPT ![l] = {[cap |-> Len(truth) + 1, submitted |-> 0,
                                         rejected |-> 0, candidate |-> cand]}]
  BY DEF BeginCapture
<1>2. UNCHANGED <<monitorVars, consumerVars, scanning, commands, stops, crashes>>
  BY DEF BeginCapture
<1> DEFINE r == [cap |-> Len(truth) + 1, submitted |-> 0, rejected |-> 0, candidate |-> cand]
           n == [decoded |-> 0, candidate |-> cand]
<1>3. /\ lane \in Lanes /\ truth \in Seq(Captures) /\ TypeOK
      /\ store \in Stores /\ flood \in Floods /\ disk \subseteq Files
      /\ Books(Handed, store.pending, lane, truth)
  BY DEF LInv, Types, TypeOK, Lanes, Captures
<1>4. /\ r.cap = Len(truth) + 1 /\ r.submitted = 0 /\ r.rejected = 0 /\ r.candidate = cand
      /\ Len(truth) \in Nat
  BY <1>3, LenProperties
<1>5. r \in CaptureRec /\ n \in Captures
  BY <1>4, MonitorAssumption DEF CaptureRec, Captures
<1>6. lane' = [lane EXCEPT ![l] = {r}] /\ truth' = Append(truth, n)
  BY <1>1
<1> HIDE DEF r
<1>7. /\ Books(Handed, store.pending, lane', truth')
      /\ Done(Handed, lane, truth) \subseteq Done(Handed, lane', truth')
      /\ Agree(truth', truth, DOMAIN truth)
  <2>1. /\ n.decoded = 0 /\ r.candidate = n.candidate
        /\ Refills(lane', lane, l, {r}) /\ Grows(truth', truth, n)
    BY <1>4, <1>6 DEF Refills, Grows
  <2> HIDE DEF n
  <2> DEFINE h == Handed
             p == store.pending
  <2>2. /\ lane \in Lanes /\ truth \in Seq(Captures) /\ l \in Lane /\ lane[l] = {}
        /\ n \in Captures /\ r.cap = Len(truth) + 1 /\ r.submitted = 0 /\ r.rejected = 0
        /\ Books(h, p, lane, truth)
    BY <1>1, <1>3, <1>4, <1>5
  <2> HIDE DEF h, p
  <2>3. /\ Books(h, p, lane', truth')
        /\ Done(h, lane, truth) \subseteq Done(h, lane', truth')
        /\ Agree(truth', truth, DOMAIN truth)
    BY ONLY <2>1, <2>2, BeginBooks
  <2> QED BY <2>3 DEF h, p
<1> HIDE DEF n
<1>8. Handed' = Handed /\ UNCHANGED <<store, flood, disk, frozenCaptures, air>>
  BY <1>2 DEF Handed, monitorVars, consumerVars
<1>9. lane' \in Lanes /\ truth' \in Seq(Captures)
  <2>1. lane' \in Lanes
    BY ONLY <1>3, <1>5, <1>6 DEF Lanes
  <2>2. truth' \in Seq(Captures)
    BY ONLY <1>3, <1>5, <1>6, AppendProperties
  <2> QED BY <2>1, <2>2
<1>10. Types'
  BY <1>2, <1>3, <1>7, <1>9
     DEF Agree, Types, TypeOK, monitorVars, consumerVars, Lanes, Captures
<1>11. Ingested \subseteq Ingested' /\ \A c \in Ingested : truth'[c] = truth[c]
  BY <1>7, <1>8 DEF Ingested, Done, Agree
<1> QED BY <1>7, <1>8, <1>10, <1>11, StateStays

\* A lane submits a frame it decoded.
LEMMA SubmitFrameKeeps ==
  ASSUME LInv, CountsAreCounts', NEW l \in Lane, NEW fits \in BOOLEAN, SubmitFrame(l, fits)
  PROVE  LInv'
<1> DEFINE ok == Accepts(FALSE, fits)
<1>1. PICK r \in lane[l] :
        /\ truth[r.cap].decoded < MaxFrames
        /\ truth' = [truth EXCEPT ![r.cap].decoded = @ + 1]
        /\ Push([kind |-> "frame", cap |-> r.cap], FALSE, fits)
        /\ lane' = [lane EXCEPT ![l] = {IF Accepts(FALSE, fits)
                                        THEN [r EXCEPT !.submitted = @ + 1]
                                        ELSE [r EXCEPT !.rejected = @ + 1]}]
  BY DEF SubmitFrame
<1>2. UNCHANGED <<running, stopping, consumerVars, scanning, commands, stops, crashes>>
  BY DEF SubmitFrame
<1> DEFINE x == [kind |-> "frame", cap |-> r.cap]
           r2 == IF ok THEN [r EXCEPT !.submitted = @ + 1] ELSE [r EXCEPT !.rejected = @ + 1]
<1>3. /\ lane \in Lanes /\ truth \in Seq(Captures) /\ TypeOK
      /\ store \in Stores /\ flood \in Floods /\ disk \subseteq Files
      /\ Books(Handed, store.pending, lane, truth) /\ frozenCaptures \subseteq DOMAIN truth
  BY DEF LInv, Types, TypeOK, Lanes, Captures
<1>4. r \in CaptureRec
  BY <1>3 DEF Lanes
<1>5. /\ r2.cap = r.cap /\ r2.candidate = r.candidate
      /\ ok => r2.submitted = r.submitted + 1 /\ r2.rejected = r.rejected
      /\ ~ok => r2.submitted = r.submitted /\ r2.rejected = r.rejected + 1
  BY <1>4 DEF CaptureRec
<1>6. Tells(r, truth) /\ r.cap \in DOMAIN truth /\ truth[r.cap] \in Captures
  <2>1. Tells(r, truth) /\ r.cap \in DOMAIN truth
    BY <1>3 DEF Books, LanesTell, Tells
  <2> QED BY <1>3, <2>1, ElementOfSeq, LenProperties
<1>7. /\ r.submitted \in Nat /\ r.rejected \in Nat /\ truth[r.cap].decoded \in Nat
      /\ r.submitted + r.rejected < MaxFrames /\ MaxFrames \in Nat
  BY <1>1, <1>4, <1>6, MonitorAssumption DEF CaptureRec, Captures, Tells
<1>8. r2 \in CaptureRec
  <2>1. r.submitted + 1 \in 0..MaxFrames /\ r.rejected + 1 \in 0..MaxFrames
    BY ONLY <1>7
  <2>2. /\ [r EXCEPT !.submitted = @ + 1] \in CaptureRec
        /\ [r EXCEPT !.rejected = @ + 1] \in CaptureRec
    BY ONLY <1>4, <2>1 DEF CaptureRec
  <2> QED BY ONLY <2>2
<1>9. x \in Item /\ x.kind = "frame" /\ x.cap = r.cap
  BY <1>4 DEF Item, CaptureRec
<1>10. lane' = [lane EXCEPT ![l] = {r2}] /\ Push(x, FALSE, fits)
  BY <1>1
<1> HIDE DEF x, r2
<1>11. batch' = batch
  BY <1>2 DEF consumerVars
<1>12. /\ Handed' = (IF ok THEN Append(Handed, x) ELSE Handed)
       /\ queue' \in Seq(Item) /\ Len(queue') <= QueueMaxItems + CaptureReserve
       /\ {dropped, pendingLoss}' \subseteq Losses /\ Handed \in Seq(Item)
  BY <1>9, <1>10, <1>11, PushIs
<1> HIDE DEF ok
<1> DEFINE h == Handed
           h2 == Handed'
<1>13. Submits(h2, h, x, r2, r)
  BY <1>5, <1>12 DEF Grows, Submits
<1> HIDE DEF h, h2
<1>14. /\ Books(h2, store.pending, lane', truth')
       /\ Done(h, lane, truth) \subseteq Done(h2, lane', truth')
       /\ Agree(truth', truth, Done(h, lane, truth))
  <2>1. h \in Seq(Item) /\ Books(h, store.pending, lane, truth)
    BY <1>3, <1>12 DEF h
  <2>2. Refills(lane', lane, l, {r2}) /\ Decodes(truth', truth, r.cap)
    BY <1>1, <1>10 DEF Refills, Decodes
  <2>3. /\ r \in lane[l] /\ lane \in Lanes /\ truth \in Seq(Captures) /\ l \in Lane
    BY <1>3, <1>5
  <2> DEFINE p == store.pending
  <2> HIDE DEF p
  <2>4. Books(h, p, lane, truth)
    BY <2>1 DEF p
  <2>5. /\ Books(h2, p, lane', truth')
        /\ Done(h, lane, truth) \subseteq Done(h2, lane', truth')
        /\ Agree(truth', truth, Done(h, lane, truth))
    BY ONLY <1>9, <1>13, <2>1, <2>2, <2>3, <2>4, FrameBooks
  <2> QED BY <2>5 DEF p
<1>15. UNCHANGED <<store, flood, disk, frozenCaptures, air, published>>
  BY <1>2 DEF consumerVars
<1>16. lane' \in Lanes /\ truth' \in Seq(Captures) /\ DOMAIN truth' = DOMAIN truth
  <2>1. lane' \in Lanes
    BY ONLY <1>3, <1>8, <1>10 DEF Lanes
  <2> DEFINE n == [truth[r.cap] EXCEPT !.decoded = @ + 1]
  <2>2. n \in Captures
    BY ONLY <1>1, <1>6, <1>7 DEF Captures
  <2>3. truth' = [truth EXCEPT ![r.cap] = n]
    BY ONLY <1>1
  <2> HIDE DEF n
  <2>4. DOMAIN truth = 1..Len(truth) /\ Len(truth) \in Nat /\ truth \in [1..Len(truth) -> Captures]
    BY <1>3, LenProperties
  <2>5. truth' \in [1..Len(truth) -> Captures]
    BY ONLY <1>6, <2>2, <2>3, <2>4
  <2>6. truth' \in Seq(Captures) /\ DOMAIN truth' = DOMAIN truth
    BY ONLY <2>4, <2>5
  <2> QED BY <2>1, <2>6
<1>17. Types'
  <2>1. {dropped, pendingLoss, loss, reported, published}' \subseteq [events : Nat, captures : Nat]
    <3>1. published \in Losses
      BY <1>3 DEF TypeOK, Losses
    <3>2. dropped' \in Losses /\ pendingLoss' \in Losses /\ loss' \in Losses /\ reported' \in Losses
      BY CountsAreCounts' DEF CountsAreCounts
    <3>3. published' = published
      BY <1>15
    <3> QED BY ONLY <3>1, <3>2, <3>3 DEF Losses
  <2> QED BY <1>2, <1>3, <1>12, <1>16, <2>1
      DEF Types, TypeOK, consumerVars, Lanes, Captures
<1>18. Ingested \subseteq Ingested' /\ \A c \in Ingested : truth'[c] = truth[c]
  BY <1>14 DEF Ingested, h, h2, Agree
<1>19. Books(Handed, store.pending, lane, truth)'
  BY <1>14, <1>15 DEF h2
<1> QED BY <1>15, <1>17, <1>18, <1>19, StateStays

\* A lane submits a capture's record.
LEMMA SubmitCaptureKeeps ==
  ASSUME LInv, CountsAreCounts', NEW l \in Lane, NEW fits \in BOOLEAN, SubmitCapture(l, fits)
  PROVE  LInv'
<1>1. PICK r \in lane[l] : /\ Push([kind |-> "capture", rec |-> r], TRUE, fits)
                           /\ lane' = [lane EXCEPT ![l] = {}]
  BY DEF SubmitCapture
<1>2. UNCHANGED <<running, stopping, consumerVars, scanning, truth, commands, stops, crashes>>
  BY DEF SubmitCapture
<1> DEFINE x == [kind |-> "capture", rec |-> r]
<1>3. /\ lane \in Lanes /\ TypeOK
      /\ store \in Stores /\ flood \in Floods /\ disk \subseteq Files
      /\ Books(Handed, store.pending, lane, truth)
  BY DEF LInv, Types, TypeOK, Lanes
<1>4. x \in Item /\ IsRecord(x) /\ x.rec = r
  BY <1>3 DEF Item, IsRecord, Lanes
<1>5. Push(x, TRUE, fits) /\ batch' = batch
  BY <1>1, <1>2 DEF consumerVars
<1> HIDE DEF x
<1>6. /\ Handed' \in {Handed, Append(Handed, x)}
      /\ queue' \in Seq(Item) /\ Len(queue') <= QueueMaxItems + CaptureReserve
      /\ {dropped, pendingLoss}' \subseteq Losses /\ Handed \in Seq(Item)
  BY <1>4, <1>5, PushIs
<1> DEFINE h == Handed
           h2 == Handed'
<1>7. h \in Seq(Item) /\ (h2 = h \/ Grows(h2, h, x)) /\ Books(h, store.pending, lane, truth)
  BY <1>3, <1>6 DEF Grows
<1> HIDE DEF h, h2
<1>8. /\ Books(h2, store.pending, lane', truth)
      /\ Done(h, lane, truth) \subseteq Done(h2, lane', truth)
  <2>1. Refills(lane', lane, l, {})
    BY <1>1 DEF Refills
  <2> QED BY ONLY <1>3, <1>4, <1>7, <2>1, RecordBooks, l \in Lane, r \in lane[l]
<1>9. UNCHANGED <<store, flood, disk, frozenCaptures, air, published, truth>>
  BY <1>2 DEF consumerVars
<1>10. lane' \in Lanes
  BY ONLY <1>1, <1>3 DEF Lanes
<1>11. Types'
  <2>1. {dropped, pendingLoss, loss, reported, published}' \subseteq [events : Nat, captures : Nat]
    <3>1. published \in Losses
      BY <1>3 DEF TypeOK, Losses
    <3>2. dropped' \in Losses /\ pendingLoss' \in Losses /\ loss' \in Losses /\ reported' \in Losses
      BY CountsAreCounts' DEF CountsAreCounts
    <3>3. published' = published
      BY <1>9
    <3> QED BY ONLY <3>1, <3>2, <3>3 DEF Losses
  <2> QED BY <1>2, <1>3, <1>6, <1>10, <2>1 DEF Types, TypeOK, consumerVars, Lanes
<1>12. Ingested \subseteq Ingested' /\ \A c \in Ingested : truth'[c] = truth[c]
  BY <1>8, <1>9 DEF Ingested, h, h2
<1>13. Books(Handed, store.pending, lane, truth)'
  BY <1>8, <1>9 DEF h2
<1> QED BY <1>9, <1>11, <1>12, <1>13, StateStays

\* The operator submits a command.
LEMMA SubmitCommandKeeps ==
  ASSUME LInv, CountsAreCounts', NEW a \in Actions, NEW fits \in BOOLEAN, SubmitCommand(a, fits)
  PROVE  LInv'
<1> DEFINE x == [kind |-> "command", action |-> a]
<1>1. Push(x, TRUE, fits) /\ commands' = commands + 1
  BY DEF SubmitCommand
<1>2. UNCHANGED <<running, stopping, consumerVars, scanning, lane, truth, stops, crashes>>
  BY DEF SubmitCommand
<1>3. /\ TypeOK /\ store \in Stores /\ flood \in Floods /\ disk \subseteq Files
      /\ Books(Handed, store.pending, lane, truth)
  BY DEF LInv, Types
<1>4. x \in Item /\ x.kind = "command" /\ batch' = batch
  BY <1>2 DEF Item, consumerVars
<1> HIDE DEF x
<1>6. /\ Handed' \in {Handed, Append(Handed, x)}
      /\ queue' \in Seq(Item) /\ Len(queue') <= QueueMaxItems + CaptureReserve
      /\ {dropped, pendingLoss}' \subseteq Losses /\ Handed \in Seq(Item)
  BY <1>1, <1>4, PushIs
<1> DEFINE h == Handed
           h2 == Handed'
<1>7. h \in Seq(Item) /\ (h2 = h \/ Grows(h2, h, x)) /\ Books(h, store.pending, lane, truth)
  BY <1>3, <1>6 DEF Grows
<1> HIDE DEF h, h2
<1>8. /\ Books(h2, store.pending, lane, truth)
      /\ Done(h, lane, truth) \subseteq Done(h2, lane, truth)
  BY ONLY <1>4, <1>7, CommandBooks
<1>9. UNCHANGED <<store, flood, disk, frozenCaptures, air, published, lane, truth>>
  BY <1>2 DEF consumerVars
<1>11. Types'
  <2>1. {dropped, pendingLoss, loss, reported, published}' \subseteq [events : Nat, captures : Nat]
    <3>1. published \in Losses
      BY <1>3 DEF TypeOK, Losses
    <3>2. dropped' \in Losses /\ pendingLoss' \in Losses /\ loss' \in Losses /\ reported' \in Losses
      BY CountsAreCounts' DEF CountsAreCounts
    <3>3. published' = published
      BY <1>9
    <3> QED BY ONLY <3>1, <3>2, <3>3 DEF Losses
  <2>2. {commands, stops, crashes}' \subseteq Nat
    <3>1. commands \in Nat /\ stops \in Nat /\ crashes \in Nat
      BY <1>3 DEF TypeOK
    <3>2. commands' = commands + 1 /\ stops' = stops /\ crashes' = crashes
      BY <1>1, <1>2
    <3>3. commands' \in Nat
      BY ONLY <3>1, <3>2
    <3> QED BY ONLY <3>1, <3>2, <3>3
  <2>3. batch' \in Seq(Item) /\ worker' = worker /\ loss' = loss
    BY <1>2, <1>3 DEF TypeOK, consumerVars
  <2> QED BY <1>2, <1>3, <1>6, <2>1, <2>2, <2>3 DEF Types, TypeOK, consumerVars
<1>12. Ingested \subseteq Ingested' /\ \A c \in Ingested : truth'[c] = truth[c]
  BY <1>8, <1>9 DEF Ingested, h, h2
<1>13. Books(Handed, store.pending, lane, truth)'
  BY <1>8, <1>9 DEF h2
<1> QED BY <1>9, <1>11, <1>12, <1>13, StateStays

-----------------------------------------------------------------------------
(* The consumer *)

\* What a step of the consumer must show: the lanes and the captures are alone.
LEMMA ConsumerStep ==
  ASSUME LInv, UNCHANGED <<lane, truth>>, Types',
         Books(Handed', store'.pending, lane, truth),
         Learned(store', Done(Handed', lane, truth), truth, frozenCaptures'),
         Saved(disk', Done(Handed', lane, truth), truth, frozenCaptures'),
         frozenCaptures' \subseteq Done(Handed', lane, truth), Quiet(air', flood'.quiet)
  PROVE  LInv'
  BY DEF LInv, Ingested

\* What is true of an item the consumer has at hand.
LEMMA HeadIs ==
  ASSUME LInv, batch # <<>>, batch' = Tail(batch), queue' = queue
  PROVE  /\ Head(batch) \in Item /\ batch' \in Seq(Item)
         /\ Handed \in Seq(Item) /\ Handed # <<>> /\ Handed[1] = Head(batch)
         /\ Handed' = Tail(Handed)
<1>1. batch \in Seq(Item) /\ queue \in Seq(Item)
  BY DEF LInv, Types, TypeOK
<1> QED BY <1>1, HandedIs DEF Handed

\* The item is a frame: it is counted, by the store and by the rule.
LEMMA IngestFrameKeeps ==
  ASSUME LInv, CountsAreCounts', worker = "items", batch # <<>>, batch' = Tail(batch),
         Head(batch).kind = "frame", IngestFrame(Head(batch)), dirty' = TRUE,
         UNCHANGED <<monitorVars, worker, loss, finish, reported, published, disk,
                     saveFailed, envVars>>
  PROVE  LInv'
<1> DEFINE item == Head(batch)
           h == Handed
           z == Tail(h)
           c == item.cap
           p2 == NoteFrame(store, c).pending
<1>1. /\ item \in Item /\ batch' \in Seq(Item) /\ h \in Seq(Item) /\ h # <<>>
      /\ h[1] = item /\ Handed' = z
  BY HeadIs DEF monitorVars
<1>2. c \in Nat /\ item.kind = "frame"
  BY <1>1 DEF Item
<1>3. /\ store \in Stores /\ flood \in Floods /\ disk \subseteq Files /\ TypeOK
      /\ Books(h, store.pending, lane, truth)
      /\ Learned(store, Done(h, lane, truth), truth, frozenCaptures)
      /\ Saved(disk, Done(h, lane, truth), truth, frozenCaptures)
      /\ frozenCaptures \subseteq Done(h, lane, truth) /\ Quiet(air, flood.quiet)
  BY DEF LInv, Types, Ingested
<1>4. /\ store' = NoteFrame(store, c) /\ flood' = FloodNoteFrame(flood, c)
      /\ UNCHANGED <<frozenCaptures, air, disk, lane, truth>>
  BY DEF IngestFrame, envVars
<1> HIDE DEF item, h, z, c, p2
<1>5. /\ store' \in Stores /\ store'.windows = store.windows
      /\ store'.current = store.current /\ store'.known = store.known
      /\ \A d : CountedIn(p2, d) => CountedIn(store.pending, d) \/ d = c
  BY <1>2, <1>3, <1>4, NoteFrameIs DEF p2
<1>6. store'.pending = p2
  BY <1>4 DEF p2
<1>7. \A d \in Nat : CountedIn(p2, d) =>
        CountedIn(store.pending, d) \/ (h[1].kind = "frame" /\ h[1].cap = d)
  BY <1>1, <1>2, <1>5 DEF c
<1>8. Books(z, p2, lane, truth) /\ Done(h, lane, truth) \subseteq Done(z, lane, truth)
  <2> DEFINE p == store.pending
  <2> HIDE DEF p
  <2>1. Books(h, p, lane, truth) /\ CountsAfter(h, p, p2)
    BY <1>3, <1>7 DEF p, CountsAfter
  <2>2. /\ Books(Tail(h), p2, lane, truth)
        /\ Done(h, lane, truth) \subseteq Done(Tail(h), lane, truth)
    BY ONLY <1>1, <2>1, TailBooks
  <2> QED BY <2>2 DEF z
<1>9. /\ Learned(store', Done(z, lane, truth), truth, frozenCaptures)
      /\ Saved(disk, Done(z, lane, truth), truth, frozenCaptures)
  <2>1. /\ Learned(store, Done(z, lane, truth), truth, frozenCaptures)
        /\ Saved(disk, Done(z, lane, truth), truth, frozenCaptures)
    BY <1>3, <1>8, LearnedStays
  <2>2. /\ store'.windows = store.windows /\ store'.current = store.current
        /\ store'.known = store.known
    BY <1>5
  <2>3. Learned(store', Done(z, lane, truth), truth, frozenCaptures)
    BY ONLY <2>1, <2>2 DEF Learned
  <2> QED BY <2>1, <2>3
<1>10. flood' \in Floods /\ Quiet(air', flood'.quiet)
  <2>1. flood' \in Floods /\ flood'.quiet \in {0, flood.quiet}
    <3>1. [cap |-> 0, submitted |-> 0, rejected |-> 0, candidate |-> FALSE] \in CaptureRec
      BY MonitorAssumption DEF CaptureRec
    <3>2. "next" \in Timings
      BY DEF Timings
    <3> QED BY <1>2, <1>3, <1>4, <3>1, <3>2, FloodIs
  <2>2. Quiet(air, 0)
    BY <1>3, LenProperties DEF Quiet, TypeOK
  <2> QED BY <1>3, <1>4, <2>1, <2>2
<1>11. Types'
  <2>1. {dropped, pendingLoss, loss, reported, published}' \subseteq [events : Nat, captures : Nat]
    BY <1>3 DEF TypeOK, monitorVars
  <2> QED BY <1>1, <1>3, <1>4, <1>5, <1>10, <2>1 DEF Types, TypeOK, monitorVars, envVars
<1>12. /\ Books(Handed', store'.pending, lane, truth)
       /\ Learned(store', Done(Handed', lane, truth), truth, frozenCaptures')
       /\ Saved(disk', Done(Handed', lane, truth), truth, frozenCaptures')
       /\ frozenCaptures' \subseteq Done(Handed', lane, truth)
  BY <1>1, <1>3, <1>4, <1>6, <1>8, <1>9
<1> QED BY <1>4, <1>10, <1>11, <1>12, ConsumerStep

\* The item is a command: it teaches nothing.
LEMMA IngestCommandKeeps ==
  ASSUME LInv, CountsAreCounts', worker = "items", batch # <<>>, batch' = Tail(batch),
         Head(batch).kind = "command", IngestCommand(Head(batch)), dirty' = TRUE,
         UNCHANGED <<monitorVars, worker, loss, finish, reported, published, disk,
                     saveFailed, envVars>>
  PROVE  LInv'
<1> DEFINE item == Head(batch)
           h == Handed
           z == Tail(h)
<1>1. /\ item \in Item /\ batch' \in Seq(Item) /\ h \in Seq(Item) /\ h # <<>>
      /\ h[1] = item /\ Handed' = z
  BY HeadIs DEF monitorVars
<1>2. item.kind = "command" /\ item.action \in Actions
  BY <1>1 DEF Item
<1>3. /\ store \in Stores /\ flood \in Floods /\ disk \subseteq Files /\ TypeOK
      /\ Books(h, store.pending, lane, truth)
      /\ Learned(store, Done(h, lane, truth), truth, frozenCaptures)
      /\ Saved(disk, Done(h, lane, truth), truth, frozenCaptures)
      /\ frozenCaptures \subseteq Done(h, lane, truth) /\ Quiet(air, flood.quiet)
  BY DEF LInv, Types, Ingested
<1>4. /\ store' \in {SetFrozen(store, TRUE), SetFrozen(store, FALSE), Reset(store)}
      /\ UNCHANGED <<flood, frozenCaptures, air, disk, lane, truth>>
  BY <1>2 DEF IngestCommand, envVars, Actions
<1> HIDE DEF item, h, z
<1>5. [known |-> FALSE, windows |-> <<>>, frozen |-> FALSE, held |-> FALSE] \in Files
  BY DEF Files
<1>6. store' \in Stores /\ store'.pending = store.pending
  <2>1. store \in Stores
    BY <1>3
  <2>2. \A on \in BOOLEAN : SetFrozen(store, on) \in Stores /\ Reset(store) \in Stores
    BY ONLY <1>5, <2>1, OthersAre
  <2>3. \A on \in BOOLEAN : /\ SetFrozen(store, on).pending = store.pending
                            /\ Reset(store).pending = store.pending
    BY ONLY <1>5, <2>1, OthersLeave
  <2> QED BY ONLY <1>4, <2>2, <2>3
<1>8. Books(z, store.pending, lane, truth) /\ Done(h, lane, truth) \subseteq Done(z, lane, truth)
  <2> DEFINE p == store.pending
  <2> HIDE DEF p
  <2>1. Books(h, p, lane, truth) /\ CountsAfter(h, p, p)
    BY <1>3 DEF p, CountsAfter
  <2>2. /\ Books(Tail(h), p, lane, truth)
        /\ Done(h, lane, truth) \subseteq Done(Tail(h), lane, truth)
    BY ONLY <1>1, <2>1, TailBooks
  <2> QED BY <2>2 DEF p, z
<1>9. /\ Learned(store', Done(z, lane, truth), truth, frozenCaptures)
      /\ Saved(disk, Done(z, lane, truth), truth, frozenCaptures)
  <2> DEFINE done == Done(z, lane, truth)
  <2>1. /\ Learned(store, done, truth, frozenCaptures)
        /\ Saved(disk, done, truth, frozenCaptures)
    BY <1>3, <1>8, LearnedStays
  <2> HIDE DEF done
  <2>2. Learned(store', done, truth, frozenCaptures)
    BY <1>3, <1>4, <1>5, <2>1, LearnedOthers
  <2> QED BY <2>1, <2>2 DEF done
<1>11. Types'
  <2>1. {dropped, pendingLoss, loss, reported, published}' \subseteq [events : Nat, captures : Nat]
    BY <1>3 DEF TypeOK, monitorVars
  <2> QED BY <1>1, <1>3, <1>4, <1>6, <2>1 DEF Types, TypeOK, monitorVars, envVars
<1>12. /\ Books(Handed', store'.pending, lane, truth)
       /\ Learned(store', Done(Handed', lane, truth), truth, frozenCaptures')
       /\ Saved(disk', Done(Handed', lane, truth), truth, frozenCaptures')
       /\ frozenCaptures' \subseteq Done(Handed', lane, truth) /\ Quiet(air', flood'.quiet)
  BY <1>1, <1>3, <1>4, <1>6, <1>8, <1>9
<1> QED BY <1>4, <1>11, <1>12, ConsumerStep

\* What the rule is told of a capture is quiet when the rule counts it as quiet.
LEMMA CaptureQuiet ==
  ASSUME LInv, NEW rec \in CaptureRec, NEW timing \in Timings, Tells(rec, truth),
         flood' = FloodFinish(flood, rec, timing), NoteTruth(rec, timing)
  PROVE  /\ flood' \in Floods /\ air' \in Seq(Words) /\ Quiet(air', flood'.quiet)
         /\ frozenCaptures' = frozenCaptures \cup (IF store.frozen THEN {rec.cap} ELSE {})
<1> DEFINE what == AirOf(rec, timing)
           n == flood'.quiet
<1>1. /\ flood \in Floods /\ store \in Stores /\ air \in Seq(Words) /\ Quiet(air, flood.quiet)
      /\ flood.quiet \in Nat
  BY DEF LInv, Types, TypeOK, Words, Floods
<1>2. /\ frozenCaptures' = frozenCaptures \cup (IF store.frozen THEN {rec.cap} ELSE {})
      /\ air' = IF timing = "gap" THEN <<what>> ELSE Told(what)
  BY DEF NoteTruth
<1>3. what \in Words
  BY DEF AirOf, Words
<1>4. ASSUME FloodUsable(flood, rec, timing), ~rec.candidate PROVE what = "quiet"
  <2>1. /\ rec.rejected = 0 /\ Counted(flood.pending, rec.cap) = rec.submitted
        /\ timing \in {"next", "gap"}
    BY <1>4 DEF FloodUsable, Intact, Timings
  <2>2. rec.submitted \in Nat
    BY MonitorAssumption DEF CaptureRec
  <2>3. /\ ~truth[rec.cap].candidate
        /\ Counted(flood.pending, rec.cap) = truth[rec.cap].decoded
    BY ONLY <1>4, <2>1, <2>2, Tells(rec, truth) DEF Tells
  <2> QED BY ONLY <2>1, <2>3 DEF AirOf
<1>5. /\ flood' \in Floods
      /\ \/ n = 0
         \/ /\ FloodUsable(flood, rec, timing) /\ ~rec.candidate
            /\ n = IF timing = "gap" THEN 1 ELSE flood.quiet + 1
  <2>1. 0 \in Nat
    OBVIOUS
  <2> QED BY ONLY <1>1, <2>1, FloodIs, rec \in CaptureRec, timing \in Timings,
             flood' = FloodFinish(flood, rec, timing)
<1> HIDE DEF what, n
<1>6. /\ Told(what) \in Seq(Words) /\ Quiet(Told(what), 0)
      /\ what = "quiet" => Quiet(Told(what), flood.quiet + 1)
      /\ <<what>> \in Seq(Words) /\ Quiet(<<what>>, 0)
      /\ what = "quiet" => Quiet(<<what>>, 1)
  BY <1>1, <1>3, QuietTold
<1>7. air' \in Seq(Words) /\ Quiet(air', n)
  BY ONLY <1>2, <1>4, <1>5, <1>6
<1> QED BY <1>2, <1>5, <1>7 DEF n

\* The item is a capture's record.
LEMMA IngestCaptureKeeps ==
  ASSUME LInv, CountsAreCounts', worker = "items", batch # <<>>, batch' = Tail(batch),
         NEW timing \in Timings,
         Head(batch).kind = "capture", IngestCapture(Head(batch), timing), dirty' = TRUE,
         UNCHANGED <<monitorVars, worker, loss, finish, reported, published, disk,
                     saveFailed, envVars>>
  PROVE  /\ LInv'
         /\ store.held /\ ~store'.held => air' = [i \in 1..ReleaseQuiet |-> "quiet"]
<1> DEFINE item == Head(batch)
           h == Handed
           z == Tail(h)
           rec == item.rec
           ruled == FloodHold(flood, store, rec, timing)
           usable == FloodUsable(flood, rec, timing)
<1>1. /\ item \in Item /\ batch' \in Seq(Item) /\ h \in Seq(Item) /\ h # <<>>
      /\ h[1] = item /\ Handed' = z
  BY HeadIs DEF monitorVars
<1>2. item.kind = "capture" /\ rec \in CaptureRec /\ IsRecord(h[1]) /\ h[1].rec = rec
  BY <1>1 DEF Item, IsRecord
<1>3. /\ store \in Stores /\ flood \in Floods /\ disk \subseteq Files /\ TypeOK
      /\ Books(h, store.pending, lane, truth)
      /\ Learned(store, Done(h, lane, truth), truth, frozenCaptures)
      /\ Saved(disk, Done(h, lane, truth), truth, frozenCaptures)
      /\ frozenCaptures \subseteq Done(h, lane, truth) /\ Quiet(air, flood.quiet)
  BY DEF LInv, Types, Ingested
<1>4. /\ store' = NoteCapture(ruled, rec, usable)
      /\ flood' = FloodFinish(flood, rec, timing) /\ NoteTruth(rec, timing)
      /\ UNCHANGED <<disk, lane, truth>>
  BY DEF IngestCapture, envVars
<1>5. usable \in BOOLEAN
  BY DEF FloodUsable, Intact
<1> HIDE DEF item, h, z, rec, ruled, usable
<1>6. /\ \/ ruled = store
         \/ ruled = SetHold(store, TRUE)
         \/ ruled = SetHold(store, FALSE) /\ flood'.quiet >= ReleaseQuiet
      /\ usable /\ rec.candidate => ruled = SetHold(store, TRUE)
  <2>2. /\ \/ FloodHold(flood, store, rec, timing) = store
           \/ FloodHold(flood, store, rec, timing) = SetHold(store, TRUE)
           \/ /\ FloodHold(flood, store, rec, timing) = SetHold(store, FALSE)
              /\ FloodFinish(flood, rec, timing).quiet >= ReleaseQuiet
        /\ FloodUsable(flood, rec, timing) /\ rec.candidate =>
             FloodHold(flood, store, rec, timing) = SetHold(store, TRUE)
    BY FloodHoldIs
  <2> QED BY ONLY <1>4, <2>2 DEF ruled, usable
<1>7. \A on \in BOOLEAN : /\ SetHold(store, on) \in Stores
                         /\ SetHold(store, on).pending = store.pending
                         /\ SetHold(store, on).held = on
                         /\ SetHold(store, on).frozen = store.frozen
  <2>1. [known |-> FALSE, windows |-> <<>>, frozen |-> FALSE, held |-> FALSE] \in Files
    BY DEF Files
  <2>2. \A on \in BOOLEAN : SetHold(store, on) \in Stores
    BY ONLY <1>3, <2>1, OthersAre
  <2>3. \A on \in BOOLEAN : /\ SetHold(store, on).pending = store.pending
                            /\ SetHold(store, on).held = on
                            /\ SetHold(store, on).frozen = store.frozen
    BY ONLY <1>3, <2>1, OthersLeave
  <2> QED BY ONLY <2>2, <2>3
<1>8. /\ ruled \in Stores /\ ruled.pending = store.pending /\ ruled.frozen = store.frozen
      /\ usable /\ rec.candidate => ruled.held
      /\ store.held /\ ~ruled.held => flood'.quiet >= ReleaseQuiet
  BY ONLY <1>3, <1>6, <1>7
<1>9. /\ store' \in Stores /\ store'.held = ruled.held
      /\ \A d : CountedIn(store'.pending, d) => CountedIn(store.pending, d)
  BY ONLY <1>2, <1>4, <1>5, <1>8, NoteCaptureIs
<1>10. /\ Books(z, store'.pending, lane, truth)
       /\ Done(h, lane, truth) \subseteq Done(z, lane, truth)
       /\ rec.cap \in Done(z, lane, truth) /\ rec.cap \notin Done(h, lane, truth)
       /\ Tells(rec, truth) /\ (CountedIn(store.pending, rec.cap) => rec.submitted > 0)
  <2> DEFINE p == store.pending
             p2 == store'.pending
  <2>1. Books(h, p, lane, truth) /\ rec.cap \in Nat
    BY <1>2, <1>3 DEF CaptureRec
  <2> HIDE DEF p, p2
  <2>2. CountsAfter(h, p, p2)
    BY <1>9 DEF CountsAfter, p, p2
  <2>3. /\ Books(Tail(h), p2, lane, truth)
        /\ Done(h, lane, truth) \subseteq Done(Tail(h), lane, truth)
        /\ IsRecord(h[1]) => MakesDone(h, p, lane, truth, h[1].rec)
    BY ONLY <1>1, <2>1, <2>2, TailBooks
  <2>4. MakesDone(h, p, lane, truth, rec)
    BY ONLY <1>2, <2>3, Zenon
  <2>5. /\ Books(z, p2, lane, truth) /\ Done(h, lane, truth) \subseteq Done(z, lane, truth)
    BY ONLY <2>3 DEF z
  <2>6. /\ rec.cap \in Done(z, lane, truth) /\ rec.cap \notin Done(h, lane, truth)
        /\ Tells(rec, truth) /\ (CountedIn(p, rec.cap) => rec.submitted > 0)
    BY ONLY <2>1, <2>4 DEF MakesDone, z
  <2> QED BY ONLY <2>5, <2>6 DEF p, p2
<1>11. /\ flood' \in Floods /\ air' \in Seq(Words) /\ Quiet(air', flood'.quiet)
       /\ frozenCaptures' = frozenCaptures \cup (IF store.frozen THEN {rec.cap} ELSE {})
  BY <1>2, <1>4, <1>10, CaptureQuiet
<1> DEFINE done == Done(h, lane, truth)
           done2 == Done(z, lane, truth)
           fr2 == frozenCaptures'
<1>12. /\ done \subseteq done2 /\ rec.cap \in done2 /\ rec.cap \notin done
       /\ frozenCaptures \subseteq done
       /\ Learned(store, done, truth, frozenCaptures) /\ Saved(disk, done, truth, frozenCaptures)
  BY <1>3, <1>10
<1>13. fr2 = frozenCaptures \cup (IF store.frozen THEN {rec.cap} ELSE {})
  BY <1>11
<1> HIDE DEF done, done2, fr2
<1>14. /\ \A c \in done : truth[c] = truth[c] /\ (c \in fr2 => c \in frozenCaptures)
       /\ fr2 \subseteq done2 /\ (store.frozen \/ rec.cap \notin fr2)
  BY ONLY <1>12, <1>13
<1>15. Learned(store, done2, truth, fr2) /\ Saved(disk, done2, truth, fr2)
  BY ONLY <1>12, <1>14, LearnedStays
<1>16. Learned(ruled, done2, truth, fr2)
  <2>1. [known |-> FALSE, windows |-> <<>>, frozen |-> FALSE, held |-> FALSE] \in Files
    BY DEF Files
  <2>2. \A on \in BOOLEAN : Learned(SetHold(store, on), done2, truth, fr2)
    BY ONLY <1>3, <1>15, <2>1, LearnedOthers
  <2> QED BY ONLY <1>6, <1>15, <2>2
<1>17. Learned(store', done2, truth, fr2)
  <2>1. /\ rec \in CaptureRec /\ ruled \in Stores /\ usable \in BOOLEAN
        /\ ruled.frozen \/ rec.cap \notin fr2
        /\ CountedIn(ruled.pending, rec.cap) => rec.submitted > 0
    BY <1>2, <1>5, <1>8, <1>10, <1>14
  <2>2. Learned(NoteCapture(ruled, rec, usable), done2, truth, fr2)
    BY ONLY <1>8, <1>10, <1>12, <1>16, <2>1, LearnedCapture
  <2> QED BY <1>4, <2>2
<1>18. Types'
  <2>1. {dropped, pendingLoss, loss, reported, published}' \subseteq [events : Nat, captures : Nat]
    BY <1>3 DEF TypeOK, monitorVars
  <2>2. fr2 \subseteq DOMAIN truth
    BY <1>14 DEF done2, Done
  <2> QED BY <1>1, <1>3, <1>4, <1>9, <1>11, <2>1, <2>2
      DEF Types, TypeOK, monitorVars, envVars, Words, fr2
<1>19. LInv'
  <2>1. /\ Books(Handed', store'.pending, lane, truth)
        /\ Learned(store', Done(Handed', lane, truth), truth, frozenCaptures')
        /\ Saved(disk', Done(Handed', lane, truth), truth, frozenCaptures')
        /\ frozenCaptures' \subseteq Done(Handed', lane, truth)
    BY <1>1, <1>4, <1>10, <1>14, <1>15, <1>17 DEF done2, fr2
  <2> QED BY <1>4, <1>11, <1>18, <2>1, ConsumerStep
<1>20. store.held /\ ~store'.held => air' = [i \in 1..ReleaseQuiet |-> "quiet"]
  <2> SUFFICES ASSUME store.held, ~store'.held PROVE air' = [i \in 1..ReleaseQuiet |-> "quiet"]
    OBVIOUS
  <2>1. flood'.quiet >= ReleaseQuiet /\ flood'.quiet \in Nat
    BY <1>8, <1>9, <1>11 DEF Floods
  <2> QED BY ONLY <1>11, <2>1, QuietEnough
<1> QED BY <1>19, <1>20

\* An item is ingested.
LEMMA IngestKeeps ==
  ASSUME LInv, CountsAreCounts', NEW timing \in Timings, IngestNext(timing)
  PROVE  /\ LInv'
         /\ store.held /\ ~store'.held => air' = [i \in 1..ReleaseQuiet |-> "quiet"]
<1>1. /\ worker = "items" /\ batch # <<>> /\ batch' = Tail(batch) /\ dirty' = TRUE
      /\ \/ Head(batch).kind = "frame" /\ IngestFrame(Head(batch))
         \/ Head(batch).kind = "capture" /\ IngestCapture(Head(batch), timing)
         \/ Head(batch).kind = "command" /\ IngestCommand(Head(batch))
  BY DEF IngestNext
<1>2. UNCHANGED <<monitorVars, worker, loss, finish, reported, published, disk,
                  saveFailed, envVars>>
  BY DEF IngestNext
<1>3. store \in Stores /\ Head(batch) \in Item
  BY <1>1, <1>2, HeadIs DEF LInv, Types, monitorVars
<1>4. CASE Head(batch).kind = "frame" /\ IngestFrame(Head(batch))
  <2>1. Head(batch).cap \in Nat
    BY <1>3, <1>4 DEF Item
  <2>2. store'.held = store.held
    BY <1>3, <1>4, <2>1, NoteFrameIs DEF IngestFrame
  <2> QED BY <1>1, <1>2, <1>4, <2>2, IngestFrameKeeps
<1>5. CASE Head(batch).kind = "capture" /\ IngestCapture(Head(batch), timing)
  BY <1>1, <1>2, <1>5, IngestCaptureKeeps
<1>6. CASE Head(batch).kind = "command" /\ IngestCommand(Head(batch))
  <2>1. store' \in {SetFrozen(store, TRUE), SetFrozen(store, FALSE), Reset(store)}
    BY <1>3, <1>6 DEF IngestCommand, Item, Actions
  <2>2. SetFrozen(store, TRUE).held = store.held /\ SetFrozen(store, FALSE).held = store.held
    BY <1>3 DEF SetFrozen, Stores
  <2>3. Reset(store).held = store.held
    BY <1>3 DEF Reset, Stores
  <2>4. store'.held = store.held
    BY ONLY <2>1, <2>2, <2>3
  <2> QED BY <1>1, <1>2, <1>6, <2>4, IngestCommandKeeps
<1> QED BY <1>1, <1>4, <1>5, <1>6

\* What holds when a step leaves the lanes, the captures and what is handed alone.
LEMMA HandedStays ==
  ASSUME LInv, UNCHANGED <<lane, truth, frozenCaptures>>, Handed' = Handed, Types',
         \A d \in Nat : CountedIn(store'.pending, d) => CountedIn(store.pending, d),
         Learned(store', Ingested, truth, frozenCaptures),
         Saved(disk', Ingested, truth, frozenCaptures), Quiet(air', flood'.quiet)
  PROVE  LInv'
<1> DEFINE p == store.pending
           p2 == store'.pending
<1>1. Books(Handed, p, lane, truth) /\ frozenCaptures \subseteq Ingested
  BY DEF LInv
<1>2. \A d \in Nat : CountedIn(p2, d) => CountedIn(p, d)
  OBVIOUS
<1> HIDE DEF p, p2
<1>3. Books(Handed, p2, lane, truth)
  BY <1>1, <1>2, FewerBooks
<1>4. /\ Books(Handed', store'.pending, lane, truth)
      /\ Learned(store', Done(Handed', lane, truth), truth, frozenCaptures')
      /\ Saved(disk', Done(Handed', lane, truth), truth, frozenCaptures')
      /\ frozenCaptures' \subseteq Done(Handed', lane, truth)
  BY <1>1, <1>3 DEF Ingested, p2
<1> QED BY <1>4, ConsumerStep

\* The consumer takes the queue: what is handed is the same, in one piece.
LEMMA TakeKeeps ==
  ASSUME LInv, IInv, CountsAreCounts', Take PROVE LInv'
<1>1. /\ worker = "wait" /\ batch' = queue /\ queue' = <<>> /\ worker' = "items"
      /\ finish' = stopping
      /\ UNCHANGED <<running, stopping, dropped, dirty, store, flood, reported,
                     published, disk, saveFailed, frozenCaptures, air, envVars>>
  BY DEF Take
<1>2. batch = <<>>
  BY <1>1 DEF IInv, Rounds
<1>3. /\ TypeOK /\ store \in Stores /\ flood \in Floods /\ disk \subseteq Files
      /\ Learned(store, Ingested, truth, frozenCaptures)
      /\ Saved(disk, Ingested, truth, frozenCaptures) /\ Quiet(air, flood.quiet)
  BY DEF LInv, Types
<1>4. queue \in Seq(Item)
  BY <1>3 DEF TypeOK
<1>5. Handed' = Handed
  BY <1>1, <1>2, <1>4, HandedIs DEF Handed
<1>6. Types'
  <2>1. {dropped, pendingLoss, loss, reported, published}' \subseteq [events : Nat, captures : Nat]
    BY <1>1, <1>3, CountsAreCounts' DEF CountsAreCounts, Losses, TypeOK
  <2>2. /\ queue' \in Seq(Item) /\ batch' \in Seq(Item)
        /\ Len(queue') <= QueueMaxItems + CaptureReserve
    BY <1>1, <1>4, EmptySeq, MonitorAssumption
  <2>3. UNCHANGED <<running, stopping, dirty, saveFailed, scanning, lane, truth,
                    frozenCaptures, air, commands, stops, crashes, store, flood, disk>>
    BY <1>1 DEF envVars
  <2> QED BY <1>1, <1>3, <2>1, <2>2, <2>3 DEF Types, TypeOK
<1>7. UNCHANGED <<lane, truth, frozenCaptures, store, disk, flood, air>>
  BY <1>1 DEF envVars
<1> QED BY <1>3, <1>5, <1>6, <1>7, HandedStays

\* The loss notice is ingested: no frame counts any more, and no quiet.
LEMMA LossKeeps ==
  ASSUME LInv, CountsAreCounts', IngestLoss
  PROVE  LInv' /\ store'.held = store.held
<1>1. /\ worker' = "wrap"
      /\ store' \in {store, InvalidatePending(store)}
      /\ \/ flood' = flood /\ air' = air
         \/ flood' = FloodInterrupt(flood) /\ air' = Told("loss")
      /\ dirty' \in {dirty, TRUE}
      /\ UNCHANGED <<monitorVars, batch, finish, published, disk, saveFailed,
                     frozenCaptures, envVars>>
  BY DEF IngestLoss
<1>2. /\ TypeOK /\ store \in Stores /\ flood \in Floods /\ disk \subseteq Files
      /\ Learned(store, Ingested, truth, frozenCaptures)
      /\ Saved(disk, Ingested, truth, frozenCaptures) /\ Quiet(air, flood.quiet)
      /\ air \in Seq(Words)
  BY DEF LInv, Types, TypeOK, Words
<1> DEFINE done == Ingested
<1> HIDE DEF done
<1>3. /\ InvalidatePending(store) \in Stores /\ InvalidatePending(store).pending = <<>>
      /\ InvalidatePending(store).held = store.held
      /\ Learned(InvalidatePending(store), done, truth, frozenCaptures)
  <2>1. [known |-> FALSE, windows |-> <<>>, frozen |-> FALSE, held |-> FALSE] \in Files
    BY DEF Files
  <2>2. Learned(store, done, truth, frozenCaptures)
    BY <1>2 DEF done
  <2>3. InvalidatePending(store) \in Stores
    BY ONLY <1>2, <2>1, OthersAre, TRUE \in BOOLEAN
  <2>4. /\ InvalidatePending(store).pending = <<>>
        /\ InvalidatePending(store).held = store.held
    BY ONLY <1>2, <2>1, OthersLeave, TRUE \in BOOLEAN
  <2>5. Learned(InvalidatePending(store), done, truth, frozenCaptures)
    BY ONLY <1>2, <2>1, <2>2, LearnedOthers, TRUE \in BOOLEAN
  <2> QED BY <2>3, <2>4, <2>5
<1>4. /\ store' \in Stores /\ Learned(store', done, truth, frozenCaptures)
      /\ store'.held = store.held
      /\ \A d \in Nat : CountedIn(store'.pending, d) => CountedIn(store.pending, d)
  <2>1. \A d : ~CountedIn(<<>>, d)
    BY DEF CountedIn
  <2> QED BY <1>1, <1>2, <1>3, <2>1 DEF done
<1>5. flood' \in Floods /\ air' \in Seq(Words) /\ Quiet(air', flood'.quiet)
  <2>1. FloodInterrupt(flood) \in Floods /\ FloodInterrupt(flood).quiet = 0
    BY EmptySeq DEF FloodInterrupt, Floods
  <2>2. flood.quiet \in Nat /\ "loss" \in Words
    BY <1>2 DEF Floods, Words
  <2>3. Told("loss") \in Seq(Words) /\ Quiet(Told("loss"), 0)
    BY <1>2, <2>2, QuietTold
  <2> QED BY <1>1, <1>2, <2>1, <2>3
<1>6. Types'
  <2>1. {dropped, pendingLoss, loss, reported, published}' \subseteq [events : Nat, captures : Nat]
    BY <1>1, <1>2, CountsAreCounts' DEF CountsAreCounts, Losses, TypeOK
  <2> QED BY <1>1, <1>2, <1>4, <1>5, <2>1 DEF Types, TypeOK, monitorVars, envVars, Words
<1>7. Handed' = Handed /\ UNCHANGED <<lane, truth, frozenCaptures, disk>>
  BY <1>1 DEF Handed, monitorVars, envVars
<1> QED BY <1>2, <1>4, <1>5, <1>6, <1>7, HandedStays DEF done

\* A round ends: the state is saved, or the file stays.
LEMMA SaveKeeps ==
  ASSUME LInv, CountsAreCounts', disk' \in {disk, {Export(store)}},
         published' \in {published, reported}, dirty' \in BOOLEAN, saveFailed' \in BOOLEAN,
         worker' \in {"off", "wait"},
         UNCHANGED <<monitorVars, batch, loss, finish, store, flood, reported,
                     frozenCaptures, air, envVars>>
  PROVE  LInv'
<1>1. /\ TypeOK /\ store \in Stores /\ flood \in Floods /\ disk \subseteq Files
      /\ Learned(store, Ingested, truth, frozenCaptures)
      /\ Saved(disk, Ingested, truth, frozenCaptures) /\ Quiet(air, flood.quiet)
  BY DEF LInv, Types
<1>2. Export(store) \in Files /\ Export(store).windows = store.windows
  BY <1>1 DEF Export, Stores, Files
<1>3. disk' \subseteq Files
  BY <1>1, <1>2
<1>4. Saved(disk', Ingested, truth, frozenCaptures)
  BY <1>1, <1>2 DEF Saved, Learned
<1>5. Types'
  <2>1. {dropped, pendingLoss, loss, reported, published}' \subseteq [events : Nat, captures : Nat]
    BY <1>1 DEF TypeOK, monitorVars
  <2> QED BY <1>1, <1>3, <2>1 DEF Types, TypeOK, monitorVars, envVars
<1>6. /\ Handed' = Handed
      /\ UNCHANGED <<lane, truth, frozenCaptures, store, flood, air>>
  BY DEF Handed, monitorVars, envVars
<1> QED BY <1>1, <1>4, <1>5, <1>6, HandedStays

-----------------------------------------------------------------------------
(* Start and stop *)

\* start() loads what was saved, and the rule begins again.
LEMMA StartKeeps ==
  ASSUME LInv, Start PROVE LInv' /\ ~running
<1>1. /\ ~running /\ running' = TRUE /\ stopping' = FALSE /\ worker' = "wait"
      /\ scanning' = TRUE
      /\ \/ UNCHANGED <<store, flood>> /\ air' = air
         \/ \E file \in disk : /\ store' = Import(store, file)
                               /\ flood' = FloodInterrupt(flood) /\ air' = Told("restart")
      /\ UNCHANGED <<queue, dropped, pendingLoss, batch, loss, finish, dirty,
                     reported, published, disk, saveFailed, frozenCaptures, lane,
                     truth, commands, stops, crashes>>
  BY DEF Start
<1>2. /\ TypeOK /\ store \in Stores /\ flood \in Floods /\ disk \subseteq Files
      /\ Learned(store, Ingested, truth, frozenCaptures)
      /\ Saved(disk, Ingested, truth, frozenCaptures) /\ Quiet(air, flood.quiet)
      /\ air \in Seq(Words)
  BY DEF LInv, Types, TypeOK, Words
<1> DEFINE done == Ingested
<1> HIDE DEF done
<1>3. /\ store' \in Stores /\ Learned(store', done, truth, frozenCaptures)
      /\ store'.pending = store.pending
  <2>1. CASE UNCHANGED <<store, flood>> /\ air' = air
    BY <1>2, <2>1 DEF done
  <2>2. ASSUME NEW file \in disk, store' = Import(store, file)
        PROVE  /\ store' \in Stores /\ Learned(store', done, truth, frozenCaptures)
               /\ store'.pending = store.pending
    <3>1. /\ file \in Files /\ AllClosed(file.windows, done, truth, frozenCaptures)
          /\ Learned(store, done, truth, frozenCaptures)
      BY <1>2 DEF Saved, done
    <3>2. Import(store, file) \in Stores
      BY ONLY <1>2, <3>1, OthersAre, TRUE \in BOOLEAN
    <3>3. Import(store, file).pending = store.pending
      BY ONLY <1>2, <3>1 DEF Import, Stores, Files
    <3>4. Learned(Import(store, file), done, truth, frozenCaptures)
      BY ONLY <1>2, <3>1, LearnedOthers, TRUE \in BOOLEAN
    <3> QED BY <2>2, <3>2, <3>3, <3>4
  <2> QED BY <1>1, <2>1, <2>2
<1>5. flood' \in Floods /\ air' \in Seq(Words) /\ Quiet(air', flood'.quiet)
  <2>1. FloodInterrupt(flood) \in Floods /\ FloodInterrupt(flood).quiet = 0
    BY EmptySeq DEF FloodInterrupt, Floods
  <2>2. flood.quiet \in Nat /\ "restart" \in Words
    BY <1>2 DEF Floods, Words
  <2>3. Told("restart") \in Seq(Words) /\ Quiet(Told("restart"), 0)
    BY <1>2, <2>2, QuietTold
  <2> QED BY <1>1, <1>2, <2>1, <2>3
<1>6. Types'
  <2>1. {dropped, pendingLoss, loss, reported, published}' \subseteq [events : Nat, captures : Nat]
    BY <1>1, <1>2 DEF TypeOK
  <2> QED BY <1>1, <1>2, <1>3, <1>5, <2>1 DEF Types, TypeOK, Words
<1>7. Handed' = Handed
  BY <1>1 DEF Handed
<1> QED BY <1>1, <1>2, <1>3, <1>5, <1>6, <1>7, HandedStays DEF done

\* A monitor made anew, or a process that died, loses what was on its way.
LEMMA FreshLearns ==
  ASSUME LInv, FreshMonitor, UNCHANGED <<disk, truth, frozenCaptures, commands, stops>>,
         lane' \in {lane, [l \in Lane |-> {}]}, scanning' \in BOOLEAN, crashes' \in Nat
  PROVE  LInv'
<1>1. /\ TypeOK /\ store \in Stores /\ flood \in Floods /\ disk \subseteq Files
      /\ Books(Handed, store.pending, lane, truth)
      /\ Learned(store, Done(Handed, lane, truth), truth, frozenCaptures)
      /\ Saved(disk, Done(Handed, lane, truth), truth, frozenCaptures)
      /\ frozenCaptures \subseteq Done(Handed, lane, truth) /\ Quiet(air, flood.quiet)
      /\ air \in Seq(Words) /\ flood.quiet \in Nat
  BY DEF LInv, Types, TypeOK, Words, Floods, Ingested
<1>2. /\ queue' = <<>> /\ batch' = <<>> /\ store' = EmptyStore /\ flood' = EmptyFlood
      /\ air' = Told("restart") /\ worker' = "off"
  BY DEF FreshMonitor
<1>3. Handed' = <<>>
  <2>1. <<>> \in Seq(Item)
    BY EmptySeq
  <2>2. <<>> \o <<>> = <<>>
    BY ONLY <2>1, ConcatEmptySeq
  <2> QED BY <1>2, <2>2 DEF Handed
<1> DEFINE h == Handed
           p == store.pending
           done == Done(h, lane, truth)
           ln2 == lane'
           done2 == Done(<<>>, ln2, truth)
<1>4. Books(h, p, lane, truth) /\ ln2 \in {lane, [l \in Lane |-> {}]}
  BY <1>1
<1> HIDE DEF h, p, ln2
<1>5. Books(<<>>, <<>>, ln2, truth) /\ done \subseteq done2
  BY ONLY <1>4, EmptyBooks
<1>6. /\ Learned(store, done, truth, frozenCaptures) /\ Saved(disk, done, truth, frozenCaptures)
      /\ frozenCaptures \subseteq done
  BY <1>1 DEF h
<1> HIDE DEF done, done2
<1>7. Learned(store, done2, truth, frozenCaptures) /\ Saved(disk, done2, truth, frozenCaptures)
  BY <1>5, <1>6, LearnedStays
<1>8. Learned(EmptyStore, done2, truth, frozenCaptures)
  <2>1. [known |-> FALSE, windows |-> <<>>, frozen |-> FALSE, held |-> FALSE] \in Files
    BY DEF Files
  <2> QED BY ONLY <1>1, <1>7, <2>1, LearnedOthers, TRUE \in BOOLEAN
<1>9. air' \in Seq(Words) /\ Quiet(air', flood'.quiet)
  <2>1. "restart" \in Words
    BY DEF Words
  <2> QED BY <1>1, <1>2, <2>1, QuietTold, EmptyIs
<1>10. Types'
  <2>1. {dropped, pendingLoss, loss, reported, published}' \subseteq [events : Nat, captures : Nat]
    BY DEF FreshMonitor, None
  <2>2. /\ queue' \in Seq(Item) /\ batch' \in Seq(Item)
        /\ Len(queue') <= QueueMaxItems + CaptureReserve
    BY <1>2, EmptySeq, MonitorAssumption
  <2>3. lane' \in [Lane -> SUBSET CaptureRec]
    BY <1>1 DEF TypeOK
  <2>4. running' \in BOOLEAN /\ stopping' \in BOOLEAN /\ finish' \in BOOLEAN
        /\ dirty' \in BOOLEAN /\ saveFailed' \in BOOLEAN
    BY DEF FreshMonitor
  <2> QED BY <1>1, <1>2, <1>9, <2>1, <2>2, <2>3, <2>4, EmptyIs DEF Types, TypeOK, Words
<1>11. LInv'
  <2>1. store'.pending = <<>> /\ UNCHANGED <<disk, truth, frozenCaptures>>
    BY <1>2, EmptyIs
  <2>2. Ingested' = done2
    BY <1>3, <2>1 DEF Ingested, ln2, done2
  <2>3. Books(Handed, store.pending, lane, truth)'
    BY <1>3, <1>5, <2>1 DEF ln2
  <2>4. /\ (frozenCaptures \subseteq Ingested)'
        /\ Learned(store, Ingested, truth, frozenCaptures)'
        /\ Saved(disk, Ingested, truth, frozenCaptures)'
    BY ONLY <1>2, <1>5, <1>6, <1>7, <1>8, <2>1, <2>2
  <2> QED BY <1>9, <1>10, <2>3, <2>4 DEF LInv
<1> QED BY <1>11

-----------------------------------------------------------------------------
(* The theorems *)

\* The books are in order, and nothing is learned, at first.
LEMMA LearnInit == Init => LInv
<1> SUFFICES ASSUME Init PROVE LInv
  OBVIOUS
<1>1. /\ queue = <<>> /\ batch = <<>> /\ store = EmptyStore /\ flood = EmptyFlood
      /\ disk = {} /\ lane = [l \in Lane |-> {}] /\ truth = <<>> /\ frozenCaptures = {}
      /\ air = <<>>
  BY DEF Init
<1>2. /\ <<>> \in Seq(Item) /\ <<>> \in Seq(Words) /\ <<>> \in Seq(Captures)
      /\ Len(<<>>) = 0 /\ 1..0 = {}
  BY EmptySeq
<1>3. Handed = <<>>
  <2>1. <<>> \o <<>> = <<>>
    BY ONLY <1>2, ConcatEmptySeq
  <2> QED BY <1>1, <2>1 DEF Handed
<1>4. Types
  <2>1. {dropped, pendingLoss, loss, reported, published} \subseteq [events : Nat, captures : Nat]
    BY DEF Init, None
  <2>2. Len(queue) <= QueueMaxItems + CaptureReserve
    BY <1>1, <1>2, MonitorAssumption
  <2>3. /\ queue \in Seq(Item) /\ batch \in Seq(Item) /\ truth \in Seq(Captures)
        /\ air \in Seq(Words) /\ frozenCaptures \subseteq DOMAIN truth
        /\ lane \in [Lane -> SUBSET CaptureRec]
    BY <1>1, <1>2
  <2>4. /\ running \in BOOLEAN /\ stopping \in BOOLEAN /\ finish \in BOOLEAN
        /\ dirty \in BOOLEAN /\ saveFailed \in BOOLEAN /\ scanning \in BOOLEAN
    BY Zenon DEF Init
  <2>5. worker = "off" /\ {commands, stops, crashes} \subseteq Nat
    BY DEF Init
  <2>6. TypeOK
    BY <2>1, <2>2, <2>3, <2>4, <2>5 DEF TypeOK, Words, Captures
  <2> QED BY <1>1, <2>6, EmptyIs DEF Types
<1>5. Books(Handed, store.pending, lane, truth)
  <2>1. store.pending = <<>> /\ \A l \in Lane : lane[l] = {}
    BY <1>1, EmptyIs
  <2> QED BY <1>2, <1>3, <2>1
          DEF Books, LanesTell, ItemsTell, FramesCounted, FrameIn, CountedIn
<1>6. /\ Learned(store, Ingested, truth, frozenCaptures)
      /\ Saved(disk, Ingested, truth, frozenCaptures)
      /\ frozenCaptures \subseteq Ingested
  BY <1>1, <1>2 DEF Learned, AllClosed, Open, Saved, EmptyStore, EmptyWindow
<1>7. Quiet(air, flood.quiet)
  BY <1>1, <1>2, BaselineLimitsAssumption DEF Quiet, EmptyFlood
<1> QED BY <1>4, <1>5, <1>6, <1>7 DEF LInv

\* What was handed is handed, when nothing that matters here changes.
LEMMA ControlKeeps ==
  ASSUME LInv, running' \in BOOLEAN, stopping' \in BOOLEAN, scanning' \in BOOLEAN,
         stops' \in Nat,
         UNCHANGED <<queue, dropped, pendingLoss, consumerVars, lane, truth, commands, crashes>>
  PROVE  LInv' /\ store' = store
<1>1. /\ TypeOK /\ store \in Stores /\ flood \in Floods /\ disk \subseteq Files
      /\ Learned(store, Ingested, truth, frozenCaptures)
      /\ Saved(disk, Ingested, truth, frozenCaptures) /\ Quiet(air, flood.quiet)
  BY DEF LInv, Types
<1>2. Types'
  BY <1>1 DEF Types, TypeOK, consumerVars
<1>3. /\ Handed' = Handed
      /\ UNCHANGED <<lane, truth, frozenCaptures, store, disk, flood, air>>
  BY DEF Handed, consumerVars
<1> QED BY <1>1, <1>2, <1>3, HandedStays

\* Every step keeps what is learned true, and releases the hold only in quiet.
LEMMA LearnNext ==
  ASSUME LInv, IInv, CountsAreCounts', [Next]_vars
  PROVE  /\ LInv'
         /\ running /\ running' /\ store.held /\ ~store'.held =>
              air' = [i \in 1..ReleaseQuiet |-> "quiet"]
<1>0. TypeOK
  BY DEF LInv, Types
<1>1. CASE Feed
  <2>1. \A f \in Fits : f \in BOOLEAN
    BY DEF Fits
  <2>2. ASSUME NEW l \in Lane, BeginCapture(l) PROVE LInv' /\ store' = store
    BY ZenonT(40), <2>2, BeginKeeps DEF BeginCapture, consumerVars
  <2>3. ASSUME NEW l \in Lane, NEW fits \in Fits, SubmitFrame(l, fits)
        PROVE  LInv' /\ store' = store
    BY ZenonT(40), <2>1, <2>3, SubmitFrameKeeps DEF SubmitFrame, consumerVars
  <2>4. ASSUME NEW l \in Lane, NEW fits \in Fits, SubmitCapture(l, fits)
        PROVE  LInv' /\ store' = store
    BY <2>1, <2>4, SubmitCaptureKeeps DEF SubmitCapture, consumerVars
  <2>5. ASSUME NEW a \in Actions, NEW fits \in Fits, SubmitCommand(a, fits)
        PROVE  LInv' /\ store' = store
    BY <2>1, <2>5, SubmitCommandKeeps DEF SubmitCommand, consumerVars
  <2>6. LInv' /\ store' = store
    BY <1>1, <2>2, <2>3, <2>4, <2>5 DEF Feed
  <2> QED BY <2>6
<1>2. CASE Consume
  <2>1. CASE Take
    <3>1. LInv'
      BY <2>1, TakeKeeps
    <3>2. store' = store
      BY <2>1 DEF Take
    <3> QED BY <3>1, <3>2
  <2>2. ASSUME NEW timing \in Timings, IngestNext(timing)
        PROVE  /\ LInv'
               /\ store.held /\ ~store'.held => air' = [i \in 1..ReleaseQuiet |-> "quiet"]
    BY <2>2, IngestKeeps
  <2>3. CASE IngestLoss
    BY <2>3, LossKeeps
  <2>4. ASSUME NEW p \in BOOLEAN, NEW s \in BOOLEAN, NEW ok \in BOOLEAN, Wrap(p, s, ok)
        PROVE  LInv' /\ store' = store
    <3>1. /\ disk' \in {disk, {Export(store)}} /\ published' \in {published, reported}
          /\ dirty' \in BOOLEAN /\ saveFailed' \in BOOLEAN /\ worker' \in {"off", "wait"}
          /\ UNCHANGED <<monitorVars, batch, loss, finish, store, flood, reported,
                         frozenCaptures, air, envVars>>
      BY <1>0, <2>4 DEF Wrap, Save, TypeOK
    <3> QED BY <3>1, SaveKeeps
  <2>5. ASSUME NEW ok \in BOOLEAN, Finish(ok) PROVE LInv' /\ store' = store
    <3>1. /\ disk' \in {disk, {Export(store)}} /\ published' \in {published, reported}
          /\ dirty' \in BOOLEAN /\ saveFailed' \in BOOLEAN /\ worker' \in {"off", "wait"}
          /\ UNCHANGED <<monitorVars, batch, loss, finish, store, flood, reported,
                         frozenCaptures, air, envVars>>
      BY <2>5 DEF Finish, Save
    <3> QED BY <3>1, SaveKeeps
  <2> QED BY <1>2, <2>1, <2>2, <2>3, <2>4, <2>5 DEF Consume
<1>3. CASE Start
  BY <1>3, StartKeeps
<1>4. CASE JoinScanThread \/ StopCall \/ StopReturn \/ UNCHANGED vars
  <2>1. /\ running' \in BOOLEAN /\ stopping' \in BOOLEAN /\ scanning' \in BOOLEAN
        /\ stops' \in Nat
    <3>1. stops' \in {stops, stops + 1}
      BY <1>4 DEF JoinScanThread, StopCall, StopReturn, vars, monitorVars, envVars
    <3>2. /\ running' = running \/ running' = FALSE
          /\ stopping' = stopping \/ stopping' = TRUE
          /\ scanning' = scanning \/ scanning' = FALSE
      BY <1>4 DEF JoinScanThread, StopCall, StopReturn, vars, monitorVars, envVars
    <3>3. /\ running \in BOOLEAN /\ stopping \in BOOLEAN /\ scanning \in BOOLEAN
          /\ stops \in Nat
      BY <1>0 DEF TypeOK
    <3>4. stops' \in Nat
      BY ONLY <3>1, <3>3
    <3>5. running' \in BOOLEAN /\ stopping' \in BOOLEAN /\ scanning' \in BOOLEAN
      BY ONLY <3>2, <3>3, Zenon
    <3> QED BY <3>4, <3>5
  <2>2. UNCHANGED <<queue, dropped, pendingLoss, consumerVars, lane, truth, commands, crashes>>
    BY <1>4 DEF JoinScanThread, StopCall, StopReturn, vars, monitorVars, envVars
  <2>3. LInv' /\ store' = store
    BY <2>1, <2>2, ControlKeeps
  <2> QED BY <2>3
<1>5. CASE NewMonitor \/ Crash
  <2>1. /\ FreshMonitor /\ UNCHANGED <<disk, truth, frozenCaptures, commands, stops>>
        /\ lane' \in {lane, [l \in Lane |-> {}]} /\ scanning' \in BOOLEAN /\ crashes' \in Nat
    <3>1. /\ FreshMonitor /\ UNCHANGED <<disk, truth, frozenCaptures, commands, stops>>
          /\ lane' = lane \/ lane' = [l \in Lane |-> {}]
          /\ crashes' \in {crashes, crashes + 1}
      BY <1>5 DEF NewMonitor, Crash, envVars
    <3>2. scanning \in BOOLEAN /\ crashes \in Nat
      BY <1>0 DEF TypeOK
    <3>3. crashes' \in Nat
      BY ONLY <3>1, <3>2
    <3>4. scanning' = scanning \/ scanning' = FALSE
      BY <1>5 DEF NewMonitor, Crash, envVars
    <3>5. scanning' \in BOOLEAN
      BY ONLY <3>2, <3>4, Zenon
    <3> QED BY <3>1, <3>3, <3>5
  <2>2. ~running'
    BY <2>1 DEF FreshMonitor
  <2> QED BY <2>1, <2>2, FreshLearns
<1> QED BY <1>1, <1>2, <1>3, <1>4, <1>5 DEF Next

\* Every behaviour keeps the books, the windows and the quiet counted.
THEOREM LearnInvariance == Safety => []LInv
<1>1. IInv' => CountsAreCounts'
  BY DEF IInv
<1>2. LInv /\ IInv /\ IInv' /\ [Next]_vars => LInv'
  BY <1>1, LearnNext
<1> QED BY LearnInit, <1>2, Invariance, PTL DEF Safety

\* Every variable keeps its type, and the queue its two limits.
THEOREM TypeOKHolds == Safety => []TypeOK
<1>1. LInv => TypeOK
  BY DEF LInv, Types
<1> QED BY <1>1, LearnInvariance, PTL

\* Only clean input is learned: a window the statistics use holds no capture
\* that lost frames on the way, none with candidate activity, none taken under
\* the operator's freeze.
THEOREM LearnedCleanHolds == Safety => []LearnedClean
<1>1. LInv => LearnedClean
  <2> SUFFICES ASSUME LInv, NEW i \in DOMAIN store.windows, ~store.windows[i].excluded,
                      NEW e \in store.windows[i].learned
               PROVE  /\ e.frames = truth[e.cap].decoded
                      /\ ~truth[e.cap].candidate
                      /\ e.cap \notin frozenCaptures
    BY DEF LearnedClean
  <2>1. i \in 1..Len(store.windows)
    BY LenProperties DEF LInv, Types, Stores
  <2>2. Closed(store.windows[i], Ingested, truth, frozenCaptures)
    BY <2>1 DEF LInv, Learned, AllClosed
  <2> QED BY <2>2 DEF Closed, True
<1> QED BY <1>1, LearnInvariance, PTL

\* While the monitor runs, a held baseline is released only by evidence of quiet.
THEOREM QuietReleasesHolds == Safety => QuietReleases
<1>1. IInv' => CountsAreCounts'
  BY DEF IInv
<1>2. LInv /\ IInv /\ IInv' /\ [Next]_vars =>
        [(running /\ running' /\ store.held /\ ~store'.held) =>
           air' = [i \in 1..ReleaseQuiet |-> "quiet"]]_vars
  BY <1>1, LearnNext
<1> QED BY <1>2, LearnInvariance, Invariance, PTL DEF Safety, QuietReleases
=============================================================================
