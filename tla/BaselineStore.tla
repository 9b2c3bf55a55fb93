--------------------------- MODULE BaselineStore ---------------------------
(***************************************************************************)
(* The learning side of the Wi-Fi security monitor for one receiver        *)
(* profile: the baseline windows (src/security/wifi_security_baseline.cpp) *)
(* and the management-flood rule that holds them while it sees candidate   *)
(* activity (src/security/wifi_security_flood.cpp).  Operators on records; *)
(* the thread that owns them is in SecurityMonitor.                        *)
(*                                                                         *)
(* Abstracted: the per-metric counts of a capture are one number, a        *)
(* capture is one unit of analysed air, and the flood rule's rate test is  *)
(* the capture's own "candidate" flag.                                     *)
(***************************************************************************)
EXTENDS Naturals, Sequences, FiniteSets

CONSTANTS
  WindowCaptures,   \* window_analysed_s, in captures
  MaxWindows,       \* max_windows
  MaxPending,       \* max_pending_captures of the store
  FloodMaxPending,  \* max_pending of the rule
  ReleaseQuiet      \* release_quiet_s, in captures

ASSUME BaselineLimitsAssumption ==
  /\ {WindowCaptures, MaxWindows, MaxPending, FloodMaxPending, ReleaseQuiet}
       \subseteq Nat \ {0}

-----------------------------------------------------------------------------
(* Frames of captures whose record has not arrived yet: the store's         *)
(* pending_ and pending_order_, oldest capture first.                       *)

Counted(p, c) == IF \E i \in DOMAIN p : p[i].cap = c
                 THEN p[CHOOSE i \in DOMAIN p : p[i].cap = c].frames ELSE 0
Without(p, c) ==
  IF \E i \in DOMAIN p : p[i].cap = c
  THEN LET k == CHOOSE i \in DOMAIN p : p[i].cap = c
       IN  [i \in 1..Len(p) - 1 |-> IF i < k THEN p[i] ELSE p[i + 1]]
  ELSE p
CountFrame(p, c) ==
  IF \E i \in DOMAIN p : p[i].cap = c
  THEN [i \in DOMAIN p |-> IF p[i].cap = c
                           THEN [p[i] EXCEPT !.frames = @ + 1] ELSE p[i]]
  ELSE Append(p, [cap |-> c, frames |-> 1])

\* A window holds the captures learned in it, each with the frames counted.
EmptyWindow == [learned |-> {}, excluded |-> FALSE, held |-> FALSE]

\* known: a capture of this profile has arrived, so the baseline exists.  What
\* is done to a baseline that does not exist yet touches no window.
EmptyStore == [known |-> FALSE, frozen |-> FALSE, held |-> FALSE,
               windows |-> <<>>, current |-> EmptyWindow, pending |-> <<>>]

\* note_frame: a new capture's first frame may push the oldest capture out.
NoteFrame(s, c) ==
  LET p == CountFrame(s.pending, c)
  IN  [s EXCEPT !.pending = IF Len(p) > MaxPending THEN Tail(p) ELSE p]

\* Excluded windows are kept, and take no part in the statistics.
CloseWindow(s) ==
  LET w == [s.current EXCEPT !.excluded = @ \/ s.frozen \/ s.current.held]
      ws == Append(s.windows, w)
  IN  [s EXCEPT !.windows = IF Len(ws) > MaxWindows THEN Tail(ws) ELSE ws,
                !.current = EmptyWindow]

\* note_capture: rec is the capture record, usable what the rules made of it.
NoteCapture(s, rec, usable) ==
  LET n == Counted(s.pending, rec.cap)
      arrived == [s EXCEPT !.known = TRUE,
                           !.pending = Without(@, rec.cap),
                           !.current.held = @ \/ s.held]
      learned == [arrived EXCEPT
                    !.current.learned = @ \cup {[cap |-> rec.cap, frames |-> n]},
                    !.current.excluded = @ \/ s.frozen]
  IN  IF \/ ~usable
         \/ rec.rejected > 0
         \/ rec.submitted > 0 /\ n # rec.submitted
      THEN [arrived EXCEPT !.current.excluded = TRUE]
      ELSE IF Cardinality(learned.current.learned) >= WindowCaptures
           THEN CloseWindow(learned) ELSE learned

InvalidatePending(s) ==
  [s EXCEPT !.pending = <<>>, !.current.excluded = s.known]

\* set_frozen: the operator's freeze.  A window with captures in it is spoilt
\* at once, an empty one when the next capture comes.
SetFrozen(s, on) ==
  [s EXCEPT !.frozen = on,
            !.current.excluded = @ \/ (on /\ s.current.learned # {})]

\* reset: history is gone, freeze and hold stay.
Reset(s) == [s EXCEPT !.windows = <<>>, !.current = EmptyWindow]

\* set_hold, for the one holder there is here.
SetHold(s, on) ==
  [s EXCEPT !.held = on, !.current.held = @ \/ (on /\ s.known)]

\* export_json and import_json: closed windows, freeze and hold; never the
\* window in progress.
Export(s) == [known |-> s.known, windows |-> s.windows, frozen |-> s.frozen,
              held |-> s.held]
Import(s, file) ==
  IF file.known
  THEN [s EXCEPT !.known = TRUE, !.windows = file.windows,
                 !.frozen = file.frozen, !.held = @ \/ file.held,
                 !.current = EmptyWindow]
  ELSE [s EXCEPT !.frozen = @ \/ file.frozen, !.held = @ \/ file.held]

-----------------------------------------------------------------------------
(* ManagementFloodRule *)

EmptyFlood == [pending |-> <<>>, lost |-> FALSE, quiet |-> 0]

\* interrupt: a loss or a restart is never evidence of quiet.
FloodInterrupt(f) == [pending |-> <<>>, lost |-> TRUE, quiet |-> 0]

FloodNoteFrame(f, c) ==
  LET room == \/ \E i \in DOMAIN f.pending : f.pending[i].cap = c
              \/ Len(f.pending) < FloodMaxPending
      g == IF room THEN f ELSE FloodInterrupt(f)
  IN  [g EXCEPT !.pending = CountFrame(@, c)]

\* How a capture continues the comparison of its profile: at once, after a scan
\* gap or in a new context, with a clock that went backwards, or with more
\* activity than the rule keeps.
Timings == {"next", "gap", "backwards", "overload"}

Intact(f, rec) ==
  /\ rec.rejected = 0
  /\ ~f.lost
  /\ Counted(f.pending, rec.cap) = rec.submitted

FloodUsable(f, rec, timing) ==
  Intact(f, rec) /\ timing \notin {"backwards", "overload"}

\* Defect: an unusable capture leaves the quiet before it standing.
FloodFinishKeepsQuiet(f, rec, timing) ==
  LET base == [f EXCEPT !.pending = Without(@, rec.cap), !.lost = FALSE]
  IN  IF rec.candidate THEN [base EXCEPT !.quiet = 0]
      ELSE [base EXCEPT !.quiet = IF timing = "gap" THEN 1 ELSE @ + 1]

\* finish_capture, on the rule and on the hold: candidate activity holds the
\* baseline, enough quiet releases it.
FloodFinish(f, rec, timing) ==
  LET base == [f EXCEPT !.pending = Without(@, rec.cap), !.lost = FALSE]
  IN  IF ~FloodUsable(f, rec, timing) \/ rec.candidate
      THEN [base EXCEPT !.quiet = 0]
      ELSE [base EXCEPT !.quiet = IF timing = "gap" THEN 1 ELSE @ + 1]

FloodHold(f, s, rec, timing) ==
  IF ~Intact(f, rec) \/ timing = "backwards" THEN s
  ELSE IF timing = "overload" \/ rec.candidate THEN SetHold(s, TRUE)
  ELSE IF FloodFinish(f, rec, timing).quiet >= ReleaseQuiet
       THEN SetHold(s, FALSE) ELSE s
=============================================================================
