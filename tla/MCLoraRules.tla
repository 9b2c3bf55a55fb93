---------------------------- MODULE MCLoraRules ----------------------------
(* Instances of LoraRules for TLC. *)
EXTENDS LoraRules

TwoChannels == <<"low", "high">>

Budget(f, t, j, c, r, k, a, m, g, e) ==
  [frames |-> f, tags |-> t, joins |-> j, copies |-> c, resets |-> r, ticks |-> k,
   acts |-> a, missed |-> m, together |-> g, elsewhere |-> e]

\* Once round the counter, each frame in a capture of its own or two in one; two or three
\* in a capture, with copies, on both channels; devices of which one restarts, with
\* copies, with an operator; join requests, apart and together; frames tagged with
\* clusters that are merged.
MCBudgets ==
  {Budget(9, 0, 0, 0, 0, 0, 0, 9, 0, 0), Budget(9, 0, 0, 0, 0, 0, 0, 1, 1, 0),
   Budget(4, 0, 0, 0, 1, 0, 0, 0, 2, 1), Budget(3, 0, 0, 1, 0, 1, 0, 0, 2, 1),
   Budget(3, 0, 0, 1, 1, 2, 0, 1, 0, 0), Budget(5, 0, 0, 0, 1, 0, 1, 5, 0, 0),
   Budget(0, 0, 2, 1, 1, 2, 0, 0, 1, 1), Budget(0, 0, 3, 0, 0, 2, 0, 0, 1, 1),
   Budget(3, 3, 0, 0, 0, 0, 2, 3, 0, 0)}

OneCapture == {Budget(3, 0, 0, 1, 0, 1, 0, 3, 3, 3)}
=============================================================================
