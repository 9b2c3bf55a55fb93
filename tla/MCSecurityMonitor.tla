------------------------- MODULE MCSecurityMonitor -------------------------
(* Instances of SecurityMonitor for TLC. *)
EXTENDS SecurityMonitor, TLC

CONSTANTS wifi24, wifi5
MCLanes == {wifi24, wifi5}
OneLane == {wifi24}
\* Captures, commands, stops, crashes, lanes at work and captures with frames:
\* learning under commands, across a crash and across a stop; a long hold; two
\* lanes interleaved.
MCBudgets ==
  {<<2, 1, 0, 0, 1, 1>>, <<2, 0, 0, 1, 1, 1>>, <<2, 0, 1, 0, 1, 2>>,
   <<3, 0, 0, 0, 1, 1>>, <<2, 0, 0, 0, 2, 2>>}
LiveBudgets == {<<1, 1, 0, 0, 1, 1>>}
Symmetry == Permutations(MCLanes)
=============================================================================
