--------------------------- MODULE MCLaneDecoders ---------------------------
(* The background lane, the security monitor with what its queue drops, and the
   LoRa decoders, for TLC: they share nothing, so one of them moves and the
   others stay as they began. *)
EXTENDS SerialLane, MCSecurityMonitor, LoraCodec, LoraReceiver

-----------------------------------------------------------------------------
(* SerialLane *)

CONSTANTS step, marker
MCJob == {step, marker}
MCLimits == {1, 2, 3}

-----------------------------------------------------------------------------
(* LoraCodec: the narrow spreading factors, where drift and
   synchronisation words are closest, every rate and both modes. *)

Sent(sf, ldro, cr, crc, payload) ==
  [sf |-> sf, ldro |-> ldro, cr |-> cr, crc |-> crc, payload |-> payload]

A == {0, 2, 3, 7}
B == {1, 4, 5, 6}

MCSent ==
  {Sent(5, FALSE, cr, TRUE, <<A>>) : cr \in 1..4} \cup {Sent(6, FALSE, cr, TRUE, <<B, A>>) : cr \in {2, 4}}
  \cup {Sent(7, ldro, cr, cr # 3, <<A, B>>) : ldro \in BOOLEAN, cr \in 1..4}
  \cup {Sent(8, TRUE, 3, TRUE, <<B>>), Sent(7, TRUE, 4, TRUE, <<>>)}

\* No drift, up, down, a jump that reverts, drift with a jump.
MCDrifts == {<<0, 0, 0, 0, 0, 0, 0, 0>>, <<0, 0, 0, 0, 0, 0, 0, 1>>, <<0, 0, 0, 0, 0, 0, -1, -1, -2>>,
             <<0, 0, 0, 0, 0, 0, 2, 0>>, <<1, 0, 0, 0, 0, 0, 0, 1, -1, 1, 0>>, <<0, 0, 0, 0, 0, 0, 1, 2, 3>>}

-----------------------------------------------------------------------------
(* LoraReceiver: both modes and polarities, rates with and
   without correction, the shortest preamble and a longer one. *)

Frame(cr, crc, ldro, payload, preamble, wander, inverted) ==
  [cr |-> cr, crc |-> crc, ldro |-> ldro, payload |-> payload, preamble |-> preamble,
   sync |-> <<1, 2>>, wander |-> wander, inverted |-> inverted]
Damage(moved, by, cut, gap) == [moved |-> moved, by |-> by, cut |-> cut, gap |-> gap]

MCRvFrames ==
  {Frame(1, TRUE, FALSE, <<{1, 6}, {0, 2, 7}>>, 8, 0, FALSE),
   Frame(3, TRUE, TRUE, <<{3, 4}>>, 6, 24, FALSE),
   Frame(4, FALSE, FALSE, <<{0, 5}, {1}>>, 8, 0, FALSE),
   Frame(4, TRUE, FALSE, <<{2, 7}, {0}>>, 10, 0, TRUE)}

\* None, one symbol, all of the payload, the end, all but five symbols, the header.
MCRvDamages ==
  {Damage({}, 0, 0, 1), Damage({3}, 5, 0, 0), Damage({10}, 5, 0, 2), Damage(9..60, 13, 0, 0),
   Damage({}, 0, 3, 0), Damage({}, 0, 3, 2), Damage({}, 0, 17, 0), Damage(1..8, 13, 0, 1)}

MCRvSetups == {[limit |-> 2, drift |-> 0], [limit |-> 2, drift |-> -12], [limit |-> 1, drift |-> 8]}

-----------------------------------------------------------------------------
VARIABLE moves

MCInit ==
  /\ moves \in {"lane", "drops", "codec", "receiver"}
  /\ SlInit /\ Init /\ CdInit /\ RvInit
  /\ moves # "lane" => req = (CHOOSE r \in [job : Job, limit : Limits] : TRUE)
  /\ moves # "codec" => cdSent = (CHOOSE s \in CdSent : TRUE)
                        /\ cdDrift = (CHOOSE d \in CdDrifts : TRUE) /\ ~cdSkip
  /\ moves # "receiver" => rvDrift = 0

MCNext ==
  \/ moves = "lane" /\ SlNext /\ UNCHANGED <<moves, vars, cdVars, rvVars>>
  \/ moves = "drops" /\ Next /\ UNCHANGED <<moves, slVars, cdVars, rvVars>>
  \/ moves = "codec" /\ CdNext /\ UNCHANGED <<moves, slVars, vars, rvVars>>
  \/ moves = "receiver" /\ RvNext /\ UNCHANGED <<moves, slVars, vars, cdVars>>
  \* a capture is decoded once
  \/ (cdResult # Waiting \/ rvResult.done) /\ UNCHANGED <<moves, slVars, vars, cdVars, rvVars>>

\* What moves is scheduled.
MCSpec ==
  /\ MCInit /\ [][MCNext]_<<moves, slVars, vars, cdVars, rvVars>>
  /\ moves = "lane" => SlFairness
  /\ moves = "drops" => Fairness
=============================================================================
