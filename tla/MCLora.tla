------------------------------- MODULE MCLora -------------------------------
(* The LoRa side and the short-range monitor, for TLC: the rules, the security
   monitor around them, the emitter list, the session, the channel plan, the
   emitter registry and the short-range monitor share nothing here, so one of
   them moves and the others stay as they began. *)
EXTENDS MCLoraRules, LoraMaster, LoraSecurity, LoraSession, LoraPlan, MCRegistry, ShortRange

-----------------------------------------------------------------------------
(* LoraSession.  A row: transmission, device, start, CRC
   valid, inverted polarity, strength, fingerprinted. *)

Row(p, d, t, valid) == SsRow(p, d, t, valid, FALSE, 2, FALSE)
Fitted(r) == [r EXCEPT !.fitted = TRUE]
Turned(r) == [r EXCEPT !.inverted = ~@]
Weak(r) == [r EXCEPT !.strength = 1]

MCAir == {
  \* two devices, one of them decoded twice
  << <<Fitted(Row(1, 1, 0, TRUE)), Row(2, 2, 8, TRUE), Row(2, 2, 9, TRUE)>>, <<>> >>,
  \* a retransmission, each part in both polarities
  << <<Row(1, 1, 0, TRUE), Turned(Row(1, 1, 1, TRUE)), Row(2, 1, 8, TRUE), Turned(Row(2, 1, 7, TRUE))>>, <<>> >>,
  \* a transmission and its image, committed before it, after it, or failing its CRC
  << <<Turned(Weak(Row(1, 1, 0, TRUE)))>>, <<Fitted(Row(1, 1, 0, TRUE))>> >>,
  << <<Fitted(Row(1, 3, 0, TRUE))>>, <<Turned(Weak(Row(1, 3, 0, TRUE)))>> >>,
  << <<Row(1, 2, 0, TRUE)>>, <<Turned(Row(1, 2, 0, FALSE)), Row(2, 1, 2, FALSE)>> >>,
  \* both overlapping, two of three failing
  << <<Fitted(Row(1, 1, 0, TRUE)), Fitted(Row(2, 3, 0, TRUE)), Row(3, 2, 1, FALSE)>>,
     <<Row(4, 2, 0, FALSE)>> >> }

-----------------------------------------------------------------------------
(* LoraPlan: up to four channels, some too close to tell
   apart, some too far for one capture; three rates; with a range to cover. *)

MCInputs == {s \in SUBSET {10, 11, 12, 16, 21, 24, 30, 38, 50} : Cardinality(s) \in 1..4}
MCSpans == <<6, 9, 14>>
MCCovers == {<<0, 0>>, <<14, 24>>}

-----------------------------------------------------------------------------
VARIABLE moves

others == <<vars, lsVars, masterVars, ssVars, lpVars, rgVars, srVars>>

MCInit ==
  /\ moves \in {"rules", "monitor", "list", "session", "plan", "registry", "shortrange"}
  /\ Init /\ LsInit /\ MasterInit /\ SsInit /\ LpInit /\ RgInit /\ SrInit
  \* a plan that is not made is of no interest
  /\ moves # "plan" => lpEntered = {10} /\ ~lpOptions.wideband
                       /\ lpOptions.spans = <<>> /\ lpOptions.cover = <<0, 0>>
  \* nor are bounds for the rules that do not move
  /\ moves # "rules" => left = CHOOSE b \in Budgets : TRUE

MCNext ==
  \/ moves = "rules" /\ Next /\ UNCHANGED <<moves, lsVars, masterVars, ssVars, lpVars, rgVars, srVars>>
  \/ moves = "monitor" /\ LsNext /\ UNCHANGED <<moves, vars, masterVars, ssVars, lpVars, rgVars, srVars>>
  \/ moves = "list" /\ MasterNext /\ UNCHANGED <<moves, vars, lsVars, ssVars, lpVars, rgVars, srVars>>
  \/ moves = "session" /\ SsNext /\ UNCHANGED <<moves, vars, lsVars, masterVars, lpVars, rgVars, srVars>>
  \/ moves = "plan" /\ LpPlan /\ UNCHANGED <<moves, vars, lsVars, masterVars, ssVars, rgVars, srVars>>
  \/ moves = "registry" /\ RgUpdateCycle
       /\ UNCHANGED <<moves, vars, lsVars, masterVars, ssVars, lpVars, srVars>>
  \/ moves = "shortrange" /\ SrNext
       /\ UNCHANGED <<moves, vars, lsVars, masterVars, ssVars, lpVars, rgVars>>

MCSpec == MCInit /\ [][MCNext]_<<moves, others>>
=============================================================================
