------------------------------- MODULE MCWifi -------------------------------
(* What the program concludes and keeps of Wi-Fi devices, for TLC: the incidents,
   the replay rules, the RF-identity rule and the enrolment writer share nothing,
   so one of them moves and the others stay as they began. *)
EXTENDS IncidentStore, WifiReplay, RfIdentity, WifiEnrolment

-----------------------------------------------------------------------------
(* IncidentStore: two things on one channel, one seen
   under a receiver profile of its own, one under any. *)

CONSTANTS low, high, any

MCThing == {[what |-> "flood", profile |-> low], [what |-> "replay", profile |-> any]}
MCCapture == {low, high}
MCCovers(c, t) == t.profile \in {c, any}

-----------------------------------------------------------------------------
(* WifiReplay: what the network under observation sends,
   one rule's traffic at a time; sequence numbers that wrap, and the farthest step
   forward a client may make. *)

B(t) == BeaconFrame(t, 0)
Auth(c) == Attempt("authentication", c, FALSE)

MCTraffic == {
  { <<>>, <<B(2)>>, <<BeaconFrame(1, 1)>>, <<B(1), B(2)>>, <<B(2), B(1)>> },
  { <<>>, <<Auth(4094), Answer("authentication")>>, <<Auth(1), Answer("authentication")>>,
    <<Auth(2048), Answer("authentication")>> },
  { <<>>, <<Auth(4095), Answer("authentication")>>, <<Auth(0), Answer("authentication")>>,
    <<Attempt("authentication", 4095, TRUE)>>, <<Deauthentication>>,
    <<Attempt("association", 1, FALSE)>> },
  { <<>>, <<Handshake(1, 1, 1), Handshake(2, 1, 1)>>, <<Handshake(3, 2, 1), Handshake(4, 2, 1)>>,
    <<Handshake(1, 1, 2), Handshake(2, 1, 2)>>,
    <<Handshake(1, 2, 1), Handshake(2, 2, 1)>>, <<Deauthentication>> } }

-----------------------------------------------------------------------------
(* RfIdentity: an access point that jitters, with frames of
   both lengths and a disconnect that does not name it; a client whose carrier
   steps; an access point that steps once; forged disconnects; a clone. *)

MCFrame(from, disconnect, client, bssid, class, ppm) ==
  [from |-> from, disconnect |-> disconnect, client |-> client, bssid |-> bssid, class |-> class, ppm |-> ppm]
MCScene(frames, step, steady) == [frames |-> frames, step |-> step, steady |-> steady]

MCAp(class, ppm) == MCFrame("owner", FALSE, FALSE, "own", class, ppm)
MCClient(disconnect, ppm) == MCFrame("owner", disconnect, ~disconnect, "other", "short", ppm)
MCClone(class) == MCFrame("clone", FALSE, FALSE, "own", class, 200)

MCScenes ==
  {MCScene({MCAp("short", 0), MCAp("long", 14), MCFrame("owner", TRUE, FALSE, "none", "short", 2)}, 0, TRUE),
   MCScene({MCClient(FALSE, 0), MCClient(FALSE, 100), MCClient(TRUE, 100)}, 0, FALSE),
   MCScene({MCAp("short", 0), MCAp("long", 12)}, 200, FALSE),
   MCScene({MCAp("short", 0), MCAp("long", 12), MCFrame("forger", TRUE, FALSE, "own", "short", 200)}, 0, TRUE),
   MCScene({MCAp("short", 0), MCClone("short"), MCClone("long")}, 0, TRUE)}

-----------------------------------------------------------------------------
VARIABLE moves

MCInit ==
  /\ moves \in {"incidents", "replay", "rfidentity", "enrolment"}
  /\ Init /\ WrInit /\ RiInit /\ WeInit
  /\ moves = "replay" \/ wrTraffic = CHOOSE t \in WrTraffic : TRUE
  /\ moves = "rfidentity" \/ riScene = CHOOSE s \in RiScenes : TRUE

MCNext ==
  \/ moves = "incidents" /\ Next /\ UNCHANGED <<moves, wrVars, riVars, weVars>>
  \/ moves = "replay" /\ WrNext /\ UNCHANGED <<moves, vars, riVars, weVars>>
  \/ moves = "rfidentity" /\ RiNext /\ UNCHANGED <<moves, vars, wrVars, weVars>>
  \/ moves = "enrolment" /\ WeNext /\ UNCHANGED <<moves, vars, wrVars, riVars>>

MCSpec == MCInit /\ [][MCNext]_<<moves, vars, wrVars, riVars, weVars>>
=============================================================================
