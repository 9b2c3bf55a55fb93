----------------------------- MODULE BenchRadio -----------------------------
(***************************************************************************)
(* The two radio sides of the test bench (bench/bench_capture.cpp,         *)
(* bench/bench_tx.cpp): the GUI connects, disconnects and sets, a thread   *)
(* connects to the device and then receives chunk by chunk, or sends the   *)
(* test packet when asked to.  Both sides have the same start, stop and    *)
(* connect_sdr; a behaviour has one of them.                               *)
(*                                                                         *)
(* A gain is the number of the click that set it, 0 the default.  Samples, *)
(* the packets found in them, rates, frequencies and what is drawn are     *)
(* left out.                                                               *)
(***************************************************************************)
EXTENDS Naturals

CONSTANTS
  BrAttempts,  \* attempts of connect_sdr (6)
  BrMaxConnects, BrMaxClicks, BrMaxPeriods  \* bounds: clicks on Connect, other
               \* clicks, periods of the repetition

ASSUME BenchAssumption ==
  BrAttempts \in Nat \ {0} /\ {BrMaxConnects, BrMaxClicks, BrMaxPeriods} \subseteq Nat

VARIABLES
  brSide,      \* "rx": BenchCapture, "tx": BenchTx
  brGui,       \* "free", "join": in stop(), "rejoin": in the stop() of Reconnect
  brRunning, brStop,  \* running_, stop_flag_
  brThread,    \* thread_: "none"; where run() is; "ended": it is over, not joined
  brTries,     \* attempts that failed
  brDevice,    \* sdr_ or usrp_ holds the device
  brDown,      \* std::terminate was called
  brGain, brDirty,  \* gain_db_, gain_dirty_
  brRead,      \* what run() last read of them
  brRadio,     \* the gain of the device
  brRequested, \* send_requested_
  brDue,       \* a period of the repetition has passed
  brConnects, brClicks, brPeriods,  \* counted for the bounds
  brAsked,     \* history: the last click that asked for a packet
  brAnswered   \* history: the last click a packet was sent for

brThreads == <<brGui, brRunning, brStop, brThread, brTries, brDevice, brDown>>
brGains == <<brGain, brDirty, brRead, brRadio>>
brSending == <<brRequested, brDue, brAsked, brAnswered>>
brBounds == <<brConnects, brClicks, brPeriods>>
brVars == <<brSide, brThreads, brGains, brSending, brBounds>>

BrInit ==
  /\ brSide \in {"rx", "tx"}
  /\ brGui = "free" /\ brRunning = FALSE /\ brStop = FALSE /\ brThread = "none" /\ brTries = 0
  /\ brDevice = FALSE /\ brDown = FALSE
  /\ brGain = 0 /\ brDirty = FALSE /\ brRead = [gain |-> 0, dirty |-> FALSE] /\ brRadio = 0
  /\ brRequested = FALSE /\ brDue = FALSE /\ brAsked = 0 /\ brAnswered = 0
  /\ brConnects = 0 /\ brClicks = 0 /\ brPeriods = 0

-----------------------------------------------------------------------------
(* The GUI *)

BrGuiFree == brGui = "free" /\ ~brDown

\* The settings of Connect and start(): a thread that is over but was not joined
\* cannot be assigned to.
BrStart ==
  /\ brGain' = 0 /\ brDirty' = TRUE
  /\ brStop' = FALSE /\ brRunning' = TRUE /\ brTries' = 0
  /\ brDown' = (brThread = "ended")
  /\ brThread' = "read"

\* Connect, while running_ is not set.
BrConnect ==
  /\ BrGuiFree /\ ~brRunning /\ brConnects < BrMaxConnects
  /\ brConnects' = brConnects + 1
  /\ BrStart
  /\ UNCHANGED <<brSide, brGui, brDevice, brRead, brRadio, brSending, brClicks, brPeriods>>

\* Reconnect and Disconnect, while it is.
BrReconnect ==
  /\ BrGuiFree /\ brRunning /\ brConnects < BrMaxConnects
  /\ brConnects' = brConnects + 1
  /\ brGui' = "rejoin" /\ brStop' = TRUE
  /\ UNCHANGED <<brSide, brRunning, brThread, brTries, brDevice, brDown, brGains, brSending,
                 brClicks, brPeriods>>

BrDisconnect ==
  /\ BrGuiFree /\ brRunning
  /\ brGui' = "join" /\ brStop' = TRUE
  /\ UNCHANGED <<brSide, brRunning, brThread, brTries, brDevice, brDown, brGains, brSending, brBounds>>

\* stop() has joined; after a Reconnect start() follows, on no thread.
BrJoined ==
  /\ brGui = "join" /\ brThread = "ended"
  /\ brGui' = "free" /\ brThread' = "none" /\ brRunning' = FALSE
  /\ UNCHANGED <<brSide, brStop, brTries, brDevice, brDown, brGains, brSending, brBounds>>

BrRejoined ==
  /\ brGui = "rejoin" /\ brThread = "ended"
  /\ brGui' = "free" /\ brThread' = "read" /\ brRunning' = TRUE /\ brStop' = FALSE /\ brTries' = 0
  /\ brGain' = 0 /\ brDirty' = TRUE
  /\ UNCHANGED <<brSide, brDevice, brDown, brRead, brRadio, brSending, brBounds>>

\* The slider of the gain; the sender reads the gain for every packet.
BrSetGain ==
  /\ brSide = "rx" /\ BrGuiFree /\ brClicks < BrMaxClicks
  /\ brClicks' = brClicks + 1
  /\ brGain' = brClicks' /\ brDirty' = TRUE
  /\ UNCHANGED <<brSide, brThreads, brRead, brRadio, brSending, brConnects, brPeriods>>

\* "Transmit once", which is enabled while running_ is set.
BrSendOnce ==
  /\ brSide = "tx" /\ BrGuiFree /\ brRunning /\ brClicks < BrMaxClicks
  /\ brClicks' = brClicks + 1
  /\ brRequested' = TRUE
  /\ brAsked' = brClicks'
  /\ UNCHANGED <<brSide, brThreads, brGains, brDue, brAnswered, brConnects, brPeriods>>

\* Time: a period of the repetition is over.
BrPeriod ==
  /\ brSide = "tx" /\ ~brDown /\ brThread \in {"top", "work"} /\ brPeriods < BrMaxPeriods
  /\ brPeriods' = brPeriods + 1 /\ brDue' = TRUE
  /\ UNCHANGED <<brSide, brThreads, brGains, brRequested, brAsked, brAnswered, brConnects, brClicks>>

-----------------------------------------------------------------------------
(* run() *)

BrAt(where) == brThread = where /\ ~brDown

\* Defect: a request of before is dropped, and one made since Connect with it.
BrReadConfigAfresh ==
  /\ BrAt("read") /\ brThread' = "connect"
  /\ brRead' = [gain |-> brGain, dirty |-> FALSE] /\ brDirty' = FALSE /\ brRequested' = FALSE
  /\ UNCHANGED <<brSide, brGui, brRunning, brStop, brTries, brDevice, brDown, brGain, brRadio,
                 brDue, brAsked, brAnswered, brBounds>>

\* The head of run(): what it reads before it connects.
BrReadConfig ==
  /\ BrAt("read") /\ brThread' = "connect"
  /\ brRead' = [gain |-> brGain, dirty |-> FALSE] /\ brDirty' = FALSE
  /\ UNCHANGED <<brSide, brGui, brRunning, brStop, brTries, brDevice, brDown, brGain, brRadio,
                 brSending, brBounds>>

\* connect_sdr, an attempt that succeeds.
BrAttempt == BrAt("connect") /\ brTries < BrAttempts /\ ~brStop

\* Defect: what changed while the device was opened is taken as applied.
BrConnectedClean ==
  /\ BrAttempt
  /\ brThread' = "top" /\ brDevice' = TRUE /\ brRadio' = brRead.gain
  /\ brDirty' = FALSE
  /\ UNCHANGED <<brSide, brGui, brRunning, brStop, brTries, brDown, brGain, brRead, brSending, brBounds>>

BrConnected ==
  /\ BrAttempt
  /\ brThread' = "top" /\ brDevice' = TRUE /\ brRadio' = brRead.gain
  /\ UNCHANGED <<brSide, brGui, brRunning, brStop, brTries, brDown, brGain, brDirty, brRead,
                 brSending, brBounds>>

\* An attempt that fails: the sender may have the device and fail at its antenna.
BrAttemptFails ==
  /\ BrAttempt
  /\ brTries' = brTries + 1
  /\ brDevice' \in {FALSE, brSide = "tx"}
  /\ UNCHANGED <<brSide, brGui, brRunning, brStop, brThread, brDown, brGains, brSending, brBounds>>

\* The attempts are over: without a failure, because stop() came first, that is
\* a success, though without a device, and the loop is left at once.
BrAttemptsOver ==
  /\ BrAt("connect") /\ (brTries = BrAttempts \/ brStop)
  /\ IF brTries = 0
     THEN brThread' = "top" /\ UNCHANGED brRunning
     ELSE brThread' = "ended" /\ brRunning' = FALSE
  /\ UNCHANGED <<brSide, brGui, brStop, brTries, brDevice, brDown, brGains, brSending, brBounds>>

\* The receiver's loop: read the settings, apply a gain that was set, capture.
BrTopReceive ==
  /\ brSide = "rx" /\ BrAt("top") /\ ~brStop
  /\ brThread' = "apply"
  /\ brRead' = [gain |-> brGain, dirty |-> brDirty] /\ brDirty' = FALSE
  /\ UNCHANGED <<brSide, brGui, brRunning, brStop, brTries, brDevice, brDown, brGain, brRadio,
                 brSending, brBounds>>

BrApply ==
  /\ BrAt("apply") /\ brThread' = "work"
  /\ brRadio' = IF brRead.dirty THEN brRead.gain ELSE brRadio
  /\ UNCHANGED <<brSide, brGui, brRunning, brStop, brTries, brDevice, brDown, brGain, brDirty, brRead,
                 brSending, brBounds>>

\* The sender's loop: a click and a period that are due together are one packet.
BrTopSend ==
  /\ brSide = "tx" /\ BrAt("top") /\ ~brStop
  /\ brThread' = IF brRequested \/ brDue THEN "work" ELSE "top"
  /\ brRequested' = FALSE /\ brDue' = FALSE
  /\ brAnswered' = IF brRequested THEN brAsked ELSE brAnswered
  /\ UNCHANGED <<brSide, brGui, brRunning, brStop, brTries, brDevice, brDown, brGains, brAsked, brBounds>>

BrWorked ==
  /\ BrAt("work") /\ brThread' = "top"
  /\ UNCHANGED <<brSide, brGui, brRunning, brStop, brTries, brDevice, brDown, brGains, brSending, brBounds>>

\* The loop is left: the device is released, then running_ cleared.
BrLeave ==
  /\ BrAt("top") /\ brStop
  /\ brThread' = "ended" /\ brDevice' = FALSE /\ brRunning' = FALSE
  /\ UNCHANGED <<brSide, brGui, brStop, brTries, brDown, brGains, brSending, brBounds>>

-----------------------------------------------------------------------------

BrThreadStep ==
  \/ BrReadConfig \/ BrConnected \/ BrAttemptFails \/ BrAttemptsOver
  \/ BrTopReceive \/ BrApply \/ BrTopSend \/ BrWorked \/ BrLeave

BrNext ==
  \/ BrConnect \/ BrReconnect \/ BrDisconnect \/ BrJoined \/ BrRejoined
  \/ BrSetGain \/ BrSendOnce \/ BrPeriod
  \/ BrThreadStep

\* The thread runs: connecting, captures and sends have time limits; joins return.
BrFairness == WF_brVars(BrThreadStep) /\ WF_brVars(BrJoined \/ BrRejoined)

BrSpec == BrInit /\ [][BrNext]_brVars /\ BrFairness

-----------------------------------------------------------------------------
(* Properties *)

\* A capture begins with the gain that stood when its round began: no gain the
\* operator set is lost, whether set before, during or after the connection
\* (bench_capture.cpp, set_gain and run).
BrGainTrue ==
  [][brSide = "rx" /\ brThread' = "work" => brRadio' = brRead'.gain]_brVars

\* A click on "Transmit once" has its packet, unless the operator disconnects or
\* the connection fails.
BrAnswers ==
  brAsked > brAnswered ~> brAsked = brAnswered \/ ~brRunning \/ brDown

\* Disconnect and Reconnect return.
BrStops == brGui # "free" ~> brGui = "free"

\* The bench goes on: a packet asked for is sent, and the GUI's calls return.
BrServes == BrAnswers /\ BrStops

\* "Connects on the given RX channel ... and spawns the capture thread. No-op if
\* already running" (src/src/bench/bench_capture.hpp:126-129): Connect does not end
\* the program.
BrStaysUp == ~brDown
=============================================================================
