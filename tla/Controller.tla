------------------------------ MODULE Controller ------------------------------
(***************************************************************************)
(* What the controller does besides exchanges and pairings, side by side:  *)
(* key extraction, reports and their challenges, gateway mode, passive     *)
(* listening, discovery, the command scan, and the import that a session   *)
(* of key extraction is started for.  They share mState, the radio and its *)
(* failures, and each starts only when the controller is Idle, or listens  *)
(* for one of them: one runs at a time, "part" says which, and what does   *)
(* not run keeps still.                                                    *)
(***************************************************************************)
EXTENDS KeyExtraction

CONSTANTS
    Device, NoDevice, Linked, Frequencies, DutyFull, RxTimeout, TxTimeout, MaxReports, MaxRemote,
    MaxPassive,
    AnswersFail, AnswersLost,   \* whether the driver refuses, or loses the TxDone of, an answer
    Joiner, MaxPaired, MaxSent, MaxModes,
    Node, NoNode, MaxScanBuffer, MaxChallenges, MaxCalls, Lossy, Imports, Pairs,
    NumFrequencies, MaxSweeps, SX1262, Automatic, Interrupts, MaxTriggers,
    Code, Known, MaxScans,
    Candidate, Own, MaxDevices, QueueSize, MaxImports, MaxPolls, MaxConsole, MaxSniffs

VARIABLES
    part,
    passive, pending, authChallenge, ackDest, ackFreq, authRx, stateAge, applied, poll,
    reports, challenged, remotes, passives,
    gatewayMode, gatewayState, peer, memory, paired, transmitting, gatewayRx, sentKey,
    gatewayFrames, modes,
    mPassiveMode, networkScan, tracked, sniff, pairNode, nodeChallenge, sniffed, oneWay,
    oneWayStatus, shared, extracting, device, unheard, calls,
    sendPhase, freqIndex, sweep, alt, spe, packetSent, channel, listened, arriving, ko, koLast,
    asked, sent, complete, triggers, interrupts,
    scanIndex, bitmask, found, onAir, expired, stored, probed, scanAnswered, scans,
    turn, captured, importQueue, current, importPhase, importKey, importHub, devices,
    candidates, index, broadcastDone, awaiting, identity, sysKey, answered, imports, polls,
    consoles, sniffs

Reports == INSTANCE ReceiveAuth WITH
    RadioFails <- AnswersFail, TxDoneLost <- AnswersLost, challenge <- authChallenge,
    rx <- authRx
Serving == INSTANCE Gateway WITH
    Device <- Joiner, MaxFrames <- MaxSent, RadioFails <- AnswersFail, rx <- gatewayRx,
    frames <- gatewayFrames
Listening == INSTANCE PassiveListen WITH
    challenge <- nodeChallenge, result <- sniffed, armed <- extracting
Sweeps == INSTANCE Discovery WITH phase <- sendPhase, index <- freqIndex
Scan == INSTANCE CommandScan WITH answered <- scanAnswered
Import == INSTANCE KeyImport WITH
    Device <- Candidate, queue <- importQueue, phase <- importPhase

ControllerAssumption ==
    /\ ExtractionAssumption /\ Reports!ReceiveAssumption /\ Serving!GatewayAssumption
    /\ Listening!PassiveListenAssumption /\ Sweeps!DiscoveryAssumption
    /\ Scan!CommandScanAssumption /\ Import!ImportAssumption /\ Import!RecoveryAssumption

-----------------------------------------------------------------------------
(* Discovery and the command scan, of one controller *)

discoveryVars ==
    <<sendPhase, freqIndex, sweep, alt, spe, packetSent, channel, listened, arriving, ko,
      koLast, asked, sent, complete, triggers, interrupts>>
scanVars ==
    <<scanIndex, bitmask, found, onAir, expired, stored, probed, scanAnswered, scans>>

ScanningInit == Sweeps!Init /\ Scan!Init
ScanningNext ==
    \/ Sweeps!Next /\ UNCHANGED scanVars
    \/ Scan!Next /\ UNCHANGED <<radio, discoveryVars>>
ScanningSpec ==
    ScanningInit /\ [][ScanningNext]_<<mState, radio, discoveryVars, scanVars>>

-----------------------------------------------------------------------------
(* All of them: the machine that runs, and the others at rest *)

Machines == {"reports", "extraction", "gateway", "listening", "discovery", "scan", "import"}

sessionVars == <<armed, status, locked>>
authVars ==
    <<passive, pending, authChallenge, ackDest, ackFreq, authRx, stateAge, applied, poll, reports,
      challenged, remotes, passives>>
extractionVars ==
    <<session, stage, candidate, challenge, key, result, verifySeen, authDone, overall, grace,
      hold, reply, phase, rx, foreground, background, heard, frames, challenges>>
gatewayVars ==
    <<gatewayMode, gatewayState, peer, memory, paired, transmitting, gatewayRx, sentKey,
      gatewayFrames, modes>>
listenVars ==
    <<mPassiveMode, networkScan, tracked, sniff, pairNode, nodeChallenge, sniffed, oneWay,
      oneWayStatus, shared, extracting, device, unheard, calls>>
importVars ==
    <<turn, captured, importQueue, current, importPhase, importKey, importHub, devices,
      candidates, index, broadcastDone, awaiting, identity, sysKey, answered, imports, polls,
      consoles, sniffs>>
controllerVars ==
    <<part, mState, radio, sessionVars, authVars, extractionVars, gatewayVars, listenVars,
      discoveryVars, scanVars, importVars>>

\* What keeps still while one of them runs.
ReportsRest ==
    <<sessionVars, extractionVars, gatewayVars, listenVars, discoveryVars, scanVars, importVars>>
ExtractionRest ==
    <<authVars, gatewayVars, listenVars, discoveryVars, scanVars, importVars>>
GatewayRest ==
    <<radio, sessionVars, authVars, extractionVars, listenVars, discoveryVars, scanVars,
      importVars>>
ListeningRest ==
    <<radio, sessionVars, authVars, extractionVars, gatewayVars, discoveryVars, scanVars,
      importVars>>
DiscoveryRest ==
    <<sessionVars, authVars, extractionVars, gatewayVars, listenVars, scanVars, importVars>>
ScanRest ==
    <<radio, sessionVars, authVars, extractionVars, gatewayVars, listenVars, discoveryVars,
      importVars>>
ImportRest ==
    <<radio, authVars, extractionVars, gatewayVars, listenVars, discoveryVars, scanVars>>

ControllerInit ==
    /\ part \in Machines
    /\ Reports!Init /\ Init /\ Serving!Init /\ Listening!Init
    /\ Sweeps!Init /\ Scan!Init /\ Import!Init

ControllerNext ==
    /\ UNCHANGED part
    /\ \/ part = "reports" /\ Reports!Next /\ UNCHANGED ReportsRest
       \/ part = "extraction" /\ Next /\ UNCHANGED ExtractionRest
       \/ part = "gateway" /\ Serving!Next /\ UNCHANGED GatewayRest
       \/ part = "listening" /\ Listening!Next /\ UNCHANGED ListeningRest
       \/ part = "discovery" /\ Sweeps!Next /\ UNCHANGED DiscoveryRest
       \/ part = "scan" /\ Scan!Next /\ UNCHANGED ScanRest
       \/ part = "import" /\ Import!Next /\ UNCHANGED ImportRest

ControllerSpec == ControllerInit /\ [][ControllerNext]_controllerVars

-----------------------------------------------------------------------------
(* Properties *)

\* Every machine keeps its variables within their types: states, keys, channels and places
\* that the code knows, and queues, retries and deadlines that stay within their limits.
TypesOK ==
    /\ part = "reports" => Reports!TypeOK
    /\ part = "extraction" => TypeOK
    /\ part = "gateway" => Serving!TypeOK
    /\ part = "listening" => Listening!TypeOK
    /\ part = "discovery" => Sweeps!TypeOK
    /\ part = "scan" => Scan!TypeOK
    /\ part = "import" => Import!TypeOK

\* What says it is whole is whole: a discovery that ran to its end has asked on every
\* channel in every sweep, and the remote map is given only a scan of the whole list,
\* with as many answers counted as there are bits.
ScansWhole ==
    Sweeps!EveryChannelAsked /\ Scan!FoundCountsBits /\ Scan!StoredIsWholeScan

\* The reports of a device are applied in the order it made them: one put aside for its
\* challenge does not come back over a later one applied meanwhile.
AppliedInOrder == Reports!AppliedInOrder

\* An idle controller is ready: no way back from a challenge or an acknowledgement forgets
\* to start the receiver, and no order of starts, stops, captures and timeouts of the three
\* users of passive listening leaves it mute, or one that listens free to send.  Nor does
\* the timeout of one of them make a controller idle that a pairing has taken meanwhile.
IdleIsReady ==
    /\ [](part = "reports" /\ ~ AnswersFail => Reports!IdleListens)
    /\ [](part = "listening" => Listening!PassiveMeansListening)
    /\ [](mPassiveMode => mState = "PassiveListening")
    /\ Listening!TimeoutsLeaveOthersAlone

\* A session of key extraction keeps the promise of KeyRecovery, on which the import is
\* built: it binds itself to one hub until it ends and captures that hub's key alone; and no
\* poll takes the radio from its verification (docs/key-extraction-hardware-verification.md,
\* step 6).  The import takes over a new identity only as a whole, the node of a gateway with that
\* gateway's key, and not while a session still runs under the temporary identity.  A key that
\* is overheard was read under the challenge it was encrypted with, unless a later challenge
\* went unheard; and the gateway waits for the challenge of the device it gave its key to, and
\* lists no device it did not.
Keys == INSTANCE KeyRecovery WITH
    captured <- IF result.hub = NoHub THEN captured ELSE result.hub
KeyTakenOver ==
    /\ Keys!RecoverySpec /\ PollsWait /\ Import!AdoptsTheGateway
    /\ []Listening!CapturedKeyIsRight
    /\ []Serving!WaitsForWhomItServed
    /\ [](part = "gateway" /\ ~ AnswersFail => Serving!PairedWasSentKey)
===============================================================================
