---------------------------- MODULE MCController ----------------------------
(***************************************************************************)
(* What the controller does besides exchanges and pairings.  The machines  *)
(* of Controller run by the constants of the configuration, and some again *)
(* by constants of their own, so that the interesting cases are small:     *)
(*   reports      one device and a remote; a sound driver                  *)
(*   failing      two devices report; a driver that fails and loses TxDone *)
(*   extraction   two hubs contend for a session; a driver that fails: by   *)
(*                the constants of the configuration                       *)
(*   recovery     one hub, two sessions; a sound driver                    *)
(*   commanded    one hub, and two commands that want the radio meanwhile   *)
(*   gateway      three devices; a sound driver                            *)
(*   refused      the same; a driver that refuses transmissions            *)
(*   listening    every frame is heard and nothing breaks in               *)
(*   missing      frames are missed and pairings break in                  *)
(*   discovery    the SX1262 driver                                        *)
(*   discovery76  the SX1276 driver                                        *)
(*   scan         three commands whose codes are not their places          *)
(*   import       two hubs, a table for one device, and the console        *)
(*   importing    one hub, and a sniff that comes between                  *)
(* The parts share mState, the radio and the session of key extraction.    *)
(***************************************************************************)
EXTENDS Controller, TLC

\* The codes that are scanned for are not their places.
ScannedCodes == 0 :> 0 @@ 1 :> 1 @@ 2 :> 12

Failing == INSTANCE ReceiveAuth WITH
    Device <- {"d1", "d2"}, NoDevice <- "none", Linked <- {"d1"}, Frequencies <- 2,
    DutyFull <- {1}, RxTimeout <- 1, TxTimeout <- 0, MaxReports <- 2, MaxRemote <- 0,
    MaxPassive <- 0, RadioFails <- TRUE, TxDoneLost <- TRUE,
    challenge <- authChallenge, rx <- authRx

Recovered == INSTANCE KeyExtraction WITH
    Hub <- {"h1"}, Channels <- 1, MaxStarts <- 2, RadioFails <- FALSE, TxDoneLost <- FALSE
Commanded == INSTANCE KeyExtraction WITH
    Hub <- {"h1"}, MaxFrames <- 4, MaxCommands <- 2, TxDoneLost <- FALSE

Refused == INSTANCE Gateway WITH
    Device <- {"d1", "d2", "d3"}, NoDevice <- "none", MaxPaired <- 2, MaxFrames <- 6,
    MaxModes <- 1, RadioFails <- TRUE, rx <- gatewayRx,
    frames <- gatewayFrames

Missing == INSTANCE PassiveListen WITH
    Node <- {"n1", "n2"}, NoNode <- "none", MaxScanBuffer <- 1, MaxChallenges <- 2,
    MaxCalls <- 3, Lossy <- TRUE, Imports <- FALSE, Pairs <- TRUE,
    challenge <- nodeChallenge, result <- sniffed, armed <- extracting

Sweeps76 == INSTANCE Discovery WITH
    NumFrequencies <- 3, MaxSweeps <- 3, SX1262 <- FALSE, Automatic <- FALSE,
    RadioFails <- TRUE, Interrupts <- 1, MaxTriggers <- 1, phase <- sendPhase,
    index <- freqIndex

Importing == INSTANCE KeyImport WITH
    Hub <- {"h1"}, Device <- Candidate, MaxDevices <- 2, QueueSize <- 3, MaxPolls <- 0,
    MaxConsole <- 0, MaxSniffs <- 1,
    queue <- importQueue, phase <- importPhase

ASSUME Assumptions ==
    /\ ControllerAssumption /\ Failing!ReceiveAssumption
    /\ Recovered!ExtractionAssumption /\ Commanded!ExtractionAssumption
    /\ Refused!GatewayAssumption /\ Missing!PassiveListenAssumption
    /\ Sweeps76!DiscoveryAssumption
    /\ Importing!ImportAssumption /\ Importing!RecoveryAssumption

Special == {"failing", "recovery", "commanded", "refused", "missing", "discovery76", "importing"}

PartInit ==
    \/ ControllerInit
    \/ /\ part \in Special
       /\ Failing!Init /\ Refused!Init /\ Missing!Init /\ Sweeps76!Init /\ Scan!Init
       /\ IF part = "commanded" THEN Commanded!Init ELSE Recovered!Init
       /\ Importing!Init

PartNext ==
    \/ ControllerNext
    \/ /\ UNCHANGED part
       /\ \/ part = "failing" /\ Failing!Next /\ UNCHANGED ReportsRest
          \/ /\ \/ part = "recovery" /\ Recovered!Next
                \/ part = "commanded" /\ Commanded!Next
             /\ UNCHANGED ExtractionRest
          \/ part = "refused" /\ Refused!Next /\ UNCHANGED GatewayRest
          \/ part = "missing" /\ Missing!Next /\ UNCHANGED ListeningRest
          \/ part = "discovery76" /\ Sweeps76!Next /\ UNCHANGED DiscoveryRest
          \/ part = "importing" /\ Importing!Next /\ UNCHANGED ImportRest

-----------------------------------------------------------------------------
(* loop() runs again and again and time passes.  A transmission ends with a *)
(* TxDone interrupt where the driver is sound; a session of key extraction  *)
(* ends, by its timeout if not before, and so do commands, the discovery    *)
(* and a sniff.                                                             *)

reportVars == <<mState, radio, authVars>>
recoveryVars == <<mState, radio, sessionVars, extractionVars>>
sweepVars == <<mState, radio, discoveryVars>>
commandVars == <<mState, scanVars>>
workflowVars == <<mState, sessionVars, importVars>>

FairSpec ==
    /\ PartInit /\ [][PartNext]_controllerVars
    /\ WF_reportVars(part = "reports" /\ Reports!Handlers)
    /\ WF_reportVars(part = "reports" /\ Reports!TakeFrame)
    /\ WF_reportVars(part = "reports" /\ Reports!Tick)
    /\ WF_reportVars(part = "reports" /\ Reports!TxDone)
    /\ WF_recoveryVars(part = "recovery" /\ Recovered!Tick)
    /\ WF_recoveryVars(part = "recovery" /\ Recovered!ServiceKeyExtractReply)
    /\ WF_recoveryVars(part = "recovery" /\ Recovered!TakeFrame)
    /\ WF_recoveryVars(part = "recovery" /\ Recovered!RestartReceive)
    /\ WF_recoveryVars(part = "recovery" /\ Recovered!TxDone)
    /\ WF_sweepVars(part = "discovery" /\ Sweeps!Handler)
    /\ WF_sweepVars(part = "discovery" /\ Sweeps!PacketSent)
    /\ WF_sweepVars(part = "discovery" /\ Sweeps!Tick)
    /\ WF_sweepVars(part = "discovery76" /\ Sweeps76!Handler)
    /\ WF_sweepVars(part = "discovery76" /\ Sweeps76!PacketSent)
    /\ WF_sweepVars(part = "discovery76" /\ Sweeps76!Tick)
    /\ WF_commandVars(part = "scan" /\ Scan!Send)
    /\ WF_commandVars(part = "scan" /\ Scan!Sent)
    /\ WF_commandVars(part = "scan" /\ Scan!Expire)
    /\ WF_commandVars(part = "scan" /\ Scan!WindowOver)
    /\ WF_commandVars(part = "scan" /\ Scan!OtherEnds)
    /\ WF_workflowVars(part = "importing" /\ Importing!Returns)
    /\ WF_workflowVars(part = "importing" /\ Importing!ControllerLoop)
    /\ WF_workflowVars(part = "importing" /\ Importing!ProcessKeyImportWorkflow)
    /\ SF_workflowVars(part = "importing" /\ Importing!ControllerLoop /\ Importing!SessionEnds)
    /\ SF_workflowVars(part = "importing" /\ Importing!ControllerLoop /\ Importing!CommandEnds)
    /\ SF_workflowVars(part = "importing" /\ Importing!ControllerLoop
                       /\ Importing!DiscoveryGoesOn /\ mState' = "Idle")
    /\ SF_workflowVars(part = "importing" /\ Importing!ControllerLoop /\ Importing!Idles)
    /\ SF_workflowVars(part = "importing" /\ Importing!Calls /\ mState = "Passive"
                       /\ mState' = "Idle")

-----------------------------------------------------------------------------

\* Whatever the controller begins ends: challenges and acknowledgements, a session of key
\* extraction, a discovery with either driver, a command scan and an import.
EverythingEnds ==
    /\ part = "reports" => Reports!ReturnsToIdle
    /\ part = "recovery" => Recovered!SessionEnds
    /\ part = "discovery" => Sweeps!DiscoveryEnds
    /\ part = "discovery76" => Sweeps76!DiscoveryEnds
    /\ part = "scan" => Scan!ScanEnds
    /\ part = "importing" => Importing!ImportEnds
=============================================================================
