------------------------------ MODULE MCPairing ------------------------------
(***************************************************************************)
(* The pairing of a 2W device and the enrollment of a 1W actuator, by the  *)
(* constants of the configuration: two devices, one of which may be the    *)
(* named peer and one answer unasked; and one gesture with a radio that    *)
(* fails.  They run again by constants of their own: one device and        *)
(* pairings that are cancelled, rejected or left; one device, every mode   *)
(* and no interruption; and two gestures in a row.                         *)
(***************************************************************************)
EXTENDS PairingAndEnrollment

Interrupted == INSTANCE Pairing WITH
    Node <- {"n1"}, NoNode <- "none", Modes <- {"Normal"}, SkipConfirm <- {TRUE},
    PairTimeout <- 0, ListenTime <- 0, ConfirmTimeout <- 0, ConfirmAttempts <- 1,
    KeyInitDelay <- 0, PullTimeout <- 0, StepTimeout <- 0, KeyAttempts <- 1,
    KeyTimeout <- 1, ConfigTimeout <- 0, MaxChallenges <- 2, MaxStrays <- 1,
    MaxStarts <- 2, RadioFails <- FALSE,
    Interruptions <- {"cancel", "reject", "status", "other"},
    mode <- pairMode, known <- knownPeer, stateAge <- pairStateAge, outcome <- pairOutcome,
    starts <- pairings
Alone == INSTANCE Pairing WITH
    Node <- {"n1"}, NoNode <- "none",
    Modes <- {"Normal", "DiscoveryConfirmation", "LaunchKeyTransfer", "PullKey"},
    SkipConfirm <- {FALSE}, PairTimeout <- 2, ListenTime <- 1, ConfirmTimeout <- 0,
    ConfirmAttempts <- 1, KeyInitDelay <- 1, PullTimeout <- 1, StepTimeout <- 0,
    KeyAttempts <- 2, KeyTimeout <- 4, ConfigTimeout <- 1, MaxChallenges <- 1,
    MaxStrays <- 0, MaxStarts <- 1, RadioFails <- FALSE, Interruptions <- {},
    mode <- pairMode, known <- knownPeer, stateAge <- pairStateAge, outcome <- pairOutcome,
    starts <- pairings
TwoGestures == INSTANCE Enrollment WITH
    Finalizers <- {TRUE}, MaxStarts <- 2, MaxBusy <- 0, RadioFails <- FALSE

ASSUME Assumptions ==
    /\ StartAssumption
    /\ Interrupted!BoundAssumption /\ Interrupted!NodeAssumption
    /\ Alone!BoundAssumption /\ Alone!NodeAssumption
    /\ TwoGestures!EnrollmentAssumption

PartInit ==
    \/ StartInit
    \/ /\ part \in {"interrupted", "alone", "two gestures"}
       /\ Alone!Init /\ Init
       /\ IF part = "two gestures" THEN keyed = {} ELSE ~ paired /\ ~ enrolled

PartNext ==
    \/ StartNext
    \/ /\ UNCHANGED part
       /\ \/ part = "interrupted" /\ Interrupted!Next /\ UNCHANGED vars
          \/ part = "alone" /\ Alone!Next /\ UNCHANGED vars
          \/ part = "two gestures" /\ TwoGestures!Next /\ UNCHANGED pairingVars

\* loop() runs again and again, the driver is not Busy for ever, and time passes.
FairSpec ==
    /\ PartInit /\ [][PartNext]_allVars
    /\ WF_pairingVars(part = "alone" /\ Alone!Handlers)
    /\ WF_pairingVars(part = "alone" /\ Alone!Receive)
    /\ WF_pairingVars(part = "alone" /\ Alone!Tick)
    /\ WF_vars(part = "enrollment" /\ Sends)
    /\ WF_vars(part = "enrollment" /\ Waits)
    /\ WF_vars(part = "enrollment" /\ Ends)
    /\ WF_vars(part = "enrollment" /\ Tick)

-----------------------------------------------------------------------------

\* A pairing and an enrollment end, whatever the devices do and the radio refuses.
BothConclude ==
    /\ part = "alone" => Alone!Concludes
    /\ part = "enrollment" => Concludes
=============================================================================
