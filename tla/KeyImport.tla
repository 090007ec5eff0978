------------------------------ MODULE KeyImport ------------------------------
(***************************************************************************)
(* The ETS key import of the module: a key-extraction session, then the    *)
(* recovered identity is adopted, then devices are looked for, first with  *)
(* an encrypted broadcast and then one by one among those overheard.       *)
(* The session is that of KeyRecovery.  A pass of the module's loop() is   *)
(* the controller's loop(), processKeyImportWorkflow, and then whatever    *)
(* the channels, the console and ETS call before the next pass: "turn".    *)
(***************************************************************************)
EXTENDS KeyRecovery, Naturals, Sequences, FiniteSets, SequencesExt

CONSTANTS
    Device,             \* devices of the hubs' networks
    Own,                \* the controller's identity before any import
    MaxDevices,         \* kMaxKeyImportDevices
    QueueSize,          \* kCmdQueueSize - 1
    MaxImports,         \* bound: imports started
    MaxPolls,           \* bound: status polls and user commands
    MaxConsole,         \* bound: console commands that start or stop a session
    MaxSniffs           \* bound: passive key sniffs

ImportAssumption ==
    /\ Hub \intersect Device = {} /\ {Own, NoHub} \intersect (Hub \union Device) = {}
    /\ IsFiniteSet(Device) /\ Own # NoHub
    /\ {MaxDevices, QueueSize, MaxImports, MaxPolls, MaxConsole, MaxSniffs} \subseteq Nat

VARIABLES
    turn,
    mState,             \* the controller: Idle, Command, Discovery or Passive
    queue, current,     \* mCmdQueue, mCurrentCmd: "Poll", "User" or a device
    phase,              \* mKeyImportPhase
    importKey,          \* mKeyImportKey: the node and whose key
    importHub,          \* mKeyImportHubNodeId
    devices,            \* mKeyImportDevices
    candidates, index,  \* mKeyImportCandidates, mKeyImportDirectedCandidateIndex
    broadcastDone,      \* mKeyImportBroadcastComplete
    awaiting,           \* mKeyImportDirectedAwaiting, mKeyImportDirectedNodeId
    identity, sysKey,   \* setOwnNodeId, setSystemKey
    answered,           \* external: devices that answered a directed discovery
    imports, polls, consoles, sniffs    \* counted for the bounds

controller == <<mState, queue, current>>
workflow   == <<phase, importKey, importHub, devices, candidates, index, broadcastDone, awaiting>>
adopted    == <<identity, sysKey>>
bounds     == <<imports, polls, consoles, sniffs>>
vars == <<turn, recovery, controller, workflow, adopted, answered, bounds>>

NoCommand == "None"
NoKey == [node |-> NoHub, key |-> NoHub]

\* resetKeyImportWorkflow, up to the phase
Forgotten ==
    /\ importKey' = NoKey /\ importHub' = NoHub
    /\ devices' = {} /\ candidates' = <<>> /\ index' = 1
    /\ broadcastDone' = FALSE /\ awaiting' = NoHub

Init ==
    /\ RecoveryInit
    /\ turn = "Calls" /\ mState = "Idle" /\ queue = <<>> /\ current = NoCommand
    /\ phase = "Idle" /\ importKey = NoKey /\ importHub = NoHub
    /\ devices = {} /\ candidates = <<>> /\ index = 1
    /\ broadcastDone = FALSE /\ awaiting = NoHub
    /\ identity = Own /\ sysKey = Own /\ answered = {}
    /\ imports = 0 /\ polls = 0 /\ consoles = 0 /\ sniffs = 0

-----------------------------------------------------------------------------
(* What the controller reports to the module *)

\* onPassiveKeyCaptured, for a key of hub "key" at "node"
KeyCaptured(node, key) ==
    IF phase = "Extracting"
    THEN /\ importKey' = [node |-> node, key |-> key]
         /\ importHub' = IF locked # NoHub THEN locked ELSE node
         /\ phase' = "Verifying"
         /\ UNCHANGED <<devices, candidates, index, broadcastDone, awaiting>>
    ELSE UNCHANGED workflow

\* addKeyImportDevice
Added(d) == IF Cardinality(devices) < MaxDevices THEN devices \union {d} ELSE devices

\* onKeyImportCandidateObserved
CandidateObserved(d) ==
    /\ phase \in {"Extracting", "Verifying"} /\ locked # NoHub
    /\ d \notin ToSet(candidates) /\ Len(candidates) < MaxDevices
    /\ candidates' = Append(candidates, d)
    /\ UNCHANGED <<phase, importKey, importHub, devices, index, broadcastDone, awaiting>>

\* onDiscoveryResponse, onAuthenticatedDirectedDiscovery
DeviceFound(d) ==
    /\ devices' = Added(d)
    /\ UNCHANGED <<phase, importKey, importHub, candidates, index, broadcastDone, awaiting>>

-----------------------------------------------------------------------------
(* The controller's loop() *)

\* processIdle pops a command: the first, or after a capture the first of the
\* user, until the session ends.
Taken == IF armed' /\ status = "Captured"
         THEN SelectInSeq(queue, LAMBDA c : c = "User")
         ELSE IF queue = <<>> THEN 0 ELSE 1

PopCommand ==
    IF Taken = 0 THEN UNCHANGED controller
    ELSE /\ mState' = "Command" /\ current' = queue[Taken]
         /\ queue' = RemoveAt(queue, Taken)

HubActs ==
    /\ armed /\ mState = "Idle"
    /\ \/ \E h \in Hub : Lock(h) /\ UNCHANGED workflow
       \/ Capture /\ KeyCaptured(locked, locked)
       \/ \E d \in Device : CandidateObserved(d) /\ UNCHANGED recovery
    /\ UNCHANGED <<controller, adopted, answered>>

\* The session times out or its verification window closes; processIdle comes
\* later in the same loop().
SessionEnds ==
    /\ armed
    /\ \/ Disarm(TRUE)
       \/ status = "Captured" /\ Disarm(FALSE)
    /\ IF mState = "Idle" THEN PopCommand ELSE UNCHANGED controller
    /\ UNCHANGED <<workflow, adopted, answered>>

Idles ==
    /\ mState = "Idle" /\ UNCHANGED recovery /\ PopCommand
    /\ UNCHANGED <<workflow, adopted, answered>>

\* The exchange of the command ends.  A device that answers its directed
\* discovery is reported if it is the one awaited.
CommandEnds ==
    /\ mState = "Command" /\ mState' = "Idle" /\ current' = NoCommand
    /\ \/ UNCHANGED <<workflow, answered>>
       \/ /\ current \in Device /\ phase = "Scanning"
          /\ answered' = answered \union {current}
          /\ IF awaiting = current THEN DeviceFound(current) ELSE UNCHANGED workflow
    /\ UNCHANGED <<queue, recovery, adopted>>

DiscoveryGoesOn ==
    /\ mState = "Discovery"
    /\ \/ \E d \in Device \ devices :
            (IF phase = "Scanning" THEN DeviceFound(d) ELSE UNCHANGED workflow) /\ UNCHANGED mState
       \/ mState' = "Idle" /\ UNCHANGED workflow
    /\ UNCHANGED <<queue, current, recovery, adopted, answered>>

\* A key captured passively: the node is the device that was being paired.
SniffCaptures ==
    /\ mState = "Passive"
    /\ \E d \in Device, h \in Hub : KeyCaptured(d, h)
    /\ mState' = "Idle"
    /\ UNCHANGED <<queue, current, recovery, adopted, answered>>

Waits ==
    /\ mState # "Idle"
    /\ UNCHANGED <<recovery, controller, workflow, adopted, answered>>

ControllerLoop ==
    /\ turn = "Loop" /\ turn' = "Workflow"
    /\ \/ HubActs \/ SessionEnds \/ Idles \/ CommandEnds
       \/ DiscoveryGoesOn \/ SniffCaptures \/ Waits
    /\ UNCHANGED bounds

-----------------------------------------------------------------------------
(* processKeyImportWorkflow *)

ExtractionTimesOut ==
    /\ phase = "Extracting" /\ status = "Timeout"
    /\ phase' = "Timeout"
    /\ UNCHANGED <<importKey, importHub, devices, candidates, index, broadcastDone, awaiting,
                   controller, adopted>>

Complete == importKey # NoKey /\ importHub # NoHub

\* Mutant: the controller's own identity is kept.
AdoptKeyOnly == sysKey' = importKey.key /\ UNCHANGED identity

Adopt == identity' = importHub /\ sysKey' = importKey.key

VerificationOver ==
    /\ phase = "Verifying" /\ ~ armed
    /\ IF Complete /\ mState = "Idle"
       THEN /\ Adopt
            /\ phase' = "Scanning" /\ mState' = "Discovery"
            /\ broadcastDone' = FALSE /\ index' = 1 /\ awaiting' = NoHub
            /\ UNCHANGED <<importKey, importHub, devices, candidates, queue, current>>
       ELSE /\ phase' = "Failed"
            /\ UNCHANGED <<importKey, importHub, devices, candidates, index, broadcastDone,
                           awaiting, controller, adopted>>

NextIndex == IF awaiting # NoHub /\ broadcastDone /\ index <= Len(candidates)
             THEN index + 1 ELSE index

\* The first candidate from index i on that has not been found yet.
Unknown(i) ==
    LET left == {j \in i..Len(candidates) : candidates[j] \notin devices}
    IN  IF left = {} THEN Len(candidates) + 1
        ELSE CHOOSE j \in left : \A k \in left : j <= k

\* One candidate at a time: the next is asked, skipped if the queue is full,
\* or there is none left.
ScanGoesOn ==
    /\ phase = "Scanning" /\ mState = "Idle"
    /\ broadcastDone' = TRUE
    /\ LET next == Unknown(NextIndex)
       IN  \/ /\ next <= Len(candidates) /\ Len(queue) < QueueSize
              /\ queue' = Append(queue, candidates[next])
              /\ awaiting' = candidates[next] /\ index' = next /\ UNCHANGED phase
           \/ /\ next <= Len(candidates) /\ Len(queue) >= QueueSize
              /\ awaiting' = NoHub /\ index' = next + 1 /\ UNCHANGED <<queue, phase>>
           \/ /\ next > Len(candidates)
              /\ awaiting' = NoHub /\ index' = next /\ phase' = "Complete" /\ UNCHANGED queue
    /\ UNCHANGED <<importKey, importHub, devices, candidates, mState, current, adopted>>

NothingDue ==
    /\ ~ (phase = "Extracting" /\ status = "Timeout")
    /\ ~ (phase = "Verifying" /\ ~ armed)
    /\ ~ (phase = "Scanning" /\ mState = "Idle")
    /\ UNCHANGED <<workflow, controller, adopted>>

ProcessKeyImportWorkflow ==
    /\ turn = "Workflow" /\ turn' = "Calls"
    /\ ExtractionTimesOut \/ VerificationOver \/ ScanGoesOn \/ NothingDue
    /\ UNCHANGED <<recovery, answered, bounds>>

-----------------------------------------------------------------------------
(* Calls from ETS, the console and the channels *)

\* Function 0x17; startKeyExtraction refuses unless Idle.
StartImport ==
    /\ imports < MaxImports /\ imports' = imports + 1
    /\ mState = "Idle"
    /\ Arm /\ Forgotten /\ phase' = "Extracting" /\ answered' = {}
    /\ UNCHANGED <<controller, adopted, polls, consoles, sniffs>>

\* Function 0x1B, once the results are assigned.
Persist ==
    /\ phase = "Complete"
    /\ Forgotten /\ phase' = "Idle" /\ answered' = {}
    /\ UNCHANGED <<recovery, controller, adopted, bounds>>

\* "extract start", "extract stop", "extract clear"
Console ==
    /\ consoles < MaxConsole /\ consoles' = consoles + 1
    /\ (mState = "Idle" /\ Arm) \/ Disarm(FALSE) \/ Clear
    /\ UNCHANGED <<controller, workflow, adopted, answered, imports, polls, sniffs>>

\* A status poll of a channel, or a command of the user.
SendCommand ==
    /\ polls < MaxPolls /\ polls' = polls + 1
    /\ Len(queue) < QueueSize
    /\ \E c \in {"Poll", "User"} : queue' = Append(queue, c)
    /\ UNCHANGED <<mState, current, recovery, workflow, adopted, answered, imports, consoles, sniffs>>

\* "sniff start", "sniff stop"
Sniff ==
    \/ /\ sniffs < MaxSniffs /\ sniffs' = sniffs + 1
       /\ mState = "Idle" /\ mState' = "Passive"
       /\ UNCHANGED <<queue, current, recovery, workflow, adopted, answered, imports, polls, consoles>>
    \/ /\ mState = "Passive" /\ mState' = "Idle"
       /\ UNCHANGED <<queue, current, recovery, workflow, adopted, answered, bounds>>

NoCall == turn' = "Loop" /\ UNCHANGED <<recovery, controller, workflow, adopted, answered, bounds>>

Calls ==
    /\ turn = "Calls"
    /\ \/ (StartImport \/ Persist \/ Console \/ SendCommand \/ Sniff) /\ UNCHANGED turn
       \/ NoCall

\* The pass of the module's loop() is over.
Returns == turn = "Calls" /\ NoCall

Next == ControllerLoop \/ ProcessKeyImportWorkflow \/ Calls

Spec == Init /\ [][Next]_vars

-----------------------------------------------------------------------------
(* Properties *)

Phases == {"Idle", "Extracting", "Verifying", "Scanning", "Complete", "Timeout", "Failed"}

TypeOK ==
    /\ turn \in {"Loop", "Workflow", "Calls"}
    /\ mState \in {"Idle", "Command", "Discovery", "Passive"}
    /\ queue \in Seq({"Poll", "User"} \union Device) /\ Len(queue) <= QueueSize
    /\ phase \in Phases /\ importHub \in Hub \union Device \union {NoHub}
    /\ devices \subseteq Device /\ Cardinality(devices) <= MaxDevices
    /\ candidates \in Seq(Device) /\ index \in 1..Len(candidates) + 1
    /\ awaiting \in Device \union {NoHub}

\* The controller takes over a new identity only as a whole, the node of a
\* gateway with that gateway's key, and not while a session still runs under
\* the temporary identity (docs/ets-configuration.md, 2W key extraction).  A
\* sniff that captures a key while the import waits for its own breaks this.
AdoptsTheGateway ==
    [][adopted' # adopted /\ sniffs = 0 => identity' \in Hub /\ sysKey' = identity' /\ ~ armed]_vars

\* "After the gateway node-verification window closes, it combines the
\* recovered gateway/system node ID with the extracted key and automatically
\* starts authenticated SPE discovery": an import that has its key goes on.
GoesOnAfterWindow == [][phase = "Verifying" => phase' # "Failed"]_vars

\* "ETS displays all discovered Node IDs": a device that proved, when asked,
\* to belong to the network is among the results.
ShowsAllDiscovered ==
    phase = "Complete" /\ Cardinality(devices) < MaxDevices => answered \subseteq devices

\* An import that was started comes to a result, however many devices answer.
ImportEnds == phase = "Extracting" ~> phase \in {"Complete", "Timeout", "Failed"}
=============================================================================
