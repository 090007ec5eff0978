---------------------------- MODULE CommandScan ----------------------------
(***************************************************************************)
(* The command scan: a device is sent each command of a list, one at a     *)
(* time, and the commands it answered are recorded by their place in the   *)
(* list and stored in the remote map.  loop() reads every packet before    *)
(* the scan does, so the scan itself hears an answer only when the packet  *)
(* comes between the two reads of one pass.                                *)
(***************************************************************************)
EXTENDS Naturals, FiniteSets

CONSTANTS
    Code,               \* the commands of IOHC_SCAN_COMMANDS, by their place
    Known,              \* whether the device has an entry in the remote map
    RadioFails,         \* whether the driver may report an error other than Busy
    MaxScans            \* bound: scans started

\* IOHC_SCAN_COMMANDS_COUNT; Code[i] is the code at place i (a function on Place)
Count == Cardinality(DOMAIN Code)
Place == 0 .. Count - 1

CommandScanAssumption ==
    /\ IsFiniteSet(DOMAIN Code) /\ DOMAIN Code = Place /\ Count > 0
    /\ \A i, j \in Place : Code[i] = Code[j] => i = j
    /\ {Known, RadioFails} \subseteq BOOLEAN /\ MaxScans \in Nat

VARIABLES
    mState,             \* Idle, ScanSending, ScanWaitResponse, or Other
    scanIndex,          \* mScanIndex
    bitmask, found,     \* mScanResult.bitmask, .responsesFound
    onAir,              \* the transmission of the command is not over
    expired,            \* millis() - mStateTimer > IOHC_RX_TIMEOUT_MS
    stored,             \* supportedCommands of the remote entry
    probed, answered,   \* places of this scan that were sent, and that the device answered
    scans               \* counted for the bound

vars == <<mState, scanIndex, bitmask, found, onAir, expired, stored, probed, answered, scans>>

Init ==
    /\ mState = "Idle" /\ scanIndex = 0 /\ bitmask = {} /\ found = 0
    /\ onAir = FALSE /\ expired = FALSE /\ stored = {}
    /\ probed = {} /\ answered = {} /\ scans = 0

Waiting == mState = "ScanWaitResponse" /\ ~onAir

\* recordCommandScanResponse
Record(i) ==
    /\ bitmask' = bitmask \cup {i}
    /\ found' = IF i \in bitmask THEN found ELSE found + 1

StartCommandScan ==
    /\ mState = "Idle" /\ scans < MaxScans /\ scans' = scans + 1
    /\ scanIndex' = 0 /\ bitmask' = {} /\ found' = 0
    /\ mState' = "ScanSending" /\ probed' = {} /\ answered' = {}
    /\ UNCHANGED <<onAir, expired, stored>>

Send ==
    /\ mState = "ScanSending" /\ scanIndex < Count
    /\ \/ /\ mState' = "ScanWaitResponse" /\ onAir' = TRUE /\ expired' = FALSE
          /\ probed' = probed \cup {scanIndex}
       \/ RadioFails /\ mState' = "Idle" /\ UNCHANGED <<onAir, expired, probed>>
    /\ UNCHANGED <<scanIndex, bitmask, found, stored, answered, scans>>

Sent ==
    /\ onAir /\ onAir' = FALSE
    /\ UNCHANGED <<mState, scanIndex, bitmask, found, expired, stored, probed, answered, scans>>

\* The device answers: loop() takes the packet, or the scan finds it first.
Answer(seen) ==
    /\ Waiting /\ scanIndex \notin answered
    /\ answered' = answered \cup {scanIndex}
    /\ IF seen THEN Record(scanIndex) ELSE UNCHANGED <<bitmask, found>>
    /\ UNCHANGED <<mState, scanIndex, onAir, expired, stored, probed, scans>>

Expire ==
    /\ mState = "ScanWaitResponse" /\ ~expired /\ expired' = TRUE
    /\ UNCHANGED <<mState, scanIndex, bitmask, found, onAir, stored, probed, answered, scans>>

\* setRemoteSupportedCommands, when the device is in the map
Store == IF Known THEN stored' = bitmask' ELSE UNCHANGED stored

Advance == scanIndex + 1

\* The window is over.  Without an answer in this very pass the command is recorded too.
WindowOver ==
    /\ Waiting /\ expired
    /\ Record(scanIndex)
    /\ scanIndex' = Advance
    /\ \/ Advance < Count /\ mState' = "ScanSending" /\ UNCHANGED stored
       \/ Advance >= Count /\ mState' = "Idle" /\ Store
    /\ UNCHANGED <<onAir, expired, probed, answered, scans>>

\* A status frame of a paired device, or a pairing, ends the scan where it is.
Interrupt ==
    /\ mState \in {"ScanSending", "ScanWaitResponse"} /\ ~onAir
    /\ mState' = "Other"
    /\ \/ UNCHANGED scanIndex
       \/ scanIndex' = 0
    /\ UNCHANGED <<bitmask, found, onAir, expired, stored, probed, answered, scans>>

OtherEnds ==
    /\ mState = "Other" /\ mState' = "Idle"
    /\ UNCHANGED <<scanIndex, bitmask, found, onAir, expired, stored, probed, answered, scans>>

Next ==
    \/ StartCommandScan \/ Send \/ Sent \/ Expire \/ WindowOver \/ Interrupt \/ OtherEnds
    \/ \E seen \in BOOLEAN : Answer(seen)

Spec == Init /\ [][Next]_vars

-----------------------------------------------------------------------------
(* Properties *)

\* remoteCommandSupported and commandSupported look a code up in the bits
Supported(code, bits) == code \in bits

TypeOK ==
    /\ mState \in {"Idle", "ScanSending", "ScanWaitResponse", "Other"}
    /\ scanIndex \in 0 .. Count /\ bitmask \subseteq Place /\ found \in 0 .. Count
    /\ {onAir, expired} \subseteq BOOLEAN /\ stored \subseteq Place
    /\ probed \subseteq Place /\ answered \subseteq probed

\* recordCommandScanResponse: the number of responses is the number of bits set, whichever of the two reads and
\* the timeout recorded a command.
FoundCountsBits == found = Cardinality(bitmask)

\* What the remote map is given is the result of a scan that ran through the whole list,
\* never that of one which was interrupted, refused or is in course.
StoredIsWholeScan == stored \in {{}, Place}

\* A scan ends: the list is gone through, or something takes the controller away.
ScanEnds == mState \in {"ScanSending", "ScanWaitResponse"} ~> mState = "Idle"

\* A command the result lists as answered was answered by the device.
FoundMeansAnswered == bitmask \subseteq answered

\* The stored bits say of a code that the device supports it when the code was probed.
SupportedIsByCode == \A i \in stored : \E p \in Place : Code[p] = i
=============================================================================
