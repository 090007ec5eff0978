------------------------------ MODULE Gateway ------------------------------
(***************************************************************************)
(* Gateway mode: while Idle the controller answers devices as a gateway    *)
(* would, gives them its key and lists those that challenged it.  A        *)
(* session belongs to one device until a discovery, of any device, starts  *)
(* it over; it has no timeout.  Frames are answered whoever they are for.  *)
(*                                                                         *)
(* A transmission that is refused leaves what the handler did before it.   *)
(***************************************************************************)
EXTENDS Naturals, Sequences, SequencesExt

CONSTANTS
    Device, NoDevice,
    MaxPaired,          \* kMaxGatewayPairedDevices
    MaxFrames,          \* bound: frames of the devices
    MaxModes,           \* bound: "gateway on", "gateway off", "gateway clear"
    RadioFails          \* whether the driver may refuse a transmission

GatewayAssumption ==
    /\ NoDevice \notin Device /\ {MaxPaired, MaxFrames, MaxModes} \subseteq Nat
    /\ RadioFails \in BOOLEAN

VARIABLES
    mState,             \* Idle, or Busy with an exchange of its own
    gatewayMode,        \* mGatewayMode
    gatewayState,       \* mGatewayState
    peer,               \* mGatewayPeerNodeId
    memory,             \* mGatewayMemData: the device whose challenge encrypted the key
    paired,             \* mGatewayPairedNodeIds
    transmitting,       \* mRadio.state() is Transmitting
    rx,                 \* the packet isPacketAvailable finds
    sentKey,            \* devices the key was ever transmitted to
    frames, modes       \* counted for the bounds

session == <<gatewayState, peer, memory>>
bounds  == <<frames, modes>>
vars == <<mState, gatewayMode, session, paired, transmitting, rx, sentKey, bounds>>

Frame(cmd, src) == [cmd |-> cmd, src |-> src]
NoFrame == Frame("None", NoDevice)

Init ==
    /\ mState = "Idle" /\ gatewayMode = FALSE
    /\ gatewayState = "GatewayIdle" /\ peer = NoDevice /\ memory = NoDevice
    /\ paired = <<>> /\ transmitting = FALSE /\ rx = NoFrame
    /\ sentKey = {} /\ frames = 0 /\ modes = 0

\* resetGatewaySessionState
Reset == gatewayState' = "GatewayIdle" /\ peer' = NoDevice /\ memory' = NoDevice

\* startShortPreambleTransmit: whether the answer goes out.
Answers == transmitting' = TRUE
Refused == RadioFails /\ UNCHANGED transmitting

-----------------------------------------------------------------------------
(* Handlers of one frame *)

\* processGatewayIdle, DiscoverRequest
Discover(state, mem) ==
    /\ peer' = rx.src /\ memory' = mem
    /\ \/ Answers /\ gatewayState' = "GatewayWaitDiscoveryResponse"
       \/ Refused /\ gatewayState' = state
    /\ UNCHANGED <<paired, sentKey>>

Confirm ==
    /\ rx.cmd = "Confirmation"
    /\ peer' = rx.src
    /\ \/ Answers /\ gatewayState' = "GatewayWaitKeyTransfer"
       \/ Refused /\ UNCHANGED gatewayState
    /\ UNCHANGED <<memory, paired, sentKey>>

\* processGatewayWaitKeyTransfer: the memory is set before the key goes out.
Launch ==
    /\ rx.cmd = "LaunchKeyTransfer"
    /\ peer' = rx.src /\ memory' = rx.src
    /\ \/ /\ Answers /\ gatewayState' = "GatewayWaitChallenge"
          /\ sentKey' = sentKey \union {rx.src}
       \/ Refused /\ UNCHANGED <<gatewayState, sentKey>>
    /\ UNCHANGED paired

Listed(d) ==
    IF d \in ToSet(paired) \/ Len(paired) >= MaxPaired THEN paired ELSE Append(paired, d)

\* processGatewayWaitChallenge
AnswerChallenge ==
    /\ rx.cmd = "ChallengeRequest"
    /\ \/ Answers /\ paired' = Listed(rx.src) /\ Reset
       \/ Refused /\ peer' = rx.src /\ UNCHANGED <<gatewayState, memory, paired>>
    /\ UNCHANGED sentKey

Dispatched == UNCHANGED <<session, paired, transmitting, sentKey>>

\* Names and general info are answered in every state.
Info ==
    /\ rx.cmd = "GetName"
    /\ Answers \/ Refused
    /\ UNCHANGED <<session, paired, sentKey>>

Remembers == memory # NoDevice

\* What is expected besides a discovery, in each state.
Expected ==
    CASE gatewayState = "GatewayIdle" ->
           \/ rx.cmd \in {"Confirmation", "LaunchKeyTransfer"}
           \/ rx.cmd = "ChallengeRequest" /\ Remembers
      [] gatewayState = "GatewayWaitDiscoveryResponse" ->
           \/ rx.cmd \in {"Confirmation", "LaunchKeyTransfer"}
           \/ rx.cmd = "ChallengeRequest" /\ Remembers
      [] gatewayState = "GatewayWaitKeyTransfer" -> rx.cmd = "LaunchKeyTransfer"
      [] OTHER -> rx.cmd = "ChallengeRequest"

\* precheckGatewayStateFrame; an idle gateway takes any device as its peer.
FromPeer == gatewayState = "GatewayIdle" \/ peer \in {NoDevice, rx.src}

\* precheckGatewayStateFrame: a discovery forgets the session, but for the
\* memory while the first answer is awaited.
DiscoverAnew ==
    /\ rx.cmd = "DiscoverRequest"
    /\ Discover("GatewayIdle",
                IF gatewayState \in {"GatewayIdle", "GatewayWaitDiscoveryResponse"}
                THEN memory ELSE NoDevice)

GatewayFrame ==
    \/ Info
    \/ DiscoverAnew
    \/ FromPeer /\ Expected /\ (Confirm \/ Launch \/ AnswerChallenge)
    \/ rx.cmd \notin {"GetName", "DiscoverRequest"} /\ ~ (FromPeer /\ Expected) /\ Dispatched

\* loop(); another machine's frames do not come here.
TakeFrame ==
    /\ rx # NoFrame /\ rx' = NoFrame
    /\ IF gatewayMode /\ mState = "Idle" THEN GatewayFrame ELSE Dispatched
    /\ UNCHANGED <<mState, gatewayMode, bounds>>

-----------------------------------------------------------------------------
(* Devices, the console, other exchanges *)

DeviceSends ==
    /\ frames < MaxFrames /\ frames' = frames + 1
    /\ rx = NoFrame /\ ~ transmitting
    /\ \E d \in Device, cmd \in {"DiscoverRequest", "Confirmation", "LaunchKeyTransfer",
                                 "ChallengeRequest", "GetName"} : rx' = Frame(cmd, d)
    /\ UNCHANGED <<mState, gatewayMode, session, paired, transmitting, sentKey, modes>>

TxDone ==
    /\ transmitting /\ transmitting' = FALSE
    /\ UNCHANGED <<mState, gatewayMode, session, paired, rx, sentKey, bounds>>

SetGatewayMode ==
    /\ modes < MaxModes /\ modes' = modes + 1
    /\ gatewayMode' \in BOOLEAN /\ Reset
    /\ UNCHANGED <<mState, paired, transmitting, rx, sentKey, frames>>

ClearGatewayPairedDevices ==
    /\ modes < MaxModes /\ modes' = modes + 1
    /\ paired' = <<>> /\ Reset
    /\ UNCHANGED <<mState, gatewayMode, transmitting, rx, sentKey, frames>>

\* A command of the controller's own waits for the answer to be out.
OwnExchange ==
    /\ mState = "Idle" => ~ transmitting
    /\ mState' = IF mState = "Idle" THEN "Busy" ELSE "Idle"
    /\ UNCHANGED <<gatewayMode, session, paired, transmitting, rx, sentKey, bounds>>

Next ==
    \/ TakeFrame \/ DeviceSends \/ TxDone
    \/ SetGatewayMode \/ ClearGatewayPairedDevices \/ OwnExchange

Spec == Init /\ [][Next]_vars

-----------------------------------------------------------------------------
(* Properties *)

TypeOK ==
    /\ mState \in {"Idle", "Busy"} /\ {gatewayMode, transmitting} \subseteq BOOLEAN
    /\ gatewayState \in {"GatewayIdle", "GatewayWaitDiscoveryResponse",
                         "GatewayWaitKeyTransfer", "GatewayWaitChallenge"}
    /\ {peer, memory} \subseteq Device \union {NoDevice} /\ sentKey \subseteq Device
    /\ paired \in Seq(Device) /\ Len(paired) <= MaxPaired /\ IsInjective(paired)

\* With a driver that refuses nothing, a device is listed as paired only after
\* the key went out to it, though its frames may belong to other exchanges and
\* other devices may break into its session.
PairedWasSentKey == ToSet(paired) \subseteq sentKey

\* Whatever is refused, the answer to a challenge is about the key encrypted
\* for the device that is answered, once the session waits for that challenge.
WaitsForWhomItServed == gatewayState = "GatewayWaitChallenge" => memory = peer /\ memory \in sentKey
=============================================================================
