------------------------------- MODULE Pairing -------------------------------
(***************************************************************************)
(* 2W pairing by IoHomeController: discovery, confirmation, the key        *)
(* exchange with its retries, the optional configuration and the telemetry *)
(* that tells how the pairing ended.  Each processPair... handler and each *)
(* branch of loop() that takes a frame of the pairing is an action.  The   *)
(* devices are actors that follow the protocol over a medium that loses    *)
(* frames and delivers them late.                                          *)
(*                                                                         *)
(* A driver that is Busy makes a handler return without any change: such a *)
(* pass is a stuttering step.  "Other" stands for every state of the       *)
(* controller outside pairing.                                             *)
(***************************************************************************)
EXTENDS Naturals

CONSTANTS
    Node, NoNode,     \* the devices in range; mDiscoveredNodeId = 0
    Modes,            \* which Pairing2WMode are started, a subset of PairingModes
    SkipConfirm,      \* values of "mPairDiscoverConfirmMode is Skip", a subset of BOOLEAN
    PairTimeout,      \* IOHC_PAIR_TIMEOUT_MS
    ListenTime,       \* 2000 ms after a discovery request
    ConfirmTimeout,   \* IOHC_PAIR_DISCOVER_CONFIRM_TIMEOUT_MS
    ConfirmAttempts,  \* IOHC_PAIR_DISCOVER_CONFIRM_MAX_ATTEMPTS
    KeyInitDelay,     \* mPairKeyInitDelayMs, 0 for none
    PullTimeout,      \* 1000 ms and IOHC_RX_TIMEOUT_MS of the pull-key modes
    StepTimeout,      \* 5000 ms for a challenge and for the confirmation
    KeyAttempts,      \* IOHC_PAIR_KEY_EXCHANGE_MAX_ATTEMPTS
    KeyTimeout,       \* IOHC_PAIR_KEY_EXCHANGE_TIMEOUT_MS
    ConfigTimeout,    \* 2000 ms of SetConfig1
    MaxChallenges,    \* bound: challenges a device issues
    MaxStrays,        \* bound: frames of devices that were not asked
    MaxStarts,        \* bound: calls of startPairing
    RadioFails,       \* whether the driver may refuse an operation, other than Busy
    Interruptions     \* which calls and frames come in between

PairingModes == {"Normal", "DiscoveryConfirmation", "LaunchKeyTransfer", "PullKey"}

InterruptionKinds == {"cancel", "reject", "status", "other"}

NodeAssumption == NoNode \notin Node
BoundAssumption ==
    /\ {PairTimeout, ListenTime, ConfirmTimeout, ConfirmAttempts, KeyInitDelay, PullTimeout,
        StepTimeout, KeyAttempts, KeyTimeout, ConfigTimeout} \subseteq Nat
    /\ {MaxChallenges, MaxStrays, MaxStarts} \subseteq Nat /\ ConfirmAttempts > 0
    /\ Modes \subseteq PairingModes /\ SkipConfirm \subseteq BOOLEAN
    /\ RadioFails \in BOOLEAN /\ Interruptions \subseteq InterruptionKinds

VARIABLES
    mState,
    mode,               \* mPairing2WMode
    skip,               \* mPairDiscoverConfirmMode = Skip
    known,              \* mPairingKnownNodeId
    peer,               \* mDiscoveredNodeId
    confirmAttempts,    \* mPairDiscoverConfirmAttempts
    attempts,           \* mPairKeyExchangeAttempts
    challenge,          \* mPairingChallenge, 0 when cleared
    keyChallenge,       \* mPairKeyTransferChallenge
    stateAge,           \* time since mStateTimer, in a state that waits
    pairAge,            \* time since mPairingStartTime, until the key exchange begins
    keyAge,             \* time since mPairKeyExchangeStartTime, until it ends
    outcome, diagnostic,         \* mPairingTelemetry
    stored,             \* node id and key of the channel: the node it is bound to
    sent,               \* the controller's last request, while it can be answered
    air,                \* a frame of a device on its way to the controller
    dev,                \* external: what each device last asked
    keyed,              \* external: the devices that hold the system key
    strays, starts,     \* counted for the bounds
    inits,              \* history: 0x31 frames of this pairing
    took                \* history: this pairing bound the channel

controller == <<mState, mode, skip, known, peer, confirmAttempts, attempts, challenge, keyChallenge>>
clocks     == <<stateAge, pairAge, keyAge>>
telemetry  == <<outcome, diagnostic>>
devices    == <<dev, keyed>>
medium     == <<sent, air>>
bounds     == <<strays, starts>>
history    == <<inits, took>>
vars == <<controller, clocks, telemetry, stored, medium, devices, bounds, history>>

Nothing == [cmd |-> "Nothing", node |-> NoNode, ch |-> 0]
Frame(cmd, n, ch) == [cmd |-> cmd, node |-> n, ch |-> ch]

Requests == {"Discover", "Confirmation", "LaunchKeyTransfer", "PullChallenge", "KeyInit",
             "KeyTransfer", "KeyAuth", "SetConfig1", "ConfigAuth"}
Replies == {"DiscoverResponse", "ConfirmationACK", "Error", "PulledKey", "ChallengeResponse",
            "Challenge", "KeyConfirmation", "SetConfig1Response"}

SendStates == {"SendDiscovery", "SendConfirmation", "SendLaunch", "SendPullChallenge",
               "SendKeyInit", "SendKeyTransfer", "SendKeyAuth", "SendSetConfig1", "SendConfigAuth"}
WaitStates == {"WaitDiscovery", "WaitConfirmation", "WaitKeyInitDelay", "WaitLaunch",
               "WaitPullResponse", "WaitChallenge", "WaitKeyConfirmation", "WaitSetConfig1",
               "WaitConfigFinal"}
PairStates == SendStates \union WaitStates \union {"PairComplete", "PairFailed"}

Limit(s) == CASE s = "WaitDiscovery" -> ListenTime
              [] s = "WaitConfirmation" -> ConfirmTimeout
              [] s = "WaitKeyInitDelay" -> KeyInitDelay
              [] s \in {"WaitLaunch", "WaitPullResponse"} -> PullTimeout
              [] s \in {"WaitChallenge", "WaitKeyConfirmation"} -> StepTimeout
              [] s \in {"WaitSetConfig1", "WaitConfigFinal"} -> ConfigTimeout
              [] OTHER -> 0

Init ==
    /\ mState = "Idle" /\ mode = "Normal" /\ skip = FALSE
    /\ known = NoNode /\ peer = NoNode
    /\ confirmAttempts = 0 /\ attempts = 0 /\ challenge = 0 /\ keyChallenge = 0
    /\ stateAge = 0 /\ pairAge = 0 /\ keyAge = 0
    /\ outcome = "None" /\ diagnostic = "None"
    /\ stored = NoNode
    /\ sent = Nothing /\ air = Nothing
    /\ dev = [n \in Node |-> [ch |-> 0, asked |-> "Nothing"]]
    /\ keyed \in SUBSET Node    \* a device may know the key from an earlier pairing
    /\ strays = 0 /\ starts = 0 /\ inits = 0 /\ took = FALSE

-----------------------------------------------------------------------------
(* Telemetry *)

\* completePairingTelemetry: only a pairing in progress takes an outcome.
Result(r) == IF outcome = "InProgress" THEN r ELSE outcome

Complete(r) ==
    /\ outcome' = Result(r)
    /\ diagnostic' = IF outcome # "InProgress" THEN diagnostic
                     ELSE IF r = "Success" THEN "None" ELSE r

\* recordPairingDiagnostic of loop(): a frame left the waiting state unchanged.
Uncorrelated == diagnostic' = "InvalidResponse" /\ UNCHANGED outcome

-----------------------------------------------------------------------------
(* Starting and cancelling *)

\* startPairing, startPairingExperimental on a 2W channel.
StartPairing ==
    /\ mState \notin PairStates
    /\ starts < MaxStarts /\ starts' = starts + 1
    /\ mode' \in Modes
    /\ skip' \in IF mode' = "DiscoveryConfirmation" THEN {FALSE} ELSE SkipConfirm
    /\ known' \in Node \union {NoNode}
    /\ mState' = "SendDiscovery"
    /\ peer' = NoNode
    /\ confirmAttempts' = 0 /\ attempts' = 0 /\ challenge' = 0 /\ keyChallenge' = 0
    /\ stateAge' = 0 /\ pairAge' = 0 /\ keyAge' = 0
    /\ outcome' = "InProgress" /\ diagnostic' = "None"
    /\ inits' = 0 /\ took' = FALSE
    /\ UNCHANGED <<stored, medium, devices, strays>>

\* startPairing over a running pairing, or with key extraction armed while
\* idle: refused, but the telemetry and the mode are overwritten.
RejectStart ==
    /\ "reject" \in Interruptions
    /\ mState \in PairStates \union {"Idle"}
    /\ starts < MaxStarts /\ starts' = starts + 1
    /\ mode' = "Normal"
    /\ outcome' = "StartRejected" /\ diagnostic' = "StartRejected"
    /\ UNCHANGED <<mState, skip, known, peer, confirmAttempts, attempts, challenge, keyChallenge,
                   clocks, stored, medium, devices, strays, history>>

CancelPairing ==
    /\ "cancel" \in Interruptions
    /\ mState \in PairStates
    /\ Complete("Cancelled")
    /\ mState' = "Idle"
    /\ UNCHANGED <<mode, skip, known, peer, confirmAttempts, attempts, challenge, keyChallenge,
                   clocks, stored, medium, devices, bounds, history>>

\* setPassiveMode, startNetworkScan, stopNetworkScan: mState is assigned
\* whatever it was.
LeavePairing ==
    /\ "other" \in Interruptions
    /\ mState \in PairStates
    /\ mState' = "Other"
    /\ UNCHANGED <<mode, skip, known, peer, confirmAttempts, attempts, challenge, keyChallenge,
                   clocks, telemetry, stored, medium, devices, bounds, history>>

OtherEnds ==
    /\ mState = "Other"
    /\ mState' = "Idle"
    /\ UNCHANGED <<mode, skip, known, peer, confirmAttempts, attempts, challenge, keyChallenge,
                   clocks, telemetry, stored, medium, devices, bounds, history>>

-----------------------------------------------------------------------------
(* Sending *)

\* What the send handlers leave alone.
sendKeeps == <<mode, skip, known, peer, challenge, keyChallenge, telemetry, stored, air,
               devices, bounds, took>>

\* startTransmit returned None: the request is on the air.
Transmit(request, next) ==
    /\ sent' = request
    /\ mState' = next
    /\ stateAge' = 0

\* The overall limit is tested before a discovery, a confirmation and a launch.
Expired == pairAge > PairTimeout

GoTo(state) ==
    /\ mState' = state
    /\ UNCHANGED <<stateAge, sent>>

SendDiscovery ==
    /\ mState = "SendDiscovery"
    /\ \/ ~ Expired /\ Transmit(Frame("Discover", NoNode, 0), "WaitDiscovery")
       \/ (Expired \/ RadioFails) /\ GoTo("PairFailed")
    /\ UNCHANGED <<sendKeeps, confirmAttempts, attempts, pairAge, keyAge, inits>>

\* The confirmation is optional: its last attempt leads to the key exchange.
ConfirmationOver(count) == count >= ConfirmAttempts

\* beginPairKeyInitDelay
AfterConfirmation == IF KeyInitDelay = 0 THEN "SendKeyInit" ELSE "WaitKeyInitDelay"

SendConfirmation ==
    /\ mState = "SendConfirmation"
    /\ \/ /\ Expired
          /\ GoTo("PairFailed")
          /\ UNCHANGED confirmAttempts
       \/ /\ ~ Expired /\ skip      \* no frame is built
          /\ mState' = AfterConfirmation /\ stateAge' = 0
          /\ UNCHANGED <<confirmAttempts, sent>>
       \/ /\ ~ Expired /\ ~ skip
          /\ confirmAttempts' = confirmAttempts + 1
          /\ \/ Transmit(Frame("Confirmation", peer, 0), "WaitConfirmation")
             \/ /\ RadioFails
                /\ \/ ~ ConfirmationOver(confirmAttempts') /\ GoTo("SendConfirmation")
                   \/ /\ ConfirmationOver(confirmAttempts')
                      /\ mState' = AfterConfirmation /\ stateAge' = 0
                      /\ UNCHANGED sent
    /\ UNCHANGED <<sendKeeps, attempts, pairAge, keyAge, inits>>

SendLaunch ==
    /\ mState = "SendLaunch"
    /\ \/ Expired /\ GoTo("PairFailed")
       \/ ~ Expired /\ Transmit(Frame("LaunchKeyTransfer", peer, 0), "WaitLaunch")
       \/ ~ Expired /\ RadioFails /\ GoTo("SendKeyInit")
    /\ UNCHANGED <<sendKeeps, confirmAttempts, attempts, pairAge, keyAge, inits>>

SendPullChallenge ==
    /\ mState = "SendPullChallenge"
    /\ \/ Transmit(Frame("PullChallenge", peer, 0), "WaitPullResponse")
       \/ RadioFails /\ GoTo("SendKeyInit")
    /\ UNCHANGED <<sendKeeps, confirmAttempts, attempts, pairAge, keyAge, inits>>

KeyExchangeOver == attempts >= KeyAttempts \/ (attempts > 0 /\ keyAge >= KeyTimeout)

SendKeyInit ==
    /\ mState = "SendKeyInit"
    /\ \/ /\ ~ KeyExchangeOver
          /\ Transmit(Frame("KeyInit", peer, 0), "WaitChallenge")
          /\ keyAge' = IF attempts = 0 THEN 0 ELSE keyAge
          /\ pairAge' = 0
          /\ attempts' = attempts + 1
          /\ inits' = inits + 1
       \/ /\ KeyExchangeOver \/ RadioFails
          /\ GoTo("PairFailed")
          /\ UNCHANGED <<attempts, pairAge, keyAge, inits>>
    /\ UNCHANGED <<sendKeeps, confirmAttempts>>

SendKeyTransfer ==
    /\ mState = "SendKeyTransfer"
    /\ \/ Transmit(Frame("KeyTransfer", peer, challenge), "WaitKeyConfirmation")
       \/ RadioFails /\ GoTo("PairFailed")
    /\ UNCHANGED <<sendKeeps, confirmAttempts, attempts, pairAge, keyAge, inits>>

SendKeyAuth ==
    /\ mState = "SendKeyAuth"
    /\ \/ Transmit(Frame("KeyAuth", peer, keyChallenge), "WaitKeyConfirmation")
       \/ RadioFails /\ GoTo("PairFailed")
    /\ UNCHANGED <<sendKeeps, confirmAttempts, attempts, pairAge, keyAge, inits>>

\* SetConfig1 is optional: a failure completes the pairing.
SendConfig ==
    /\ \/ /\ mState = "SendSetConfig1"
          /\ \/ Transmit(Frame("SetConfig1", peer, 0), "WaitSetConfig1")
             \/ RadioFails /\ GoTo("PairComplete")
       \/ /\ mState = "SendConfigAuth"
          /\ \/ Transmit(Frame("ConfigAuth", peer, 0), "WaitConfigFinal")
             \/ RadioFails /\ GoTo("PairComplete")
    /\ UNCHANGED <<sendKeeps, confirmAttempts, attempts, pairAge, keyAge, inits>>

-----------------------------------------------------------------------------
(* Waiting: the receiver does not start, or nothing came in time *)

waitKeeps == <<mode, skip, known, peer, confirmAttempts, attempts, pairAge, keyAge, telemetry,
               stored, medium, devices, bounds, history>>

TimedOut == stateAge > Limit(mState)

Lapsed == TimedOut \/ RadioFails

DiscoveryLapses ==
    /\ mState = "WaitDiscovery"
    /\ \/ TimedOut /\ mState' = "SendDiscovery"
       \/ RadioFails /\ mState' = "PairFailed"
    /\ stateAge' = 0
    /\ UNCHANGED <<waitKeeps, challenge, keyChallenge>>

ConfirmationLapses ==
    /\ mState = "WaitConfirmation" /\ Lapsed
    /\ mState' = IF ConfirmationOver(confirmAttempts) THEN AfterConfirmation
                 ELSE "SendConfirmation"
    /\ stateAge' = 0
    /\ UNCHANGED <<waitKeeps, challenge, keyChallenge>>

KeyInitDelayElapses ==
    /\ mState = "WaitKeyInitDelay" /\ stateAge >= KeyInitDelay
    /\ mState' = "SendKeyInit"
    /\ stateAge' = 0
    /\ UNCHANGED <<waitKeeps, challenge, keyChallenge>>

PullLapses ==
    /\ mState \in {"WaitLaunch", "WaitPullResponse"} /\ Lapsed
    /\ mState' = "SendKeyInit"
    /\ stateAge' = 0
    /\ UNCHANGED <<waitKeeps, challenge, keyChallenge>>

\* processPairWaitDeviceChallenge, processPairWaitKeyTransferConfirmation and
\* retry2WKeyExchange: the exchange starts again at 0x31.
KeyExchangeLapses ==
    /\ mState \in {"WaitChallenge", "WaitKeyConfirmation"}
    /\ \/ /\ TimedOut /\ ~ KeyExchangeOver
          /\ mState' = "SendKeyInit"
          /\ challenge' = 0 /\ keyChallenge' = 0
       \/ /\ (TimedOut /\ KeyExchangeOver) \/ RadioFails
          /\ mState' = "PairFailed"
          /\ UNCHANGED <<challenge, keyChallenge>>
    /\ stateAge' = 0
    /\ UNCHANGED waitKeeps

\* Mutant: only the first wait has a timeout.
ConfigLapsesOnce ==
    /\ mState = "WaitSetConfig1" /\ Lapsed
    /\ mState' = "PairComplete"
    /\ stateAge' = 0
    /\ UNCHANGED <<waitKeeps, challenge, keyChallenge>>

ConfigLapses ==
    /\ mState \in {"WaitSetConfig1", "WaitConfigFinal"} /\ Lapsed
    /\ mState' = "PairComplete"
    /\ stateAge' = 0
    /\ UNCHANGED <<waitKeeps, challenge, keyChallenge>>

-----------------------------------------------------------------------------
(* Receiving *)

FromPeer(f) == f.node = peer

\* Mutant: the caller's peer is not compared.
MayBecomePeerAny(f) == TRUE

MayBecomePeer(f) == known = NoNode \/ f.node = known

AfterDiscovery ==
    CASE mode = "LaunchKeyTransfer" -> "SendLaunch"
      [] mode = "PullKey" -> "SendPullChallenge"
      [] mode = "Normal" /\ skip -> "SendKeyInit"
      [] OTHER -> "SendConfirmation"

receiveKeeps == <<mode, skip, known, confirmAttempts, pairAge, keyAge, sent, devices, bounds, inits>>

\* 0x29 of a device in learn mode.
TakeDiscoverResponse(f) ==
    /\ f.cmd = "DiscoverResponse" /\ MayBecomePeer(f)
    /\ peer' = f.node
    /\ attempts' = 0
    /\ mState' = AfterDiscovery
    /\ UNCHANGED <<challenge, keyChallenge, telemetry, stored, took>>

\* 0x2D or 0xFE to the confirmation.
TakeConfirmation(f) ==
    /\ f.cmd \in {"ConfirmationACK", "Error"} /\ FromPeer(f)
    /\ mState' = AfterConfirmation
    /\ UNCHANGED <<peer, attempts, challenge, keyChallenge, telemetry, stored, took>>

\* The pulled key is only checked; both phases continue with the push flow.
TakePull(f) ==
    /\ FromPeer(f)
    /\ \/ /\ mState = "WaitLaunch" /\ f.cmd = "PulledKey"
          /\ mState' \in {"SendPullChallenge", "SendKeyInit"}
       \/ /\ mState = "WaitPullResponse" /\ f.cmd = "ChallengeResponse"
          /\ mState' = "SendKeyInit"
    /\ UNCHANGED <<peer, attempts, challenge, keyChallenge, telemetry, stored, took>>

TakeChallenge(f) ==
    /\ f.cmd = "Challenge" /\ FromPeer(f)
    /\ \/ /\ mState = "WaitChallenge"
          /\ challenge' = f.ch
          /\ mState' = "SendKeyTransfer"
          /\ UNCHANGED keyChallenge
       \/ /\ mState = "WaitKeyConfirmation"
          /\ keyChallenge' = f.ch
          /\ mState' = "SendKeyAuth"
          /\ UNCHANGED challenge
    /\ UNCHANGED <<peer, attempts, telemetry, stored, took>>

\* Mutant: any frame of the peer confirms.
TakeKeyConfirmationEarly(f) ==
    /\ FromPeer(f)
    /\ stored' = peer /\ took' = TRUE
    /\ Complete("Success")
    /\ mState' = "SendSetConfig1"
    /\ UNCHANGED <<peer, attempts, challenge, keyChallenge>>

\* finalize2WPairingKey: 0x33, after the key or instead of a challenge.
TakeKeyConfirmation(f) ==
    /\ f.cmd = "KeyConfirmation" /\ FromPeer(f)
    /\ stored' = peer /\ took' = TRUE
    /\ Complete("Success")
    /\ mState' = "SendSetConfig1"
    /\ UNCHANGED <<peer, attempts, challenge, keyChallenge>>

\* interpretSetConfig1Result
TakeConfig(f) ==
    /\ FromPeer(f)
    /\ \/ /\ mState = "WaitSetConfig1" /\ f.cmd = "Challenge"
          /\ mState' = "SendConfigAuth"
       \/ /\ f.cmd \in {"SetConfig1Response", "Error"}
          /\ mState' = "PairComplete"
    /\ UNCHANGED <<peer, attempts, challenge, keyChallenge, telemetry, stored, took>>

\* What the waiting states do with a frame.
Take(f) ==
    \/ mState = "WaitDiscovery" /\ TakeDiscoverResponse(f)
    \/ mState = "WaitConfirmation" /\ TakeConfirmation(f)
    \/ mState \in {"WaitLaunch", "WaitPullResponse"} /\ TakePull(f)
    \/ mState \in {"WaitChallenge", "WaitKeyConfirmation"} /\ TakeChallenge(f)
    \/ mState \in {"WaitChallenge", "WaitKeyConfirmation"} /\ TakeKeyConfirmation(f)
    \/ mState \in {"WaitSetConfig1", "WaitConfigFinal"} /\ TakeConfig(f)

Taken(f) ==
    \/ mState = "WaitDiscovery" /\ f.cmd = "DiscoverResponse" /\ MayBecomePeer(f)
    \/ /\ FromPeer(f)
       /\ \/ mState = "WaitConfirmation" /\ f.cmd \in {"ConfirmationACK", "Error"}
          \/ mState = "WaitLaunch" /\ f.cmd = "PulledKey"
          \/ mState = "WaitPullResponse" /\ f.cmd = "ChallengeResponse"
          \/ /\ mState \in {"WaitChallenge", "WaitKeyConfirmation"}
             /\ f.cmd \in {"Challenge", "KeyConfirmation"}
          \/ /\ mState \in {"WaitSetConfig1", "WaitConfigFinal"}
             /\ f.cmd \in {"SetConfig1Response", "Error"}
          \/ mState = "WaitSetConfig1" /\ f.cmd = "Challenge"

Diagnosed == {"WaitDiscovery", "WaitChallenge", "WaitKeyConfirmation", "WaitSetConfig1",
              "WaitConfigFinal"}

Receive ==
    /\ air.cmd # "Nothing" /\ air' = Nothing
    /\ \/ Take(air) /\ stateAge' = 0
       \/ /\ ~ Taken(air)
          /\ IF mState \in Diagnosed THEN Uncorrelated ELSE UNCHANGED telemetry
          /\ UNCHANGED <<mState, peer, attempts, challenge, keyChallenge, stateAge, stored, took>>
    /\ UNCHANGED receiveKeeps

\* A StatusUpdate of another paired channel to this node: the states that do
\* not wait for a frame hand it to dispatchRxFrame, which leaves the pairing.
ReceiveStatus ==
    /\ "status" \in Interruptions
    /\ mState \in SendStates \union {"WaitKeyInitDelay"}
    /\ mState' = "Other"
    /\ UNCHANGED <<mode, skip, known, peer, confirmAttempts, attempts, challenge, keyChallenge,
                   clocks, telemetry, stored, medium, devices, bounds, history>>

-----------------------------------------------------------------------------
(* The end *)

FailureOutcome ==
    CASE diagnostic = "InvalidResponse" -> "InvalidResponse"
      [] attempts > 0 /\ diagnostic # "InvalidResponse" -> "KeyExchangeFailure"
      [] OTHER -> "NoResponse"

PairFailed ==
    /\ mState = "PairFailed"
    /\ Complete(FailureOutcome)
    /\ mState' = "Idle"
    /\ UNCHANGED <<mode, skip, known, peer, confirmAttempts, attempts, challenge, keyChallenge,
                   clocks, stored, medium, devices, bounds, history>>

PairComplete ==
    /\ mState = "PairComplete"
    /\ Complete("Success")
    /\ mState' = "Idle"
    /\ UNCHANGED <<mode, skip, known, peer, confirmAttempts, attempts, challenge, keyChallenge,
                   clocks, stored, medium, devices, bounds, history>>

-----------------------------------------------------------------------------
(* The devices, the medium and time *)

deviceKeeps == <<controller, clocks, telemetry, stored, strays, starts, history>>

Reply(n, cmd) ==
    /\ air' = Frame(cmd, n, 0)
    /\ UNCHANGED dev

Ask(n, what) ==
    /\ dev[n].ch < MaxChallenges
    /\ dev' = [dev EXCEPT ![n] = [ch |-> @.ch + 1, asked |-> what]]
    /\ air' = Frame("Challenge", n, dev[n].ch + 1)

Answers(n, what) == dev[n].asked = what /\ dev[n].ch = sent.ch

\* A device takes the key with a 0x32 that answers its challenge, at once or
\* after a second challenge; one that has it may confirm a 0x31 directly.
DeviceAnswers(n) ==
    /\ sent.cmd # "Nothing" /\ sent.node \in {n, NoNode}
    /\ sent' = Nothing
    /\ \/ /\ \/ sent.cmd = "Discover" /\ Reply(n, "DiscoverResponse")
             \/ sent.cmd = "Confirmation" /\ \E c \in {"ConfirmationACK", "Error"} : Reply(n, c)
             \/ sent.cmd = "LaunchKeyTransfer" /\ Reply(n, "PulledKey")
             \/ sent.cmd = "PullChallenge" /\ Reply(n, "ChallengeResponse")
             \/ sent.cmd = "KeyInit" /\ Ask(n, "key")
             \/ sent.cmd = "KeyInit" /\ n \in keyed /\ Reply(n, "KeyConfirmation")
             \/ sent.cmd = "KeyTransfer" /\ Answers(n, "key") /\ Ask(n, "auth")
             \/ sent.cmd = "SetConfig1" /\ Ask(n, "config")
             \/ /\ sent.cmd \in {"SetConfig1", "ConfigAuth"}
                /\ \E c \in {"SetConfig1Response", "Error"} : Reply(n, c)
          /\ UNCHANGED keyed
       \/ /\ \/ sent.cmd = "KeyTransfer" /\ Answers(n, "key")
             \/ sent.cmd = "KeyAuth" /\ Answers(n, "auth")
          /\ keyed' = keyed \union {n}
          /\ Reply(n, "KeyConfirmation")
    /\ UNCHANGED deviceKeeps

\* A device that was not asked, or a repetition: it confirms only a key it has.
StrayFrame ==
    /\ strays < MaxStrays /\ strays' = strays + 1
    /\ \E n \in Node, c \in Replies :
          /\ c = "KeyConfirmation" => n \in keyed
          /\ air' = Frame(c, n, 0)
    /\ UNCHANGED <<controller, clocks, telemetry, stored, sent, devices, starts, history>>

Capped(age, limit) == IF age <= limit THEN age + 1 ELSE age

Tick ==
    /\ mState \in PairStates
    /\ stateAge' = IF mState \in WaitStates THEN Capped(stateAge, Limit(mState)) ELSE 0
    /\ pairAge' = IF attempts = 0 THEN Capped(pairAge, PairTimeout) ELSE 0
    /\ keyAge' = IF attempts > 0 /\ ~ took THEN Capped(keyAge, KeyTimeout) ELSE 0
    /\ UNCHANGED <<controller, telemetry, stored, medium, devices, bounds, history>>

Sends == \/ SendDiscovery \/ SendConfirmation \/ SendLaunch \/ SendPullChallenge \/ SendKeyInit
         \/ SendKeyTransfer \/ SendKeyAuth \/ SendConfig

Lapses == \/ DiscoveryLapses \/ ConfirmationLapses \/ KeyInitDelayElapses \/ PullLapses
          \/ KeyExchangeLapses \/ ConfigLapses

Handlers == Sends \/ Lapses \/ PairFailed \/ PairComplete

Next ==
    \/ StartPairing \/ RejectStart \/ CancelPairing \/ LeavePairing \/ OtherEnds
    \/ Handlers
    \/ Receive \/ ReceiveStatus
    \/ \E n \in Node : DeviceAnswers(n)
    \/ StrayFrame
    \/ Tick

Spec == Init /\ [][Next]_vars

-----------------------------------------------------------------------------
(* Properties *)

Outcomes == {"None", "InProgress", "Success", "NoResponse", "InvalidResponse",
             "KeyExchangeFailure", "Cancelled", "StartRejected"}

FrameType == [cmd : Requests \union Replies \union {"Nothing"}, node : Node \union {NoNode},
              ch : 0..MaxChallenges]

TypeOK ==
    /\ mState \in PairStates \union {"Idle", "Other"}
    /\ mode \in PairingModes /\ skip \in BOOLEAN
    /\ known \in Node \union {NoNode} /\ peer \in Node \union {NoNode}
    /\ confirmAttempts \in 0..ConfirmAttempts /\ attempts \in 0..KeyAttempts
    /\ challenge \in 0..MaxChallenges /\ keyChallenge \in 0..MaxChallenges
    /\ stateAge \in Nat /\ pairAge \in Nat /\ keyAge \in Nat
    /\ outcome \in Outcomes /\ diagnostic \in Outcomes
    /\ stored \in Node \union {NoNode}
    /\ sent \in FrameType /\ air \in FrameType
    /\ dev \in [Node -> [ch : 0..MaxChallenges, asked : {"Nothing", "key", "auth", "config"}]]
    /\ keyed \subseteq Node
    /\ strays \in 0..MaxStrays /\ starts \in 0..MaxStarts
    /\ inits \in Nat /\ took \in BOOLEAN

\* The channel is bound only to a device that holds the system key, although
\* every frame may be lost, late or of another device (finalize2WPairingKey).
StoredMeansShared == stored # NoNode => stored \in keyed

\* A caller that names the peer gets that peer, whoever else answers in learn
\* mode (loop, PairWaitDiscoveryResponse).
BindsTheKnownPeer == took /\ known # NoNode => stored = known

\* Silence, late challenges and driver failures together start the key
\* exchange at most KeyAttempts times in one pairing (retry2WKeyExchange).
KeyExchangeBounded == inits <= KeyAttempts

\* Whatever fails, or is cancelled, after the key was stored, the pairing is
\* reported as a success; and only then (completePairingTelemetry).
SuccessIffBound == (outcome = "Success") = took

\* Once the controller has left the pairing, its telemetry tells how it ended
\* (PairFailed and PairComplete of loop, cancelPairing).
EndIsTold == outcome = "InProgress" => mState \in PairStates

\* A pairing comes to its end whatever the devices do.
Concludes == mState \in PairStates ~> mState = "Idle"

Contract == INSTANCE PairingContract
KeepsContract == Contract!Spec
=============================================================================
