------------------------------ MODULE KeyExtraction ------------------------------
(***************************************************************************)
(* Key extraction: the controller poses as a device that a hub adds, under *)
(* a throwaway identity, and receives the hub's system key.  The frames    *)
(* are answered by processKeyExtractFrame on all three frequencies;        *)
(* deadlines in loop() hold the channel, the session and what follows the  *)
(* capture; queued commands wait or pass in processIdle.                   *)
(*                                                                         *)
(* Hubs follow the exchange, repeat and start over as they like; frames    *)
(* are lost.  A deadline is the time left until it, and 0 is none: loop()  *)
(* looks at the deadlines as time passes.                                  *)
(***************************************************************************)
EXTENDS Naturals

CONSTANTS
    Hub, NoHub,
    Timeout,            \* kKeyExtractDefaultTimeoutMs
    MidHold,            \* kKeyExtractMidAttemptHoldMs
    Grace,              \* kKeyExtractPostExtractGraceMs
    Channels,           \* kReplyFrequencyOrder: the frequencies a reply is sent on
    MaxStarts,          \* bound: sessions
    MaxFrames,          \* bound: frames of the hubs
    MaxCommands,        \* bound: commands queued, of each kind
    RadioFails,         \* whether the driver may refuse an operation
    TxDoneLost          \* whether a TxDone interrupt may be missed

ExtractionAssumption ==
    /\ NoHub \notin Hub
    /\ {Timeout, MidHold, Grace, Channels} \subseteq Nat \ {0}
    /\ {MaxStarts, MaxFrames, MaxCommands} \subseteq Nat
    /\ {RadioFails, TxDoneLost} \subseteq BOOLEAN

VARIABLES
    mState,             \* Idle, or a command on its way
    armed, status,      \* mKeyExtractArmed, mKeyExtractStatus
    session,            \* mKeyExtractThrowawayId: the number of the session
    stage,              \* mKeyExtractState
    candidate, locked,  \* mKeyExtractCandidateHubNodeId, mKeyExtractHubNodeId
    challenge,          \* mKeyExtractChallenge: its number, 0 if cleared
    key,                \* mKeyExtractKey: the hub it was received from
    result,             \* mKeyExtractResult: the hub and the hub of the key
    verifySeen, authDone, \* mKeyExtractNodeVerification...
    overall, grace, hold, \* time left; mKeyExtract...DeadlineMs
    reply, phase,       \* mKeyExtractReplyBuffer, mKeyExtractReplyPhase
    radio, rx,          \* mRadio.state(), the packet isPacketAvailable finds
    foreground, background, \* mCmdQueue: commands of either kind
    heard,              \* external: the last reply each hub heard
    challenges, frames  \* counted: challenges drawn, frames of the hubs

controller == <<mState, armed, status, session>>
attempt    == <<stage, candidate, locked, challenge, key, result, verifySeen, authDone>>
deadlines  == <<overall, grace, hold>>
air        == <<reply, phase, radio, rx>>
queue      == <<foreground, background>>
hubs       == <<heard, frames>>
vars == <<controller, attempt, deadlines, air, queue, hubs, challenges>>

Message(cmd, hub, s, c) == [cmd |-> cmd, hub |-> hub, session |-> s, ch |-> c]
NoMessage == Message("None", NoHub, 0, 0)
NoResult  == [hub |-> NoHub, key |-> NoHub]

Init ==
    /\ mState = "Idle" /\ armed = FALSE /\ status = "Idle" /\ session = 0
    /\ stage = "ExtractIdle" /\ candidate = NoHub /\ locked = NoHub
    /\ challenge = 0 /\ key = NoHub /\ result = NoResult
    /\ verifySeen = FALSE /\ authDone = FALSE
    /\ overall = 0 /\ grace = 0 /\ hold = 0
    /\ reply = NoMessage /\ phase = 0 /\ radio = "Receiving" /\ rx = NoMessage
    /\ foreground = 0 /\ background = 0
    /\ heard = [h \in Hub |-> NoMessage] /\ challenges = 0 /\ frames = 0

-----------------------------------------------------------------------------
(* Sessions *)

\* startReceive, whose result nobody looks at; it ends a transmission.
StartReceive == \/ radio' = "Receiving"
                \/ RadioFails /\ UNCHANGED radio

StartKeyExtraction ==
    /\ session < MaxStarts /\ mState = "Idle"
    /\ armed' = TRUE /\ status' = "Armed" /\ session' = session + 1
    /\ stage' = "ExtractIdle" /\ candidate' = NoHub /\ locked' = NoHub
    /\ challenge' = 0 /\ key' = NoHub /\ result' = NoResult
    /\ verifySeen' = FALSE /\ authDone' = FALSE
    /\ overall' = Timeout /\ grace' = 0 /\ hold' = 0
    /\ reply' = NoMessage /\ phase' = 0
    /\ StartReceive
    /\ UNCHANGED <<mState, rx, queue, hubs, challenges>>

Disarmed == IF status = "Armed" THEN "Idle" ELSE status

\* resetKeyExtractSessionState
ResetSession ==
    /\ stage' = "ExtractIdle" /\ candidate' = NoHub /\ locked' = NoHub
    /\ grace' = 0 /\ hold' = 0 /\ reply' = NoMessage /\ phase' = 0
    /\ challenge' = 0 /\ key' = NoHub
    /\ UNCHANGED <<result, verifySeen, authDone>>

StopKeyExtraction ==
    /\ armed' = FALSE /\ status' = Disarmed /\ overall' = 0
    /\ ResetSession /\ StartReceive
    /\ UNCHANGED <<mState, session, rx, queue, hubs, challenges>>

ClearKeyExtractResult ==
    /\ result # NoResult \/ status = "Timeout"
    /\ result' = NoResult
    /\ status' = IF status \in {"Captured", "Timeout"}
                 THEN IF armed THEN "Armed" ELSE "Idle" ELSE status
    /\ UNCHANGED <<mState, armed, session, stage, candidate, locked, challenge, key,
                   verifySeen, authDone, deadlines, air, queue, hubs, challenges>>

-----------------------------------------------------------------------------
(* Time *)

\* Mutant: a deadline that is not set runs, too.
LeftWraps(d) == d - 1

Left(d) == IF d = 0 THEN 0 ELSE d - 1

Expires == overall = 1

\* The overall timeout comes first, and makes a capture a timeout.
TimedOut ==
    /\ armed /\ Expires
    /\ armed' = FALSE /\ status' = "Timeout" /\ overall' = 0
    /\ ResetSession /\ StartReceive
    /\ UNCHANGED <<mState, session, rx, queue, hubs, challenges>>

GraceElapsed ==
    /\ armed /\ ~ Expires /\ grace = 1
    /\ StopKeyExtraction

TimePasses ==
    /\ armed /\ ~ Expires /\ grace # 1
    /\ overall' = Left(overall) /\ grace' = Left(grace) /\ hold' = Left(hold)
    /\ UNCHANGED <<controller, attempt, air, queue, hubs, challenges>>

Tick == TimedOut \/ GraceElapsed \/ TimePasses

-----------------------------------------------------------------------------
(* Replies *)

\* configureTxRadio and startTransmit.  The hub may hear the reply on any of
\* the frequencies.
Transmit ==
    /\ radio' = "Transmitting" /\ phase' = phase + 1 /\ UNCHANGED reply
    /\ heard' \in {heard, [heard EXCEPT ![reply.hub] = reply]}

\* A frequency that is refused ends the reply; the stage stays as it is.
DropReply ==
    /\ reply' = NoMessage /\ phase' = 0
    /\ StartReceive /\ UNCHANGED heard

\* serviceKeyExtractReply, after the first frequency: called by loop(), which
\* does nothing else until the reply is out.
ServiceKeyExtractReply ==
    /\ armed /\ reply # NoMessage /\ radio # "Transmitting"
    /\ IF phase >= Channels THEN DropReply
       ELSE Transmit \/ (RadioFails /\ DropReply)
    /\ UNCHANGED <<controller, attempt, deadlines, rx, queue, frames, challenges>>

\* queueKeyExtractReply and the first frequency, in the same call.
Answer(cmd, c) ==
    LET message == Message(cmd, rx.hub, session, c)
    IN  \/ /\ reply' = message /\ phase' = 1 /\ radio' = "Transmitting"
           /\ heard' \in {heard, [heard EXCEPT ![rx.hub] = message]}
        \/ /\ RadioFails /\ UNCHANGED <<reply, phase, heard>> /\ StartReceive

-----------------------------------------------------------------------------
(* processKeyExtractFrame *)

Verification == {"Extracted", "ExtractSentNodeVerifyResp"}

\* Mutant: whoever sends is answered.
FromAnyHub == TRUE

\* Once a hub has started the transfer, it alone is answered.
FromHub == locked \in {NoHub, rx.hub}

ToUs == rx.session = session

\* A fresh attempt of the hub after a capture drops the key and its checks.
ForgetAttempt == key' = NoHub /\ verifySeen' = FALSE /\ authDone' = FALSE

MidAttempt == hold' = MidHold /\ UNCHANGED <<status, result>>

Verifies == grace' = Grace /\ hold' = Grace

DiscoverRequest ==
    /\ rx.cmd = "DiscoverRequest"
    /\ \/ /\ stage \in {"ExtractIdle", "ExtractSentDiscoverResp"}
          /\ UNCHANGED <<challenge, key, verifySeen, authDone, grace>>
       \/ /\ stage \in Verification /\ locked = rx.hub
          /\ ForgetAttempt /\ challenge' = 0 /\ grace' = 0
    /\ candidate' = rx.hub /\ stage' = "ExtractSentDiscoverResp"
    /\ Answer("DiscoverResponse", 0) /\ MidAttempt
    /\ UNCHANGED <<locked, challenges>>

Confirmation ==
    /\ rx.cmd = "Confirmation" /\ ToUs
    /\ stage \in {"ExtractSentDiscoverResp", "ExtractSentConfirmAck"}
    /\ stage' = "ExtractSentConfirmAck"
    /\ Answer("ConfirmationAck", 0) /\ MidAttempt
    /\ UNCHANGED <<candidate, locked, challenge, key, verifySeen, authDone, grace, challenges>>

\* The first one draws a challenge and locks the hub; a repeated one gets the
\* same challenge again.
KeyInitTransfer ==
    /\ rx.cmd = "KeyInitTransfer" /\ ToUs
    /\ \/ /\ stage \in {"ExtractSentDiscoverResp", "ExtractSentConfirmAck"}
          /\ challenges' = challenges + 1 /\ challenge' = challenges'
          /\ locked' = rx.hub /\ candidate' = rx.hub /\ stage' = "ExtractSentChallenge"
       \/ /\ stage = "ExtractSentChallenge"
          /\ UNCHANGED <<challenges, challenge, locked, candidate, stage>>
    /\ Answer("ChallengeRequest", challenge') /\ MidAttempt
    /\ UNCHANGED <<key, verifySeen, authDone, grace>>

\* The channel is held for as long as the session stays to be verified.
CaptureHolds == Verifies

KeyTransfer ==
    /\ rx.cmd = "KeyTransfer" /\ ToUs /\ stage = "ExtractSentChallenge"
    /\ key' = IF rx.ch = challenge THEN rx.hub ELSE NoHub
    /\ result' = [hub |-> rx.hub, key |-> key']
    /\ status' = "Captured" /\ stage' = "Extracted"
    /\ Answer("KeyTransferConfirmation", 0) /\ CaptureHolds
    /\ UNCHANGED <<candidate, locked, challenge, verifySeen, authDone, challenges>>

NodeVerifyRequest ==
    /\ rx.cmd = "NodeVerifyRequest" /\ ToUs /\ stage \in Verification
    /\ verifySeen' = TRUE /\ stage' = "ExtractSentNodeVerifyResp"
    /\ Answer("NodeVerifyResponse", 0) /\ Verifies
    /\ UNCHANGED <<status, candidate, locked, challenge, key, result, authDone, challenges>>

ChallengeRequest ==
    /\ rx.cmd = "ChallengeRequest" /\ ToUs /\ stage = "ExtractSentNodeVerifyResp"
    /\ authDone' = TRUE
    /\ Answer("ChallengeResponse", 0) /\ Verifies
    /\ UNCHANGED <<status, stage, candidate, locked, challenge, key, result, verifySeen, challenges>>

Accepted == FromHub /\ (\/ DiscoverRequest \/ Confirmation \/ KeyInitTransfer
                        \/ KeyTransfer \/ NodeVerifyRequest \/ ChallengeRequest)

\* Whether a frame is answered at all; any other one is left to dispatchRxFrame.
Expected ==
    /\ FromHub
    /\ CASE rx.cmd = "DiscoverRequest" ->
              \/ stage \in {"ExtractIdle", "ExtractSentDiscoverResp"}
              \/ (stage \in Verification /\ locked = rx.hub)
         [] rx.cmd = "Confirmation" ->
              ToUs /\ stage \in {"ExtractSentDiscoverResp", "ExtractSentConfirmAck"}
         [] rx.cmd = "KeyInitTransfer" ->
              ToUs /\ stage \in {"ExtractSentDiscoverResp", "ExtractSentConfirmAck",
                                 "ExtractSentChallenge"}
         [] rx.cmd = "KeyTransfer" -> ToUs /\ stage = "ExtractSentChallenge"
         [] rx.cmd = "NodeVerifyRequest" -> ToUs /\ stage \in Verification
         [] OTHER -> ToUs /\ stage = "ExtractSentNodeVerifyResp"

Dispatched == UNCHANGED <<status, attempt, deadlines, reply, phase, radio, heard, challenges>>

\* loop() reads a packet once the last reply is out.  A frame that comes in
\* during a command, or outside a session, is not for this machine.
TakeFrame ==
    /\ rx # NoMessage /\ ~ (armed /\ reply # NoMessage)
    /\ rx' = NoMessage
    /\ IF armed /\ mState = "Idle" /\ Expected THEN Accepted ELSE Dispatched
    /\ UNCHANGED <<mState, armed, session, overall, queue, frames>>

-----------------------------------------------------------------------------
(* Commands *)

\* keyExtractAwaitingReply
AwaitingReply == armed /\ stage # "ExtractIdle" /\ hold # 0

PostCaptureHold == AwaitingReply /\ status = "Captured"

Queue ==
    \/ foreground < MaxCommands /\ foreground' = foreground + 1
       /\ UNCHANGED <<background, controller, attempt, deadlines, air, hubs, challenges>>
    \/ background < MaxCommands /\ background' = background + 1
       /\ UNCHANGED <<foreground, controller, attempt, deadlines, air, hubs, challenges>>

\* processIdle: during the hold of an attempt nothing is sent, after the
\* capture what the user asks for is.
ProcessIdle ==
    /\ mState = "Idle" /\ ~ (armed /\ reply # NoMessage)
    /\ AwaitingReply => PostCaptureHold
    /\ radio = "Receiving"
    /\ \/ foreground > 0 /\ foreground' = foreground - 1 /\ UNCHANGED background
       \/ background > 0 /\ background' = background - 1 /\ UNCHANGED foreground
          /\ ~ PostCaptureHold
    /\ mState' = "Command"
    /\ UNCHANGED <<armed, status, session, attempt, deadlines, air, hubs, challenges>>

\* ensureReceiveAfterTransmit, first in processIdle.
RestartReceive ==
    /\ mState = "Idle" /\ ~ (armed /\ reply # NoMessage)
    /\ AwaitingReply => PostCaptureHold
    /\ radio = "Standby" /\ radio' = "Receiving"
    /\ UNCHANGED <<controller, attempt, deadlines, reply, phase, rx, queue, hubs, challenges>>

\* The exchange of the command, whatever comes of it: see Exchange.
CommandEnds ==
    /\ mState = "Command" /\ mState' = "Idle"
    /\ UNCHANGED <<armed, status, session, attempt, deadlines, air, queue, hubs, challenges>>

-----------------------------------------------------------------------------
(* The radio and the hubs *)

TxDone ==
    /\ radio = "Transmitting" /\ radio' = "Standby"
    /\ UNCHANGED <<controller, attempt, deadlines, reply, phase, rx, queue, hubs, challenges>>

\* What a hub sends after the reply it heard last; it may also start over.
Follows(cmd) ==
    CASE cmd = "DiscoverResponse"        -> {"Confirmation", "KeyInitTransfer"}
      [] cmd = "ConfirmationAck"         -> {"KeyInitTransfer"}
      [] cmd = "ChallengeRequest"        -> {"KeyTransfer"}
      [] cmd = "KeyTransferConfirmation" -> {"NodeVerifyRequest"}
      [] cmd = "NodeVerifyResponse"      -> {"ChallengeRequest"}
      [] OTHER -> {}

HubSends(h) ==
    /\ frames < MaxFrames /\ frames' = frames + 1
    /\ \E cmd \in Follows(heard[h].cmd) \union {"DiscoverRequest"} :
        /\ heard' = IF cmd = "DiscoverRequest" THEN [heard EXCEPT ![h] = NoMessage] ELSE heard
        /\ \/ UNCHANGED rx
           \/ /\ rx = NoMessage /\ radio = "Receiving"
              /\ rx' = Message(cmd, h, heard[h].session, heard[h].ch)
    /\ UNCHANGED <<controller, attempt, deadlines, reply, phase, radio, queue, challenges>>

Next ==
    \/ StartKeyExtraction \/ StopKeyExtraction \/ ClearKeyExtractResult
    \/ Tick \/ ServiceKeyExtractReply \/ TakeFrame
    \/ Queue \/ ProcessIdle \/ RestartReceive \/ CommandEnds
    \/ TxDone \/ \E h \in Hub : HubSends(h)

Spec == Init /\ [][Next]_vars

-----------------------------------------------------------------------------
(* Properties *)

Stages == {"ExtractIdle", "ExtractSentDiscoverResp", "ExtractSentConfirmAck",
           "ExtractSentChallenge", "Extracted", "ExtractSentNodeVerifyResp"}

TypeOK ==
    /\ mState \in {"Idle", "Command"} /\ armed \in BOOLEAN
    /\ status \in {"Idle", "Armed", "Captured", "Timeout"}
    /\ stage \in Stages /\ {candidate, locked, key, result.hub, result.key} \subseteq Hub \union {NoHub}
    /\ {verifySeen, authDone} \subseteq BOOLEAN
    /\ overall \in 0..Timeout /\ grace \in 0..Grace /\ hold \in 0..Grace + MidHold
    /\ phase \in 0..Channels /\ radio \in {"Receiving", "Transmitting", "Standby"}
    /\ foreground \in 0..MaxCommands /\ background \in 0..MaxCommands
    /\ reply = NoMessage <=> phase = 0

\* The session is what KeyRecovery promises: one hub, from the start of its
\* transfer to the end of the session, through fresh attempts and refusals.
Recovery == INSTANCE KeyRecovery WITH captured <- result.hub
Recovers == Recovery!RecoverySpec

\* The key that is reported is one the locked hub sent, decrypted with the
\* challenge that hub was given, however many hubs interleave their frames.
KeyOfTheHub ==
    /\ result.key = result.hub
    /\ armed /\ status = "Captured" /\ result # NoResult => result.hub = locked

\* The verification of a device is answered, and reported, with the key of
\* the attempt that is being verified.
ChecksTheKey == armed /\ (verifySeen \/ authDone) => key = locked /\ key # NoHub

\* The key that is reported, and the one that devices are verified with, is the right one.
KeyIsRight == KeyOfTheHub /\ ChecksTheKey

\* docs/key-extraction-hardware-verification.md, step 6: no poll takes over the
\* radio during the verification window.  Two deadlines make that so.
PollsWait == [][grace # 0 => background' >= background]_vars

\* Every session ends, a fresh attempt that never gets its key included.
SessionEnds == armed ~> ~ armed
=============================================================================
