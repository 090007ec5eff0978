------------------------------ MODULE ReceiveAuth ------------------------------
(***************************************************************************)
(* What the controller does with frames nobody asked for: dispatchRxFrame, *)
(* the challenge it puts to a device that reports its state on its own     *)
(* accord, and the acknowledgement it then sends on every frequency.       *)
(* Devices report, are challenged and answer; remotes command devices.     *)
(* Frames are lost, answers come late or are about a later report.         *)
(*                                                                         *)
(* A radio that is Busy makes the handler return without a change: a       *)
(* stuttering step.  A position is the number of the report it came with.  *)
(***************************************************************************)
EXTENDS Naturals, FiniteSets

CONSTANTS
    Device,             \* devices paired with a channel
    NoDevice,           \* no device; 0 in the code
    Linked,             \* IoHomeRemoteEntry: the devices a known remote is linked to
    Frequencies,        \* IOHC_NUM_FREQUENCIES
    DutyFull,           \* frequencies whose duty cycle may be used up
    RxTimeout,          \* IOHC_RX_TIMEOUT_MS
    TxTimeout,          \* currentTxTimeoutMs
    MaxReports,         \* bound: reports of a device
    MaxRemote,          \* bound: frames of remotes and of other controllers
    MaxPassive,         \* bound: switches to passive mode
    RadioFails,         \* whether the driver may refuse an operation, other than Busy
    TxDoneLost          \* whether a TxDone interrupt may be missed

ReceiveAssumption ==
    /\ NoDevice \notin Device /\ IsFiniteSet(Device) /\ Linked \subseteq Device
    /\ {Frequencies, RxTimeout, TxTimeout, MaxReports, MaxRemote, MaxPassive} \subseteq Nat
    /\ DutyFull \subseteq 0..Frequencies - 1
    /\ {RadioFails, TxDoneLost} \subseteq BOOLEAN

VARIABLES
    mState,
    passive,            \* mPassiveMode
    pending,            \* mPendingAuthFrame, mAuthSrcNodeId, mAuthChannelIdx
    challenge,          \* mAuthChallenge: the number of the challenge
    ackDest, ackFreq,   \* mStatusAckDestNodeId, mStatusAckFreqIdx
    radio,              \* mRadio.state()
    rx,                 \* the packet isPacketAvailable finds
    stateAge,           \* time since mStateTimer
    applied,            \* the channels: number of the last report applied
    poll,               \* the channels: a status poll is scheduled
    reports,            \* external: how often each device has reported
    challenged,         \* external: the challenge each device has yet to answer
    remotes, passives   \* counted for the bounds

controller == <<mState, passive, pending, challenge, ackDest, ackFreq>>
channel    == <<applied, poll>>
devices    == <<reports, challenged>>
bounds     == <<remotes, passives>>
vars == <<controller, radio, rx, stateAge, channel, devices, bounds>>

NoFrame == [cmd |-> "None", src |-> NoDevice, dest |-> "Own", report |-> 0, ch |-> 0]
Frame(cmd, src, dest, r, c) == [cmd |-> cmd, src |-> src, dest |-> dest, report |-> r, ch |-> c]

Init ==
    /\ mState = "Idle" /\ passive = FALSE
    /\ pending = NoFrame /\ challenge = 0
    /\ ackDest = NoDevice /\ ackFreq = 0
    /\ radio = "Receiving" /\ rx = NoFrame /\ stateAge = 0
    /\ applied = [d \in Device |-> 0] /\ poll = [d \in Device |-> FALSE]
    /\ reports = [d \in Device |-> 0] /\ challenged = [d \in Device |-> 0]
    /\ remotes = 0 /\ passives = 0

-----------------------------------------------------------------------------
(* Devices and remotes *)

\* A frame reaches the driver, or is lost.
Arrives(f) ==
    \/ UNCHANGED rx
    \/ rx = NoFrame /\ radio = "Receiving" /\ rx' = f

\* A device reports to the controller or to everybody, in a StatusUpdate, or
\* in an answer to a poll sent by another controller (PrivateResponse).
Report(d) ==
    /\ reports[d] < MaxReports
    /\ reports' = [reports EXCEPT ![d] = @ + 1]
    /\ \E cmd \in {"StatusUpdate", "PrivateResponse"}, dest \in {"Own", "All"} :
        Arrives(Frame(cmd, d, dest, reports'[d], 0))
    /\ UNCHANGED <<controller, radio, stateAge, channel, challenged, bounds>>

\* The answer covers the device's latest report, as the device keeps no other.
Answer(d) ==
    /\ challenged[d] # 0
    /\ challenged' = [challenged EXCEPT ![d] = 0]
    /\ Arrives(Frame("ChallengeResponse", d, "Own", reports[d], challenged[d]))
    /\ UNCHANGED <<controller, radio, stateAge, channel, reports, bounds>>

\* A remote, or another controller, commands a device.
Overheard ==
    /\ remotes < MaxRemote /\ remotes' = remotes + 1
    /\ \E cmd \in {"Remote", "Foreign"}, d \in Device : Arrives(Frame(cmd, d, "All", 0, 0))
    /\ UNCHANGED <<controller, radio, stateAge, channel, devices, passives>>

-----------------------------------------------------------------------------
(* dispatchRxFrame *)

\* The states in which a StatusUpdate to us is challenged: any but the two of
\* a challenge.
Challenges == {"Idle", "StatusAckSend", "StatusAckTxWait"}

\* A frame between others: the devices it concerns are polled later.
Concerned(f) == CASE f.cmd = "Foreign" -> {f.src}
                  [] f.cmd = "Remote"  -> Linked
                  [] OTHER -> {}

SchedulePolls ==
    /\ Concerned(rx) # {}
    /\ poll' = [d \in Device |-> poll[d] \/ d \in Concerned(rx)]
    /\ UNCHANGED <<controller, applied>>

Challengeable ==
    /\ ~ passive /\ rx.cmd = "StatusUpdate" /\ rx.dest = "Own"
    /\ mState \in Challenges

\* The report is put aside and its device challenged.
PutAside ==
    /\ Challengeable
    /\ pending' = rx /\ challenge' = challenge + 1
    /\ mState' = "AuthSendChallenge"
    /\ UNCHANGED <<passive, ackDest, ackFreq, channel>>

\* Any other report of a paired device is taken as it is.
\* sendStatusUpdateResponse does nothing here: these are no states of its.
ApplyReport ==
    /\ ~ Challengeable /\ rx.cmd \in {"StatusUpdate", "PrivateResponse"}
    /\ applied' = [applied EXCEPT ![rx.src] = rx.report]
    /\ UNCHANGED <<controller, poll>>

DispatchOther ==
    /\ \/ rx.cmd = "ChallengeResponse"
       \/ rx.cmd = "Remote" /\ Linked = {}
    /\ UNCHANGED <<controller, channel>>

-----------------------------------------------------------------------------
(* The answer to the challenge *)

\* Mutant: the answer need not be about the report put aside.
VerifiedChallengeOnly(f) == f.ch = challenge

\* verifyHmac over the frame put aside, with the channel's key.
Verified(f) == f.ch = challenge /\ f.report = pending.report

FromReporter(f) == f.cmd = "ChallengeResponse" /\ f.src = pending.src

\* The frame put aside is dispatched without its challenge, and acknowledged.
Authenticated ==
    /\ FromReporter(rx) /\ Verified(rx)
    /\ applied' = [applied EXCEPT ![pending.src] = pending.report]
    /\ IF passive THEN mState' = "Idle" /\ UNCHANGED <<ackDest, ackFreq>>
       ELSE mState' = "StatusAckSend" /\ ackDest' = pending.src /\ ackFreq' = 0
    /\ UNCHANGED <<passive, pending, challenge, poll>>

Rejected ==
    /\ FromReporter(rx) /\ ~ Verified(rx)
    /\ mState' = "Idle"
    /\ UNCHANGED <<passive, pending, challenge, ackDest, ackFreq, channel>>

\* Nothing else is looked at while the answer is awaited.
Ignored == ~ FromReporter(rx) /\ UNCHANGED <<controller, channel>>

\* startReceive, whose result is not looked at.
Restarts == \/ radio' = "Receiving"
            \/ RadioFails /\ UNCHANGED radio

\* loop() hands the packet to the state that waits for it.
TakeFrame ==
    /\ rx # NoFrame /\ rx' = NoFrame
    /\ IF mState = "AuthWaitResponse"
       THEN /\ Authenticated \/ Rejected \/ Ignored
            /\ IF mState' = "Idle" THEN Restarts ELSE UNCHANGED radio
       ELSE (SchedulePolls \/ PutAside \/ ApplyReport \/ DispatchOther) /\ UNCHANGED radio
    /\ UNCHANGED <<stateAge, devices, bounds>>

-----------------------------------------------------------------------------
(* The challenge *)

GoIdle == mState' = "Idle" /\ UNCHANGED <<passive, pending, challenge, ackDest, ackFreq>>

\* processAuthSendChallenge
SendChallenge ==
    /\ mState = "AuthSendChallenge"
    /\ \/ /\ mState' = "AuthWaitResponse" /\ radio' = "Transmitting" /\ stateAge' = 0
          /\ challenged' \in {challenged, [challenged EXCEPT ![pending.src] = challenge]}
          /\ UNCHANGED <<passive, pending, challenge, ackDest, ackFreq>>
       \/ /\ RadioFails /\ GoIdle /\ Restarts
          /\ UNCHANGED <<stateAge, challenged>>
    /\ UNCHANGED <<rx, channel, reports, bounds>>

\* processAuthWaitResponse: ensureReceiveAfterTransmit, then the timeout.  A
\* transmission that never ends keeps the state.
RestartReceive ==
    /\ mState = "AuthWaitResponse" /\ radio = "Standby"
    /\ \/ radio' = "Receiving" /\ UNCHANGED controller
       \/ RadioFails /\ GoIdle /\ UNCHANGED radio
    /\ UNCHANGED <<rx, stateAge, channel, devices, bounds>>

AuthTimeout ==
    /\ mState = "AuthWaitResponse" /\ radio = "Receiving"
    /\ stateAge > RxTimeout
    /\ GoIdle /\ Restarts
    /\ UNCHANGED <<rx, stateAge, channel, devices, bounds>>

-----------------------------------------------------------------------------
(* The acknowledgement *)

Ack(state, freq) == mState' = state /\ ackFreq' = freq
                    /\ UNCHANGED <<passive, pending, challenge, ackDest>>

AllSent == ackFreq >= Frequencies

\* Mutant: the frequency is tried again.
NextFrequencySame(freq) == freq

NextFrequency(freq) == freq + 1

AckEnds == GoIdle /\ Restarts

\* processStatusAckSend
SendAck ==
    /\ mState = "StatusAckSend"
    /\ \/ AllSent /\ AckEnds /\ UNCHANGED stateAge
       \/ /\ ~ AllSent /\ (ackFreq \in DutyFull \/ RadioFails)
          /\ Ack("StatusAckSend", NextFrequency(ackFreq))
          /\ UNCHANGED <<radio, stateAge>>
       \/ /\ ~ AllSent
          /\ Ack("StatusAckTxWait", ackFreq)
          /\ radio' = "Transmitting" /\ stateAge' = 0
    /\ UNCHANGED <<rx, channel, reports, challenged, bounds>>

\* processStatusAckTxWait
AckSent ==
    /\ mState = "StatusAckTxWait"
    /\ \/ radio # "Transmitting" /\ UNCHANGED radio
       \/ radio = "Transmitting" /\ stateAge > TxTimeout /\ radio' = "Standby"
    /\ Ack("StatusAckSend", NextFrequency(ackFreq))
    /\ UNCHANGED <<rx, stateAge, channel, devices, bounds>>

-----------------------------------------------------------------------------
(* The radio, other modes and time *)

TxDone ==
    /\ radio = "Transmitting" /\ radio' = "Standby"
    /\ UNCHANGED <<controller, rx, stateAge, channel, devices, bounds>>

\* setPassiveMode: mState is assigned whatever it was.
SetPassiveMode ==
    /\ passives < MaxPassive /\ passives' = passives + 1
    /\ passive' = ~ passive
    /\ mState' = IF passive THEN "Idle" ELSE "PassiveListening"
    /\ Restarts
    /\ UNCHANGED <<pending, challenge, ackDest, ackFreq, rx, stateAge, channel, devices, remotes>>

\* The channel sends the poll that was scheduled.
PollSent ==
    /\ mState = "Idle"
    /\ \E d \in Device : poll[d] /\ poll' = [poll EXCEPT ![d] = FALSE]
    /\ UNCHANGED <<controller, radio, rx, stateAge, applied, devices, bounds>>

Limit == CASE mState = "AuthWaitResponse" -> RxTimeout
           [] mState = "StatusAckTxWait"  -> TxTimeout
           [] OTHER -> 0

Tick ==
    /\ mState \in {"AuthWaitResponse", "StatusAckTxWait"} /\ stateAge <= Limit
    /\ stateAge' = stateAge + 1
    /\ UNCHANGED <<controller, radio, rx, channel, devices, bounds>>

Handlers == SendChallenge \/ RestartReceive \/ AuthTimeout \/ SendAck \/ AckSent

Next ==
    \/ \E d \in Device : Report(d) \/ Answer(d)
    \/ Overheard \/ TakeFrame \/ Handlers \/ TxDone \/ SetPassiveMode \/ PollSent \/ Tick

Spec == Init /\ [][Next]_vars

-----------------------------------------------------------------------------
(* Properties *)

TypeOK ==
    /\ mState \in {"Idle", "AuthSendChallenge", "AuthWaitResponse", "StatusAckSend",
                   "StatusAckTxWait", "PassiveListening"}
    /\ passive \in BOOLEAN
    /\ pending.src \in Device \union {NoDevice} /\ ackDest \in Device \union {NoDevice}
    /\ challenge \in Nat /\ ackFreq \in 0..Frequencies
    /\ radio \in {"Receiving", "Transmitting", "Standby"}
    /\ stateAge \in Nat
    /\ applied \in [Device -> Nat] /\ poll \in [Device -> BOOLEAN]
    /\ reports \in [Device -> Nat] /\ challenged \in [Device -> Nat]

\* The reports of a device are applied in the order it made them: one put
\* aside for its challenge does not come back over a later one that was applied
\* meanwhile, whatever is lost or late.
AppliedInOrder == [][\A d \in DOMAIN applied : applied'[d] >= applied[d]]_vars

\* With a driver that refuses nothing, an Idle controller always listens: no
\* way back to Idle forgets to start the receiver.
IdleListens == mState = "Idle" => radio = "Receiving"

\* From every challenge and acknowledgement the controller returns to Idle.
ReturnsToIdle == mState \notin {"Idle", "PassiveListening"} ~> mState \in {"Idle", "PassiveListening"}
=============================================================================
