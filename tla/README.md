# Formal models of OFM-IOHomeControl

This directory holds TLA+ models of the io-homecontrol controller in `src/src`,
the TLC configurations that check them on small instances, and proofs that
TLAPS checks for every value of the constants. The code is the reference: every
definition is translated from it, and `PROJECT.json` (`map`) names the lines.

## 1. The system

The firmware is one cooperative loop per device. `IoHomecontrol::loop` calls
`IoHomeController::loop` and then each channel's `loop`; nothing blocks, and
every operation is a state machine advanced by repeated calls. Only the radio
interrupt (and, for the SX1262, the task it wakes) runs beside the loop.

| Part | State it keeps | Operations | What makes it correct |
|---|---|---|---|
| Command queue (`IoHomeController`) | `mCmdQueue`, `mQueueHead`, `mQueueTail` | `queuePush`, `queuePop`, `queuePopForeground`, drop in `startPairing` | nothing accepted is lost, repeated or reordered; user commands pass polls |
| Command exchange (`IoHomeController`) | `mState`, `mCurrentCmd`, `mTxFrame`, `mRxFrame`, response flags, timers | `processIdle`, `processTxPending`, `processTxInProgress`, `processTx1WRepeat`, `processWaitResponse`, `processResponse` | one outcome per command, bounded attempts, no blind repeat of a movement, every exchange ends |
| 1W rolling sequence (channel, controller, module) | `mSequence1W`, `mReservedSequence1W`, the flash image, the identity of each profile | `nextSequence1W`, `incrementSequence1W`, generation, import, cloning, boot | an identity never repeats a number, also across a power loss |
| 2W pairing | about 15 `Pair...` states, telemetry, challenges, the pulled key | `startPairing` ... `processPairWaitSetConfig1FinalResponse`, `cancelPairing` | one telemetry outcome, bounded retries, key stored only when confirmed |
| 1W enrollment | `Pair...1W...` states, stage, repeat counters, the trace | announce, remove, key transfer, finalizer | phases in order, each with all its repeats, one completion |
| Receive-side authentication | `mPendingAuthFrame`, `mAuthChannelIdx`, `Auth...` and `StatusAck...` states | `dispatchRxFrame`, `processAuth...`, `processStatusAck...` | a status is applied only after its challenge was answered |
| Key extraction, gateway mode, passive sniffing | session states and deadlines of their own, run while `mState` is Idle or passive | `processKeyExtractFrame`, `processGatewayFrame`, `processPassiveFrame`, timers in `loop` | a session ends, is reset, and leaves the receiver running |
| Discovery, command scan, network scan | scan index, result tables | `processDiscovery`, `processScan...`, `startNetworkScan` | every address or command visited once, the result table bounded |
| Duty cycle | `mTxTimeAccum` of each frequency, `mDutyCycleWindowStart` | `isDutyCycleOk`, the hourly reset in `loop` | what waits for it goes on after the reset |
| Radio drivers | chip state, `RadioState`, pending interrupts | `startTransmit`, `startReceive`, `isTxDone`, `readPacket` | no interrupt is lost or applied twice |
| Remote map | table of remotes and linked devices | add, remove, link, flash image | restored as stored |
| Channel | position estimate, poll timers, lock, scenes, learned flags | `onCommandExchangeResult`, `onStatusPollFailed`, `loop` | polls continue, the position follows the outcome |
| Profile management, flash, console, KNX | identities, stored image | `processCommand`, `writeFlash`, `readFlash` | what is stored is what boot restores |

Interaction: callers (KNX objects, console, channels' poll timers) push entries
into the queue; `processIdle` pops one and the exchange machine drives the radio
until it reports an `IoHomeCommandExchangeResult` to the channel. A frame read
by `loop` goes to the handler of the present state, or to `dispatchRxFrame`,
which may change the state. Calls such as `startPairing`, `startNetworkScan`
and the key-extraction timers change state that an exchange in progress uses.
Every 1W frame takes its number from the profile its channel resolves to.

The hard behaviour is therefore: calls and received frames that land between
two steps of a machine that shares `mState` with twenty others; timeouts racing
with late answers; resends of movements that may already be under way; drivers
that return Busy for a while; power losses between the use of a number and the
write that reserves it; counters that wrap. `PROJECT.json` lists each hazard
at its line with the properties that would catch it.

## 2. Modules

### Queue and exchange

**FifoQueue** is what the queue promises: a bounded sequence whose entries leave
once, in order, except that a foreground command may be taken past background
polls. **CommandQueue** is the circular array of the code. Entries are opaque but
for `background` and `maxAttempts`; a popped slot keeps its old contents, one slot
stays free. It implements FifoQueue through the mapping `Contents`
(proved in CommandQueueProofs).

**Exchange** models the command engine. A handler is an action, an early return
a guard, an error path a disjunct:

| Code | Actions |
|---|---|
| `processIdle`, `ensureReceiveAfterTransmit` | `PopCommand`, `RestartReceive` |
| `processTxPending` | `StartTransmit`, `StartTransmitFails` |
| `processTxInProgress` | `TwoWayTxDone`, `OneWayTxDone`, `LeftTransmit`, `TxTimeout` |
| `processTx1WRepeat` | `OneWayRepeat` |
| `processWaitResponse` | `PreambleHeard`, `UnconfirmedExecute`, `GiveUp`, `ScheduleRetry`, `Retry` |
| `processResponse`, reception in `loop` | `ReceiveResponse`, `ProcessResponseAgain`, `Receive` |
| `sendCommand` and its kin | `SendCommand` |
| calls and timers of other parts | `StartPairing`, `StartNetworkScan`, `StopNetworkScan`, `StopKeyExtraction`, `OtherMachineEnds` |

Time is a set of ages that saturate where the code stops telling them apart;
`mRetryAtMs` is kept as the time left. `Busy` from the driver is a stutter, or
the disjunct that leaves the state unchanged. What a frame is, is one of six
kinds told apart by who sent it and what the engine does with it. The driver is
its `RadioState`; it becomes Standby when TxDone is read. The other machines of
the controller are two states, `Auth` and `Other`, that end at any time; they
have modules of their own below. The history variables (`copies`, `answered`,
`lateCopies`, `results`, `pollTold`) are read by properties only. The SX1262
dwell after a 0x3D only delays a timeout and is left out; so are
listen-before-talk, the duty cycle (a delay of `StartTransmit`) and the choice of
preamble. Pending commands leave in order of arrival: the priority of the
foreground is the subject of CommandQueue, and no property of one exchange
depends on which command is popped.

### 1W sequences

**OneWaySequence** models the counter of the emulated 1W remotes with its true
16-bit arithmetic: the reserved mark, the flash image, the lookup of the profile
(linked channel, then the first channel with the same identity), the creation and
import of identities, the capture of a remote (`StartKeyReceive`, `Clone`), and the
boot, which consolidates the counters of channels that share an identity. `last` is
the newest number sent under an identity by anyone that was heard, so that a remote
which is copied counts with its copy. `SaveWrites` says whether the unforced
`flash.save()` may be skipped by the write throttle; `SharedImports` whether an
identity that was used before is imported; `SharedClones` whether a remote is
captured that another channel copies already, or that has fallen behind its own copy.
The code refuses none of the three.

### The other machines of the controller

**ReceiveAuth**: `dispatchRxFrame` in Idle and in the background receive scan, the
challenge a status report is put to (`processAuthSendChallenge`,
`processAuthWaitResponse`), and the acknowledgement on every frequency
(`processStatusAckSend`, `processStatusAckTxWait`). A report put aside
(`mPendingAuthFrame`) is `pending`; a position is the number of the report that
brought it, so that the order of application can be seen.
`mLastChallenge` is only ever set to zeros, so a 2W frame that already carries an
HMAC is refused for want of a challenge; the model has that refusal, and nothing
that would follow the acceptance.

**KeyRecovery** is what a key-extraction session promises: armed, bound to one hub,
reporting that hub's key alone, ended. **KeyExtraction** is
`processKeyExtractFrame`, `serviceKeyExtractReply`, the channel hold, grace and
overall deadline in `loop`, and the clauses of `processIdle` that hold commands
back meanwhile. It is checked to implement KeyRecovery, and **KeyImport** (the
ETS workflow: `processKeyImportWorkflow`, `onPassiveKeyCaptured`, adoption,
broadcast and directed discovery) takes KeyRecovery's actions as the controller's
part of its step. Its variable `turn` is the pass of the module's `loop`: the
controller, then the workflow, then whoever calls before the next pass.

**Gateway**: the frames a gateway answers, its one session, the list of devices it
served. **PassiveListen**: the network scan, the key sniff and the capture of a 1W
remote, three users of the one state `PassiveListening`; `unheard` holds the devices
whose challenge was missed, or came while the controller did not listen. **Discovery**: sweeps,
channels, the classic and the alternative command, with the sending phases of
either driver, and the bus object that shows it. **CommandScan**: the walk
through `IOHC_SCAN_COMMANDS`, the answer window, the bitmask and its storage.

**Controller** extends KeyExtraction and puts ReceiveAuth, Gateway, PassiveListen,
Discovery, CommandScan and KeyImport beside it, over the one `mState` and the one radio. In
`ControllerSpec` the machine named by `part` runs, for any constants, and the others are at
rest; it is what the properties that speak of more than one machine are stated and proved
of. `ScanningSpec` is a controller that discovers and scans commands in any order, the two
halves of `ScansWhole`: TLC takes them one at a time, a theorem has both.

### Pairing

**PairingContract** is the promise to the caller of `startPairing`: one outcome,
Success exactly when a peer was taken over, and only a peer that holds the system
key. **Pairing** is the machine: every `processPair...` handler and every branch of
`loop` that takes a frame for it, the four modes, ranking and rejection of peers,
the retries of the key exchange (0x31, 0x32, challenges), configuration,
cancellation and telemetry. Devices are actors with a medium that loses and
delays. It is checked to implement the contract.
**Enrollment** is the 1W gesture: ANNOUNCE, REMOVE, ADD per destination, STOP, DOWN, each
with its copies, the window ADD opens in the actuator, numbers, trace, outcome.
The state `PairSend1W<phase>` or `PairWait1W<phase>` is the pair `step`, `phase`.
**PairingAndEnrollment** is what `startPairing` begins, one or the other by the type of the
channel: it extends Enrollment and has Pairing beside it, and states what an outcome means
for both (`PairingToldTrue`) and the contract (`KeepsContract`) of `StartSpec`.

### Channel and remotes

**ChannelPolls**: when a channel asks (`requestStatus`, `onStatusPollFailed`, the
follow-up, the tracking window and the periodic poll of `loop`).
**ChannelTravel**: the position it believes in (`updateEstimatedPosition`,
`onStatusUpdate`, `onCommandExchangeResult`, the STOP snapshot).
**ChannelObjects**: the bus objects, lock, wind alarm, scenes and the restart, after
which the objects are zero: `writeFlash` stores none of them.
**RemoteMap**: entries, links, the ring of addresses heard, save and restore, and the
polls a remote that was heard causes. The first two are separate because a poll
changes no position and a position delays no poll; what they share is a status,
and each has it as an action.
**Channel** puts the four side by side, each with its own copy of what the reports say
of the device, and states the properties of the whole.

### Radio drivers

**RadioSX1262** and **RadioSX1276**: every access to the chip or its interrupt queue
is a step, so that the DIO1 task (SX1262) or the interrupt routine (SX1276) runs
between any two. `pc` is where in a call the main thread is. A command of the
SX1262 may be done, refused, or done and reported refused (`Outcome`). Reading the chip's
flags and clearing them are two commands, of the task (`ReadFlags`, `ClearFlags`) as of
the main thread (`RxPollChip`, `RxClear`; `TxPollChip`, `TxDrop`), and flags may rise
between them; while the task holds the mutex a command that does not block is refused. `startReceive`
is taken in any state of the driver, as neither driver asks: the timers of the controller
call it during transmissions too. **Radio** has both, and the property of the SX1276's
one FIFO.

### Composition and instances

`MC...` modules give the constants small values. MCController, MCPairing,
MCChannel and MCRadio instantiate several modules, some several times with
different constants, over shared variables, and run one *part* at a time (the
variable `part`, or `runs`, that no step changes). MCController extends
Controller, MCPairing PairingAndEnrollment, MCChannel Channel and MCRadio
Radio. The configuration gives these modules their constants, so that the theorems and the
runs speak of the same definitions: the parts that Controller and PairingAndEnrollment have
themselves run by them, and the MC module adds the parts that need constants of their own
(a driver that fails where the configuration has a sound one, two sessions instead of two hubs).
This is how the program runs: the machines
of MCController start only from Idle or from one another's listening (the guards
of `startDiscovery`, `startCommandScan`, `startKeyExtraction`,
`startPassiveKeySniff`), `startPairing` throws away whatever runs, a build has
one driver, and the parts of a channel in MCChannel share no variable. What does
reach over from one machine into another is in the modules as an action of the environment: the
interruptions of Exchange and Pairing, the calls and timeouts of PassiveListen,
the commands of KeyExtraction, the console of KeyImport. Operators marked
`Mutant` are what a plausible mistake would make of the definition that follows
them; no specification uses them.

## 3. What is checked

| Run | Module | Size | Properties |
|---|---|---|---|
| `command_queue` | MCCommandQueue | 4 slots, 4 kinds of entry | `TypeOK`, `LiveSlots`, the refinement `ImplementsFifo` |
| `exchange` | MCExchange | all four kinds of command, all frames, all interruptions, driver failures; 1.7 million states | `TypeOK`, `OneOutcome`, `AttemptsBounded`, `CautiousResend`, `AcceptedExecuteNotDenied`, the action property `PollFailureTold` |
| `exchange_quiet` | MCExchange | no interruptions, no status frames, fairness | `AcceptedMeansAnswered`, `EndsWithOutcome`, `Concludes` |
| `one_way_sequence` | MCOneWaySequence | 3 channels, the third linked to the first, two identities, 7 frames, window 3, starts at 0 and just below the wrap | `TypeOK`, `ReservedInFlash`, `NeverReplays` |
| `controller` | MCController | 14 parts, 371 000 states | below |
| `pairing` | MCPairing | 5 parts, 667 000 states | below |
| `channel` | MCChannel | 7 parts, 198 000 states | below |
| `radio` | MCRadio | two settings of the SX1262 and the SX1276, 890 000 states | below |
| `foreign_status`, `one_way_favourite`, `one_way_throttled`, `one_way_shared_import` | | | each violates one statement of the sources: section 5 |

The four composed runs state a property as the conjunction of what it means for
each part:

| Property | Parts and what it says of them |
|---|---|
| `AppliedInOrder` | reports: a report put aside for its challenge is never applied over a later one of the same device |
| `KeyIsRight` | extraction (two hubs contend for the session), recovery, commanded: the key told is that of the hub that locked the session, and is the one devices are verified with |
| `KeyTakenOver` | extraction, recovery, commanded, import, importing refine KeyRecovery; no poll takes the radio from the verification. import: an identity is adopted only whole and only when the session is over. listening, missing: an overheard key was read under the challenge it was encrypted with, unless a later one of that device went unheard. gateway, refused: it waits for the device it gave its key to, and (gateway) lists no other |
| `ScansWhole` | discovery, discovery76: every channel asked in every sweep. scan: the stored result is of the whole list, its count the number of its bits |
| `IdleIsReady` | reports, listening, missing: an idle or passive controller listens, and no timeout takes it from another machine |
| `TypesOK` | the seven machines of Controller: types, queues, retries and deadlines |
| `EverythingEnds` | reports, recovery, discovery, discovery76, scan, importing: what begins ends (liveness) |
| `PairingToldTrue` | pairing (two devices): Success exactly when bound, the peer that was named, one that holds the key, key exchange bounded, the end told; interrupted, alone: those that need no hypothesis on the interruptions. enrollment, two gestures: numbers fresh, the trace true, the end told |
| `GestureInOrder` | enrollment, two gestures: the bursts on the air are a beginning of the gesture, in its order |
| `KeepsContract` | every pairing part refines PairingContract |
| `GestureTakesEffect` | enrollment, two gestures: enrolled only after every copy of every burst; DOWN inside the window of the first ADD |
| `BothConclude` | alone, enrollment: liveness |
| `FollowUpHasTime` | polls: a follow-up that is noted has a time, and the time a window |
| `RejectedStopResumes` | inverted travel: a refused STOP brings the travel back; both travels keep their types |
| `RecallReturns` | objects: a learned scene brings the device back to where it was |
| `RemotesKept` | links, ring: polls what is linked and not unlinked; forgets the oldest |
| `MotionEndShown` | polls, silent polls, travels: the end of a travel is noticed and shown, a silent device is left alone (liveness); no failure extends a tracking window, and the object follows the estimate |
| `ReportedWentOut` | the SX1262 settings: a transmission reported done left the antenna |
| `DeliveredOnce` | the SX1262 settings: a received frame is handed to the protocol once |
| `SharedFifo` | SX1276: the same of transmissions; frames are read whole, but for a receiver started just as a transmission ends; nothing is sent but the payload |
| `RunsToItsEnd` | the SX1262 settings: Receiving means that the chip receives or will be started again, but for a standby that was done and reported refused. Waiting, SX1276: a transmission ends, a frame is read (liveness) |

**Bounds.** CommandQueue: four slots are the fewest in which a priority pop shifts
several entries across the end of the array; head and tail wrap without bound.
Exchange: `Capacity` 1, so the next command waits while one is handled, and its
pop resets the state the previous one left; timeouts of two ticks, a gap of one,
a settle gap of three and a budget of ten keep the order of the code's constants
(400/500, 250, 750, 2500 ms) and let all three attempts, the settle gap and the
expiry of the budget during a gap occur; one 1W repeat instead of three exercises
both branches; `MaxPreambles` bounds how often a preamble restarts the timeout:
without it an exchange need not end, which is what the code does on a busy
channel. Sequence: a window of 3 with 8 frames renews the mark twice and crosses
the wrap; with two identities and three channels a remote can be captured again, after its own copy and by a channel
that had another.
ReceiveAuth: two reports are the fewest that can be applied out of order, two
frequencies (one of them full) give each branch of the acknowledgement.
KeyExtraction: two hubs contend; five frames reach from discovery through key
and verification into a repetition. Gateway and PassiveListen: one device more
than the table holds, one frame more than the buffer. Discovery: the code's
three frequencies and three sweeps. CommandScan: three commands whose codes are not
their places. KeyImport: a table for one device with two that answer. Pairing:
two attempts of each kind of retry, one stray answer, two starts. Enrollment: two
destinations and one repeat. ChannelPolls: a window of six with follow-ups of one
and estimates below, at and above them; ChannelTravel: three positions, two moves and two STOPs, which may be on
their way together, a device slower or faster than its settings. RemoteMap: three remotes for two
entries and a ring of two. Radio: an interrupt ring that holds two (one in Waiting), two frames, three
transmissions (a third meets what two before it left).

`CHECK_DEADLOCK FALSE` stands in MCController, MCPairing and MCRadio, where the bounded
inputs (frames, starts, transmissions) are used up and the machine rests.

**What the bounds exclude on purpose.** Interruptions, status frames and refused
starts of the receiver are absent from runs whose properties are false under
them: `startPairing` and the network-scan calls drop the command in flight without an
outcome (`IoHomeController.cpp` 2706, 3891, 3901), a StatusUpdate does the same,
and `StopKeyExtraction` can cut a 0x3D short. Section 5 lists every such case.

**Fairness.** `loop()` is called for ever, so handlers are weakly fair and so is the
clock; of peers, callers and interruptions nothing is assumed except where said.
- Exchange: `SF_vars(ResponseTimeouts)`: a frame on the air lasts many passes of
  `loop()`, so the timeout is looked at between any two; weak fairness would let
  foreign frames, one per pass, disable it for ever.
- MCController: handlers, `Tick` and the `TxDone` of a sound driver. In
  `importing` strong fairness of the controller's pass as far as it ends what
  it has begun (session, command, discovery, idle): each of these is what another
  part shows of its own machine, and the workflow's polls could otherwise come in
  between for ever.
- MCPairing: handlers, reception and clock of `alone`; sends, waits, ends and
  clock of `enrollment`. A Busy driver is a stutter, so fairness says that it is
  not Busy for ever.
- MCChannel: the loop, time, the end of an exchange (which `exchange_quiet`
  shows), a device that comes to rest; strongly, that a device asked again and
  again answers once, and that a periodic poll is not refused by a full queue for
  ever. `silent polls` has no such answer.
- MCRadio: the chip ends a transmission, the task runs, a call goes on. Strongly,
  that the user polls, and that clearing flags and entering receive or standby
  are not refused every time: a refusal is a mutex held or BUSY for
  microseconds.

## 4. What is proved

**CommandQueueProofs**: `Spec => []TypeOK` and `Spec => []LiveSlots` for every
size of the queue and every set of commands. `TypeOK` is inductive. `LiveSlots`
needs that the number of live slots after a push or a pop differs by one, which
is arithmetic on the circle of slots (lemmas about `Succ`, `Prev`, `Offset`).

`Spec => ImplementsFifo` is the refinement itself, for every size. The slot `At(i)` at distance `i` from the tail and `Offset` are inverse
to each other (`OffsetOfAt`, `AtOfOffset`); a pop moves every slot one nearer
(`AtAfterPop`), and shifting towards the tail is `Prev` (`PrevOfAt`). With these the
sequence `Contents` is computed after each operation: a push appends
(`PushAccepts`), and a sequence without its entry at `i` is what is left after a pop
or after the shift of the foreground pop (`RemovalIsTake`, `PopTakes`,
`ForegroundTakes`). All `%` stays in the lemmas about the ring.

**OneWaySequenceProofs**: `TypeOK`, `ReservedInFlash` and `NeverReplays` for any
number of channels, any links, any identities, any start and any window below
32767, from `Assumptions`: `flash.save()` writes; no identity that was used is imported
again; and a remote is cloned only if no other channel copies it and it is not behind its
copy. The code ensures none of them, and each is needed: two violation runs drop the first and the second, and section 5
has what happens without the third. The
inductive invariant `Inv` adds to `TypeOK`: the marks in flash are those in RAM
(`FlashCurrent`), an identity belongs to one channel (`OneHolder`), and seen
from the last number sent the counter, then the mark, lie ahead within the
window (`MarkAhead`). `NeverReplays` alone is not inductive: a counter that has
just been restored from flash is past the last number only because the mark was.
All `%` is confined to the lemmas `Residue` to `OffsetOfOldMark`.

**ExchangeProofs**: every safety property of the two exchange runs, for any set of
commands, any timeouts, budget, number of attempts and repeats, and any subset of
frames, interruptions and failures. The assumptions are those Exchange states
of its constants, and three theorems have a hypothesis:

| Theorem | Property | Hypothesis |
|---|---|---|
| `Types`, `Outcomes`, `Attempts`, `Resends`, `PollsTold` | `TypeOK`, `OneOutcome`, `AttemptsBounded`, `CautiousResend`, `PollFailureTold` | none |
| `NotDenied` | `AcceptedExecuteNotDenied` | starting the receiver does not fail for good |
| `MeansAnswered` | `AcceptedMeansAnswered` | nobody restarts the receiver during a transmission |
| `EndsReported` | `EndsWithOutcome` | no interruption and no status report |

The argument has two layers. The thirty actions are first reduced to fourteen
*moves* (`Waits`, `Takes`, `Drops`, `Starts`, ..., `Retries`), which say in terms
of attempts, flags and reports what a step may do; `StepMoves` shows that every step
is one of them. Then each property has an invariant of its own, built on those
before it and preserved move by move:
- `TypeInv`: `TypeOK` and `Sound(cur)`, that the copy of a command in work never
  reaches its attempts and counts one unconfirmed Execute at most. Without the
  strict bound a retry could not be shown to stay within the attempts.
- `Core`: `TypeInv` and `OneOutcome` together; the others assume both.
- `AttemptsInv`: in an exchange the copies are at most one more than the attempts
  counted, and in `TxPending`, before the copy that is due, at most as many. The
  bound on copies alone would not survive the next start.
- `FlagsInv`: `mAuthResponseSent` and `mSawChallenge` come and go together with
  `mWaitingFinalResponse`, and never with a 1W command.
- `ResendInv`: an Execute that is marked accepted is a repeatable one of a peer that
  confirms, counted once; before its late copy nothing else is scheduled.
  `CautiousResend` speaks of past copies only and says nothing of the retry that
  makes the next.
- `MarkedOnAir`: while a copy is on the air a command whose challenge was answered is
  marked. `AnsweredInv`: what is marked, or waits with its answer sent, was answered
  on the air. `PollInv`: a command still in work has told the channel nothing, so
  that what is told when it ends was told by the step that ends it.

**PairingProofs**: for any devices, modes, timeouts and bounds on the attempts,
driver failures or not, and frames lost, late or of another device. Assumed are
`NodeAssumption` and `BoundAssumption`: constants are numbers, and a confirmation is
tried at least once (three times in the code, `IoHomeController.h:22`).

| Theorem | Formula | Hypothesis |
|---|---|---|
| `Types`, `Shared`, `NamedPeer`, `ExchangeBounded` | `TypeOK`, `StoredMeansShared`, `BindsTheKnownPeer`, `KeyExchangeBounded` | none |
| `PairingKeepsContract` | `KeepsContract`, the refinement of PairingContract | none |
| `SuccessTold` | `SuccessIffBound` | no start is refused during the pairing |
| `EndTold` | `EndIsTold` | no status frame and no other mode takes the controller away |

Run `pairing` checks the same formulas, on three instances and in one invariant
(`PairingToldTrue`, which EnrollmentProofs proves as a whole). None is inductive, and the inductive invariant `Safe` says why
they hold:
- `PhaseInv`: before the key is confirmed the channel is not taken and the outcome
  is still open, or a refused start has overwritten it; afterwards it is taken. So
  `PairComplete` never reports anything new, and `FailureOutcome` never replaces a
  success.
- `PeerInv`: from the first answer to the end the peer is the one that was named,
  and a new confirmation is sent only while attempts are left.
- `KeyInv`: a confirmation in the air is of a device that holds the key, also if it
  is late, and each 0x31 of a pairing is an attempt of it.

In the contract `StartPairing` begins, `RejectStart` rejects, a device that takes the
key shares, `TakeKeyConfirmation` binds, `PairFailed` and `CancelPairing` fail, and
every other step stutters (`ContractStep`).

**ControllerProofs**: the machines of the controller, each under the assumption of its
module (constants are numbers, the timeouts of a session positive, and "no hub", "no
device" and "no node" are none), for any hubs, devices, nodes, timeouts, frequencies and
bounds, failures of the driver and lost TxDone.

Of the controller as a whole, from `ControllerAssumption` (all of them together), each safety
property of run `controller`:

| Theorem | Formula, of `ControllerSpec` | Hypothesis |
|---|---|---|
| `AllTypes` | `TypesOK` | none |
| `KeysAreRight` | `KeyIsRight` | none |
| `AppliesInOrder` | `AppliedInOrder` | none |
| `WholeScans` | `ScansWhole` | none |
| `AlwaysReady` | `IdleIsReady` | in the property: the driver takes its answers |
| `KeysTakenOver` | `KeyTakenOver`, with the refinement of KeyRecovery | in the property: see the theorems below |

Of its machines:

| Theorem | Formula | Hypothesis |
|---|---|---|
| `Types`, `ReportsTyped`, `GatewayTypes`, `ListenTypes`, `SweepTypes`, `ScanTypes`, `ImportInBounds` | `TypeOK` of each | none |
| `RightKey` (from `KeyOfHub`, `Checks`) | `KeyIsRight` | none |
| `PollsWaitVerification` | `PollsWait` | none |
| `SessionKeepsRecovery` | `Recovers`, the refinement of KeyRecovery | none |
| `ReportsInOrder` | `AppliedInOrder` | none |
| `ListensWhenIdle` | `IdleListens` | the driver refuses no answer (`~AnswersFail`) |
| `MuteMeansListening`, `TimeoutsTakeNothing` | `PassiveMeansListening`, `TimeoutsLeaveOthersAlone` | none |
| `SniffedKeyIsRight` | `CapturedKeyIsRight` | none; a later challenge that went unheard is excepted in the property |
| `WaitsForTheServed` | `WaitsForWhomItServed` | none |
| `ListedWasServed` | `PairedWasSentKey` | the driver refuses no transmission |
| `WholeInAnyOrder` | `ScansWhole` of `ScanningSpec` | none |
| `TakesOverAGateway` | `AdoptsTheGateway` of KeyImport | none |

*The whole.* `part` never changes, so that every behaviour of `ControllerSpec` is either one of
the machine or one in which the machine never runs (`ReportsRun`, `ExtractionRuns`, ...); in
the first the theorem of the machine applies. In the second the property holds
because the machine is still where it starts: `AtRest` says what of that the properties
need, and `OthersRest` that no other machine touches it. The refinement of KeyRecovery is where this takes work
(`SessionsRecover`): the extraction's own refinement is carried over to a session whose hub is in
`result` or in `captured`, whichever of the two machines runs, and the import takes
each of KeyRecovery's actions inside one of its own steps.

*Key extraction.* `KeyIsRight` speaks of what the controller holds; why it holds depends on what is on
the air and in the memory of other hubs. The inductive invariant `Safe` follows one
challenge through them: the reply that carries it (`ReplyInv`), the hub that heard
it (`HeardInv`), the frame that answers it (`FrameInv`) each belong to the hub that
locked the session and to the challenge that is open, or to a session that is over.
So a hub that starts over, or one that was passed over by the lock, can send nothing that
would be read under a challenge of another. `CheckInv` and `CaptureInv` say the
same of stage and result. `GraceInv`, that the hold of the channel outlasts the
verification, is what keeps polls out of it: the verification sets both deadlines, and
a later frame of an attempt, which sets the hold alone, has ended the verification first.

*Reports.* `AppliedInOrder` compares two states, and says nothing of the report that is put
aside or has just arrived. `InOrder` does: a frame that has arrived is no older than
what was applied last, because whatever applies a report takes the frame away. A report
put aside comes back only with an answer that was computed over it, and that answer is a
frame that has just arrived: so nothing of its device was applied since that is later.
The way back to Idle starts the receiver, or fails to: hence `~AnswersFail`.

*Passive listening.* The flag `mPassiveMode` and the state go together whatever the three
users and their timeouts do; a timeout therefore never finds a pairing or an exchange in
the controller's place. `SniffsRight`: the challenge a sniff holds is the one
its device encrypts with, as long as it has not given its key up and none of its challenges
went unheard since. A challenge is unheard because the radio missed it, or because the
controller did not listen, as when a pairing breaks into a sniff that goes on afterwards;
`unheard` records both, and is the exact exception: TLC finds the key misread without it.

*Gateway.* `SessionSound`: the device a session waits for is the one its key went out to. That
a device is listed only then needs a sound driver (`ListedSound`): `memory` is set before
the key goes out, so that a refused transmission leaves it set for a session that waits for
no challenge and takes one all the same.

*Discovery and scan.* `AskedSoFar`: at every point of a discovery the requests whose turn has
come (`Due`: in an earlier sweep, on an earlier channel of this one in the order of
the variant, or the first of two on this channel) have been made. `ScannedSoFar`: the bits
are those of the places gone through. An interruption takes both machines' `mState` away and a
start resets their counts, so a controller that does both in any order keeps both
(`WholeInAnyOrder`).

*Key import.* `HubsOwnKey`: as long as no sniff was started, the key an import holds while it
waits for the end of the session is that of the hub it is noted with. The first sniff can
break it, which is the case section 5 lists. The types are not plain: the index stays within
the candidates because the next unknown one is found by a search that has a least hit
(`LeastOf`, `NextUnknown`), and what is taken from the queue is in it (`TakenIsQueued`).

**RadioProofs**: for any depth of the queue, any user, refused and late commands.
The DIO1 task may lag behind the main thread by `Latency` commands.

| Theorem | Formula | Hypothesis |
|---|---|---|
| `Types` (from `InPlace`) | `TypeOK` | none |
| `ToldOfWhatWentOut` | `ReportedWentOut` | `Latency <= 2` |
| `HandedOverOnce` | `DeliveredOnce` | `Latency <= 1` |
| `SaysWhatTheChipDoes` | `ReceivingListens` | none |
| `FifoShared` | `SharedFifo`, of the SX1276 | none |

The hypotheses on `Latency` are what the code provides: the task has priority 10
(`RadioSX1262.cpp:231`), so the interrupt that wakes it preempts the main thread, and
only the mutex, held for the command under way, keeps it waiting. They are sharp: with a lag of
three TLC finds a transmission that is told of while it is still on the air, with a
lag of two a frame that is handed over twice. The reason is in the invariants `TxInv`
and `RxInv`: flags of an earlier operation must be out of the chip before
`startTransmit` and `startReceive` flush the queue, and these calls leave the task two
and one commands to take them (`WakeInv`: flags in the chip mean that a wake is under way).
`PlaceInv` says where a call can stand against the driver and the chip.

The SX1276 is one thread and one note, and what keeps its directions apart is the order of
accesses: from the moment `startTransmit` empties the FIFO the chip stands by, so that it
holds the payload alone (`FifoInv`), and the note is cleared before either mode is entered,
when nothing but a frame that has ended can still set it: so it is of what the driver then
waits for (`NoteInv`). `late` is the exception: `startReceive` may break into a transmission
whose end comes between the two.

A driver that says it receives can part from its chip in one way only: `setFrequency`,
`setPreambleLength` or `startTransmit` is told that its standby was refused although it took
place. `startReceive` notes a restart when it is told so; these leave `mState` as it was
(`strayed`).

**EnrollmentProofs**: for any number of destinations, repeats, pauses and window, any
failures and starts, from `EnrollmentAssumption` (constants are numbers, at
least one destination).

| Theorem | Formula | Hypothesis |
|---|---|---|
| `Types`, `InGestureOrder`, `FreshSequences`, `ToldAtTheEnd` | `TypeOK`, `GestureInOrder`, `SequencesFresh`, `EndIsTold` | none |
| `TakesEffect` (from `WholeOrNothing`, `WithinTheWindow`) | `GestureTakesEffect` | none |
| `TraceIsTrue` | `TraceTellsTheTruth` | `Room`: the trace has four entries more than destinations |
| `ToldTrue` | `PairingToldTrue` of `StartSpec`, the pairing included | in the property: `Room`, no refused start, no status frame |
| `StartKeepsContract` | `KeepsContract` of `StartSpec` | none |

`Room` holds in the code: eight entries (`IoHomeController.h:400`) and at most three
destinations (`IoHomeController.cpp:1541`). `GestureInOrder` compares the log of
bursts with the gesture and is not inductive, because it says nothing of the burst to
come. `Place` computes from phase and destination how many bursts precede the one at
hand; `LogInv` says that the log has just that length, and every burst in it but the
last all its copies, so that the next is the right one and `PairComplete` is reached with
the whole gesture. `AddInv` ties the age of the window to the first ADD in the log,
`SeqInv` the numbers in it to the counter, `TraceInv` the trace to the log: an entry is a
success exactly if its burst is full, and the active entry is that of the burst at hand.

*The pairing beside it.* `ToldTrue` and `StartKeepsContract` are about PairingAndEnrollment, whose
pairing is an instance of Pairing with its variables renamed; the theorems of PairingProofs come in
as an instance `P` of that module with the same names. `SameActions` and
`SameProperties` show, action by action and formula by formula, that both instances say
the same; `BothRun`, that every behaviour of `StartSpec` is one of Pairing and one of
Enrollment, since what does not run stutters.

**ChannelProofs**: the safety of a channel and of the remote map, each part under its own
assumption (constants are numbers; a follow-up fits in the window, 2 s and 10 min in the
code; a travel time that is told is not 0, which `onEstimate` takes for unknown; tables have
room for an entry).

| Theorem | Formula | Hypothesis |
|---|---|---|
| `Types`, `HasTime` (from `Tracked`) | `TypeOK`, `FollowUpHasTime` | none |
| `WindowKept` | `KeepsWindow` | none |
| `StopResumes` | `RejectedStopResumes` | none |
| `FeedbackFollows` | `ChannelTravel!FeedbackFollowsEstimate`, a part of `MotionEndShown` | none |
| `ScenesReturn` | `RecallReturns` | none |
| `RemotesAreKept` | `RemotesKept` | none |

*Polls.* For any delays, windows, intervals and travel times, and a device that answers,
refuses or is silent. The bound `TypeOK` puts on the next poll and `FollowUpHasTime` are
inductive together only: a report whose travel is unknown keeps the poll that is noted, if
there is one, and `onStatusPollFailed` counts what is left of the window from its deadline,
if it has one. What each operation does to the seven variables of the tracking is one lemma
(`Tracks`), so that the actions differ only in which of them they call. A pass of `loop()`, a
failure and time never lengthen an open window; that the window therefore closes is
liveness and stays with TLC.

*Travel.* For any number of positions, any pace, any times a report tells. An estimate stays
between where it starts and where it goes (`BetweenThem`), which takes a division
(`PartOfTheWay`). `StopInv` says where a travel that STOP broke off is kept: as long as that
STOP is on its way, in the snapshot, or it has been ended by a later command or report. There
may be any number of STOPs; one that is commanded while another is on its way takes the
snapshot over, and what it broke off is not noted as `goal` (section 5). `ShownInv` is
what `FeedbackFollowsEstimate` rests on: the object shows the estimate not only while a
travel runs but also while a snapshot waits, because a refused STOP sets `mIsMoving` again
without touching the object. A travel time that the device tells begins the estimate
anew without telling the bus: until its next change the property excepts it (`behind`).

*Objects.* For any positions and scenes. `Remembered`: what was learned of a scene is in the
settings as the bus sees it, and the copy in memory is that of the settings; turning a
position twice gives it back.

*Remotes.* For tables and rings of any size. `Table`: an address has one entry and a device
one place in its links; from this the first entry found is the only one (`TheSlot`), and
removing a link by shifting the ones behind it removes that one only (`WithoutIt`).
`Holds`: the links in a table are those wanted, in memory and, as of the last save, in
flash. `RingInv` computes from head and length which of all addresses heard stands in a
slot (`Entered`), so that the one overwritten is the oldest.

**Only model-checked**: all liveness (`Concludes`, `BothConclude`, `EverythingEnds`, and the
parts of `MotionEndShown` and `RunsToItsEnd` that say what happens in the end), which with ENABLED is out of the
prover's reach. Every other property of the passing runs, invariant, action property or
refinement, is a theorem. The parts that an MC module adds with constants of their own, and
the fairness of its `FairSpec`, are for TLC only.
No module has a RECURSIVE operator or needs induction over data.

## 5. Disagreements

Between code and its comments and documents; the first four are runs.

1. `nextSequence1W` saves through the throttled `flash.save()`, while the comment
   at `IoHomecontrolChannel.cpp:971` promises that a power loss cannot replay a
   number (`one_way_throttled`).
2. A StatusUpdate of another paired device, received while a command waits for
   its answer, takes the controller to `AuthSendChallenge`; the comment in
   `processResponse` says the wait goes on (`foreign_status`).
3. A 1W favourite command keeps three attempts, although "a second My can undo
   the first action" (`one_way_favourite`).
4. An imported identity that is already in use gets a second counter at zero,
   although such profiles "must share one sequence counter"
   (`one_way_shared_import`).

The following were seen when a stated property, or a passing one with a bound
lifted, was checked. The definition named is in the module, so that each can be
checked again with a configuration of its own; none is part of a run.

| Definition | What the code does |
|---|---|
| `Pairing!EndIsTold`, interruption "status" | The sending states of a pairing hand a frame to `dispatchRxFrame`; a StatusUpdate abandons the pairing with its telemetry InProgress (`IoHomeController.cpp:8614`), though line 5125 says unrelated frames are ignored |
| `OneWaySequence!NeverReplays`, `SharedClones` TRUE | A captured remote sets counter and mark to the number heard (`IoHomeController.cpp:3684`). `startOneWayKeyReceive` refuses a shared profile, but the identity is known only when the frame comes: another channel may count under it, or this one may have sent higher numbers, and the next command repeats a number, though line 3688 says it "remains safe across a restart" |
| `PassiveListen!ArmedListens` | The end of a key sniff, of a network scan, or the start of a discovery leaves `PassiveListening` while the 1W capture stays armed: it reports Listening and hears nothing (4777, 9102, 3398) |
| `PassiveListen!ClonesOwnProfile` | `startOneWayKeyReceive` refuses a shared profile, `handleOneWayKeyReceiveFrame` does not look again (3653) |
| `Discovery!AltFollows`, `Automatic` TRUE | After the classic 0x28 the handler waits for a radio that stays Transmitting because nobody calls `isTxDone` (7634): the 0x2E is not sent and the discovery hangs |
| `Discovery!KoTellsDiscovery` | The input handler sets the object also when the start was refused; nothing resets it (`IoHomecontrol.cpp:2171`, 1471) |
| `CommandScan!FoundMeansAnswered` | At the end of a window a command that got no answer in this pass is recorded as answered (7848) |
| `CommandScan!SupportedIsByCode` | The bits are places in the list; readers take them for command codes (7871, `IoHomeRemoteMap.cpp:281`) |
| `KeyImport!GoesOnAfterWindow` | Polls held back leave the queue in the pass that ends the session, and the workflow fails because the controller is not Idle (`IoHomecontrol.cpp:827`) |
| `KeyImport!ShowsAllDiscovered` | An idle controller counts as the end of a directed discovery that is still in the queue; the later answer is dropped (`IoHomecontrol.cpp:871`) |
| `KeyImport!AdoptsTheGateway` without `sniffs = 0` | A passive sniff during an import is taken for its key (`IoHomecontrol.cpp:682`) |
| `ChannelPolls!MotionEndNoticed`, `Interval` 0 | A "moving" answer without a travel time, after the last follow-up, is followed by no poll (`IoHomecontrolChannel.cpp:582`) |
| `ChannelTravel!RejectedStopResumes`, with `goal` kept by a second STOP | A STOP commanded while another is on its way takes a snapshot of the travel already stopped (`IoHomecontrolChannel.cpp:1072`): when both are refused nothing goes on |
| `ChannelTravel!FeedbackSettles`, `OneWay` TRUE | `mIsMoving` is set by a status only: the position of a 1W channel never changes, and its step/stop object never stops (1522) |
| `ChannelTravel!FeedbackFollowsEstimate` without `behind` | `onEstimate` moves `mCurrentPosition` back to the running estimate after the report was shown; the object shows the reported position until the estimate changes again (`IoHomecontrolChannel.cpp:734`) |
| `ChannelTravel!ReportedIsTaken` | A report of rest is overwritten by the estimate it ends (567) |
| `ChannelObjects!RestartHoldsStill` | `writeFlash` stores no position and the bus objects start empty: a channel that restores its last position is sent to the value 0 (`IoHomecontrolChannel.cpp:1335`), though the manual (`doc/Applikationsbeschreibung-IoHomecontrol.md:474`) promises the last position reported |
| `RemoteMap!LastHeardShown` | The object is written when the count grows only: not for an address heard again, nor with a full ring (`IoHomecontrol.cpp:1489`) |
| `RadioSX1262!TransmitEnds`, `Stalls` TRUE | The chip's own transmit timeout is taken from the queue and dropped: the driver stays Transmitting until `standby` (`RadioSX1262.cpp:749`) |
| `RadioSX1262!CutsShort` never | `startReceive` has no look at the state: the timers of a key extraction (`IoHomeController.cpp:3459`), or a receiver restart left over by a refused command (`RadioSX1262.cpp:778`), end a transmission on the air |
| `RadioSX1262!ReceivingListens` without `strayed` | A standby of `setFrequency`, `setPreambleLength` or `startTransmit` that takes place and is reported refused leaves `mState` Receiving with the chip in standby: it hears nothing until another call starts it (`RadioSX1262.cpp:412`, 496, 533) |
| `RadioSX1276!ReadsWholeFrames` without `late` | A packet sent between `mDio0Fired = false` and the change of mode in `startReceive` leaves the note set; the next poll takes it for a frame, which may still be arriving (`RadioSX1276.cpp:382`) |
| `Exchange!PollFailureTold` without its exception | A tracked poll that ends with FailedBeforeAuthentication in `processIdle`, `processTxPending` or `processTxInProgress` is reported as an outcome, but `onStatusPollFailed` is not called (`IoHomeController.cpp:5389` to 5565): its channel waits for the periodic poll, if one is set |
| `PassiveListen!CapturedKeyIsRight` without `late` | A challenge that the radio missed, or that came while a pairing had the controller, is not known to the sniff, which reads the key with the one before (`IoHomeController.cpp:9086`) |

## 6. Not modelled

- **Duty cycle and listen before talk.** One accumulator per frequency, compared
  with 36 000 ms and reset at a fixed hour; a machine that meets it waits. It is a
  stutter in Exchange and the set `DutyFull` in ReceiveAuth. `waitForLbtClear`
  returns true always.
- **Encodings and cryptography** (`protocol`, PHY, CRC, HMAC): functions of their
  arguments that unit tests cover; keys, challenges and signatures are in the
  models as what they were made for. SPI framing, registers and modulation: values,
  not order.
- **Module dispatch, radio diagnostic, console, KNX function properties, ETS
  application, scripts**: text and configuration; what they call is an action of
  the module it reaches.
- **The 32-bit clock**: deadlines are what is left of them. A wrap of `millis()`, or
  a deadline that comes out as the value for none, costs one retry or poll in 49
  days.
- **Flash layout and versions**: only what boot restores of the sequences, remotes
  and scenes is modelled. Byte order in `readFlash` (two calls in one expression)
  is a matter of the compiler.
- **Slat positions, device information, text of scan records.**
