---------------------------- MODULE RadioSX1262 ----------------------------
(***************************************************************************)
(* The SX1262 driver: the main thread sends commands to the chip, and the  *)
(* DIO1 task, woken by the interrupt, reads the chip's flags, queues them  *)
(* for the main thread and clears them.  A mutex makes one command atomic, *)
(* and the task's reading and clearing, but not the several commands of a  *)
(* call, so the task runs between the steps of startTransmit,              *)
(* startReceive, isTxDone, isPacketAvailable and readPacket.               *)
(*                                                                         *)
(* A command that does not block may be refused (the mutex is held or BUSY *)
(* is high), and may have its effect and be reported refused (BUSY is high *)
(* after it).  The numbers of transmissions and of frames exist only here. *)
(***************************************************************************)
EXTENDS Naturals, Sequences

CONSTANTS
    Depth,              \* kPendingIrqDepth
    Contended,          \* whether commands may be refused or late
    Latency,            \* commands of the main thread the task may be behind
    Stalls,             \* whether the chip may give a transmission up (its own timeout)
    SoftwareTimeout,    \* whether the user of the driver calls standby()
    MaxTx, MaxFrames    \* bounds: transmissions started, frames on the air

RadioAssumption ==
    /\ Depth \in Nat /\ Depth > 1 /\ {Latency, MaxTx, MaxFrames} \subseteq Nat
    /\ {Contended, Stalls, SoftwareTimeout} \subseteq BOOLEAN

Flag == {"TxDone", "Timeout", "Sync", "RxDone", "CrcErr"}

VARIABLES
    chip,               \* the mode the chip is in: Standby, Rx, RxFrame (in a frame), Tx
    irq,                \* its interrupt flags
    onAir,              \* number of the transmission it was last given
    buffer,             \* number of the frame it received last
    event,              \* the task: 0 has nothing to do, n is n - 1 commands behind
    seen,               \* flags it has read and not cleared; it holds the mutex
    pending, sticky,    \* mPendingIrqQueue, mPendingIrqStickyMask
    mState,             \* Idle, Receiving, Transmitting
    restart,            \* mReceiveRestartPending
    phase,              \* mTxCompletionPhase
    early,              \* mEarlyRxFrame: number of the frame, 0 when there is none
    pc,                 \* where the main thread is in a call
    polled,             \* flags it has read and not cleared
    started,            \* transmissions given to the chip
    wentOut, reported,  \* transmissions that left the antenna, that isTxDone told of
    delivered, twice,   \* frames that readPacket returned, and whether one twice
    strayed             \* history: a standby that was done was reported refused
                        \* to a call that leaves it at that

hardware == <<chip, irq, onAir, buffer>>
task     == <<event, seen, pending, sticky>>
driver   == <<mState, restart, phase, early, pc, polled>>
history  == <<started, wentOut, reported, delivered, twice>>
vars == <<hardware, task, driver, history, strayed>>

Init ==
    /\ chip = "Standby" /\ irq = {} /\ onAir = 0 /\ buffer = 0
    /\ event = 0 /\ seen = {} /\ pending = <<>> /\ sticky = {}
    /\ mState = "Idle" /\ restart = FALSE /\ phase = "WaitingForIrq" /\ early = 0
    /\ pc = "ready" /\ polled = {}
    /\ started = 0 /\ wentOut = {} /\ reported = {} /\ delivered = {} /\ twice = FALSE
    /\ strayed = FALSE

-----------------------------------------------------------------------------
(* The chip *)

\* Flags that rise while none is set make an edge on DIO1.
Raise(flags) ==
    /\ irq' = irq \cup flags
    /\ event' = IF irq = {} /\ event = 0 THEN 1 ELSE event
    /\ UNCHANGED <<seen, pending, sticky>>

TxEnds(flag) ==
    /\ flag = "Timeout" => Stalls
    /\ chip = "Tx" /\ chip' = "Standby" /\ Raise({flag})
    /\ wentOut' = IF flag = "TxDone" THEN wentOut \cup {onAir} ELSE wentOut
    /\ UNCHANGED <<onAir, buffer, driver, started, reported, delivered, twice, strayed>>

\* A frame is received as long as the chip is left in its mode; the next one
\* overwrites it in the chip's buffer.
FrameStarts ==
    /\ chip = "Rx" /\ buffer < MaxFrames
    /\ chip' = "RxFrame" /\ buffer' = buffer + 1 /\ Raise({"Sync"})
    /\ UNCHANGED <<onAir, driver, history, strayed>>

FrameEnds(flags) ==
    /\ chip = "RxFrame" /\ chip' = "Rx" /\ Raise(flags)
    /\ UNCHANGED <<onAir, buffer, driver, history, strayed>>

Ends == {{"RxDone"}, {"RxDone", "CrcErr"}}

-----------------------------------------------------------------------------
(* The DIO1 task *)

\* Mutant: the ring is filled up, so that it looks empty.
EnqueueToTheFull(flags) ==
    IF Len(pending) < Depth
    THEN pending' = Append(pending, flags) /\ UNCHANGED sticky
    ELSE sticky' = sticky \cup flags /\ UNCHANGED pending
\* enqueuePendingIrq: one place of the ring stays empty
Enqueue(flags) ==
    IF Len(pending) < Depth - 1
    THEN pending' = Append(pending, flags) /\ UNCHANGED sticky
    ELSE sticky' = sticky \cup flags /\ UNCHANGED pending

\* handleQueuedDio1 takes the mutex and reads the flags,
ReadFlags ==
    /\ event > 0 /\ seen = {}
    /\ seen' = irq /\ event' = IF irq = {} THEN 0 ELSE event
    /\ UNCHANGED <<hardware, pending, sticky, driver, history, strayed>>

\* queues them and clears those it read. A flag that rose meanwhile stays, and wakes
\* the task only if an edge before its reading did so a second time.
ClearFlags ==
    /\ seen # {} /\ seen' = {} /\ Enqueue(seen)
    /\ irq' = irq \ seen
    /\ event' \in IF irq' = {} THEN {0} ELSE {0, 1}
    /\ UNCHANGED <<chip, onAir, buffer, driver, history, strayed>>

HandleDio1 == ReadFlags \/ ClearFlags

-----------------------------------------------------------------------------
(* The main thread.  Every step lets the task fall behind by one. *)

Outcome == IF Contended THEN {"done", "refused", "late"} ELSE {"done"}

At(place) ==
    /\ pc = place /\ event <= Latency
    /\ event' = IF event = 0 THEN 0 ELSE event + 1

\* A command needs the mutex: without blocking it is refused while the task has it.
Command(place, o) == At(place) /\ (seen # {} => o = "refused")

Queued == pending # <<>> \/ sticky # {}
Oldest == IF pending # <<>> THEN Head(pending) ELSE sticky

\* dequeuePendingIrq
Dequeue ==
    IF pending # <<>> THEN pending' = Tail(pending) /\ UNCHANGED sticky
    ELSE sticky' = {} /\ UNCHANGED pending

\* Mutant: the queue of interrupts is kept.
KeepQueue == UNCHANGED <<pending, sticky>>
\* What startTransmit and startReceive forget of earlier interrupts
Flush == pending' = <<>> /\ sticky' = {}

\* tryStandby
TryStandby(o) ==
    /\ chip' = IF o = "refused" THEN chip ELSE "Standby"
    /\ mState' = IF o = "done" THEN "Idle" ELSE mState

\* Done and reported refused, by a call that does not note a restart: mState stays.
Strays(o) == strayed' = (o = "late" \/ (o = "refused" /\ strayed))

\* setFrequency, setPreambleLength: standby, if the radio receives; their own command
\* changes a parameter of the chip only
Tune(o) ==
    /\ Command("ready", o) /\ mState = "Receiving" /\ TryStandby(o) /\ Strays(o)
    /\ UNCHANGED <<irq, onAir, buffer, seen, pending, sticky, restart, phase, early, pc, polled,
                   history>>

\* startTransmitInternal
StartTransmit(o) ==
    /\ Command("ready", o) /\ mState # "Transmitting" /\ started < MaxTx
    /\ TryStandby(o) /\ Strays(o)
    /\ pc' = IF o = "done" THEN "transmit" ELSE "ready"
    /\ UNCHANGED <<irq, onAir, buffer, seen, pending, sticky, restart, phase, early, polled, history>>

\* the frequency synthesiser, the packet parameters, the erratum, the payload
PrepareTransmit(o) ==
    /\ Command("transmit", o)
    /\ pc' = IF o = "done" THEN "flushTx" ELSE "ready"
    /\ UNCHANGED <<hardware, seen, pending, sticky, mState, restart, phase, early, polled, history,
                   strayed>>

FlushForTransmit ==
    /\ At("flushTx") /\ Flush /\ early' = 0 /\ pc' = "launch"
    /\ UNCHANGED <<hardware, seen, mState, restart, phase, polled, history, strayed>>

\* The flags after calls of which one was refused, the clearing or one behind it
PerhapsCleared == IF seen = {} THEN {irq, {}} ELSE {irq}

\* clearIrqStatus, configureTxIrqs, SET_TX
Launch(o) ==
    /\ Command("launch", o) /\ pc' = "ready"
    /\ \/ /\ o = "refused"
          /\ irq' \in PerhapsCleared /\ UNCHANGED <<chip, onAir, buffer, mState, phase, started>>
       \/ /\ o # "refused" /\ irq' = {} /\ chip' = "Tx"
          /\ onAir' = started + 1 /\ started' = started + 1 /\ UNCHANGED buffer
          /\ IF o = "done" THEN mState' = "Transmitting" /\ phase' = "WaitingForIrq"
             ELSE UNCHANGED <<mState, phase>>
    /\ UNCHANGED <<seen, pending, sticky, restart, early, polled, wentOut, reported, delivered, twice,
                   strayed>>

\* startReceiveInternal, whatever the radio does
ToReceive == pc' = "receive"

EnterReceive(o) ==
    /\ Command("receive", o)
    /\ TryStandby(o)
    /\ IF o = "done" THEN pc' = "flushRx" /\ UNCHANGED restart
       ELSE pc' = "ready" /\ restart' = TRUE
    /\ UNCHANGED <<irq, onAir, buffer, seen, pending, sticky, phase, early, polled, history, strayed>>

FlushForReceive ==
    /\ At("flushRx") /\ Flush /\ pc' = "listen"
    /\ UNCHANGED <<hardware, seen, mState, restart, phase, early, polled, history, strayed>>

\* applyPacketParams, clearIrqStatus, configureRxIrqs, SET_RX
Listen(o) ==
    /\ Command("listen", o) /\ pc' = "ready"
    /\ irq' \in IF o = "refused" THEN PerhapsCleared ELSE {{}}
    /\ chip' = IF o = "refused" THEN chip ELSE "Rx"
    /\ IF o = "done"
       THEN /\ mState' = "Receiving" /\ restart' = FALSE /\ phase' = "WaitingForIrq"
            /\ strayed' = FALSE
       ELSE restart' = TRUE /\ UNCHANGED <<mState, phase, strayed>>
    /\ UNCHANGED <<onAir, buffer, seen, pending, sticky, early, polled, history>>

\* startReceive, called by the controller in any state of the radio
StartReceive ==
    /\ At("ready") /\ ToReceive
    /\ UNCHANGED <<hardware, seen, pending, sticky, mState, restart, phase, early, polled, history,
                   strayed>>

-----------------------------------------------------------------------------
(* isTxDone *)

\* A queued interrupt; anything but TxDone is dropped, the chip's own timeout included.
TxPollQueue ==
    /\ At("ready") /\ mState = "Transmitting" /\ phase = "WaitingForIrq" /\ Queued
    /\ Dequeue
    /\ IF "TxDone" \in Oldest THEN phase' = "ClearIrqPending" /\ pc' = "txClear"
       ELSE UNCHANGED <<phase, pc>>
    /\ UNCHANGED <<hardware, seen, mState, restart, early, polled, history, strayed>>

\* Nothing queued: the chip is asked; a reading that is refused changes nothing.
TxPollChip ==
    /\ Command("ready", "done") /\ mState = "Transmitting" /\ phase = "WaitingForIrq"
    /\ ~Queued /\ irq # {}
    /\ IF "TxDone" \in irq THEN phase' = "ClearIrqPending" /\ pc' = "txClear"
       ELSE pc' = "txDrop" /\ UNCHANGED phase
    /\ UNCHANGED <<hardware, seen, pending, sticky, mState, restart, early, polled, history, strayed>>

\* Flags of anything else are cleared, all there are by then.
TxDrop(o) ==
    /\ Command("txDrop", o) /\ pc' = "ready"
    /\ irq' = IF o = "refused" THEN irq ELSE {}
    /\ UNCHANGED <<chip, onAir, buffer, seen, pending, sticky, mState, restart, phase, early, polled,
                   history, strayed>>

\* Mutant: the completion is forgotten when the flags cannot be cleared.
TxClearForgets(o) ==
    /\ phase = "ClearIrqPending" /\ mState = "Transmitting"
    /\ Command("txClear", o) \/ Command("ready", o)
    /\ pc' = "ready" /\ phase' = "WaitingForIrq"
    /\ irq' = IF o = "refused" THEN irq ELSE {}
    /\ IF o = "done" THEN mState' = "Idle" /\ reported' = reported \cup {onAir}
       ELSE UNCHANGED <<mState, reported>>
    /\ UNCHANGED <<chip, onAir, buffer, seen, pending, sticky, restart, early, polled, started,
                   wentOut, delivered, twice, strayed>>
\* advanceTxDoneCleanup, in the same call or, when it was refused, in a later one
TxClear(o) ==
    /\ phase = "ClearIrqPending" /\ mState = "Transmitting"
    /\ Command("txClear", o) \/ Command("ready", o)
    /\ pc' = "ready"
    /\ irq' = IF o = "refused" THEN irq ELSE {}
    /\ IF o = "done"
       THEN mState' = "Idle" /\ phase' = "WaitingForIrq" /\ reported' = reported \cup {onAir}
       ELSE UNCHANGED <<mState, phase, reported>>
    /\ UNCHANGED <<chip, onAir, buffer, seen, pending, sticky, restart, early, polled, started,
                   wentOut, delivered, twice, strayed>>

\* standby(), which blocks: the user's timeout of a transmission, startPairing, ...
Standby ==
    /\ Command("ready", "done") /\ SoftwareTimeout
    /\ chip' = "Standby" /\ mState' = "Idle" /\ phase' = "WaitingForIrq"
    /\ UNCHANGED <<irq, onAir, buffer, seen, pending, sticky, restart, early, pc, polled, history,
                   strayed>>

-----------------------------------------------------------------------------
(* isPacketAvailable and readPacket, which loop() calls together *)

Deliver(n) ==
    /\ delivered' = delivered \cup {n} /\ twice' = (twice \/ n \in delivered)
    /\ UNCHANGED <<started, wentOut, reported>>

ReadEarly ==
    /\ At("ready") /\ early # 0 /\ Deliver(early) /\ early' = 0
    /\ UNCHANGED <<hardware, seen, pending, sticky, mState, restart, phase, pc, polled, strayed>>

\* isPacketAvailable: a receiver that could not be started is started again
Restart ==
    /\ At("ready") /\ early = 0 /\ restart /\ ToReceive
    /\ UNCHANGED <<hardware, seen, pending, sticky, mState, restart, phase, early, polled, history,
                   strayed>>

Polls == early = 0 /\ ~restart /\ mState = "Receiving"

\* What isPacketAvailable makes of flags: a frame to read, a frame with a CRC error, which
\* is dropped while the receiver goes on, a frame on its way, which
\* tryCompleteSoftwarePhyFromLength waits for, or nothing.
Interpret(flags) ==
    \/ "RxDone" \in flags /\ "CrcErr" \notin flags /\ pc' = "read" /\ UNCHANGED early
    \/ "RxDone" \notin flags /\ "Sync" \in flags /\ pc' = "rearm" /\ early' = buffer
    \/ ("RxDone" \in flags => "CrcErr" \in flags) /\ pc' = "ready" /\ UNCHANGED early

RxPollQueue ==
    /\ At("ready") /\ Polls /\ Queued /\ Dequeue /\ Interpret(Oldest)
    /\ UNCHANGED <<hardware, seen, mState, restart, phase, polled, history, strayed>>

\* Nothing queued: the chip is asked,
RxPollChip ==
    /\ Command("ready", "done") /\ Polls /\ ~Queued /\ irq # {}
    /\ polled' = irq /\ pc' = "rxClear"
    /\ UNCHANGED <<hardware, seen, pending, sticky, mState, restart, phase, early, history, strayed>>

\* and cleared: with RxDone of all flags there are by then, else of those read. What was
\* read is lost if that is refused, or reported so.
RxClear(o) ==
    /\ Command("rxClear", o)
    /\ irq' = IF o = "refused" THEN irq ELSE irq \ (IF "RxDone" \in polled THEN Flag ELSE polled)
    /\ polled' = {}
    /\ IF o = "done" THEN Interpret(polled) ELSE pc' = "ready" /\ UNCHANGED early
    /\ UNCHANGED <<chip, onAir, buffer, seen, pending, sticky, mState, restart, phase, history, strayed>>

\* readPacket: a reading that is refused, or finds no frame, returns nothing
ReadPacket(o) ==
    /\ Command("read", o) /\ ToReceive
    /\ (o = "done" /\ Deliver(buffer)) \/ UNCHANGED history
    /\ UNCHANGED <<hardware, seen, pending, sticky, mState, restart, phase, early, polled, strayed>>

\* The end of tryCompleteSoftwarePhyFromLength, which blocks
Rearm ==
    /\ Command("rearm", "done") /\ irq' = {} /\ ToReceive
    /\ UNCHANGED <<chip, onAir, buffer, seen, pending, sticky, mState, restart, phase, early, polled,
                   history, strayed>>

-----------------------------------------------------------------------------

IsTxDone(o) == TxPollQueue \/ TxPollChip \/ TxDrop(o) \/ TxClear(o)

IsPacketAvailable(o) == Restart \/ RxPollQueue \/ RxPollChip \/ RxClear(o) \/ Rearm

StartsTransmit(o) == StartTransmit(o) \/ PrepareTransmit(o) \/ FlushForTransmit \/ Launch(o)

StartsReceive(o) == StartReceive \/ EnterReceive(o) \/ FlushForReceive \/ Listen(o)

Next ==
    \/ \E flag \in {"TxDone", "Timeout"} : TxEnds(flag)
    \/ FrameStarts \/ \E flags \in Ends : FrameEnds(flags)
    \/ HandleDio1 \/ Standby \/ ReadEarly
    \/ \E o \in Outcome : \/ StartsTransmit(o) \/ StartsReceive(o) \/ Tune(o)
                          \/ IsTxDone(o) \/ IsPacketAvailable(o) \/ ReadPacket(o)

\* A call that was begun goes on.
Proceed(o) ==
    \/ PrepareTransmit(o) \/ FlushForTransmit \/ Launch(o)
    \/ EnterReceive(o) \/ FlushForReceive \/ Listen(o)
    \/ TxDrop(o) \/ RxClear(o) \/ Rearm \/ ReadPacket(o)

Spec == Init /\ [][Next]_vars

-----------------------------------------------------------------------------
(* Properties *)

TypeOK ==
    /\ chip \in {"Standby", "Rx", "RxFrame", "Tx"} /\ irq \subseteq Flag
    /\ onAir \in 0 .. MaxTx /\ buffer \in 0 .. MaxFrames /\ early \in 0 .. MaxFrames
    /\ Len(pending) < Depth /\ sticky \subseteq Flag /\ event \in Nat
    /\ seen \subseteq irq /\ polled \subseteq Flag
    /\ mState \in {"Idle", "Receiving", "Transmitting"}
    /\ phase \in {"WaitingForIrq", "ClearIrqPending"}
    /\ {restart, twice, strayed} \subseteq BOOLEAN /\ started \in 0 .. MaxTx

\* isTxDone tells of a transmission only when it left the antenna: an interrupt of an
\* earlier one, read twice or read late, is not taken for it.
ReportedWentOut == reported \subseteq wentOut

\* A frame is handed to the protocol once, although the interrupt of its sync word and
\* that of its end, and the chip's flags and their queued copy, each announce it.
DeliveredOnce == ~twice

\* A driver that says it receives has a chip that receives, or knows that it must start
\* it again, however commands are refused, done late or overtaken by the controller.  The
\* exception is a standby of setFrequency, setPreambleLength or startTransmit that is done
\* and reported refused: these calls, unlike startReceive, leave no note of it.
ReceivingListens == mState = "Receiving" => chip \in {"Rx", "RxFrame"} \/ restart \/ strayed

\* A call other than standby() takes the chip out of a transmission the driver accepted:
\* startReceive does so in any state, and so does the restart that a refused one leaves.
CutsShort ==
    /\ mState = "Transmitting" /\ chip = "Tx" /\ chip' # "Tx"
    /\ irq' = irq /\ ~Standby

\* A transmission ends for the driver: the end the chip tells of is not lost, whoever
\* reads the flag and however often clearing it is refused.
TransmitEnds == mState = "Transmitting" ~> mState # "Transmitting"
=============================================================================
