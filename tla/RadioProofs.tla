---------------------------- MODULE RadioProofs ----------------------------
(***************************************************************************)
(* What the SX1262 driver can be relied on for, with a ring of any depth,  *)
(* any number of transmissions and frames, commands that are refused or    *)
(* late, and a task that falls behind: by no more than two commands for a  *)
(* transmission, by no more than one for a received frame.                 *)
(* The SX1276 needs no such bound: it has no task and no queue.            *)
(***************************************************************************)
EXTENDS Radio, TLAPS

Places == {"ready", "transmit", "flushTx", "launch", "receive", "flushRx", "listen", "txClear",
           "txDrop", "rxClear", "read", "rearm"}
RxFlags == {"Sync", "RxDone"}
TxFlags == {"TxDone", "Timeout"}

\* A flag the main thread finds in what the task has queued for it.
Noted(f) == f \in sticky \/ \E i \in DOMAIN pending : f \in pending[i]

Told(f) == f \in irq \/ Noted(f)

TypeInv ==
    /\ TypeOK
    /\ pending \in Seq(SUBSET Flag) /\ pc \in Places
    /\ delivered \subseteq 0 .. buffer /\ early <= buffer

\* The flags of a transmission wait for the task, and are alone, so that one that is set before
\* a command is still there after it only if the task is behind by that command.  Flags of a
\* reception may rise between the task's reading and its clearing and then wake nobody.
WakeInv ==
    /\ \A f \in TxFlags : f \in irq =>
           /\ event > 0
           /\ chip = "Standby"
           /\ seen # {} => seen = irq
    /\ seen # {} => event > 0

\* On its way to a transmission or a reception the driver is Idle and the chip in neither;
\* isTxDone is in a call while it transmits, isPacketAvailable while it receives.
PlaceInv ==
    /\ pc \in {"transmit", "flushTx", "launch"} => started < MaxTx
    /\ pc \in {"transmit", "flushTx", "launch", "flushRx", "listen"} =>
           mState = "Idle" /\ chip = "Standby"
    /\ pc = "txDrop" => mState = "Transmitting"
    /\ pc = "rxClear" => mState = "Receiving" /\ ~restart
    /\ pc \in {"rxClear", "read"} => early = 0
    /\ chip = "Tx" => irq = {}

\* A TxDone that can be seen during a transmission is its own: one of an earlier transmission
\* is older than the commands up to the flush, and the task has taken it before the flush.
TxInv ==
    /\ mState = "Transmitting" /\ (phase = "ClearIrqPending" \/ Told("TxDone")) =>
           onAir \in wentOut
    /\ pc = "transmit" /\ "TxDone" \in irq => event > 1
    /\ pc = "flushTx" /\ "TxDone" \in irq => event > 2
    /\ pc = "launch" => ~ Told("TxDone")

\* What the receiver that runs can be told of the frame in the chip's buffer.
Announced ==
    \/ chip = "RxFrame" \/ \E f \in RxFlags : Told(f)
    \/ pc = "rxClear" /\ \E f \in RxFlags : f \in polled

\* It is of a frame not handed over yet: of earlier frames the start of the receiver leaves
\* at most flags that do not wake the task, and clears them.
RxInv ==
    /\ early # 0 => early \notin delivered
    /\ pc = "flushRx" => /\ seen = {} \/ seen = irq
                         /\ \A f \in RxFlags : f \in irq => event # 1
    /\ pc = "listen" => \A f \in RxFlags : /\ ~ Noted(f)
                                           /\ f \in irq => event = 0
    /\ pc \in {"ready", "rxClear"} /\ mState = "Receiving" /\ ~ restart /\ Announced =>
           buffer # early /\ buffer \notin delivered
    /\ pc = "read" => buffer \notin delivered

-----------------------------------------------------------------------------
(* Flags and the queue *)

\* The bounds are numbers.
LEMMA ConstantsTyped ==
    ASSUME RadioAssumption
    PROVE  /\ Depth \in Nat /\ Depth > 1 /\ Latency \in Nat /\ MaxTx \in Nat /\ MaxFrames \in Nat
  BY DEF RadioAssumption

\* The task adds the chip's flags to what is queued, and never fills the ring.
LEMMA EnqueueNotes ==
    ASSUME RadioAssumption, TypeInv, NEW flags \in SUBSET Flag, Enqueue(flags)
    PROVE  /\ pending' \in Seq(SUBSET Flag) /\ Len(pending') < Depth /\ sticky' \subseteq Flag
           /\ \A f : Noted(f)' => Noted(f) \/ f \in flags
  <1>1. pending \in Seq(SUBSET Flag) /\ sticky \subseteq Flag /\ Len(pending) < Depth
    BY DEF TypeInv, TypeOK
  <1>2. CASE Len(pending) < Depth - 1
    <2>1. pending' = Append(pending, flags) /\ sticky' = sticky
      BY <1>2 DEF Enqueue
    <2>2. /\ pending' \in Seq(SUBSET Flag) /\ Len(pending') = Len(pending) + 1
          /\ \A i \in DOMAIN pending' : pending'[i] = flags \/ (i \in DOMAIN pending /\ pending'[i] = pending[i])
      BY <1>1, <2>1
    <2>3. Len(pending') < Depth
      BY <1>1, <1>2, <2>2, ConstantsTyped
    <2> QED BY <1>1, <2>1, <2>2, <2>3 DEF Noted
  <1>3. CASE ~ (Len(pending) < Depth - 1)
    <2>1. sticky' = sticky \cup flags /\ pending' = pending
      BY <1>3 DEF Enqueue
    <2> QED BY <1>1, <2>1 DEF Noted
  <1> QED BY <1>2, <1>3

\* The main thread takes from the queue what was noted in it.
LEMMA DequeueNotes ==
    ASSUME TypeInv, Dequeue
    PROVE  /\ pending' \in Seq(SUBSET Flag) /\ Len(pending') <= Len(pending)
           /\ sticky' \subseteq Flag
           /\ \A f : Noted(f)' => Noted(f)
           /\ \A f : f \in Oldest => Noted(f)
  <1>1. pending \in Seq(SUBSET Flag) /\ sticky \subseteq Flag
    BY DEF TypeInv, TypeOK
  <1>2. CASE pending # <<>>
    <2>1. pending' = Tail(pending) /\ sticky' = sticky /\ Oldest = pending[1] /\ 1 \in DOMAIN pending
      BY <1>1, <1>2 DEF Dequeue, Oldest
    <2>2. /\ pending' \in Seq(SUBSET Flag) /\ Len(pending') = Len(pending) - 1
          /\ \A i \in DOMAIN pending' : i + 1 \in DOMAIN pending /\ pending'[i] = pending[i + 1]
      BY <1>1, <1>2, <2>1
    <2>3. Len(pending') <= Len(pending)
      BY <1>1, <2>2
    <2> QED BY <1>1, <2>1, <2>2, <2>3 DEF Noted
  <1>3. CASE pending = <<>>
    BY <1>1, <1>3 DEF Dequeue, Oldest, Noted
  <1> QED BY <1>2, <1>3

\* A flush leaves nothing.
LEMMA FlushNotes ==
    ASSUME Flush
    PROVE  /\ pending' \in Seq(SUBSET Flag) /\ Len(pending') = 0 /\ sticky' \subseteq Flag
           /\ \A f : ~ Noted(f)'
  BY DEF Flush, Noted

\* A command begins with a task that is not too far behind, and lets it fall behind by one.
LEMMA CommandFallsBehind ==
    ASSUME NEW place, At(place), event \in Nat, Latency \in Nat
    PROVE  /\ pc = place /\ event <= Latency
           /\ event' \in Nat
           /\ event = 0 => event' = 0
           /\ event > 0 => event' = event + 1
  BY DEF At

\* What is not touched stays noted, and nothing else does.
LEMMA KeptNotes ==
    ASSUME UNCHANGED <<pending, sticky>>
    PROVE  \A f : Noted(f)' <=> Noted(f)
  BY DEF Noted

Base == TypeInv /\ WakeInv /\ PlaceInv

\* A step of the main thread takes flags from the chip only when the task holds none, and does
\* not start the chip while a transmission's flag is set: the task is still woken for it.
LEMMA MainWakes ==
    ASSUME RadioAssumption, Base, NEW place, At(place), UNCHANGED seen,
           irq' = irq \/ (seen = {} /\ irq' \subseteq irq),
           chip' = chip \/ chip' = "Standby" \/ irq' = {}
    PROVE  /\ WakeInv' /\ irq' \subseteq Flag /\ seen' \subseteq irq' /\ event' \in Nat
           /\ pc = place
  <1>1. /\ event \in Nat /\ Latency \in Nat /\ irq \subseteq Flag /\ seen \subseteq irq
    BY ConstantsTyped DEF Base, TypeInv, TypeOK
  <1>2. /\ pc = place /\ event' \in Nat /\ (event > 0 => event' > 0)
    BY <1>1, CommandFallsBehind
  <1>3. irq' \subseteq irq /\ seen' \subseteq irq'
    BY <1>1
  <1>4. ASSUME NEW f \in TxFlags, f \in irq'
        PROVE  event' > 0 /\ chip' = "Standby" /\ (seen' # {} => seen' = irq')
    BY <1>2, <1>3, <1>4 DEF Base, WakeInv
  <1>5. seen' # {} => event' > 0
    BY <1>2 DEF Base, WakeInv
  <1> QED BY <1>1, <1>2, <1>3, <1>4, <1>5 DEF WakeInv

-----------------------------------------------------------------------------
(* Types and places *)

\* The driver starts Idle, with nothing queued.
LEMMA InitBase == RadioAssumption /\ Init => Base
  <1> SUFFICES ASSUME RadioAssumption, Init PROVE Base
    OBVIOUS
  <1>1. 0 \in 0 .. MaxTx /\ 0 \in 0 .. MaxFrames /\ 0 < Depth
    BY ConstantsTyped
  <1>2. pending \in Seq(SUBSET Flag) /\ Len(pending) < Depth
    BY <1>1 DEF Init
  <1>3. TypeOK
    BY <1>1, <1>2 DEF Init, TypeOK, Flag
  <1>4. delivered \subseteq 0 .. buffer /\ early <= buffer /\ pc \in Places
    BY DEF Init, Places
  <1> QED
    BY <1>2, <1>3, <1>4 DEF Init, Base, TypeInv, WakeInv, PlaceInv

\* The calls that lead to a transmission or a reception.
LEMMA StartBase ==
    ASSUME RadioAssumption, Base, NEW o \in Outcome, StartsTransmit(o) \/ StartsReceive(o)
    PROVE  Base'
  <1> USE DEF hardware, driver, history, Command
  <1>1. /\ Len(pending) < Depth /\ 0 < Depth /\ pending \in Seq(SUBSET Flag)
        /\ started \in Nat /\ MaxTx \in Nat /\ MaxFrames \in Nat
    BY ConstantsTyped DEF Base, TypeInv, TypeOK
  <1>b. TypeInv /\ PlaceInv
    BY DEF Base
  <1>2. CASE PrepareTransmit(o)
    <2>1. /\ WakeInv' /\ irq' \subseteq Flag /\ seen' \subseteq irq' /\ event' \in Nat
          /\ pc = "transmit"
      BY <1>2, MainWakes DEF PrepareTransmit
    <2> QED BY <1>b, <1>2, <2>1 DEF PrepareTransmit, Base, TypeInv, TypeOK, PlaceInv, Places
  <1>3. CASE FlushForTransmit
    <2>1. /\ WakeInv' /\ irq' \subseteq Flag /\ seen' \subseteq irq' /\ event' \in Nat
          /\ pc = "flushTx"
      BY <1>3, MainWakes DEF FlushForTransmit
    <2>2. pending' \in Seq(SUBSET Flag) /\ Len(pending') < Depth /\ sticky' \subseteq Flag
      BY <1>1, <1>3, FlushNotes DEF FlushForTransmit
    <2>3. TypeInv'
      BY <1>b, <1>1, <1>3, <2>1, <2>2 DEF FlushForTransmit, TypeInv, TypeOK, Places
    <2>4. PlaceInv'
      BY <1>b, <1>3, <2>1 DEF FlushForTransmit, PlaceInv
    <2> QED BY <2>1, <2>3, <2>4 DEF Base
  <1>4. CASE Launch(o)
    <2>1. irq' = irq \/ (seen = {} /\ irq' \subseteq irq)
      BY <1>4 DEF Launch, PerhapsCleared
    <2>2. chip' = chip \/ (chip' = "Tx" /\ irq' = {})
      BY <1>4 DEF Launch
    <2>3. /\ WakeInv' /\ irq' \subseteq Flag /\ seen' \subseteq irq' /\ event' \in Nat
          /\ pc = "launch"
      BY <1>4, <2>1, <2>2, MainWakes DEF Launch
    <2>4. started + 1 \in 0 .. MaxTx
      BY <1>1, <1>b, <2>3 DEF PlaceInv
    <2>5. TypeInv'
      BY <1>b, <1>4, <2>2, <2>3, <2>4 DEF Launch, TypeInv, TypeOK, Places
    <2>6. PlaceInv'
      BY <1>b, <1>4, <2>2, <2>3 DEF Launch, PlaceInv
    <2> QED BY <2>3, <2>5, <2>6 DEF Base
  <1>5. CASE EnterReceive(o)
    <2>1. chip' = chip \/ chip' = "Standby"
      BY <1>5 DEF EnterReceive, TryStandby
    <2>2. /\ WakeInv' /\ irq' \subseteq Flag /\ seen' \subseteq irq' /\ event' \in Nat
          /\ pc = "receive"
      BY <1>5, <2>1, MainWakes DEF EnterReceive
    <2>3. TypeInv'
      BY <1>b, <1>5, <2>1, <2>2 DEF EnterReceive, TryStandby, TypeInv, TypeOK, Places
    <2>4. PlaceInv'
      BY <1>b, <1>5, <2>2 DEF EnterReceive, TryStandby, PlaceInv
    <2> QED BY <2>2, <2>3, <2>4 DEF Base
  <1>6. CASE FlushForReceive
    <2>1. /\ WakeInv' /\ irq' \subseteq Flag /\ seen' \subseteq irq' /\ event' \in Nat
          /\ pc = "flushRx"
      BY <1>6, MainWakes DEF FlushForReceive
    <2>2. pending' \in Seq(SUBSET Flag) /\ Len(pending') < Depth /\ sticky' \subseteq Flag
      BY <1>1, <1>6, FlushNotes DEF FlushForReceive
    <2>3. TypeInv'
      BY <1>b, <1>6, <2>1, <2>2 DEF FlushForReceive, TypeInv, TypeOK, Places
    <2>4. PlaceInv'
      BY <1>b, <1>6, <2>1 DEF FlushForReceive, PlaceInv
    <2> QED BY <2>1, <2>3, <2>4 DEF Base
  <1>7. CASE Listen(o)
    <2>1. irq' = irq \/ (seen = {} /\ irq' \subseteq irq)
      BY <1>7 DEF Listen, PerhapsCleared
    <2>2. chip' = chip \/ (chip' = "Rx" /\ irq' = {})
      BY <1>7 DEF Listen
    <2>3. /\ WakeInv' /\ irq' \subseteq Flag /\ seen' \subseteq irq' /\ event' \in Nat
          /\ pc = "listen"
      BY <1>7, <2>1, <2>2, MainWakes DEF Listen
    <2>4. TypeInv'
      BY <1>b, <1>7, <2>2, <2>3 DEF Listen, TypeInv, TypeOK, Places
    <2>5. PlaceInv'
      BY <1>b, <1>7, <2>2, <2>3 DEF Listen, PlaceInv
    <2> QED BY <2>3, <2>4, <2>5 DEF Base
  <1>8. CASE StartTransmit(o)
    <2>1. /\ chip' = chip \/ chip' = "Standby"
          /\ strayed' \in BOOLEAN
      BY <1>b, <1>8 DEF StartTransmit, TryStandby, Strays, TypeInv, TypeOK
    <2>2. /\ WakeInv' /\ irq' \subseteq Flag /\ seen' \subseteq irq' /\ event' \in Nat
          /\ pc = "ready"
      BY <1>8, <2>1, MainWakes DEF StartTransmit
    <2>3. TypeInv'
      BY <1>b, <1>8, <2>1, <2>2 DEF StartTransmit, TryStandby, TypeInv, TypeOK, Places
    <2>4. PlaceInv'
      BY <1>b, <1>8, <2>2 DEF StartTransmit, TryStandby, PlaceInv
    <2> QED BY <2>2, <2>3, <2>4 DEF Base
  <1>9. CASE StartReceive
    <2>1. /\ WakeInv' /\ irq' \subseteq Flag /\ seen' \subseteq irq' /\ event' \in Nat
          /\ pc = "ready"
      BY <1>9, MainWakes DEF StartReceive
    <2> QED
      BY <1>b, <1>9, <2>1 DEF StartReceive, ToReceive, Base, TypeInv, TypeOK, PlaceInv, Places
  <1> QED
    BY <1>2, <1>3, <1>4, <1>5, <1>6, <1>7, <1>8, <1>9 DEF StartsTransmit, StartsReceive

\* The calls that ask for the end of a transmission and for packets.
LEMMA PollBase ==
    ASSUME RadioAssumption, Base, NEW o \in Outcome,
           IsTxDone(o) \/ IsPacketAvailable(o) \/ ReadPacket(o) \/ ReadEarly
    PROVE  Base'
  <1> USE DEF hardware, driver, history, Command
  <1>1. /\ Len(pending) < Depth /\ pending \in Seq(SUBSET Flag) /\ buffer \in 0 .. MaxFrames
        /\ MaxFrames \in Nat /\ delivered \subseteq 0 .. buffer /\ early <= buffer
        /\ early \in 0 .. MaxFrames /\ twice \in BOOLEAN /\ Depth \in Nat
    BY ConstantsTyped DEF Base, TypeInv, TypeOK
  <1>b. TypeInv /\ PlaceInv
    BY DEF Base
  <1>2. CASE TxPollQueue
    <2>1. /\ WakeInv' /\ irq' \subseteq Flag /\ seen' \subseteq irq' /\ event' \in Nat
          /\ pc = "ready"
      BY <1>2, MainWakes DEF TxPollQueue
    <2>2. pending' \in Seq(SUBSET Flag) /\ Len(pending') < Depth /\ sticky' \subseteq Flag
      BY <1>1, <1>2, <1>b, DequeueNotes DEF TxPollQueue
    <2>3. TypeInv'
      BY <1>b, <1>2, <2>1, <2>2 DEF TxPollQueue, TypeInv, TypeOK, Places
    <2>4. PlaceInv'
      BY <1>b, <1>2, <2>1 DEF TxPollQueue, PlaceInv
    <2> QED BY <2>1, <2>3, <2>4 DEF Base
  <1>3. CASE TxPollChip
    <2>1. /\ WakeInv' /\ irq' \subseteq Flag /\ seen' \subseteq irq' /\ event' \in Nat
          /\ pc = "ready"
      BY <1>3, MainWakes DEF TxPollChip
    <2> QED BY <1>b, <1>3, <2>1 DEF TxPollChip, Base, TypeInv, TypeOK, PlaceInv, Places
  <1>4. CASE TxDrop(o)
    <2>1. irq' = irq \/ (seen = {} /\ irq' = {})
      BY <1>4 DEF TxDrop
    <2>2. /\ WakeInv' /\ irq' \subseteq Flag /\ seen' \subseteq irq' /\ event' \in Nat
          /\ pc = "txDrop"
      BY <1>4, <2>1, MainWakes DEF TxDrop
    <2> QED BY <1>b, <1>4, <2>1, <2>2 DEF TxDrop, Base, TypeInv, TypeOK, PlaceInv, Places
  <1>5. CASE TxClear(o)
    <2>1. irq' = irq \/ (seen = {} /\ irq' = {})
      BY <1>5 DEF TxClear
    <2>2. PICK place \in {"txClear", "ready"} : At(place)
      BY <1>5 DEF TxClear
    <2>3. UNCHANGED <<seen, chip>>
      BY <1>5 DEF TxClear
    <2>4. /\ WakeInv' /\ irq' \subseteq Flag /\ seen' \subseteq irq' /\ event' \in Nat
          /\ pc = place
      BY <2>1, <2>2, <2>3, MainWakes
    <2>5. TypeInv'
      BY <1>b, <1>5, <2>4 DEF TxClear, TypeInv, TypeOK, Places
    <2>6. PlaceInv'
      BY <1>b, <1>5, <2>1 DEF TxClear, PlaceInv
    <2> QED BY <2>4, <2>5, <2>6 DEF Base
  <1>6. CASE ReadEarly
    <2>1. /\ WakeInv' /\ irq' \subseteq Flag /\ seen' \subseteq irq' /\ event' \in Nat
          /\ pc = "ready"
      BY <1>6, MainWakes DEF ReadEarly
    <2>2. /\ delivered' \subseteq 0 .. buffer /\ twice' \in BOOLEAN /\ 0 \in 0 .. MaxFrames
          /\ 0 <= buffer
      BY <1>1, <1>6 DEF ReadEarly, Deliver
    <2>3. TypeInv'
      BY <1>b, <1>6, <2>1, <2>2 DEF ReadEarly, Deliver, TypeInv, TypeOK, Places
    <2>4. PlaceInv'
      BY <1>b, <1>6, <2>1 DEF ReadEarly, Deliver, PlaceInv
    <2> QED BY <2>1, <2>3, <2>4 DEF Base
  <1>7. CASE Restart
    <2>1. /\ WakeInv' /\ irq' \subseteq Flag /\ seen' \subseteq irq' /\ event' \in Nat
          /\ pc = "ready"
      BY <1>7, MainWakes DEF Restart
    <2> QED
      BY <1>b, <1>7, <2>1 DEF Restart, ToReceive, Base, TypeInv, TypeOK, PlaceInv, Places
  <1>8. ASSUME NEW flags, Interpret(flags)
        PROVE  /\ pc' \in {"read", "rearm", "ready"} /\ early' \in 0 .. MaxFrames
               /\ early' <= buffer /\ (pc' = "read" => early' = early)
    BY <1>1, <1>8 DEF Interpret
  <1>9. CASE RxPollQueue
    <2>1. /\ WakeInv' /\ irq' \subseteq Flag /\ seen' \subseteq irq' /\ event' \in Nat
          /\ pc = "ready"
      BY <1>9, MainWakes DEF RxPollQueue
    <2>2. pending' \in Seq(SUBSET Flag) /\ Len(pending') < Depth /\ sticky' \subseteq Flag
      BY <1>1, <1>9, <1>b, DequeueNotes DEF RxPollQueue
    <2>3. /\ pc' \in {"read", "rearm", "ready"} /\ early' \in 0 .. MaxFrames
          /\ early' <= buffer /\ (pc' = "read" => early' = early)
      BY <1>8, <1>9 DEF RxPollQueue
    <2>4. TypeInv'
      BY <1>b, <1>9, <2>1, <2>2, <2>3 DEF RxPollQueue, TypeInv, TypeOK, Places
    <2>5. PlaceInv'
      BY <1>b, <1>9, <2>1, <2>3 DEF RxPollQueue, Polls, PlaceInv
    <2> QED BY <2>1, <2>4, <2>5 DEF Base
  <1>10. CASE RxPollChip
    <2>1. /\ WakeInv' /\ irq' \subseteq Flag /\ seen' \subseteq irq' /\ event' \in Nat
          /\ pc = "ready"
      BY <1>10, MainWakes DEF RxPollChip
    <2> QED
      BY <1>b, <1>10, <2>1 DEF RxPollChip, Polls, Base, TypeInv, TypeOK, PlaceInv, Places
  <1>11. CASE RxClear(o)
    <2>1. irq' = irq \/ (seen = {} /\ irq' \subseteq irq)
      BY <1>11 DEF RxClear
    <2>2. /\ WakeInv' /\ irq' \subseteq Flag /\ seen' \subseteq irq' /\ event' \in Nat
          /\ pc = "rxClear"
      BY <1>11, <2>1, MainWakes DEF RxClear
    <2>3. /\ pc' \in {"read", "rearm", "ready"} /\ early' \in 0 .. MaxFrames
          /\ early' <= buffer /\ (pc' = "read" => early' = early)
      BY <1>1, <1>8, <1>11 DEF RxClear
    <2>4. TypeInv'
      BY <1>b, <1>11, <2>2, <2>3 DEF RxClear, TypeInv, TypeOK, Places
    <2>5. PlaceInv'
      BY <1>b, <1>11, <2>1, <2>2, <2>3 DEF RxClear, PlaceInv
    <2> QED BY <2>2, <2>4, <2>5 DEF Base
  <1>12. CASE ReadPacket(o)
    <2>1. /\ WakeInv' /\ irq' \subseteq Flag /\ seen' \subseteq irq' /\ event' \in Nat
          /\ pc = "read"
      BY <1>12, MainWakes DEF ReadPacket
    <2>2. delivered' \subseteq 0 .. buffer /\ twice' \in BOOLEAN
      <3>1. buffer \in 0 .. buffer
        BY <1>1
      <3>2. CASE Deliver(buffer)
        BY <1>1, <3>1, <3>2 DEF Deliver
      <3>3. CASE UNCHANGED history
        BY <1>1, <3>3
      <3> QED BY <1>12, <3>2, <3>3 DEF ReadPacket
    <2>3. UNCHANGED <<started, wentOut, reported>> /\ pc' = "receive"
      BY <1>12 DEF ReadPacket, Deliver, ToReceive
    <2>4. TypeInv'
      BY <1>b, <1>12, <2>1, <2>2, <2>3 DEF ReadPacket, TypeInv, TypeOK, Places
    <2>5. PlaceInv'
      BY <1>b, <1>12, <2>1, <2>3 DEF ReadPacket, PlaceInv
    <2> QED BY <2>1, <2>4, <2>5 DEF Base
  <1>13. CASE Rearm
    <2>1. At("rearm") /\ seen = {} /\ irq' = {} /\ UNCHANGED <<seen, chip>> /\ pc' = "receive"
      BY <1>13 DEF Rearm, ToReceive
    <2>2. /\ WakeInv' /\ irq' \subseteq Flag /\ seen' \subseteq irq' /\ event' \in Nat
          /\ pc = "rearm"
      BY <2>1, MainWakes
    <2> QED
      BY <1>b, <1>13, <2>1, <2>2 DEF Rearm, Base, TypeInv, TypeOK, PlaceInv, Places
  <1> QED
    BY <1>2, <1>3, <1>4, <1>5, <1>6, <1>7, <1>9, <1>10, <1>11, <1>12, <1>13
       DEF IsTxDone, IsPacketAvailable

\* The types and the places are kept by every step.
LEMMA BaseStep ==
    ASSUME RadioAssumption, Base, [Next]_vars
    PROVE  Base'
  <1> USE DEF hardware, driver, history, Command
  <1>1. /\ event \in Nat /\ irq \subseteq Flag /\ seen \subseteq irq /\ Len(pending) < Depth
        /\ pending \in Seq(SUBSET Flag) /\ sticky \subseteq Flag
        /\ buffer \in 0 .. MaxFrames /\ MaxFrames \in Nat /\ early \in 0 .. MaxFrames
        /\ delivered \subseteq 0 .. buffer /\ early <= buffer
    BY ConstantsTyped DEF Base, TypeInv, TypeOK
  <1>b. TypeInv /\ PlaceInv /\ WakeInv
    BY DEF Base
  <1>2. ASSUME NEW flags \in SUBSET Flag, Raise(flags)
        PROVE  /\ irq' \subseteq Flag /\ seen' \subseteq irq' /\ event' \in Nat
               /\ (irq = {} /\ seen = {} => event' > 0) /\ event' >= event
               /\ UNCHANGED <<pending, sticky, seen>> /\ irq' = irq \cup flags
    BY <1>1, <1>2 DEF Raise
  <1>3. ASSUME NEW flag \in {"TxDone", "Timeout"}, TxEnds(flag) PROVE Base'
    <2>1. /\ {flag} \in SUBSET Flag /\ Raise({flag}) /\ chip = "Tx" /\ chip' = "Standby"
          /\ irq = {} /\ seen = {}
      BY <1>b, <1>1, <1>3 DEF TxEnds, Flag, PlaceInv
    <2>2. /\ irq' \subseteq Flag /\ seen' \subseteq irq' /\ event' \in Nat
          /\ event' > 0 /\ UNCHANGED <<pending, sticky, seen>>
      BY <1>2, <2>1
    <2>3. TypeInv'
      BY <1>b, <1>3, <2>1, <2>2 DEF TxEnds, TypeInv, TypeOK
    <2>4. WakeInv' /\ PlaceInv'
      BY <1>b, <1>3, <2>1, <2>2 DEF TxEnds, WakeInv, PlaceInv
    <2> QED BY <2>3, <2>4 DEF Base
  <1>4. CASE FrameStarts \/ \E flags \in Ends : FrameEnds(flags)
    <2>1. PICK flags \in {{"Sync"}, {"RxDone"}, {"RxDone", "CrcErr"}} :
              /\ Raise(flags) /\ chip \in {"Rx", "RxFrame"} /\ chip' \in {"Rx", "RxFrame"}
              /\ UNCHANGED <<onAir, driver, history, strayed>>
      BY <1>4 DEF FrameStarts, FrameEnds, Ends
    <2>2. flags \in SUBSET Flag /\ \A f \in TxFlags : f \notin irq /\ f \notin flags
      BY <1>b, <2>1 DEF WakeInv, TxFlags, Flag
    <2>3. /\ irq' \subseteq Flag /\ seen' \subseteq irq' /\ event' \in Nat
          /\ event' >= event /\ UNCHANGED <<pending, sticky, seen>> /\ irq' = irq \cup flags
      BY <1>2, <2>1, <2>2
    <2>4. buffer' \in 0 .. MaxFrames /\ delivered \subseteq 0 .. buffer' /\ early <= buffer'
      BY <1>1, <1>4 DEF FrameStarts, FrameEnds
    <2>5. TypeInv'
      BY <1>b, <2>1, <2>3, <2>4 DEF TypeInv, TypeOK
    <2>6. \A f \in TxFlags : f \notin irq'
      BY <2>2, <2>3
    <2>7. WakeInv'
      BY <1>b, <1>1, <2>3, <2>6 DEF WakeInv
    <2>8. PlaceInv'
      BY <1>b, <2>1 DEF PlaceInv
    <2> QED BY <2>5, <2>7, <2>8 DEF Base
  <1>5. CASE ReadFlags
    <2>1. /\ seen = {} /\ seen' = irq /\ event' \in Nat /\ UNCHANGED <<irq, chip>>
          /\ irq # {} => event' > 0
      BY <1>1, <1>5 DEF ReadFlags
    <2>2. TypeInv'
      BY <1>b, <1>1, <1>5, <2>1 DEF ReadFlags, TypeInv, TypeOK
    <2>3. WakeInv' /\ PlaceInv'
      BY <1>b, <1>5, <2>1 DEF ReadFlags, WakeInv, PlaceInv
    <2> QED BY <2>2, <2>3 DEF Base
  <1>6. CASE ClearFlags
    <2>1. pending' \in Seq(SUBSET Flag) /\ Len(pending') < Depth /\ sticky' \subseteq Flag
      BY <1>b, <1>1, <1>6, EnqueueNotes DEF ClearFlags
    <2>2. seen # {} /\ seen' = {} /\ irq' = irq \ seen /\ event' \in {0, 1} /\ chip' = chip
      BY <1>6 DEF ClearFlags
    <2>3. TypeInv'
      BY <1>b, <1>1, <1>6, <2>1, <2>2 DEF ClearFlags, TypeInv, TypeOK
    <2>4. \A f \in TxFlags : f \notin irq'
      BY <1>b, <2>2 DEF WakeInv
    <2>5. WakeInv'
      BY <2>2, <2>4 DEF WakeInv
    <2>6. PlaceInv'
      BY <1>b, <1>6, <2>2 DEF ClearFlags, PlaceInv
    <2> QED BY <2>3, <2>5, <2>6 DEF Base
  <1>7. CASE Standby
    <2>1. /\ WakeInv' /\ irq' \subseteq Flag /\ seen' \subseteq irq' /\ event' \in Nat
          /\ pc = "ready"
      BY <1>7, MainWakes DEF Standby
    <2> QED BY <1>b, <1>7, <2>1 DEF Standby, Base, TypeInv, TypeOK, PlaceInv
  <1>8. ASSUME NEW o \in Outcome, Tune(o) PROVE Base'
    <2>1. (chip' = chip \/ chip' = "Standby") /\ strayed' \in BOOLEAN
      BY <1>b, <1>8 DEF Tune, TryStandby, Strays, TypeInv, TypeOK
    <2>2. /\ WakeInv' /\ irq' \subseteq Flag /\ seen' \subseteq irq' /\ event' \in Nat
          /\ pc = "ready"
      BY <1>8, <2>1, MainWakes DEF Tune
    <2>3. TypeInv'
      BY <1>b, <1>8, <2>1, <2>2 DEF Tune, TryStandby, TypeInv, TypeOK
    <2>4. PlaceInv'
      BY <1>b, <1>8, <2>2 DEF Tune, TryStandby, PlaceInv
    <2> QED BY <2>2, <2>3, <2>4 DEF Base
  <1>9. CASE UNCHANGED vars
    BY <1>b, <1>9 DEF vars, task, Base, TypeInv, TypeOK, WakeInv, PlaceInv
  <1>10. CASE ReadEarly
    <2>1. "done" \in Outcome
      BY DEF Outcome
    <2> QED BY <1>10, <2>1, PollBase
  <1> QED
    BY <1>3, <1>4, <1>5, <1>6, <1>7, <1>8, <1>9, <1>10, StartBase, PollBase DEF Next, HandleDio1


-----------------------------------------------------------------------------
(* Transmissions *)

\* What could be seen before is all that can be seen after.
LEMMA NothingNew ==
    ASSUME RadioAssumption, TypeInv, UNCHANGED <<pending, sticky>> \/ Dequeue, irq' \subseteq irq
    PROVE  \A f : Told(f)' => Told(f)
  BY KeptNotes, DequeueNotes DEF Told

\* The task only moves the chip's flags to the queue.
LEMMA TaskTellsTheSame ==
    ASSUME RadioAssumption, TypeInv, HandleDio1
    PROVE  \A f : Told(f)' => Told(f)
  <1>1. CASE ReadFlags
    BY <1>1, NothingNew DEF ReadFlags, hardware
  <1>2. CASE ClearFlags
    <2>1. seen \in SUBSET Flag /\ seen \subseteq irq
      BY DEF TypeInv, TypeOK
    <2>2. \A f : Noted(f)' => Noted(f) \/ f \in seen
      BY <1>2, <2>1, EnqueueNotes DEF ClearFlags
    <2> QED BY <1>2, <2>1, <2>2 DEF ClearFlags, Told
  <1> QED BY <1>1, <1>2 DEF HandleDio1

\* A transmission that goes on tells no more than before, and one that ends tells nothing.
LEMMA TxStep ==
    ASSUME RadioAssumption, Latency <= 2, Base, TxInv, [Next]_vars
    PROVE  TxInv'
  <1> USE DEF hardware, driver, history, Command
  <1>1. /\ event \in Nat /\ Latency \in Nat /\ irq \subseteq Flag /\ seen \subseteq irq
    BY ConstantsTyped DEF Base, TypeInv, TypeOK
  <1> DEFINE Behind(place) == /\ pc = place /\ event <= Latency /\ event' \in Nat
                              /\ event > 0 => event' = event + 1
  <1>2. \A place : At(place) => Behind(place)
    BY <1>1, CommandFallsBehind
  <1>w. "TxDone" \in irq => event > 0
    BY DEF Base, WakeInv, TxFlags
  <1> DEFINE Quiet == \A f : Told(f)' => Told(f)
  <1>3. ASSUME UNCHANGED <<pending, sticky>> \/ Dequeue, irq' \subseteq irq PROVE Quiet
    BY <1>3, NothingNew DEF Base
  <1>4. ASSUME Flush, irq' \subseteq irq PROVE \A f : Told(f)' => f \in irq
    BY <1>4, FlushNotes DEF Told
  <1> HIDE DEF Quiet
  <1>5. ASSUME NEW flag \in {"TxDone", "Timeout"}, TxEnds(flag) PROVE TxInv'
    <2>1. /\ chip = "Tx" /\ irq = {} /\ irq' = {flag} /\ UNCHANGED <<pending, sticky, mState, pc, phase, onAir>>
          /\ wentOut' = IF flag = "TxDone" THEN wentOut \cup {onAir} ELSE wentOut
      BY <1>5 DEF TxEnds, Raise, Base, PlaceInv
    <2>2. \A f : Told(f)' => Told(f) \/ f = flag
      BY <2>1, KeptNotes DEF Told
    <2>3. pc \notin {"transmit", "flushTx", "launch"}
      BY <2>1 DEF Base, PlaceInv
    <2> QED BY <2>1, <2>2, <2>3 DEF TxInv
  <1>6. CASE FrameStarts \/ \E flags \in Ends : FrameEnds(flags)
    <2>1. PICK flags \in {{"Sync"}, {"RxDone"}, {"RxDone", "CrcErr"}} :
              /\ irq' = irq \cup flags /\ chip \in {"Rx", "RxFrame"}
              /\ UNCHANGED <<pending, sticky, mState, pc, phase, onAir, wentOut>>
      BY <1>6 DEF FrameStarts, FrameEnds, Raise, Ends
    <2>2. Told("TxDone")' => Told("TxDone")
      BY <2>1, KeptNotes DEF Told
    <2>3. pc \notin {"transmit", "flushTx", "launch"}
      BY <2>1 DEF Base, PlaceInv
    <2> QED BY <2>1, <2>2, <2>3 DEF TxInv
  <1>7. CASE HandleDio1
    <2>1. Quiet
      BY <1>7, TaskTellsTheSame DEF Base, Quiet
    <2>2. UNCHANGED <<mState, phase, onAir, wentOut, pc>>
      BY <1>7 DEF HandleDio1, ReadFlags, ClearFlags
    <2>3. irq' \subseteq irq /\ ("TxDone" \in irq' => event' = event)
      BY <1>7 DEF HandleDio1, ReadFlags, ClearFlags, Base, WakeInv, TxFlags
    <2> QED BY <2>1, <2>2, <2>3 DEF TxInv, Quiet
  <1>8. CASE Standby
    <2>1. Behind("ready")
      BY <1>2, <1>8 DEF Standby
    <2> QED BY <1>8, <2>1 DEF Standby, TxInv
  <1>9. ASSUME NEW o \in Outcome, Tune(o) PROVE TxInv'
    <2>1. Behind("ready")
      BY <1>2, <1>9 DEF Tune
    <2> QED BY <1>9, <2>1 DEF Tune, TryStandby, TxInv
  <1>10. CASE UNCHANGED vars
    <2>1. \A f : Told(f)' <=> Told(f)
      BY <1>10, KeptNotes DEF vars, task, Told
    <2> QED BY <1>10, <2>1 DEF vars, task, TxInv
  <1>11. ASSUME NEW o \in Outcome, PrepareTransmit(o) PROVE TxInv'
    <2>1. Behind("transmit")
      BY <1>2, <1>11 DEF PrepareTransmit
    <2>2. mState = "Idle"
      BY <2>1 DEF Base, PlaceInv
    <2> QED BY <1>1, <1>11, <2>1, <2>2 DEF PrepareTransmit, TxInv
  <1>12. CASE FlushForTransmit
    <2>1. Behind("flushTx")
      BY <1>2, <1>12 DEF FlushForTransmit
    <2>2. mState = "Idle" /\ "TxDone" \notin irq
      BY <1>1, <2>1 DEF Base, PlaceInv, TxInv
    <2>3. ~ Told("TxDone")'
      BY <1>4, <1>12, <2>2 DEF FlushForTransmit
    <2> QED BY <1>12, <2>2, <2>3 DEF FlushForTransmit, TxInv
  <1>13. ASSUME NEW o \in Outcome, Launch(o) PROVE TxInv'
    <2>1. Behind("launch")
      BY <1>2, <1>13 DEF Launch
    <2>2. mState = "Idle" /\ ~ Told("TxDone")
      BY <2>1 DEF Base, PlaceInv, TxInv
    <2>3. UNCHANGED <<pending, sticky>> /\ irq' \subseteq irq /\ pc' = "ready"
      BY <1>13 DEF Launch, PerhapsCleared
    <2>4. ~ Told("TxDone")'
      BY <1>3, <2>2, <2>3 DEF Quiet
    <2>5. mState' = "Transmitting" => phase' = "WaitingForIrq"
      BY <1>13, <2>2 DEF Launch
    <2> QED BY <2>3, <2>4, <2>5 DEF TxInv
  <1>14. ASSUME NEW o \in Outcome, EnterReceive(o) PROVE TxInv'
    <2>1. Quiet /\ pc' \in {"ready", "flushRx"}
      BY <1>3, <1>14 DEF EnterReceive
    <2>2. mState' = "Transmitting" => mState = "Transmitting"
      BY <1>14 DEF EnterReceive, TryStandby
    <2> QED BY <1>14, <2>1, <2>2 DEF EnterReceive, TxInv, Quiet
  <1>15. CASE FlushForReceive
    <2>1. Behind("flushRx")
      BY <1>2, <1>15 DEF FlushForReceive
    <2> QED BY <1>15, <2>1 DEF FlushForReceive, TxInv, Base, PlaceInv
  <1>16. ASSUME NEW o \in Outcome, Listen(o) PROVE TxInv'
    <2>1. Behind("listen")
      BY <1>2, <1>16 DEF Listen
    <2> QED BY <1>16, <2>1 DEF Listen, TxInv, Base, PlaceInv
  <1>17. ASSUME NEW o \in Outcome, StartTransmit(o) PROVE TxInv'
    <2>1. Behind("ready")
      BY <1>2, <1>17 DEF StartTransmit
    <2>2. mState' # "Transmitting" /\ pc' \in {"transmit", "ready"}
      BY <1>17 DEF StartTransmit, TryStandby
    <2>3. irq' = irq /\ ("TxDone" \in irq => event' > 1)
      BY <1>1, <1>w, <1>17, <2>1 DEF StartTransmit
    <2> QED BY <2>2, <2>3 DEF TxInv
  <1>18. CASE StartReceive \/ Restart \/ ReadEarly
    <2>1. Quiet /\ pc' \in {"receive", "ready"}
      BY <1>2, <1>3, <1>18 DEF StartReceive, Restart, ReadEarly, ToReceive
    <2>2. UNCHANGED <<mState, phase, onAir, wentOut>>
      BY <1>18 DEF StartReceive, Restart, ReadEarly, Deliver
    <2> QED BY <2>1, <2>2 DEF TxInv, Quiet
  <1>19. CASE TxPollQueue
    <2>1. Behind("ready") /\ Dequeue /\ Quiet
      BY <1>2, <1>3, <1>19 DEF TxPollQueue
    <2>2. "TxDone" \in Oldest => Told("TxDone")
      BY <2>1, DequeueNotes DEF Told, Base
    <2>3. /\ UNCHANGED <<mState, onAir, wentOut>> /\ pc' \in {"ready", "txClear"}
          /\ phase' = "ClearIrqPending" => phase = "ClearIrqPending" \/ "TxDone" \in Oldest
      BY <1>19, <2>1 DEF TxPollQueue
    <2> QED BY <2>1, <2>2, <2>3 DEF TxInv, Quiet
  <1>20. CASE TxPollChip
    <2>1. Behind("ready") /\ Quiet
      BY <1>2, <1>3, <1>20 DEF TxPollChip
    <2>2. /\ UNCHANGED <<mState, onAir, wentOut>> /\ pc' \in {"txDrop", "txClear"}
          /\ phase' = "ClearIrqPending" => phase = "ClearIrqPending" \/ "TxDone" \in irq
      BY <1>20, <2>1 DEF TxPollChip
    <2> QED BY <2>1, <2>2 DEF TxInv, Quiet, Told
  <1>21. ASSUME NEW o \in Outcome, TxDrop(o) \/ TxClear(o) PROVE TxInv'
    <2>1. Quiet /\ pc' = "ready" /\ UNCHANGED <<onAir, wentOut>>
      BY <1>3, <1>21 DEF TxDrop, TxClear
    <2>2. mState' = "Transmitting" => mState = "Transmitting" /\ phase' = phase
      BY <1>21 DEF TxDrop, TxClear
    <2> QED BY <2>1, <2>2 DEF TxInv, Quiet
  <1>22. ASSUME NEW o \in Outcome, RxPollQueue \/ RxPollChip \/ RxClear(o) PROVE TxInv'
    <2>1. mState = "Receiving" /\ mState' = mState
      BY <1>2, <1>22 DEF RxPollQueue, RxPollChip, RxClear, Polls, Base, PlaceInv
    <2>2. pc' \in {"ready", "read", "rearm", "rxClear"}
      BY <1>22 DEF RxPollQueue, RxPollChip, RxClear, Interpret
    <2> QED BY <2>1, <2>2 DEF TxInv
  <1>23. ASSUME NEW o \in Outcome, ReadPacket(o) \/ Rearm PROVE TxInv'
    <2>1. Quiet /\ pc' = "receive" /\ UNCHANGED <<mState, phase, onAir, wentOut>>
      BY <1>3, <1>23 DEF ReadPacket, Rearm, ToReceive, Deliver
    <2> QED BY <2>1 DEF TxInv, Quiet
  <1> QED
    BY <1>5, <1>6, <1>7, <1>8, <1>9, <1>10, <1>11, <1>12, <1>13, <1>14, <1>15, <1>16, <1>17, <1>18,
       <1>19, <1>20, <1>21, <1>22, <1>23
       DEF Next, StartsTransmit, StartsReceive, IsTxDone, IsPacketAvailable

-----------------------------------------------------------------------------
(* Received frames *)

\* What keeps RxInv when nothing is handed over and no frame ends or begins: the receiver is
\* the one that was running, and it tells no more than before.
LEMMA SameFrame ==
    ASSUME RxInv, UNCHANGED <<buffer, early, delivered>>,
           pc' \notin {"flushRx", "listen", "read"},
           (pc' \in {"ready", "rxClear"} /\ mState' = "Receiving" /\ ~ restart' /\ Announced') =>
               pc \in {"ready", "rxClear"} /\ mState = "Receiving" /\ ~ restart /\ Announced
    PROVE  RxInv'
  BY DEF RxInv

\* The receiver that is started sees nothing of the frame that was handed over.
LEMMA RxStep ==
    ASSUME RadioAssumption, Latency <= 1, Base, RxInv, [Next]_vars
    PROVE  RxInv' /\ (~ twice => ~ twice')
  <1> USE DEF hardware, driver, history, Command
  <1>1. /\ event \in Nat /\ Latency \in Nat /\ irq \subseteq Flag /\ seen \subseteq irq
        /\ buffer \in Nat /\ early \in Nat /\ early <= buffer /\ delivered \subseteq 0 .. buffer
    <2>1. /\ event \in Nat /\ Latency \in Nat /\ irq \subseteq Flag /\ seen \subseteq irq
          /\ buffer \in 0 .. MaxFrames /\ early \in 0 .. MaxFrames /\ MaxFrames \in Nat
          /\ early <= buffer /\ delivered \subseteq 0 .. buffer
      BY ConstantsTyped DEF Base, TypeInv, TypeOK
    <2> QED BY <2>1
  <1>b. PlaceInv
    BY DEF Base
  <1> DEFINE Behind(place) == /\ pc = place /\ event <= Latency /\ event' \in Nat
                              /\ event = 0 => event' = 0
                              /\ event > 0 => event' = event + 1
  <1>2. \A place : At(place) => Behind(place)
    BY <1>1, CommandFallsBehind
  <1> DEFINE NoMore == \A f \in RxFlags : Told(f)' => Told(f)
  <1>3. ASSUME UNCHANGED <<pending, sticky>> \/ Dequeue, irq' \subseteq irq PROVE NoMore
    BY <1>3, NothingNew DEF Base
  <1>4. ASSUME Flush PROVE \A f \in RxFlags : ~ Noted(f)'
    BY <1>4, FlushNotes
  <1>5. ASSUME NoMore, chip' = "RxFrame" => chip = "RxFrame",
               pc' = "rxClear" => (\A f \in RxFlags : f \in polled' => Announced),
               Announced'
        PROVE  Announced
    BY <1>5 DEF Announced
  <1> HIDE DEF NoMore
  <1>6. ASSUME NoMore, UNCHANGED <<buffer, early, delivered, twice>>,
               chip' = "RxFrame" => chip = "RxFrame",
               pc' \notin {"flushRx", "listen", "read", "rxClear"},
               (pc' = "ready" /\ mState' = "Receiving" /\ ~ restart') =>
                   pc \in {"ready", "rxClear"} /\ mState = "Receiving" /\ ~ restart
        PROVE  RxInv' /\ (~ twice => ~ twice')
    <2>1. Announced' => Announced
      BY <1>5, <1>6
    <2> QED BY <1>6, <2>1, SameFrame
  <1>7. ASSUME NEW flag \in {"TxDone", "Timeout"}, TxEnds(flag)
        PROVE  RxInv' /\ (~ twice => ~ twice')
    <2>1. /\ chip = "Tx" /\ irq' = irq \cup {flag} /\ UNCHANGED <<pending, sticky>>
          /\ UNCHANGED <<mState, pc, restart, polled, buffer, early, delivered, twice>>
          /\ chip' = "Standby"
      BY <1>7 DEF TxEnds, Raise
    <2>2. pc' \notin {"flushRx", "listen"}
      BY <1>b, <2>1 DEF PlaceInv
    <2>3. NoMore
      BY <2>1, KeptNotes DEF Told, RxFlags, NoMore
    <2>4. Announced' => Announced
      BY <2>1, <2>3 DEF Announced, NoMore
    <2> QED BY <2>1, <2>2, <2>4 DEF RxInv
  <1>8. CASE FrameStarts
    <2>1. /\ chip = "Rx" /\ buffer' = buffer + 1
          /\ UNCHANGED <<mState, pc, restart, early, delivered, twice>>
      BY <1>8 DEF FrameStarts, Raise
    <2>2. pc' \notin {"flushRx", "listen"}
      BY <1>b, <2>1 DEF PlaceInv
    <2>3. buffer' # early /\ buffer' \notin delivered
      BY <1>1, <2>1
    <2> QED BY <2>1, <2>2, <2>3 DEF RxInv
  <1>9. ASSUME NEW flags, FrameEnds(flags) PROVE RxInv' /\ (~ twice => ~ twice')
    <2>1. /\ chip = "RxFrame" /\ UNCHANGED <<mState, pc, restart, buffer, early, delivered, twice>>
      BY <1>9 DEF FrameEnds
    <2>2. pc' \notin {"flushRx", "listen"} /\ Announced
      BY <1>b, <2>1 DEF PlaceInv, Announced
    <2> QED BY <2>1, <2>2 DEF RxInv
  <1>10. CASE HandleDio1
    <2>1. NoMore
      BY <1>10, TaskTellsTheSame DEF NoMore, Base
    <2>2. UNCHANGED <<chip, mState, pc, restart, polled, buffer, early, delivered, twice>>
      BY <1>10 DEF HandleDio1, ReadFlags, ClearFlags
    <2>3. Announced' => Announced
      BY <2>1, <2>2 DEF Announced, NoMore
    <2>4. event > 0
      BY <1>10 DEF HandleDio1, ReadFlags, ClearFlags, Base, WakeInv
    <2>5. pc = "flushRx" => /\ seen' = {} \/ seen' = irq'
                            /\ \A f \in RxFlags : f \in irq' => event' # 1
      <3>1. CASE ReadFlags
        BY <3>1 DEF ReadFlags, RxInv
      <3>2. CASE ClearFlags
        BY <3>2 DEF ClearFlags, RxInv
      <3> QED BY <1>10, <3>1, <3>2 DEF HandleDio1
    <2>6. pc = "listen" => \A f \in RxFlags : ~ Told(f)'
      BY <1>1, <2>1, <2>4 DEF RxInv, NoMore, Told
    <2> QED BY <2>2, <2>3, <2>5, <2>6 DEF RxInv, Told
  <1>11. CASE Standby
    <2>1. NoMore /\ Behind("ready")
      BY <1>2, <1>3, <1>11 DEF Standby
    <2> QED BY <1>6, <1>11, <2>1 DEF Standby
  <1>12. ASSUME NEW o \in Outcome, Tune(o)
         PROVE  RxInv' /\ (~ twice => ~ twice')
    <2>1. NoMore /\ Behind("ready")
      BY <1>2, <1>3, <1>12 DEF Tune
    <2>2. /\ UNCHANGED <<pc, restart, buffer, early, delivered, twice>>
          /\ mState' = "Receiving" => mState = "Receiving"
          /\ chip' = "RxFrame" => chip = "RxFrame"
      BY <1>12 DEF Tune, TryStandby
    <2> QED BY <1>6, <2>1, <2>2
  <1>13. CASE UNCHANGED vars
    <2>1. \A f : Noted(f)' <=> Noted(f)
      BY <1>13, KeptNotes DEF vars, task
    <2>2. \A f : Told(f)' <=> Told(f)
      BY <1>13, <2>1 DEF vars, task, Told
    <2>3. Announced' <=> Announced
      BY <1>13, <2>2 DEF vars, Announced
    <2> QED BY <1>13, <2>1, <2>3 DEF vars, task, RxInv
  <1>14. ASSUME NEW o \in Outcome, PrepareTransmit(o)
         PROVE  RxInv' /\ (~ twice => ~ twice')
    <2>1. NoMore /\ Behind("transmit")
      BY <1>2, <1>3, <1>14 DEF PrepareTransmit
    <2>2. mState' = "Idle" /\ pc' \in {"flushTx", "ready"}
      BY <1>b, <1>14, <2>1 DEF PrepareTransmit, PlaceInv
    <2> QED BY <1>6, <1>14, <2>1, <2>2 DEF PrepareTransmit
  <1>15. CASE FlushForTransmit
    <2>1. /\ pc' = "launch" /\ early' = 0 /\ UNCHANGED <<delivered, twice>>
      BY <1>15 DEF FlushForTransmit
    <2> QED BY <2>1 DEF RxInv
  <1>16. ASSUME NEW o \in Outcome, Launch(o)
         PROVE  RxInv' /\ (~ twice => ~ twice')
    <2>1. Behind("launch")
      BY <1>2, <1>16 DEF Launch
    <2>2. mState' # "Receiving" /\ pc' = "ready"
      BY <1>b, <1>16, <2>1 DEF Launch, PlaceInv
    <2> QED BY <1>16, <2>2 DEF Launch, RxInv
  <1>17. ASSUME NEW o \in Outcome, EnterReceive(o)
         PROVE  RxInv' /\ (~ twice => ~ twice')
    <2>1. Behind("receive")
      BY <1>2, <1>17 DEF EnterReceive
    <2>2. UNCHANGED <<irq, seen, early, delivered, twice>>
      BY <1>17 DEF EnterReceive
    <2>3. (pc' = "flushRx" /\ seen = {}) \/ (pc' = "ready" /\ restart')
      BY <1>17 DEF EnterReceive
    <2>4. event' # 1
      BY <1>1, <2>1
    <2> QED BY <2>2, <2>3, <2>4 DEF RxInv
  <1>18. CASE FlushForReceive
    <2>1. Behind("flushRx") /\ irq' = irq /\ pc' = "listen" /\ UNCHANGED <<early, delivered, twice>>
      BY <1>2, <1>18 DEF FlushForReceive
    <2>2. \A f \in RxFlags : f \in irq => event' = 0
      BY <1>1, <2>1 DEF RxInv
    <2>3. \A f \in RxFlags : ~ Noted(f)'
      BY <1>4, <1>18 DEF FlushForReceive
    <2> QED BY <2>1, <2>2, <2>3 DEF RxInv
  <1>19. ASSUME NEW o \in Outcome, Listen(o)
         PROVE  RxInv' /\ (~ twice => ~ twice')
    <2>1. Behind("listen")
      BY <1>2, <1>19 DEF Listen
    <2>2. pc' = "ready" /\ UNCHANGED <<pending, sticky, buffer, early, delivered, twice>>
      BY <1>19 DEF Listen
    <2>3. o = "refused" => restart'
      BY <1>19 DEF Listen
    <2>4. CASE o # "refused"
      <3>1. irq' = {} /\ chip' = "Rx"
        BY <1>19, <2>4 DEF Listen
      <3>2. \A f \in RxFlags : ~ Told(f)'
        BY <2>1, <2>2, <3>1, KeptNotes DEF RxInv, Told
      <3>3. ~ Announced'
        BY <2>2, <3>1, <3>2 DEF Announced
      <3> QED BY <2>2, <3>3 DEF RxInv
    <2> QED BY <2>2, <2>3, <2>4 DEF RxInv
  <1>20. ASSUME NEW o \in Outcome, StartTransmit(o)
         PROVE  RxInv' /\ (~ twice => ~ twice')
    <2>1. NoMore /\ Behind("ready")
      BY <1>2, <1>3, <1>20 DEF StartTransmit
    <2>2. /\ UNCHANGED <<restart, buffer, early, delivered, twice>> /\ pc' \in {"ready", "transmit"}
          /\ mState' = "Receiving" => mState = "Receiving"
          /\ chip' = "RxFrame" => chip = "RxFrame"
      BY <1>20 DEF StartTransmit, TryStandby
    <2> QED BY <1>6, <2>1, <2>2
  <1>21. ASSUME NEW o \in Outcome, StartReceive \/ Restart \/ Rearm
         PROVE  RxInv' /\ (~ twice => ~ twice')
    <2>1. pc' = "receive" /\ UNCHANGED <<buffer, early, delivered, twice>>
      BY <1>21 DEF StartReceive, Restart, Rearm, ToReceive
    <2> QED BY <2>1 DEF RxInv
  <1>22. CASE ReadEarly
    <2>1. /\ Behind("ready") /\ NoMore /\ early # 0 /\ early' = 0
          /\ delivered' = delivered \cup {early} /\ twice' = (twice \/ early \in delivered)
          /\ UNCHANGED <<chip, mState, restart, pc, polled, buffer>>
      BY <1>2, <1>3, <1>22 DEF ReadEarly, Deliver
    <2>2. early \notin delivered
      BY <2>1 DEF RxInv
    <2>3. ~ twice => ~ twice'
      BY <2>1, <2>2
    <2>4. Announced' => Announced
      BY <2>1 DEF Announced, NoMore
    <2>5. buffer # early /\ buffer \notin delivered =>
              buffer' # early' /\ buffer' \notin delivered'
      <3>1. buffer >= early
        BY <1>1
      <3>2. buffer # early => buffer # 0
        BY <1>1, <2>1, <3>1
      <3> QED BY <2>1, <3>2
    <2> QED BY <2>1, <2>3, <2>4, <2>5 DEF RxInv
  <1>23. ASSUME NEW o \in Outcome, IsTxDone(o) PROVE RxInv' /\ (~ twice => ~ twice')
    <2>1. NoMore
      BY <1>3, <1>23 DEF IsTxDone, TxPollQueue, TxPollChip, TxDrop, TxClear
    <2>2. /\ UNCHANGED <<chip, buffer, early, delivered, twice>>
          /\ pc' \in {"ready", "txClear", "txDrop"}
      BY <1>2, <1>23 DEF IsTxDone, TxPollQueue, TxPollChip, TxDrop, TxClear
    <2>3. mState' # "Receiving"
      BY <1>b, <1>2, <1>23 DEF IsTxDone, TxPollQueue, TxPollChip, TxDrop, TxClear, PlaceInv
    <2> QED BY <1>6, <2>1, <2>2, <2>3
  <1>24. ASSUME NEW flags, Interpret(flags), early = 0, NoMore,
                pc \in {"ready", "rxClear"}, mState = "Receiving", ~ restart,
                \A f \in RxFlags : f \in flags => Announced,
                UNCHANGED <<chip, buffer, delivered, twice, mState, restart>>
         PROVE  RxInv' /\ (~ twice => ~ twice')
    <2>1. (\E f \in RxFlags : f \in flags) => buffer \notin delivered
      BY <1>24 DEF RxInv
    <2>2. CASE "RxDone" \in flags /\ pc' = "read" /\ UNCHANGED early
      <3>1. buffer \notin delivered
        BY <2>1, <2>2 DEF RxFlags
      <3> QED BY <1>24, <2>2, <3>1 DEF RxInv
    <2>3. CASE "Sync" \in flags /\ pc' = "rearm" /\ early' = buffer
      <3>1. buffer \notin delivered
        BY <2>1, <2>3 DEF RxFlags
      <3> QED BY <1>24, <2>3, <3>1 DEF RxInv
    <2>4. CASE pc' = "ready" /\ UNCHANGED early
      BY <1>6, <1>24, <2>4
    <2> QED BY <1>24, <2>2, <2>3, <2>4 DEF Interpret
  <1>25. CASE RxPollQueue
    <2>1. NoMore /\ Dequeue /\ Interpret(Oldest) /\ Behind("ready") /\ Polls
      BY <1>2, <1>3, <1>25 DEF RxPollQueue
    <2>2. \A f \in RxFlags : f \in Oldest => Announced
      BY <2>1, DequeueNotes DEF Told, Base, Announced
    <2>3. UNCHANGED <<chip, buffer, delivered, twice, mState, restart>>
      BY <1>25 DEF RxPollQueue
    <2> QED BY <1>24, <2>1, <2>2, <2>3 DEF Polls
  <1>26. CASE RxPollChip
    <2>1. NoMore /\ Behind("ready") /\ Polls /\ polled' = irq /\ pc' = "rxClear"
      BY <1>2, <1>3, <1>26 DEF RxPollChip
    <2>2. UNCHANGED <<chip, buffer, early, delivered, twice, mState, restart>>
      BY <1>26 DEF RxPollChip
    <2>3. \A f \in RxFlags : f \in polled' => Announced
      BY <2>1 DEF Told, Announced
    <2>4. Announced' => Announced
      BY <1>5, <2>1, <2>2, <2>3
    <2>5. RxInv'
      BY <2>1, <2>2, <2>4, SameFrame DEF Polls
    <2> QED BY <2>2, <2>5
  <1>27. ASSUME NEW o \in Outcome, RxClear(o) PROVE RxInv' /\ (~ twice => ~ twice')
    <2>1. NoMore /\ Behind("rxClear")
      BY <1>2, <1>3, <1>27 DEF RxClear
    <2>2. UNCHANGED <<chip, buffer, delivered, twice, mState, restart>>
      BY <1>27 DEF RxClear
    <2>3. early = 0 /\ mState = "Receiving" /\ ~ restart
      BY <1>b, <2>1 DEF PlaceInv
    <2>4. \A f \in RxFlags : f \in polled => Announced
      BY <2>1 DEF Announced
    <2>5. CASE Interpret(polled)
      BY <1>24, <2>1, <2>2, <2>3, <2>4, <2>5
    <2>6. CASE pc' = "ready" /\ UNCHANGED early
      BY <1>6, <2>1, <2>2, <2>3, <2>6
    <2> QED BY <1>27, <2>5, <2>6 DEF RxClear
  <1>28. ASSUME NEW o \in Outcome, ReadPacket(o) PROVE RxInv' /\ (~ twice => ~ twice')
    <2>1. Behind("read") /\ pc' = "receive" /\ UNCHANGED early
      BY <1>2, <1>28 DEF ReadPacket, ToReceive
    <2>2. early = 0 /\ buffer \notin delivered
      BY <1>b, <2>1 DEF PlaceInv, RxInv
    <2>3. ~ twice => ~ twice'
      BY <1>28, <2>2 DEF ReadPacket, Deliver
    <2>4. RxInv'
      BY <2>1, <2>2 DEF RxInv
    <2> QED BY <2>3, <2>4
  <1> QED
    BY <1>7, <1>8, <1>9, <1>10, <1>11, <1>12, <1>13, <1>14, <1>15, <1>16, <1>17, <1>18, <1>19,
       <1>20, <1>21, <1>22, <1>23, <1>25, <1>26, <1>27, <1>28
       DEF Next, StartsTransmit, StartsReceive, IsPacketAvailable

-----------------------------------------------------------------------------
(* What the driver says of the chip *)

\* A call that leaves the receiver's mode notes that it must be started again, or changes the
\* driver's state, or is one of those that stray.
LEMMA ListensStep ==
    ASSUME RadioAssumption, Base, ReceivingListens, [Next]_vars
    PROVE  ReceivingListens'
  <1> USE DEF hardware, driver, history, Command, ReceivingListens
  <1>b. PlaceInv
    BY DEF Base
  <1>1. \A place : At(place) => pc = place
    BY DEF At
  <1>2. ASSUME NEW flag, TxEnds(flag) PROVE ReceivingListens'
    BY <1>2 DEF TxEnds
  <1>3. CASE FrameStarts \/ \E flags \in Ends : FrameEnds(flags)
    BY <1>3 DEF FrameStarts, FrameEnds
  <1>4. CASE HandleDio1
    BY <1>4 DEF HandleDio1, ReadFlags, ClearFlags
  <1>5. CASE Standby \/ ReadEarly
    BY <1>5 DEF Standby, ReadEarly
  <1>6. CASE UNCHANGED vars
    BY <1>6 DEF vars
  <1>7. ASSUME NEW o \in Outcome, StartsTransmit(o) PROVE ReceivingListens'
    <2>1. CASE PrepareTransmit(o) \/ FlushForTransmit
      BY <2>1 DEF PrepareTransmit, FlushForTransmit
    <2>2. CASE Launch(o)
      <3>1. mState' # "Receiving"
        BY <1>b, <1>1, <2>2 DEF Launch, PlaceInv
      <3> QED BY <3>1
    <2>3. CASE StartTransmit(o)
      BY <2>3 DEF StartTransmit, TryStandby, Strays, Outcome
    <2> QED BY <1>7, <2>1, <2>2, <2>3 DEF StartsTransmit
  <1>8. ASSUME NEW o \in Outcome, StartsReceive(o) PROVE ReceivingListens'
    <2>1. CASE StartReceive \/ FlushForReceive
      BY <2>1 DEF StartReceive, FlushForReceive
    <2>2. CASE EnterReceive(o)
      BY <2>2 DEF EnterReceive, TryStandby
    <2>3. CASE Listen(o)
      BY <2>3 DEF Listen
    <2> QED BY <1>8, <2>1, <2>2, <2>3 DEF StartsReceive
  <1>9. ASSUME NEW o \in Outcome, Tune(o) PROVE ReceivingListens'
    BY <1>9 DEF Tune, TryStandby, Strays, Outcome
  <1>10. ASSUME NEW o \in Outcome, IsTxDone(o) PROVE ReceivingListens'
    BY <1>10 DEF IsTxDone, TxPollQueue, TxPollChip, TxDrop, TxClear
  <1>11. ASSUME NEW o \in Outcome, IsPacketAvailable(o) \/ ReadPacket(o) PROVE ReceivingListens'
    BY <1>11 DEF IsPacketAvailable, Restart, RxPollQueue, RxPollChip, RxClear, Rearm, ReadPacket
  <1> QED
    BY <1>2, <1>3, <1>4, <1>5, <1>6, <1>7, <1>8, <1>9, <1>10, <1>11 DEF Next

-----------------------------------------------------------------------------
(* What the driver can be relied on for *)

\* Every variable keeps its type: the ring keeps a place free, and the driver and the chip are
\* in the states its calls expect on the way to a transmission or a reception.
THEOREM InPlace ==
    ASSUME RadioAssumption
    PROVE  Spec => []Base
  <1>1. Init => Base
    BY InitBase
  <1>2. Base /\ [Next]_vars => Base'
    BY BaseStep
  <1> QED BY <1>1, <1>2, PTL DEF Spec

\* The type invariant the runs check.
THEOREM Types ==
    ASSUME RadioAssumption
    PROVE  Spec => []TypeOK
  <1>1. Base => TypeOK
    BY DEF Base, TypeInv
  <1> QED BY <1>1, InPlace, PTL

\* isTxDone tells of a transmission only when it left the antenna, however commands are
\* refused, as long as the task is no more than two commands behind.
THEOREM ToldOfWhatWentOut ==
    ASSUME RadioAssumption, Latency <= 2
    PROVE  Spec => []ReportedWentOut
  <1>1. Init => TxInv /\ ReportedWentOut
    BY DEF Init, TxInv, Told, Noted, ReportedWentOut
  <1>2. Base /\ TxInv /\ [Next]_vars => TxInv'
    BY TxStep
  <1>3. Base /\ TxInv /\ ReportedWentOut /\ [Next]_vars => ReportedWentOut'
    <2> SUFFICES ASSUME Base, TxInv, ReportedWentOut, [Next]_vars PROVE ReportedWentOut'
      OBVIOUS
    <2> USE DEF hardware, task, driver, history
    <2>1. wentOut \subseteq wentOut'
      BY DEF Next, vars, TxEnds, FrameStarts, FrameEnds, HandleDio1, ReadFlags, ClearFlags, Standby,
         StartsTransmit, StartsReceive, IsPacketAvailable, Tune, PrepareTransmit,
         FlushForTransmit, Launch, EnterReceive, FlushForReceive, Listen, StartTransmit,
         StartReceive, IsTxDone, TxPollQueue, TxPollChip, TxDrop, TxClear, ReadEarly, Restart,
         RxPollQueue, RxPollChip, RxClear, ReadPacket, Rearm, Deliver
    <2>2. reported' = reported \/ \E o \in Outcome : TxClear(o)
      BY DEF Next, vars, TxEnds, FrameStarts, FrameEnds, HandleDio1, ReadFlags, ClearFlags, Standby,
         StartsTransmit, StartsReceive, IsPacketAvailable, Tune, PrepareTransmit,
         FlushForTransmit, Launch, EnterReceive, FlushForReceive, Listen, StartTransmit,
         StartReceive, IsTxDone, TxPollQueue, TxPollChip, TxDrop, ReadEarly, Restart,
         RxPollQueue, RxPollChip, RxClear, ReadPacket, Rearm, Deliver
    <2>3. ASSUME NEW o \in Outcome, TxClear(o) PROVE reported' \subseteq wentOut
      BY <2>3 DEF TxClear, TxInv, ReportedWentOut
    <2> QED BY <2>1, <2>2, <2>3 DEF ReportedWentOut
  <1> QED BY <1>1, <1>2, <1>3, InPlace, PTL DEF Spec

\* A received frame is handed to the protocol once, although its sync word and its end, the
\* chip's flags and their queued copy announce it, as long as the task is no more than one
\* command behind.
THEOREM HandedOverOnce ==
    ASSUME RadioAssumption, Latency <= 1
    PROVE  Spec => []DeliveredOnce
  <1>1. Init => RxInv /\ ~ twice
    BY DEF Init, RxInv, Told, Noted
  <1>2. Base /\ RxInv /\ ~ twice /\ [Next]_vars => RxInv' /\ ~ twice'
    BY RxStep
  <1>3. ~ twice => DeliveredOnce
    BY DEF DeliveredOnce
  <1> QED BY <1>1, <1>2, <1>3, InPlace, PTL DEF Spec

\* A driver that says it receives has a chip that receives, or knows that it must start it
\* again, unless a standby was done and reported refused to a call that leaves it at that;
\* however commands are refused or late and however far the task is behind.
THEOREM SaysWhatTheChipDoes ==
    ASSUME RadioAssumption
    PROVE  Spec => []ReceivingListens
  <1>1. Init => ReceivingListens
    BY DEF Init, ReceivingListens
  <1>2. Base /\ ReceivingListens /\ [Next]_vars => ReceivingListens'
    BY ListensStep
  <1> QED BY <1>1, <1>2, InPlace, PTL DEF Spec

-----------------------------------------------------------------------------
(* The SX1276 *)

ToTransmit == {"clearFifo", "writeFifo", "clearTx", "transmit"}
Places76 == ToTransmit \cup {"ready", "clearRx", "receive", "readFifo"}

\* Flags and variables in their types; calls in their places.
FlagTypes ==
    /\ packetSent \in BOOLEAN /\ payloadReady \in BOOLEAN
    /\ fired \in BOOLEAN /\ late \in BOOLEAN

TypeInv76 ==
    /\ chip76 \in {"Standby", "Rx", "Tx"} /\ fifo \subseteq {"received", "payload"}
    /\ mState76 \in {"Idle", "Receiving", "Transmitting"} /\ pc76 \in Places76
    /\ payloadReady => fifo # {}
    /\ started76 \in 0 .. MaxTx /\ told \subseteq 1 .. started76

\* On the way to a transmission the chip stands by, and transmits exactly for a driver that
\* says so.
PlaceInv76 ==
    /\ pc76 \in ToTransmit => chip76 = "Standby" /\ started76 < MaxTx
    /\ pc76 = "readFifo" => mState76 = "Receiving"
    /\ chip76 = "Tx" <=> mState76 = "Transmitting"
    /\ mState76 = "Transmitting" => started76 > 0

\* From the moment it is emptied the FIFO holds the payload and nothing else.
FifoInv ==
    /\ pc76 = "writeFifo" => fifo = {}
    /\ pc76 \in {"clearTx", "transmit"} => fifo = {"payload"}
    /\ pc76 \in {"writeFifo", "clearTx", "transmit"} \/ chip76 = "Tx" => ~payloadReady
    /\ SX1276!SendsPayloadAlone

\* The note of an interrupt is of what the driver waits for: of the end of this transmission,
\* or of a frame that has ended, unless it came late.
NoteInv ==
    /\ packetSent => chip76 = "Tx"
    /\ pc76 = "transmit" => ~fired
    /\ mState76 = "Transmitting" /\ (fired \/ packetSent) => started76 \in wentOut76
    /\ (pc76 = "ready" /\ mState76 = "Receiving") \/ pc76 = "receive" => (fired => payloadReady \/ late)
    /\ pc76 = "readFifo" => payloadReady \/ late
    /\ SX1276!ToldWentOut /\ SX1276!ReadsWholeFrames

FifoSafe == FlagTypes /\ TypeInv76 /\ PlaceInv76 /\ FifoInv /\ NoteInv

\* Only a chip that goes on transmitting keeps the flag.
LEMMA ModeSet ==
    ASSUME packetSent \in BOOLEAN, NEW mode, SX1276!setMode(mode)
    PROVE  chip76' = mode /\ packetSent' \in BOOLEAN /\ (packetSent' <=> packetSent /\ mode = "Tx")
  BY DEF SX1276!setMode

\* The note is gone.
LEMMA NoteCleared ==
    ASSUME SX1276!ClearNote
    PROVE  fired' \in BOOLEAN /\ ~fired'
  BY DEF SX1276!ClearNote

\* Every step of thread, chip and interrupt keeps the three of them together.
LEMMA FifoStep ==
    ASSUME MaxTx \in Nat, FifoSafe, [SX1276!Next]_(SX1276!vars)
    PROVE  FifoSafe'
  <1> USE DEF SX1276!hardware, SX1276!history, SX1276!At, SX1276!dio0Isr,
              ToTransmit, Places76, FifoSafe, FlagTypes, TypeInv76, PlaceInv76, FifoInv, NoteInv,
              SX1276!SendsPayloadAlone, SX1276!ToldWentOut, SX1276!ReadsWholeFrames
  <1>1. CASE SX1276!FrameStarts
    BY <1>1 DEF SX1276!FrameStarts
  <1>2. CASE SX1276!PacketEnds
    BY <1>2 DEF SX1276!PacketEnds
  <1>3. CASE \E intact \in BOOLEAN : SX1276!FrameEnds(intact)
    <2>1. FlagTypes'
      BY <1>3 DEF SX1276!FrameEnds
    <2>2. TypeInv76'
      BY <1>3 DEF SX1276!FrameEnds
    <2>3. PlaceInv76'
      BY <1>3 DEF SX1276!FrameEnds
    <2>4. FifoInv'
      BY <1>3 DEF SX1276!FrameEnds
    <2>5. NoteInv'
      BY <1>3 DEF SX1276!FrameEnds
    <2> QED BY <2>1, <2>2, <2>3, <2>4, <2>5
  <1>4. CASE SX1276!ClearFifo
    BY <1>4 DEF SX1276!ClearFifo
  <1>5. CASE SX1276!WriteFifo
    BY <1>5 DEF SX1276!WriteFifo
  <1>6. CASE SX1276!Launch
    <2>1. CASE pc76 = "clearTx"
      <3>1. pc76' = "transmit" /\ fired' \in BOOLEAN /\ ~fired'
        BY <1>6, <2>1, NoteCleared DEF SX1276!Launch
      <3>2. UNCHANGED <<chip76, fifo, packetSent, payloadReady, mState76, started76, wentOut76, told,
                       late>>
        BY <1>6, <2>1, NoteCleared DEF SX1276!Launch
      <3>3. FlagTypes'
        BY <2>1, <3>1, <3>2
      <3>4. TypeInv76'
        BY <2>1, <3>1, <3>2
      <3>5. PlaceInv76'
        BY <2>1, <3>1, <3>2
      <3>6. FifoInv'
        BY <2>1, <3>1, <3>2
      <3>7. NoteInv'
        BY <2>1, <3>1, <3>2
      <3> QED BY <3>3, <3>4, <3>5, <3>6, <3>7
    <2>2. CASE pc76 = "transmit"
      <3>1. pc76' = "ready" /\ chip76' = "Tx" /\ mState76' = "Transmitting" /\ started76' = started76 + 1
        BY <1>6, <2>2, ModeSet DEF SX1276!Launch
      <3>2. (packetSent' <=> packetSent) /\ packetSent' \in BOOLEAN
             /\ UNCHANGED <<fifo, payloadReady, fired, wentOut76, told, late>>
        BY <1>6, <2>2, ModeSet DEF SX1276!Launch
      <3>3. FlagTypes'
        BY <2>2, <3>1, <3>2
      <3>4. TypeInv76'
        BY <2>2, <3>1, <3>2
      <3>5. PlaceInv76'
        BY <2>2, <3>1, <3>2
      <3>6. FifoInv'
        BY <2>2, <3>1, <3>2
      <3>7. NoteInv'
        BY <2>2, <3>1, <3>2
      <3> QED BY <3>3, <3>4, <3>5, <3>6, <3>7
    <2> QED BY <1>6, <2>1, <2>2 DEF SX1276!Launch
  <1>7. CASE SX1276!Listen
    <2>1. CASE pc76 = "clearRx"
      <3>1. pc76' = "receive" /\ fired' \in BOOLEAN /\ ~fired' /\ ~late' /\ late' \in BOOLEAN
        BY <1>7, <2>1, NoteCleared DEF SX1276!Listen
      <3>2. UNCHANGED <<chip76, fifo, packetSent, payloadReady, mState76, started76, wentOut76, told>>
        BY <1>7, <2>1, NoteCleared DEF SX1276!Listen
      <3>3. FlagTypes'
        BY <2>1, <3>1, <3>2
      <3>4. TypeInv76'
        BY <2>1, <3>1, <3>2
      <3>5. PlaceInv76'
        BY <2>1, <3>1, <3>2
      <3>6. FifoInv'
        BY <2>1, <3>1, <3>2
      <3>7. NoteInv'
        BY <2>1, <3>1, <3>2
      <3> QED BY <3>3, <3>4, <3>5, <3>6, <3>7
    <2>2. CASE pc76 = "receive"
      <3>1. pc76' = "ready" /\ chip76' = "Rx" /\ mState76' = "Receiving" /\ ~packetSent'
        BY <1>7, <2>2, ModeSet DEF SX1276!Listen
      <3>2. packetSent' \in BOOLEAN
             /\ UNCHANGED <<fifo, payloadReady, fired, started76, wentOut76, told, late>>
        BY <1>7, <2>2, ModeSet DEF SX1276!Listen
      <3>3. FlagTypes'
        BY <2>2, <3>1, <3>2
      <3>4. TypeInv76'
        BY <2>2, <3>1, <3>2
      <3>5. PlaceInv76'
        BY <2>2, <3>1, <3>2
      <3>6. FifoInv'
        BY <2>2, <3>1, <3>2
      <3>7. NoteInv'
        BY <2>2, <3>1, <3>2
      <3> QED BY <3>3, <3>4, <3>5, <3>6, <3>7
    <2> QED BY <1>7, <2>1, <2>2 DEF SX1276!Listen
  <1>8. CASE SX1276!ReadPacket
    BY <1>8 DEF SX1276!ReadPacket
  <1>9. CASE SX1276!StartTransmit
    BY <1>9, ModeSet DEF SX1276!StartTransmit
  <1>10. CASE SX1276!StartReceive
    BY <1>10 DEF SX1276!StartReceive
  <1>11. CASE SX1276!IsTxDone
    <2>1. FlagTypes'
      BY <1>11, ModeSet DEF SX1276!IsTxDone
    <2>2. TypeInv76'
      BY <1>11, ModeSet DEF SX1276!IsTxDone
    <2>3. PlaceInv76'
      BY <1>11, ModeSet DEF SX1276!IsTxDone
    <2>4. FifoInv'
      BY <1>11, ModeSet DEF SX1276!IsTxDone
    <2>5. NoteInv'
      BY <1>11, ModeSet DEF SX1276!IsTxDone
    <2> QED BY <2>1, <2>2, <2>3, <2>4, <2>5
  <1>12. CASE SX1276!Standby
    BY <1>12, ModeSet DEF SX1276!Standby
  <1>13. CASE SX1276!IsPacketAvailable
    BY <1>13 DEF SX1276!IsPacketAvailable, SX1276!Noticed
  <1>14. CASE UNCHANGED SX1276!vars
    BY <1>14 DEF SX1276!vars
  <1> QED
    BY <1>1, <1>2, <1>3, <1>4, <1>5, <1>6, <1>7, <1>8, <1>9, <1>10, <1>11, <1>12, <1>13, <1>14
       DEF SX1276!Next, SX1276!Proceed

\* Whenever a frame arrives and a transmission ends between two accesses to the chip, the
\* SX1276 driver tells only of what left the antenna, reads only frames that have ended, unless
\* a startReceive broke into a transmission as it ended, and sends the payload alone.
THEOREM FifoShared ==
    ASSUME RadioAssumption
    PROVE  SX1276!Spec => []SharedFifo
  <1>1. MaxTx \in Nat
    BY DEF RadioAssumption
  <1>2. SX1276!Init => FifoSafe
    <2> SUFFICES ASSUME SX1276!Init PROVE FifoSafe
      OBVIOUS
    <2>1. FlagTypes /\ ~packetSent /\ ~payloadReady /\ ~fired /\ ~late
      BY DEF SX1276!Init, FlagTypes
    <2>2. TypeInv76
      BY <1>1, <2>1 DEF SX1276!Init, TypeInv76, Places76
    <2>3. PlaceInv76 /\ FifoInv
      BY <2>1 DEF SX1276!Init, PlaceInv76, ToTransmit, FifoInv, SX1276!SendsPayloadAlone
    <2>4. NoteInv
      BY <2>1 DEF SX1276!Init, NoteInv, SX1276!ToldWentOut, SX1276!ReadsWholeFrames
    <2> QED BY <2>1, <2>2, <2>3, <2>4 DEF FifoSafe
  <1>3. FifoSafe /\ [SX1276!Next]_(SX1276!vars) => FifoSafe'
    BY <1>1, FifoStep
  <1>4. FifoSafe => SharedFifo
    <2>1. FifoSafe => SX1276!TypeOK
      BY DEF FifoSafe, FlagTypes, TypeInv76, SX1276!TypeOK
    <2> QED BY <2>1 DEF FifoSafe, FifoInv, NoteInv, SharedFifo
  <1> QED BY <1>2, <1>3, <1>4, PTL DEF SX1276!Spec
=============================================================================
