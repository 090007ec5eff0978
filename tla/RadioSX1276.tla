---------------------------- MODULE RadioSX1276 ----------------------------
(***************************************************************************)
(* The SX1276 driver: one thread and an interrupt routine that only notes  *)
(* that DIO0 rose (mDio0Fired).  DIO0 means "packet sent" in transmission  *)
(* and "payload ready" in reception, and both use one FIFO; what the note  *)
(* and the bytes belong to depends on the order in which startTransmit and *)
(* startReceive clear them and change the chip's mode.  Every access to a  *)
(* register is a step of its own.                                          *)
(***************************************************************************)
EXTENDS Naturals

CONSTANT MaxTx      \* bound: transmissions started

VARIABLES
    chip,               \* mode of the chip: Standby, Rx, Tx
    fifo,               \* whose bytes its FIFO holds: "received", "payload"
    packetSent, payloadReady,   \* its flags
    fired,              \* mDio0Fired
    mState,             \* Idle, Receiving, Transmitting
    pc,                 \* where the thread is in a call
    started, wentOut, told,     \* transmissions: started, off the antenna, told as done
    late                \* history: a packet was sent after startReceive had cleared the note

hardware == <<chip, fifo, packetSent, payloadReady>>
history  == <<started, wentOut, told, late>>
vars == <<hardware, fired, mState, pc, history>>

Init ==
    /\ chip = "Standby" /\ fifo = {} /\ packetSent = FALSE /\ payloadReady = FALSE
    /\ fired = FALSE /\ mState = "Idle" /\ pc = "ready"
    /\ started = 0 /\ wentOut = {} /\ told = {} /\ late = FALSE

-----------------------------------------------------------------------------
(* The chip and the interrupt *)

dio0Isr == fired' = TRUE

FrameStarts ==
    /\ chip = "Rx" /\ "received" \notin fifo /\ fifo' = fifo \cup {"received"}
    /\ UNCHANGED <<chip, packetSent, payloadReady, fired, mState, pc, history>>

\* A frame with a wrong checksum is cleared by the chip.
FrameEnds(intact) ==
    /\ chip = "Rx" /\ "received" \in fifo /\ ~payloadReady
    /\ IF intact THEN payloadReady' = TRUE /\ dio0Isr /\ UNCHANGED fifo
       ELSE fifo' = {} /\ UNCHANGED <<payloadReady, fired>>
    /\ UNCHANGED <<chip, packetSent, mState, pc, history>>

PacketEnds ==
    /\ chip = "Tx" /\ ~packetSent /\ fifo = {"payload"}
    /\ packetSent' = TRUE /\ dio0Isr /\ fifo' = {} /\ wentOut' = wentOut \cup {started}
    /\ late' = (late \/ pc = "receive")
    /\ UNCHANGED <<chip, payloadReady, mState, pc, started, told>>

-----------------------------------------------------------------------------
(* The driver *)

At(place) == pc = place

setMode(mode) == chip' = mode /\ packetSent' = (packetSent /\ mode = "Tx")

\* Mutant: the note of an earlier interrupt is kept.
KeepNote == UNCHANGED fired
\* What startTransmit and startReceive do before they change the mode
ClearNote == fired' = FALSE

\* Writing the overrun flag empties the FIFO.
ClearFifo ==
    /\ At("clearFifo") /\ pc' = "writeFifo" /\ fifo' = {} /\ payloadReady' = FALSE
    /\ UNCHANGED <<chip, packetSent, fired, mState, history>>

WriteFifo ==
    /\ At("writeFifo") /\ pc' = "clearTx" /\ fifo' = fifo \cup {"payload"}
    /\ UNCHANGED <<chip, packetSent, payloadReady, fired, mState, history>>

\* startTransmit
StartTransmit ==
    /\ At("ready") /\ mState # "Transmitting" /\ started < MaxTx
    /\ setMode("Standby") /\ pc' = "clearFifo"
    /\ UNCHANGED <<fifo, payloadReady, fired, mState, history>>

Launch ==
    \/ /\ At("clearTx") /\ pc' = "transmit" /\ ClearNote
       /\ UNCHANGED <<hardware, mState, history>>
    \/ /\ At("transmit") /\ pc' = "ready" /\ setMode("Tx")
       /\ mState' = "Transmitting" /\ started' = started + 1
       /\ UNCHANGED <<fifo, payloadReady, fired, wentOut, told, late>>

\* startReceive, called by the controller in any state of the radio, and by readPacket
StartReceive ==
    /\ At("ready") /\ pc' = "clearRx"
    /\ UNCHANGED <<hardware, fired, mState, history>>

Listen ==
    \/ /\ At("clearRx") /\ pc' = "receive" /\ ClearNote /\ late' = FALSE
       /\ UNCHANGED <<hardware, mState, started, wentOut, told>>
    \/ /\ At("receive") /\ pc' = "ready" /\ setMode("Rx") /\ mState' = "Receiving"
       /\ UNCHANGED <<fifo, payloadReady, fired, history>>

\* isTxDone
IsTxDone ==
    /\ At("ready") /\ mState = "Transmitting"
    /\ fired \/ packetSent
    /\ fired' = FALSE /\ setMode("Standby") /\ mState' = "Idle" /\ told' = told \cup {started}
    /\ UNCHANGED <<fifo, payloadReady, pc, started, wentOut, late>>

\* standby: a timeout of the user of the driver
Standby ==
    /\ At("ready") /\ setMode("Standby") /\ mState' = "Idle"
    /\ UNCHANGED <<fifo, payloadReady, fired, pc, history>>

\* isPacketAvailable: the chip's flag counts when the note of the interrupt was lost.
Noticed == fired \/ payloadReady

IsPacketAvailable ==
    /\ At("ready") /\ mState = "Receiving" /\ Noticed
    /\ fired' = FALSE /\ pc' = "readFifo"
    /\ UNCHANGED <<hardware, mState, history>>

\* readPacket: what the FIFO holds, and then startReceive
ReadPacket ==
    /\ At("readFifo") /\ pc' = "clearRx" /\ fifo' = {} /\ payloadReady' = FALSE
    /\ UNCHANGED <<chip, packetSent, fired, mState, history>>

-----------------------------------------------------------------------------

Proceed == ClearFifo \/ WriteFifo \/ Launch \/ Listen \/ ReadPacket

Next ==
    \/ FrameStarts \/ PacketEnds
    \/ \E intact \in BOOLEAN : FrameEnds(intact)
    \/ Proceed \/ StartTransmit \/ StartReceive \/ IsTxDone \/ Standby \/ IsPacketAvailable

Spec == Init /\ [][Next]_vars

-----------------------------------------------------------------------------
(* Properties *)

TypeOK ==
    /\ chip \in {"Standby", "Rx", "Tx"} /\ fifo \subseteq {"received", "payload"}
    /\ {packetSent, payloadReady, fired, late} \subseteq BOOLEAN
    /\ mState \in {"Idle", "Receiving", "Transmitting"}
    /\ payloadReady => fifo # {}
    /\ told \subseteq 1 .. started /\ started \in 0 .. MaxTx

\* What is sent is the payload alone: bytes of a frame that was being received are not
\* put in front of it (startTransmit's comment on the FIFO).
SendsPayloadAlone == chip = "Tx" => "received" \notin fifo

\* isTxDone tells only of packets that were sent: the interrupt of a frame received just
\* before is not taken for the end of the transmission.
ToldWentOut == told \subseteq wentOut

\* readPacket reads frames that have ended: the interrupt of a transmission that was given
\* up is not taken for the end of a frame.  The exception is a startReceive that breaks into
\* a transmission whose end comes after it has cleared the note and before it changes the
\* mode: the note then stands for a frame that may still be arriving.
ReadsWholeFrames == pc = "readFifo" => payloadReady \/ late

\* A frame that was received is read or makes way for a transmission, even when the
\* interrupt came just before startReceive cleared its note.
FrameIsRead == payloadReady ~> ~payloadReady
=============================================================================
