-------------------------------- MODULE Radio --------------------------------
(***************************************************************************)
(* The two radio drivers, of which a build has one: the SX1262 with its    *)
(* task and its queue of flags, and the SX1276 with variables of its own.  *)
(***************************************************************************)
EXTENDS RadioSX1262

VARIABLES
    chip76, fifo, packetSent, payloadReady, fired, mState76, pc76, started76, wentOut76,
    told, late

vars76 ==
    <<chip76, fifo, packetSent, payloadReady, fired, mState76, pc76, started76, wentOut76,
      told, late>>

SX1276 == INSTANCE RadioSX1276 WITH
    chip <- chip76, mState <- mState76, pc <- pc76, started <- started76, wentOut <- wentOut76

\* The SX1276, whose driver has neither a task nor a queue: isTxDone tells of a transmission
\* only when it left the antenna; the protocol gets no frame that has not ended, but for a
\* startReceive that broke into the end of a transmission; and what is sent is the payload
\* alone, although both directions share one FIFO.
SharedFifo ==
    /\ SX1276!TypeOK /\ SX1276!ToldWentOut
    /\ SX1276!ReadsWholeFrames /\ SX1276!SendsPayloadAlone
=============================================================================
