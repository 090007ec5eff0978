------------------------------- MODULE MCRadio -------------------------------
(***************************************************************************)
(* The two radio drivers, of which a build has one.  The SX1262 is taken   *)
(* in two settings, on the same variables: a chip that refuses commands,   *)
(* gives transmissions up and receives frames, by the constants of the     *)
(* configuration; and a user that waits for the end of a transmission and  *)
(* does not call standby().  "runs" is what runs, and what does not keeps  *)
(* still.                                                                  *)
(***************************************************************************)
EXTENDS Radio

VARIABLE runs

Waiting == INSTANCE RadioSX1262 WITH
    Depth <- 2, Stalls <- FALSE, SoftwareTimeout <- FALSE, MaxTx <- 2, MaxFrames <- 0

ASSUME Assumptions == RadioAssumption /\ Waiting!RadioAssumption

radios == <<runs, vars, vars76>>

Settings == {"Contended", "Waiting", "SX1276"}

RadioInit ==
    /\ runs \in Settings
    /\ Init /\ SX1276!Init

RadioNext ==
    /\ UNCHANGED runs
    /\ \/ /\ \/ runs = "Contended" /\ Next
             \/ runs = "Waiting" /\ Waiting!Next
          /\ UNCHANGED vars76
       \/ runs = "SX1276" /\ SX1276!Next /\ UNCHANGED vars

\* The SX1262: the chip ends a transmission; the task runs; a call that was begun goes on;
\* the user asks for the end of a transmission, and loop() for packets, in every pass; and
\* clearing the flags and entering standby is not refused for ever.
\* The SX1276: the same, and the controller starts the receiver when it is idle.
FairSpec ==
    /\ RadioInit /\ [][RadioNext]_radios
    /\ WF_vars(runs = "Waiting" /\ \E flag \in {"TxDone", "Timeout"} : Waiting!TxEnds(flag))
    /\ WF_vars(runs = "Waiting" /\ Waiting!HandleDio1)
    /\ WF_vars(runs = "Waiting" /\ \E o \in Waiting!Outcome : Waiting!Proceed(o))
    /\ SF_vars(runs = "Waiting" /\ (Waiting!TxPollQueue \/ Waiting!TxPollChip))
    /\ SF_vars(runs = "Waiting" /\ Waiting!TxClear("done"))
    /\ SF_vars(runs = "Waiting" /\ Waiting!Restart)
    /\ SF_vars(runs = "Waiting" /\ Waiting!EnterReceive("done"))
    /\ WF_vars76(runs = "SX1276" /\ SX1276!Proceed)
    /\ WF_vars76(runs = "SX1276" /\ SX1276!PacketEnds)
    /\ WF_vars76(runs = "SX1276" /\ SX1276!IsTxDone)
    /\ SF_vars76(runs = "SX1276" /\ SX1276!IsPacketAvailable)
    /\ SF_vars76(runs = "SX1276" /\ mState76 = "Idle" /\ SX1276!StartReceive)

-----------------------------------------------------------------------------

\* What was begun runs to its end: a driver that says it receives has a chip that does or
\* knows that it must start it again, unless a standby that was done was reported refused; a
\* transmission ends for a driver whose user only polls; and a frame that was received is
\* read or makes way, whoever reads the flags and however often clearing them fails.
RunsToItsEnd ==
    /\ [](runs # "SX1276" => ReceivingListens)
    /\ runs = "Waiting" => Waiting!TransmitEnds
    /\ runs = "SX1276" => SX1276!FrameIsRead
=============================================================================
