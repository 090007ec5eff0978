----------------------------- MODULE Discovery -----------------------------
(***************************************************************************)
(* Discovery: a request is broadcast on each frequency in turn, and a      *)
(* listening window follows it, for a number of sweeps.  The encrypted     *)
(* (SPE) discovery has two sweeps, of different frame shapes; the standard *)
(* one has more and sends two frames per frequency, the classic and the    *)
(* alternative one, unless a diagnostic setting names the command.         *)
(*                                                                         *)
(* A step of the controller is one pass of IoHomecontrol::loop(): the      *)
(* handler of the state and then the feedback object DiscoveryActive.      *)
(***************************************************************************)
EXTENDS Naturals

CONSTANTS
    NumFrequencies,     \* IOHC_NUM_FREQUENCIES
    MaxSweeps,          \* IOHC_DISCOVERY_MAX_SWEEPS
    SX1262,             \* which driver is built in (#if RADIO_SX1262)
    Automatic,          \* mDiagnosticDiscoverySettings.command is Automatic
    RadioFails,         \* whether the driver may report an error other than Busy
    Interrupts,         \* bound: status frames and pairings that come between
    MaxTriggers         \* bound: discoveries asked for

DiscoveryAssumption ==
    /\ NumFrequencies = 3 /\ MaxSweeps \in Nat \ {0}
    /\ {SX1262, Automatic, RadioFails} \subseteq BOOLEAN
    /\ {Interrupts, MaxTriggers} \subseteq Nat

Frequency == 0 .. NumFrequencies - 1

VARIABLES
    mState,             \* Idle, DiscoverySending, DiscoveryListening, or Other
    phase,              \* mDiscoverySendPhase
    index, sweep,       \* mPairingFreqIdx, mDiscoverySweep
    alt, spe,           \* mDiscoveryAltFrame, mDiscoverySPE
    radio,              \* mRadio.state()
    packetSent,         \* the transmission in course has left the antenna
    channel,            \* mCurrentFreqIdx
    listened,           \* the window: Open, Extended (a frame may still finish), Over
    arriving,           \* isPreambleDetected() || isSyncDetected()
    ko, koLast,         \* KoIOHC_DiscoveryActive, mLastDiscoveryActive
    asked,              \* a discovery was asked for since the last pass
    sent,               \* requests of this discovery, on which channel and which sweep
    complete,           \* the last discovery ended after its last window
    triggers, interrupts \* counted for the bounds

plan   == <<phase, index, sweep, alt, spe>>
window == <<listened, arriving>>
knx    == <<ko, koLast, asked>>
bounds == <<triggers, interrupts>>
vars == <<mState, plan, radio, packetSent, channel, window, knx, sent, complete, bounds>>

Init ==
    /\ mState = "Idle" /\ phase = "SetFrequency" /\ index = 0 /\ sweep = 0
    /\ alt = FALSE /\ spe = FALSE
    /\ radio = "Receiving" /\ packetSent = FALSE /\ channel = 0
    /\ listened = "Open" /\ arriving = FALSE
    /\ ko = FALSE /\ koLast = FALSE /\ asked = FALSE
    /\ sent = {} /\ complete = FALSE /\ triggers = 0 /\ interrupts = 0

Active(state) == state \in {"DiscoverySending", "DiscoveryListening"}

\* The end of a pass: the object is written when the activity has changed.
Feedback ==
    /\ koLast' = Active(mState')
    /\ ko' = IF Active(mState') # koLast THEN Active(mState') ELSE ko
    /\ asked' = FALSE

\* speDiscoveryFrequencyIndex
SpeOrder(i) == IF i = 0 THEN 0 ELSE NumFrequencies - i
TxChannel == IF spe THEN SpeOrder(index) ELSE index

SweepCount == IF spe THEN 2 ELSE MaxSweeps

-----------------------------------------------------------------------------
(* Start *)

\* startDiscovery, accepted
Begin(encrypted) ==
    /\ index' = 0 /\ sweep' = 0 /\ phase' = "SetFrequency"
    /\ spe' = encrypted /\ alt' = FALSE
    /\ mState' = "DiscoverySending" /\ sent' = {} /\ complete' = FALSE

\* The group object asks for a standard discovery and shows it as running
\* whatever startDiscovery made of it; the encrypted one has no object.
StartDiscovery(encrypted) ==
    /\ triggers < MaxTriggers /\ triggers' = triggers + 1
    /\ IF mState = "Idle" THEN Begin(encrypted)
       ELSE UNCHANGED <<mState, plan, sent, complete>>
    /\ ko' = (ko \/ ~encrypted) /\ asked' = TRUE /\ UNCHANGED koLast
    /\ UNCHANGED <<radio, packetSent, channel, window, interrupts>>

-----------------------------------------------------------------------------
(* DiscoverySending *)

Sending == mState = "DiscoverySending"

\* Only the state machine that owns the transmission asks isTxDone().
RadioBusy == radio = "Transmitting"

ToIdle(forgetAlt) ==
    /\ mState' = "Idle" /\ phase' = "SetFrequency"
    /\ alt' = (alt /\ ~forgetAlt)

\* setFrequencyBlocking
SetFrequency ==
    /\ Sending /\ SX1262 /\ phase = "SetFrequency" /\ ~RadioBusy
    /\ channel' = TxChannel /\ phase' = "SetPreamble" /\ radio' = "Idle"
    /\ UNCHANGED <<mState, index, sweep, alt, spe, packetSent, window, sent, complete, bounds>>
    /\ Feedback

SetPreamble ==
    /\ Sending /\ phase = "SetPreamble" /\ ~RadioBusy
    /\ phase' = "StartTransmit"
    /\ UNCHANGED <<mState, index, sweep, alt, spe, radio, packetSent, channel, window, sent,
                   complete, bounds>>
    /\ Feedback

Ready == IF SX1262 THEN phase = "StartTransmit" ELSE phase = "SetFrequency"

ClassicAndAlt == ~spe /\ Automatic

\* The classic frame is followed by the alternative one before listening.
AfterTransmit ==
    IF ClassicAndAlt /\ ~alt
    THEN alt' = TRUE /\ UNCHANGED <<mState, listened>>
    ELSE alt' = FALSE /\ mState' = "DiscoveryListening" /\ listened' = "Open"

StartTransmit ==
    /\ Sending /\ Ready /\ ~RadioBusy
    /\ radio' = "Transmitting" /\ packetSent' = FALSE
    /\ channel' = TxChannel
    /\ sent' = sent \cup {<<TxChannel, sweep, alt>>}
    /\ phase' = "SetFrequency"
    /\ AfterTransmit
    /\ UNCHANGED <<index, sweep, spe, arriving, complete, bounds>>
    /\ Feedback

\* An error leaves the state; the first two phases leave mDiscoveryAltFrame as it is.
SendFails ==
    /\ Sending /\ RadioFails /\ ~RadioBusy
    /\ ToIdle(SX1262 /\ phase = "StartTransmit")
    /\ UNCHANGED <<index, sweep, spe, radio, packetSent, channel, window, sent, complete, bounds>>
    /\ Feedback

-----------------------------------------------------------------------------
(* DiscoveryListening *)

Listening == mState = "DiscoveryListening"

\* ensureReceiveAfterTransmit, in DiscoveryListening and in Idle
Receive ==
    /\ mState \in {"Idle", "DiscoveryListening", "Other"} /\ radio # "Receiving"
    /\ radio = "Transmitting" => packetSent
    /\ radio' = "Receiving"
    /\ UNCHANGED <<mState, plan, packetSent, channel, window, sent, complete, bounds>>
    /\ Feedback

\* Mutant: the next sweep goes on where the last one ended.
NextSweepAtEnd == index' = NumFrequencies - 1 /\ sweep' = sweep + 1
NextSweep == index' = 0 /\ sweep' = sweep + 1

\* The windows to come: the next frequency, the next sweep, or none.
WindowOver ==
    /\ Listening /\ radio = "Receiving"
    /\ listened = "Over" \/ (listened = "Extended" /\ ~arriving)
    /\ phase' = "SetFrequency"
    /\ \/ /\ index + 1 < NumFrequencies
          /\ index' = index + 1 /\ mState' = "DiscoverySending"
          /\ UNCHANGED <<sweep, complete>>
       \/ /\ index + 1 = NumFrequencies /\ sweep + 1 < SweepCount
          /\ NextSweep /\ mState' = "DiscoverySending" /\ UNCHANGED complete
       \/ /\ index + 1 = NumFrequencies /\ sweep + 1 >= SweepCount
          /\ index' = NumFrequencies /\ mState' = "Idle" /\ complete' = TRUE
          /\ UNCHANGED sweep
    /\ UNCHANGED <<alt, spe, radio, packetSent, channel, window, sent, bounds>>
    /\ Feedback

\* serviceBackgroundRxScan in the first encrypted sweep, serviceBroadcastResponseScan
\* in the second, which skips the channel of the request.
NextChannel ==
    LET next(c) == (c + 1) % NumFrequencies
        n == next(channel)
    IN  IF sweep = 1 /\ n = SpeOrder(index) THEN next(n) ELSE n

Hop ==
    /\ Listening /\ spe /\ radio = "Receiving" /\ ~arriving /\ listened = "Open"
    /\ channel' = NextChannel
    /\ UNCHANGED <<mState, plan, radio, packetSent, window, sent, complete, bounds>>
    /\ Feedback

-----------------------------------------------------------------------------
(* What else happens *)

\* A pass that finds nothing to do
IdlePass ==
    /\ asked
    /\ UNCHANGED <<mState, plan, radio, packetSent, channel, window, sent, complete, bounds>>
    /\ Feedback

\* The radio and the clock
PacketSent ==
    /\ radio = "Transmitting" /\ ~packetSent /\ packetSent' = TRUE
    /\ UNCHANGED <<mState, plan, radio, channel, window, knx, sent, complete, bounds>>

Tick ==
    /\ Listening /\ listened # "Over"
    /\ listened' = IF listened = "Open" THEN "Extended" ELSE "Over"
    /\ UNCHANGED <<mState, plan, radio, packetSent, channel, arriving, knx, sent, complete, bounds>>

FrameArrives ==
    /\ Listening /\ radio = "Receiving" /\ arriving' = ~arriving
    /\ UNCHANGED <<mState, plan, radio, packetSent, channel, listened, knx, sent, complete, bounds>>

\* A status frame of a paired device is authenticated; startPairing stops everything:
\* either takes the controller away and the discovery is not taken up again.
Interrupt ==
    /\ interrupts < Interrupts /\ interrupts' = interrupts + 1
    /\ Active(mState) \/ mState = "Idle"
    /\ mState' = "Other" /\ arriving' = FALSE /\ complete' = FALSE
    /\ \/ radio = "Receiving" /\ UNCHANGED <<radio, spe>>
       \/ radio' = "Receiving" /\ spe' = FALSE
    /\ UNCHANGED <<phase, index, sweep, alt, packetSent, channel, listened, sent, triggers>>
    /\ Feedback

OtherEnds ==
    /\ mState = "Other" /\ mState' = "Idle"
    /\ UNCHANGED <<plan, radio, packetSent, channel, window, sent, complete, bounds>>
    /\ Feedback

Handler ==
    \/ SetFrequency \/ SetPreamble \/ StartTransmit
    \/ Receive \/ WindowOver \/ IdlePass \/ OtherEnds

Environment == FrameArrives \/ Interrupt \/ Hop \/ SendFails

Next ==
    \/ Handler \/ Environment \/ PacketSent \/ Tick
    \/ \E encrypted \in BOOLEAN : StartDiscovery(encrypted)

Spec == Init /\ [][Next]_vars

-----------------------------------------------------------------------------
(* Properties *)

TypeOK ==
    /\ mState \in {"Idle", "DiscoverySending", "DiscoveryListening", "Other"}
    /\ phase \in {"SetFrequency", "SetPreamble", "StartTransmit"}
    /\ index \in 0 .. NumFrequencies /\ sweep \in 0 .. MaxSweeps
    /\ Active(mState) => index \in Frequency /\ sweep < SweepCount
    /\ channel \in Frequency /\ radio \in {"Idle", "Receiving", "Transmitting"}
    /\ listened \in {"Open", "Extended", "Over"}
    /\ {alt, spe, packetSent, arriving, ko, koLast, asked, complete} \subseteq BOOLEAN
    /\ sent \subseteq Frequency \X (0 .. MaxSweeps) \X BOOLEAN

\* A discovery that runs to its end has asked on every channel in every sweep, with
\* both frames when it sends both: the order of the channels, the restart of a sweep
\* and the phases of sending leave none out (processDiscovery).
EveryChannelAsked ==
    complete =>
        sent = Frequency \X (0 .. SweepCount - 1)
                         \X (IF ClassicAndAlt THEN BOOLEAN ELSE {FALSE})

\* A discovery that is started comes to an end, whatever arrives in its windows.
DiscoveryEnds == Active(mState) ~> ~Active(mState)

\* Having sent the classic frame, the discovery sends the alternative one and listens.
AltFollows == (Sending /\ alt) ~> (Listening \/ ~Active(mState))

\* After a pass of the loop the object DiscoveryActive tells whether one is running.
KoTellsDiscovery == ~asked => ko = Active(mState)
=============================================================================
