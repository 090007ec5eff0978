---------------------------- MODULE PairingProofs ----------------------------
(***************************************************************************)
(* What a 2W pairing promises, for any devices, modes, timeouts and        *)
(* numbers of attempts, and whatever is lost, late, refused or cancelled.  *)
(***************************************************************************)
EXTENDS Pairing, TLAPS

Assumptions == NodeAssumption /\ BoundAssumption

\* The states of a pairing before its key was confirmed, and after it.
Searching == {"SendDiscovery", "WaitDiscovery"}
Unbound ==
    {"SendDiscovery", "WaitDiscovery", "SendConfirmation", "WaitConfirmation",
     "WaitKeyInitDelay", "SendLaunch", "WaitLaunch", "SendPullChallenge", "WaitPullResponse",
     "SendKeyInit", "WaitChallenge", "SendKeyTransfer", "WaitKeyConfirmation", "SendKeyAuth",
     "PairFailed"}
Bound == {"SendSetConfig1", "WaitSetConfig1", "SendConfigAuth", "WaitConfigFinal", "PairComplete"}

\* The outcome follows the phase.
PhaseInv ==
    /\ mState \in Unbound => outcome \in {"InProgress", "StartRejected"} /\ ~ took
    /\ mState \in Bound => outcome \in {"Success", "StartRejected"} /\ took

\* Once a peer was chosen it is the one that was asked for, and so is the one bound; the
\* counters of a pairing that still searches are at zero.
PeerInv ==
    /\ mState \in Searching => confirmAttempts = 0 /\ attempts = 0
    /\ mState = "SendConfirmation" => confirmAttempts < ConfirmAttempts
    /\ mState \in PairStates \ (Searching \union {"PairFailed"}) /\ known # NoNode =>
           peer = known
    /\ took /\ known # NoNode => stored = known

\* A confirmation on its way is one of a device that holds the key.
KeyInv ==
    /\ air.cmd = "KeyConfirmation" => air.node \in keyed
    /\ stored # NoNode => stored \in keyed
    /\ inits = attempts

Safe == PhaseInv /\ PeerInv /\ KeyInv

\* A frame of the protocol has its type, and its fields are what it was made of.
LEMMA FrameTyped ==
    ASSUME NEW c \in Requests \union Replies \union {"Nothing"}, NEW n \in Node \union {NoNode},
           NEW h \in 0 .. MaxChallenges
    PROVE  /\ Frame(c, n, h) \in FrameType
           /\ Frame(c, n, h).cmd = c /\ Frame(c, n, h).node = n /\ Frame(c, n, h).ch = h
  BY DEF Frame, FrameType

\* The bounds that are counted up to are numbers.
LEMMA BoundsTyped ==
    ASSUME BoundAssumption
    PROVE  /\ {ConfirmAttempts, KeyAttempts, MaxChallenges, MaxStrays, MaxStarts} \subseteq Nat
           /\ 0 \in 0 .. ConfirmAttempts /\ 0 \in 0 .. KeyAttempts
           /\ 0 \in 0 .. MaxChallenges /\ 0 \in 0 .. MaxStrays /\ 0 \in 0 .. MaxStarts
  <1>1. {ConfirmAttempts, KeyAttempts, MaxChallenges, MaxStrays, MaxStarts} \subseteq Nat
    BY DEF BoundAssumption
  <1>2. /\ ConfirmAttempts \in Nat /\ KeyAttempts \in Nat
        /\ MaxChallenges \in Nat /\ MaxStrays \in Nat /\ MaxStarts \in Nat
    BY <1>1
  <1> QED
    BY <1>1, <1>2

\* The requests that carry no challenge.
LEMMA RequestTyped ==
    ASSUME BoundAssumption, NEW n \in Node \union {NoNode}
    PROVE  /\ Frame("Discover", n, 0) \in FrameType
           /\ Frame("Confirmation", n, 0) \in FrameType
           /\ Frame("LaunchKeyTransfer", n, 0) \in FrameType
           /\ Frame("PullChallenge", n, 0) \in FrameType
           /\ Frame("KeyInit", n, 0) \in FrameType
           /\ Frame("SetConfig1", n, 0) \in FrameType
           /\ Frame("ConfigAuth", n, 0) \in FrameType
  <1>1. 0 \in 0 .. MaxChallenges
    BY BoundsTyped
  <1>2. {"Discover", "Confirmation", "LaunchKeyTransfer", "PullChallenge", "KeyInit",
         "SetConfig1", "ConfigAuth"} \subseteq Requests
    BY DEF Requests
  <1>3. ASSUME NEW c \in Requests PROVE Frame(c, n, 0) \in FrameType
    BY <1>1, FrameTyped
  <1> QED
    BY <1>2, <1>3

\* No frame.
LEMMA NothingTyped ==
    ASSUME BoundAssumption
    PROVE  Nothing \in FrameType /\ Nothing.cmd = "Nothing"
  BY DEF BoundAssumption, Nothing, FrameType

-----------------------------------------------------------------------------
(* Types *)

\* Before the first pairing every variable has its type.
LEMMA TypeInit == Assumptions /\ Init => TypeOK
  <1> SUFFICES ASSUME Assumptions, Init PROVE TypeOK
    OBVIOUS
  <1>1. Nothing \in FrameType
    BY NothingTyped DEF Assumptions
  <1>2. dev \in [Node -> [ch : 0 .. MaxChallenges, asked : {"Nothing", "key", "auth", "config"}]]
    <2>1. [ch |-> 0, asked |-> "Nothing"] \in
              [ch : 0 .. MaxChallenges, asked : {"Nothing", "key", "auth", "config"}]
      BY BoundsTyped DEF Assumptions
    <2> QED BY <2>1 DEF Init
  <1> QED
    BY <1>1, <1>2, BoundsTyped DEF Assumptions, Init, TypeOK, PairingModes, Outcomes

\* Every step keeps the types.
LEMMA TypeStep == Assumptions /\ TypeOK /\ PeerInv /\ [Next]_vars => TypeOK'
  <1> SUFFICES ASSUME NodeAssumption, BoundAssumption, TypeOK, PeerInv, [Next]_vars
               PROVE  TypeOK'
    BY DEF Assumptions
  <1> USE DEF controller, clocks, telemetry, devices, medium, bounds, history, PeerInv
  <1>1. CASE StartPairing
    <2>1. starts' \in 0 .. MaxStarts
      BY <1>1, BoundsTyped DEF StartPairing, TypeOK
    <2>2. mState' \in PairStates /\ mode' \in PairingModes /\ skip' \in BOOLEAN
      BY <1>1 DEF StartPairing, BoundAssumption, PairStates, SendStates
    <2>3. outcome' \in Outcomes /\ diagnostic' \in Outcomes
      BY <1>1 DEF StartPairing, Outcomes
    <2> QED
      BY <1>1, <2>1, <2>2, <2>3, BoundsTyped DEF StartPairing, TypeOK
  <1>2. CASE RejectStart
    <2>1. starts' \in 0 .. MaxStarts
      BY <1>2, BoundsTyped DEF RejectStart, TypeOK
    <2>2. mode' \in PairingModes /\ outcome' \in Outcomes /\ diagnostic' \in Outcomes
      BY <1>2 DEF RejectStart, PairingModes, Outcomes
    <2> QED
      BY <1>2, <2>1, <2>2 DEF RejectStart, TypeOK
  <1>3. CASE CancelPairing
    BY <1>3 DEF CancelPairing, Complete, Result, TypeOK, Outcomes, PairStates, SendStates,
       WaitStates
  <1>4. CASE LeavePairing
    BY <1>4 DEF LeavePairing, TypeOK, PairStates, SendStates, WaitStates
  <1>5. CASE OtherEnds
    BY <1>5 DEF OtherEnds, TypeOK, PairStates, SendStates, WaitStates
  <1>6. CASE SendDiscovery
    <2>1. Frame("Discover", NoNode, 0) \in FrameType
      BY RequestTyped DEF TypeOK
    <2> QED
      BY <1>6, <2>1 DEF SendDiscovery, sendKeeps, Transmit, GoTo, TypeOK, PairStates,
         SendStates, WaitStates
  <1>7. CASE SendConfirmation
    <2>1. Frame("Confirmation", peer, 0) \in FrameType
      BY RequestTyped DEF TypeOK
    <2>2. confirmAttempts' \in 0 .. ConfirmAttempts
      BY <1>7, BoundsTyped DEF SendConfirmation, TypeOK
    <2>3. mState' \in PairStates /\ sent' \in FrameType /\ stateAge' \in Nat
      BY <1>7, <2>1 DEF SendConfirmation, Transmit, GoTo, AfterConfirmation, TypeOK,
         PairStates, SendStates, WaitStates
    <2> QED
      BY <1>7, <2>2, <2>3 DEF SendConfirmation, sendKeeps, TypeOK
  <1>8. CASE SendLaunch
    <2>1. Frame("LaunchKeyTransfer", peer, 0) \in FrameType
      BY RequestTyped DEF TypeOK
    <2> QED
      BY <1>8, <2>1 DEF SendLaunch, sendKeeps, Transmit, GoTo, TypeOK, PairStates,
         SendStates, WaitStates
  <1>9. CASE SendPullChallenge
    <2>1. Frame("PullChallenge", peer, 0) \in FrameType
      BY RequestTyped DEF TypeOK
    <2> QED
      BY <1>9, <2>1 DEF SendPullChallenge, sendKeeps, Transmit, GoTo, TypeOK, PairStates,
         SendStates, WaitStates
  <1>10. CASE SendKeyInit
    <2>1. Frame("KeyInit", peer, 0) \in FrameType
      BY RequestTyped DEF TypeOK
    <2>2. attempts' \in 0 .. KeyAttempts /\ inits' \in Nat
      BY <1>10, BoundsTyped DEF SendKeyInit, KeyExchangeOver, TypeOK
    <2>3. mState' \in PairStates /\ sent' \in FrameType /\ stateAge' \in Nat
      BY <1>10, <2>1 DEF SendKeyInit, Transmit, GoTo, TypeOK, PairStates, SendStates, WaitStates
    <2>4. pairAge' \in Nat /\ keyAge' \in Nat
      BY <1>10 DEF SendKeyInit, TypeOK
    <2> QED
      BY <1>10, <2>2, <2>3, <2>4 DEF SendKeyInit, sendKeeps, TypeOK
  <1>11. CASE SendKeyTransfer
    <2>1. Frame("KeyTransfer", peer, challenge) \in FrameType
      BY FrameTyped DEF TypeOK, Requests
    <2> QED
      BY <1>11, <2>1 DEF SendKeyTransfer, sendKeeps, Transmit, GoTo, TypeOK, PairStates,
         SendStates, WaitStates
  <1>12. CASE SendKeyAuth
    <2>1. Frame("KeyAuth", peer, keyChallenge) \in FrameType
      BY FrameTyped DEF TypeOK, Requests
    <2> QED
      BY <1>12, <2>1 DEF SendKeyAuth, sendKeeps, Transmit, GoTo, TypeOK, PairStates,
         SendStates, WaitStates
  <1>13. CASE SendConfig
    <2>1. Frame("SetConfig1", peer, 0) \in FrameType /\ Frame("ConfigAuth", peer, 0) \in FrameType
      BY RequestTyped DEF TypeOK
    <2> QED
      BY <1>13, <2>1 DEF SendConfig, sendKeeps, Transmit, GoTo, TypeOK, PairStates,
         SendStates, WaitStates
  <1>14. CASE DiscoveryLapses
    BY <1>14 DEF DiscoveryLapses, waitKeeps, TypeOK, PairStates, SendStates, WaitStates
  <1>15. CASE ConfirmationLapses
    BY <1>15 DEF ConfirmationLapses, waitKeeps, ConfirmationOver, AfterConfirmation, TypeOK,
       PairStates, SendStates, WaitStates
  <1>16. CASE KeyInitDelayElapses
    BY <1>16 DEF KeyInitDelayElapses, waitKeeps, TypeOK, PairStates, SendStates, WaitStates
  <1>17. CASE PullLapses
    BY <1>17 DEF PullLapses, waitKeeps, TypeOK, PairStates, SendStates, WaitStates
  <1>18. CASE KeyExchangeLapses
    BY <1>18, BoundsTyped DEF KeyExchangeLapses, waitKeeps, TypeOK, PairStates, SendStates,
       WaitStates
  <1>19. CASE ConfigLapses
    BY <1>19 DEF ConfigLapses, waitKeeps, TypeOK, PairStates, SendStates, WaitStates
  <1>20. CASE PairFailed
    BY <1>20 DEF PairFailed, Complete, Result, FailureOutcome, TypeOK, Outcomes, PairStates,
       SendStates, WaitStates
  <1>21. CASE PairComplete
    BY <1>21 DEF PairComplete, Complete, Result, TypeOK, Outcomes, PairStates, SendStates,
       WaitStates
  <1>22. CASE ReceiveStatus
    BY <1>22 DEF ReceiveStatus, TypeOK, PairStates, SendStates, WaitStates
  <1>23. CASE Receive
    <2>1. air.node \in Node \union {NoNode} /\ air.ch \in 0 .. MaxChallenges
      BY DEF TypeOK, FrameType
    <2>2. air' \in FrameType
      BY <1>23, NothingTyped DEF Receive
    <2>3. CASE Take(air) /\ stateAge' = 0
      <3>1. /\ mState' \in PairStates
            /\ peer' \in Node \union {NoNode} /\ attempts' \in 0 .. KeyAttempts
            /\ challenge' \in 0 .. MaxChallenges /\ keyChallenge' \in 0 .. MaxChallenges
            /\ outcome' \in Outcomes /\ diagnostic' \in Outcomes
            /\ stored' \in Node \union {NoNode} /\ took' \in BOOLEAN
        <4>1. CASE mState = "WaitDiscovery" /\ TakeDiscoverResponse(air)
          BY <2>1, <4>1, BoundsTyped DEF TakeDiscoverResponse, AfterDiscovery, TypeOK,
             PairStates, SendStates
        <4>2. CASE mState = "WaitConfirmation" /\ TakeConfirmation(air)
          BY <4>2 DEF TakeConfirmation, AfterConfirmation, TypeOK, PairStates, SendStates,
             WaitStates
        <4>3. CASE mState \in {"WaitLaunch", "WaitPullResponse"} /\ TakePull(air)
          BY <4>3 DEF TakePull, TypeOK, PairStates, SendStates
        <4>4. CASE mState \in {"WaitChallenge", "WaitKeyConfirmation"} /\ TakeChallenge(air)
          BY <2>1, <4>4 DEF TakeChallenge, TypeOK, PairStates, SendStates
        <4>5. CASE mState \in {"WaitChallenge", "WaitKeyConfirmation"} /\ TakeKeyConfirmation(air)
          BY <4>5 DEF TakeKeyConfirmation, Complete, Result, TypeOK, Outcomes, PairStates,
             SendStates
        <4>6. CASE mState \in {"WaitSetConfig1", "WaitConfigFinal"} /\ TakeConfig(air)
          BY <4>6 DEF TakeConfig, TypeOK, PairStates, SendStates
        <4> QED BY <2>3, <4>1, <4>2, <4>3, <4>4, <4>5, <4>6, Zenon DEF Take
      <3> QED BY <1>23, <2>2, <2>3, <3>1 DEF Receive, receiveKeeps, TypeOK
    <2>4. CASE ~ (Take(air) /\ stateAge' = 0)
      <3>1. outcome' \in Outcomes /\ diagnostic' \in Outcomes
        BY <1>23, <2>4 DEF Receive, Uncorrelated, TypeOK, Outcomes
      <3> QED BY <1>23, <2>2, <2>4, <3>1 DEF Receive, receiveKeeps, TypeOK
    <2> QED BY <2>3, <2>4
  <1>24. ASSUME NEW n \in Node, DeviceAnswers(n) PROVE TypeOK'
    <2>1. /\ dev[n] \in [ch : 0 .. MaxChallenges, asked : {"Nothing", "key", "auth", "config"}]
          /\ dev[n].ch \in 0 .. MaxChallenges
      BY DEF TypeOK
    <2>2. sent' \in FrameType /\ keyed' \subseteq Node
      BY <1>24, NothingTyped DEF DeviceAnswers, TypeOK
    <2>3. ASSUME NEW c \in Replies, Reply(n, c)
          PROVE  air' \in FrameType /\ dev' = dev
      BY <2>3, FrameTyped DEF Reply, BoundAssumption
    <2>4. ASSUME NEW what \in {"key", "auth", "config"}, Ask(n, what)
          PROVE  /\ air' \in FrameType
                 /\ dev' \in [Node -> [ch : 0 .. MaxChallenges,
                                       asked : {"Nothing", "key", "auth", "config"}]]
      <3>1. dev[n].ch + 1 \in 0 .. MaxChallenges
        BY <2>1, <2>4 DEF Ask, BoundAssumption
      <3>2. air' \in FrameType
        BY <2>4, <3>1, FrameTyped DEF Ask, Replies
      <3>3. [ch |-> dev[n].ch + 1, asked |-> what] \in
                [ch : 0 .. MaxChallenges, asked : {"Nothing", "key", "auth", "config"}]
        BY <3>1
      <3> QED BY <2>4, <3>2, <3>3 DEF Ask, TypeOK
    <2>5. /\ air' \in FrameType
          /\ dev' \in [Node -> [ch : 0 .. MaxChallenges,
                                asked : {"Nothing", "key", "auth", "config"}]]
      <3>1. {"DiscoverResponse", "ConfirmationACK", "Error", "PulledKey", "ChallengeResponse",
             "KeyConfirmation", "SetConfig1Response"} \subseteq Replies
        BY DEF Replies
      <3>2. (\E c \in Replies : Reply(n, c)) \/ (\E w \in {"key", "auth", "config"} : Ask(n, w))
        BY <1>24, <3>1, Zenon DEF DeviceAnswers
      <3>3. dev \in [Node -> [ch : 0 .. MaxChallenges,
                              asked : {"Nothing", "key", "auth", "config"}]]
        BY DEF TypeOK
      <3> QED BY <2>3, <2>4, <3>2, <3>3, Zenon
    <2> QED BY <1>24, <2>2, <2>5 DEF DeviceAnswers, deviceKeeps, TypeOK
  <1>25. CASE StrayFrame
    <2>1. air' \in FrameType
      BY <1>25, FrameTyped DEF StrayFrame, BoundAssumption
    <2> QED BY <1>25, <2>1 DEF StrayFrame, TypeOK, BoundAssumption
  <1>26. CASE Tick
    BY <1>26 DEF Tick, Capped, TypeOK
  <1>27. CASE UNCHANGED vars
    BY <1>27 DEF vars, TypeOK
  <1> QED
    BY <1>1, <1>2, <1>3, <1>4, <1>5, <1>6, <1>7, <1>8, <1>9, <1>10, <1>11, <1>12, <1>13, <1>14,
       <1>15, <1>16, <1>17, <1>18, <1>19, <1>20, <1>21, <1>22, <1>23, <1>24, <1>25, <1>26, <1>27
       DEF Next, Handlers, Sends, Lapses

-----------------------------------------------------------------------------
(* Safety *)

\* Before the first pairing nothing is bound, sent or counted.
LEMMA SafeInit == Assumptions /\ Init => Safe
  <1> SUFFICES ASSUME Assumptions, Init PROVE Safe
    OBVIOUS
  <1>1. Nothing.cmd = "Nothing"
    BY NothingTyped DEF Assumptions
  <1> QED
    BY <1>1 DEF Assumptions, NodeAssumption, Init, Safe, PhaseInv, PeerInv, KeyInv, Unbound,
       Bound, Searching, PairStates, SendStates, WaitStates

\* Every step keeps phase, peer and key in agreement.
LEMMA SafeStep == Assumptions /\ TypeOK /\ Safe /\ [Next]_vars => Safe'
  <1> SUFFICES ASSUME NodeAssumption, BoundAssumption, TypeOK, Safe, [Next]_vars PROVE Safe'
    BY DEF Assumptions
  <1> USE DEF controller, clocks, telemetry, devices, medium, bounds, history, Safe, PhaseInv,
              PeerInv, KeyInv, Searching, Unbound, Bound, PairStates, SendStates, WaitStates
  <1>1. CASE StartPairing
    BY <1>1 DEF StartPairing, TypeOK, BoundAssumption
  <1>2. CASE RejectStart
    BY <1>2 DEF RejectStart, TypeOK
  <1>3. CASE CancelPairing
    BY <1>3 DEF CancelPairing, Complete, Result, TypeOK
  <1>4. CASE LeavePairing
    BY <1>4 DEF LeavePairing, TypeOK
  <1>5. CASE OtherEnds
    BY <1>5 DEF OtherEnds, TypeOK
  <1>6. CASE SendDiscovery
    BY <1>6 DEF SendDiscovery, sendKeeps, Transmit, GoTo, TypeOK
  <1>7. CASE SendConfirmation
    BY <1>7 DEF SendConfirmation, sendKeeps, Transmit, GoTo, ConfirmationOver,
       AfterConfirmation, TypeOK, BoundAssumption
  <1>8. CASE SendLaunch
    BY <1>8 DEF SendLaunch, sendKeeps, Transmit, GoTo, TypeOK
  <1>9. CASE SendPullChallenge
    BY <1>9 DEF SendPullChallenge, sendKeeps, Transmit, GoTo, TypeOK
  <1>10. CASE SendKeyInit
    BY <1>10 DEF SendKeyInit, sendKeeps, Transmit, GoTo, KeyExchangeOver, TypeOK
  <1>11. CASE SendKeyTransfer
    BY <1>11 DEF SendKeyTransfer, sendKeeps, Transmit, GoTo, TypeOK
  <1>12. CASE SendKeyAuth
    BY <1>12 DEF SendKeyAuth, sendKeeps, Transmit, GoTo, TypeOK
  <1>13. CASE SendConfig
    BY <1>13 DEF SendConfig, sendKeeps, Transmit, GoTo, TypeOK
  <1>14. CASE DiscoveryLapses
    BY <1>14 DEF DiscoveryLapses, waitKeeps, TypeOK
  <1>15. CASE ConfirmationLapses
    BY <1>15 DEF ConfirmationLapses, waitKeeps, ConfirmationOver, AfterConfirmation, TypeOK,
       BoundAssumption
  <1>16. CASE KeyInitDelayElapses
    BY <1>16 DEF KeyInitDelayElapses, waitKeeps, TypeOK
  <1>17. CASE PullLapses
    BY <1>17 DEF PullLapses, waitKeeps, TypeOK
  <1>18. CASE KeyExchangeLapses
    BY <1>18 DEF KeyExchangeLapses, waitKeeps, TypeOK
  <1>19. CASE ConfigLapses
    BY <1>19 DEF ConfigLapses, waitKeeps, TypeOK
  <1>20. CASE PairFailed
    BY <1>20 DEF PairFailed, Complete, Result, FailureOutcome, TypeOK
  <1>21. CASE PairComplete
    BY <1>21 DEF PairComplete, Complete, Result, TypeOK
  <1>22. CASE ReceiveStatus
    BY <1>22 DEF ReceiveStatus, TypeOK
  <1>23. CASE Receive
    <2>1. air' = Nothing /\ Nothing.cmd = "Nothing"
      BY <1>23, NothingTyped DEF Receive
    <2>2. CASE Take(air) /\ stateAge' = 0
      <3>1. UNCHANGED <<known, confirmAttempts, keyed, inits>>
        BY <1>23 DEF Receive, receiveKeeps
      <3>2. CASE mState = "WaitDiscovery" /\ TakeDiscoverResponse(air)
        BY <2>1, <3>1, <3>2 DEF TakeDiscoverResponse, MayBecomePeer, AfterDiscovery, TypeOK,
           BoundAssumption
      <3>3. CASE mState = "WaitConfirmation" /\ TakeConfirmation(air)
        BY <2>1, <3>1, <3>3 DEF TakeConfirmation, AfterConfirmation
      <3>4. CASE mState \in {"WaitLaunch", "WaitPullResponse"} /\ TakePull(air)
        BY <2>1, <3>1, <3>4 DEF TakePull
      <3>5. CASE mState \in {"WaitChallenge", "WaitKeyConfirmation"} /\ TakeChallenge(air)
        BY <2>1, <3>1, <3>5 DEF TakeChallenge
      <3>6. CASE mState \in {"WaitChallenge", "WaitKeyConfirmation"} /\ TakeKeyConfirmation(air)
        BY <2>1, <3>1, <3>6 DEF TakeKeyConfirmation, FromPeer, Complete, Result
      <3>7. CASE mState \in {"WaitSetConfig1", "WaitConfigFinal"} /\ TakeConfig(air)
        BY <2>1, <3>1, <3>7 DEF TakeConfig
      <3> QED BY <2>2, <3>2, <3>3, <3>4, <3>5, <3>6, <3>7, Zenon DEF Take
    <2>3. CASE ~ (Take(air) /\ stateAge' = 0)
      <3>1. /\ UNCHANGED <<mState, outcome, took, confirmAttempts, attempts, known, peer,
                           stored, keyed, inits>>
        BY <1>23, <2>3 DEF Receive, receiveKeeps, Uncorrelated
      <3> QED BY <2>1, <3>1
    <2> QED BY <2>2, <2>3
  <1>24. ASSUME NEW n \in Node, DeviceAnswers(n) PROVE Safe'
    <2>1. keyed \subseteq keyed'
      BY <1>24 DEF DeviceAnswers
    <2>2. air'.cmd = "KeyConfirmation" => air'.node \in keyed'
      <3>1. ASSUME NEW c, Reply(n, c) PROVE air'.cmd = c /\ air'.node = n
        BY <3>1 DEF Reply, Frame
      <3>2. ASSUME NEW what, Ask(n, what) PROVE air'.cmd = "Challenge"
        BY <3>2 DEF Ask, Frame
      <3> QED BY <1>24, <3>1, <3>2 DEF DeviceAnswers
    <2> QED BY <1>24, <2>1, <2>2 DEF DeviceAnswers, deviceKeeps
  <1>25. CASE StrayFrame
    <2>1. air'.cmd = "KeyConfirmation" => air'.node \in keyed
      BY <1>25 DEF StrayFrame, Frame
    <2> QED BY <1>25, <2>1 DEF StrayFrame
  <1>26. CASE Tick
    BY <1>26 DEF Tick
  <1>27. CASE UNCHANGED vars
    BY <1>27 DEF vars
  <1> QED
    BY <1>1, <1>2, <1>3, <1>4, <1>5, <1>6, <1>7, <1>8, <1>9, <1>10, <1>11, <1>12, <1>13, <1>14,
       <1>15, <1>16, <1>17, <1>18, <1>19, <1>20, <1>21, <1>22, <1>23, <1>24, <1>25, <1>26, <1>27
       DEF Next, Handlers, Sends, Lapses

\* The inductive invariant: the types, and the agreement of phase, peer and key.
LEMMA PairingInv == ASSUME Assumptions PROVE Spec => [](TypeOK /\ Safe)
  <1>1. Init => TypeOK /\ Safe
    BY TypeInit, SafeInit
  <1>2. TypeOK /\ Safe /\ [Next]_vars => TypeOK' /\ Safe'
    BY TypeStep, SafeStep, Zenon DEF Safe
  <1> QED BY <1>1, <1>2, PTL DEF Spec

\* Types and ranges: counters, challenges and frames stay within their bounds.
THEOREM Types == ASSUME Assumptions PROVE Spec => []TypeOK
  BY PairingInv, PTL

\* The channel is bound only to a device that holds the system key (finalize2WPairingKey).
THEOREM Shared == ASSUME Assumptions PROVE Spec => []StoredMeansShared
  <1>1. Safe => StoredMeansShared
    BY DEF Safe, KeyInv, StoredMeansShared
  <1> QED BY <1>1, PairingInv, PTL

\* A caller that names the peer gets that peer (loop, PairWaitDiscoveryResponse).
THEOREM NamedPeer == ASSUME Assumptions PROVE Spec => []BindsTheKnownPeer
  <1>1. Safe => BindsTheKnownPeer
    BY DEF Safe, PeerInv, BindsTheKnownPeer
  <1> QED BY <1>1, PairingInv, PTL

\* The key exchange of a pairing begins at most KeyAttempts times (retry2WKeyExchange).
THEOREM ExchangeBounded == ASSUME Assumptions PROVE Spec => []KeyExchangeBounded
  <1>1. TypeOK /\ Safe => KeyExchangeBounded
    BY BoundsTyped DEF Assumptions, TypeOK, Safe, KeyInv, KeyExchangeBounded
  <1> QED BY <1>1, PairingInv, PTL

-----------------------------------------------------------------------------
(* The contract *)

\* How a step may change what the caller sees: nothing, or as one of the contract.
Seen == <<outcome, keyed, stored>>

\* The end of a pairing without success.
LEMMA FailureReported ==
    ASSUME NEW r \in {"NoResponse", "InvalidResponse", "KeyExchangeFailure", "Cancelled"},
           outcome' = Result(r), keyed' = keyed, stored' = stored
    PROVE  Contract!Fail \/ UNCHANGED Seen
  BY DEF Result, Contract!Fail, Contract!Failures, Seen

\* A frame that is taken: only a confirmation of the key is seen.
LEMMA ReceiveSeen ==
    ASSUME TypeOK, Safe, Receive
    PROVE  Contract!Bind \/ UNCHANGED Seen
  <1>1. keyed' = keyed
    BY DEF Receive, receiveKeeps, devices
  <1>2. CASE /\ mState \in {"WaitChallenge", "WaitKeyConfirmation"}
             /\ TakeKeyConfirmation(air)
    <2>1. outcome \in {"InProgress", "StartRejected"}
      BY <1>2 DEF Safe, PhaseInv, Unbound
    <2>2. air.node \in keyed /\ stored' = air.node
      BY <1>2 DEF TakeKeyConfirmation, FromPeer, Safe, KeyInv
    <2>3. outcome' = IF outcome = "InProgress" THEN "Success" ELSE outcome
      BY <1>2 DEF TakeKeyConfirmation, Complete, Result
    <2> QED BY <1>1, <2>1, <2>2, <2>3 DEF Contract!Bind
  <1>3. CASE ~ (/\ mState \in {"WaitChallenge", "WaitKeyConfirmation"}
                /\ TakeKeyConfirmation(air))
    <2>1. stored' = stored /\ outcome' = outcome
      BY <1>3 DEF Receive, Take, TakeDiscoverResponse, TakeConfirmation, TakePull, TakeChallenge,
         TakeConfig, Uncorrelated, telemetry
    <2> QED BY <1>1, <2>1 DEF Seen
  <1> QED BY <1>2, <1>3

\* Every step of the pairing is a step of the contract, or is not seen.
LEMMA ContractStep ==
    Assumptions /\ TypeOK /\ Safe /\ [Next]_vars => [Contract!Next]_Contract!vars
  <1> SUFFICES ASSUME TypeOK, Safe, [Next]_vars PROVE Contract!Next \/ UNCHANGED Seen
    BY DEF Seen, Contract!vars
  <1> USE DEF Seen, controller, clocks, telemetry, devices
  <1>1. CASE StartPairing
    BY <1>1 DEF StartPairing, Contract!Begin, Contract!Next
  <1>2. CASE RejectStart
    BY <1>2 DEF RejectStart, Contract!Reject, Contract!Next
  <1>3. CASE CancelPairing
    BY <1>3, FailureReported DEF CancelPairing, Complete, Contract!Next
  <1>4. CASE PairFailed
    <2>1. FailureOutcome \in {"NoResponse", "InvalidResponse", "KeyExchangeFailure", "Cancelled"}
      BY DEF FailureOutcome
    <2> QED BY <1>4, <2>1, FailureReported DEF PairFailed, Complete, Contract!Next
  <1>5. CASE PairComplete
    <2>1. outcome # "InProgress"
      BY <1>5 DEF PairComplete, Safe, PhaseInv, Bound
    <2> QED BY <1>5, <2>1 DEF PairComplete, Complete, Result
  <1>6. CASE Receive
    BY <1>6, ReceiveSeen DEF Contract!Next
  <1>7. ASSUME NEW n \in Node, DeviceAnswers(n) PROVE Contract!Next \/ UNCHANGED Seen
    <2>1. keyed' = keyed \/ keyed' = keyed \union {n}
      BY <1>7 DEF DeviceAnswers
    <2>2. outcome' = outcome /\ stored' = stored
      BY <1>7 DEF DeviceAnswers, deviceKeeps
    <2> QED BY <2>1, <2>2 DEF Contract!Share, Contract!Next
  <1>8. CASE Sends
    BY <1>8 DEF Sends, SendDiscovery, SendConfirmation, SendLaunch, SendPullChallenge, SendKeyInit,
       SendKeyTransfer, SendKeyAuth, SendConfig, sendKeeps
  <1>9. CASE Lapses
    BY <1>9 DEF Lapses, DiscoveryLapses, ConfirmationLapses, KeyInitDelayElapses, PullLapses,
       KeyExchangeLapses, ConfigLapses, waitKeeps
  <1>10. CASE LeavePairing \/ OtherEnds \/ ReceiveStatus \/ StrayFrame \/ Tick \/ UNCHANGED vars
    BY <1>10 DEF LeavePairing, OtherEnds, ReceiveStatus, StrayFrame, Tick, vars
  <1> QED
    BY <1>1, <1>2, <1>3, <1>4, <1>5, <1>6, <1>7, <1>8, <1>9, <1>10 DEF Next, Handlers

\* Whatever is lost, late, refused, cancelled or left: a pairing has one outcome, success
\* only with the device it binds, and binds only a device that holds the key.
THEOREM PairingKeepsContract == ASSUME Assumptions PROVE Spec => KeepsContract
  <1>1. Init => Contract!Init
    BY DEF Init, Contract!Init
  <1>2. TypeOK /\ Safe /\ [Next]_vars => [Contract!Next]_Contract!vars
    BY ContractStep
  <1> QED BY <1>1, <1>2, PairingInv, PTL DEF Spec, KeepsContract, Contract!Spec

-----------------------------------------------------------------------------
(* Telemetry *)

\* Success and the binding of the channel change together.
TellsInv == SuccessIffBound /\ outcome # "StartRejected"

\* While no start is refused, every step reports and binds together or does neither.
LEMMA TellsStep ==
    ASSUME "reject" \notin Interruptions, TypeOK, Safe, TellsInv, [Next]_vars
    PROVE  TellsInv'
  <1> USE DEF TellsInv, SuccessIffBound, controller, clocks, telemetry, devices, history
  <1>1. CASE StartPairing
    BY <1>1 DEF StartPairing
  <1>2. CASE RejectStart
    BY <1>2 DEF RejectStart
  <1>3. CASE CancelPairing
    BY <1>3 DEF CancelPairing, Complete, Result
  <1>4. CASE PairFailed
    <2>1. FailureOutcome \in {"NoResponse", "InvalidResponse", "KeyExchangeFailure"}
      BY DEF FailureOutcome
    <2> QED BY <1>4, <2>1 DEF PairFailed, Complete, Result
  <1>5. CASE PairComplete
    <2>1. outcome # "InProgress"
      BY <1>5 DEF PairComplete, Safe, PhaseInv, Bound
    <2> QED BY <1>5, <2>1 DEF PairComplete, Complete, Result
  <1>6. CASE Receive
    <2>1. CASE /\ mState \in {"WaitChallenge", "WaitKeyConfirmation"}
               /\ TakeKeyConfirmation(air)
      <3>1. outcome = "InProgress"
        BY <2>1 DEF Safe, PhaseInv, Unbound
      <3> QED BY <2>1, <3>1 DEF TakeKeyConfirmation, Complete, Result
    <2>2. CASE ~ (/\ mState \in {"WaitChallenge", "WaitKeyConfirmation"}
                  /\ TakeKeyConfirmation(air))
      BY <1>6, <2>2 DEF Receive, Take, TakeDiscoverResponse, TakeConfirmation, TakePull,
         TakeChallenge, TakeConfig, Uncorrelated
    <2> QED BY <2>1, <2>2
  <1>7. ASSUME NEW n \in Node, DeviceAnswers(n) PROVE TellsInv'
    BY <1>7 DEF DeviceAnswers, deviceKeeps
  <1>8. CASE Sends
    BY <1>8 DEF Sends, SendDiscovery, SendConfirmation, SendLaunch, SendPullChallenge, SendKeyInit,
       SendKeyTransfer, SendKeyAuth, SendConfig, sendKeeps
  <1>9. CASE Lapses
    BY <1>9 DEF Lapses, DiscoveryLapses, ConfirmationLapses, KeyInitDelayElapses, PullLapses,
       KeyExchangeLapses, ConfigLapses, waitKeeps
  <1>10. CASE LeavePairing \/ OtherEnds \/ ReceiveStatus \/ StrayFrame \/ Tick \/ UNCHANGED vars
    BY <1>10 DEF LeavePairing, OtherEnds, ReceiveStatus, StrayFrame, Tick, vars
  <1> QED
    BY <1>1, <1>2, <1>3, <1>4, <1>5, <1>6, <1>7, <1>8, <1>9, <1>10 DEF Next, Handlers

\* If no start is refused meanwhile, a pairing is reported as a success exactly when it bound
\* the channel, whatever fails or is cancelled before or after (completePairingTelemetry).
THEOREM SuccessTold ==
    ASSUME Assumptions, "reject" \notin Interruptions
    PROVE  Spec => []SuccessIffBound
  <1>1. Init => TellsInv
    BY DEF Init, TellsInv, SuccessIffBound
  <1>2. TypeOK /\ Safe /\ TellsInv /\ [Next]_vars => TellsInv'
    BY TellsStep
  <1>3. TellsInv => SuccessIffBound
    BY DEF TellsInv
  <1> QED BY <1>1, <1>2, <1>3, PairingInv, PTL DEF Spec

\* If nothing but the pairing itself, a refused start and a cancel assigns mState, the pairing
\* is over only once its outcome is recorded.
THEOREM EndTold ==
    ASSUME Assumptions, Interruptions \cap {"status", "other"} = {}
    PROVE  Spec => []EndIsTold
  <1>1. Init => EndIsTold
    BY DEF Init, EndIsTold
  <1>2. TypeOK /\ EndIsTold /\ [Next]_vars => EndIsTold'
    <2> SUFFICES ASSUME TypeOK, EndIsTold, [Next]_vars PROVE EndIsTold'
      OBVIOUS
    <2> USE DEF EndIsTold, controller, clocks, telemetry, PairStates, SendStates, WaitStates
    <2>1. CASE StartPairing \/ RejectStart
      BY <2>1 DEF StartPairing, RejectStart
    <2>2. CASE CancelPairing \/ PairFailed \/ PairComplete
      BY <2>2 DEF CancelPairing, PairFailed, PairComplete, Complete, Result, FailureOutcome
    <2>3. CASE Receive
      <3>1. CASE mState = "WaitDiscovery" /\ TakeDiscoverResponse(air)
        BY <3>1 DEF TakeDiscoverResponse, AfterDiscovery
      <3>2. CASE mState = "WaitConfirmation" /\ TakeConfirmation(air)
        BY <3>2 DEF TakeConfirmation, AfterConfirmation
      <3>3. CASE mState \in {"WaitLaunch", "WaitPullResponse"} /\ TakePull(air)
        BY <3>3 DEF TakePull
      <3>4. CASE mState \in {"WaitChallenge", "WaitKeyConfirmation"} /\ TakeChallenge(air)
        BY <3>4 DEF TakeChallenge
      <3>5. CASE mState \in {"WaitChallenge", "WaitKeyConfirmation"} /\ TakeKeyConfirmation(air)
        BY <3>5 DEF TakeKeyConfirmation
      <3>6. CASE mState \in {"WaitSetConfig1", "WaitConfigFinal"} /\ TakeConfig(air)
        BY <3>6 DEF TakeConfig
      <3>7. CASE ~ Take(air)
        BY <2>3, <3>7 DEF Receive, Uncorrelated
      <3> QED BY <3>1, <3>2, <3>3, <3>4, <3>5, <3>6, <3>7, Zenon DEF Take
    <2>4. ASSUME NEW n \in Node, DeviceAnswers(n) PROVE EndIsTold'
      BY <2>4 DEF DeviceAnswers, deviceKeeps
    <2>5. CASE Sends
      BY <2>5 DEF Sends, SendDiscovery, SendConfirmation, SendLaunch, SendPullChallenge,
         SendKeyInit, SendKeyTransfer, SendKeyAuth, SendConfig, Transmit, GoTo, AfterConfirmation
    <2>6. CASE Lapses
      BY <2>6 DEF Lapses, DiscoveryLapses, ConfirmationLapses, KeyInitDelayElapses, PullLapses,
         KeyExchangeLapses, ConfigLapses, AfterConfirmation
    <2>7. CASE OtherEnds \/ StrayFrame \/ Tick \/ UNCHANGED vars
      BY <2>7 DEF OtherEnds, StrayFrame, Tick, vars
    <2>8. ~ LeavePairing /\ ~ ReceiveStatus
      BY DEF LeavePairing, ReceiveStatus
    <2> QED
      BY <2>1, <2>2, <2>3, <2>4, <2>5, <2>6, <2>7, <2>8 DEF Next, Handlers
  <1> QED BY <1>1, <1>2, PairingInv, PTL DEF Spec
=============================================================================
