------------------------- MODULE PairingAndEnrollment -------------------------
(***************************************************************************)
(* What startPairing begins: the pairing of a 2W device or the enrollment  *)
(* of a 1W actuator, by the type of the channel.  The controller has one   *)
(* mState and does one of them at a time; "part" says which, and the other *)
(* keeps still.                                                            *)
(***************************************************************************)
EXTENDS Enrollment

CONSTANTS
    Node, NoNode, PairModes, SkipConfirm, PairTimeout, ListenTime, ConfirmTimeout,
    ConfirmAttempts, KeyInitDelay, PullTimeout, StepTimeout, KeyAttempts, KeyTimeout,
    ConfigTimeout, MaxChallenges, MaxStrays, MaxPairings, Interruptions

VARIABLES
    part,
    mState, pairMode, skip, knownPeer, peer, confirmAttempts, attempts, challenge,
    keyChallenge, pairStateAge, pairAge, keyAge, pairOutcome, diagnostic, stored, sent, air,
    dev, keyed, strays, pairings, inits, took

pairingVars ==
    <<mState, pairMode, skip, knownPeer, peer, confirmAttempts, attempts, challenge,
      keyChallenge, pairStateAge, pairAge, keyAge, pairOutcome, diagnostic, stored, sent, air,
      dev, keyed, strays, pairings, inits, took>>
allVars == <<part, pairingVars, vars>>

Pairing2W == INSTANCE Pairing WITH
    Modes <- PairModes, MaxStarts <- MaxPairings, mode <- pairMode, known <- knownPeer,
    stateAge <- pairStateAge, outcome <- pairOutcome, starts <- pairings

StartAssumption ==
    EnrollmentAssumption /\ Pairing2W!NodeAssumption /\ Pairing2W!BoundAssumption

\* What does not run is not paired, and its devices have no key.
StartInit ==
    /\ part \in {"pairing", "enrollment"}
    /\ Pairing2W!Init /\ Init
    /\ part = "pairing" => ~ paired /\ ~ enrolled
    /\ part = "enrollment" => keyed = {}

StartNext ==
    /\ UNCHANGED part
    /\ \/ part = "pairing" /\ Pairing2W!Next /\ UNCHANGED vars
       \/ part = "enrollment" /\ Next /\ UNCHANGED pairingVars

StartSpec == StartInit /\ [][StartNext]_allVars

-----------------------------------------------------------------------------
(* Properties *)

\* There is room in the trace for every burst and for the entry that tells the end.
Room == \A d \in DestinationCounts : d + 4 <= TraceSize

\* The outcome of a pairing is true: Success exactly when the channel took a device over,
\* if no start is refused meanwhile; then the one the caller named, and one that holds the
\* key; told when the pairing is over, whatever failed or was cancelled, if nothing else
\* assigns mState; and the key exchange began no more often than it may.  Nor does an
\* enrollment take a number twice, end untold, or tell of a burst that was not sent in full.
\* The types of a pairing are part of it, TypeOK being those of the enrollment.
PairingToldTrue ==
    /\ Pairing2W!StoredMeansShared /\ Pairing2W!BindsTheKnownPeer
    /\ Pairing2W!KeyExchangeBounded
    /\ part = "pairing" =>
           /\ Pairing2W!TypeOK
           /\ "reject" \notin Interruptions => Pairing2W!SuccessIffBound
           /\ Interruptions \cap {"status", "other"} = {} => Pairing2W!EndIsTold
    /\ SequencesFresh /\ EndIsTold
    /\ Room => TraceTellsTheTruth

\* A pairing that is interrupted anywhere still keeps the promise of PairingContract: one
\* outcome, and only a device that holds the system key is bound.
Contract == INSTANCE PairingContract WITH outcome <- pairOutcome
KeepsContract == Contract!Spec
=============================================================================
