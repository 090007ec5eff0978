SPECIFICATION FairSpec
CONSTANTS
    Node = {"n1", "n2"}
    NoNode = "none"
    PairModes = {"Normal", "PullKey"}
    SkipConfirm = {FALSE}
    PairTimeout = 1
    ListenTime = 0
    ConfirmTimeout = 0
    ConfirmAttempts = 1
    KeyInitDelay = 1
    PullTimeout = 0
    StepTimeout = 0
    KeyAttempts = 2
    KeyTimeout = 1
    ConfigTimeout = 0
    MaxChallenges = 1
    MaxStrays = 1
    MaxPairings = 1
    Interruptions = {"cancel"}
    Modes = {"AnnounceOnly", "AnnounceAdd", "AddOnly", "Remove", "RemoveAdd"}
    DestinationCounts = {1, 2}
    Finalizers = {FALSE, TRUE}
    Repeats = 1
    RepeatInterval = 1
    EnrollTimeout = 5
    TxTimeout = 1
    FinalizerDelay = 1
    Window = 4
    TraceSize = 8
    MaxStarts = 1
    MaxBusy = 1
    RadioFails = TRUE
INVARIANTS
    TypeOK
    PairingToldTrue
    GestureInOrder
PROPERTIES
    KeepsContract
    GestureTakesEffect
    BothConclude
CHECK_DEADLOCK FALSE
