SPECIFICATION FairSpec
CONSTANTS
    Hub = {"h1", "h2"}
    NoHub = "none"
    Timeout = 5
    MidHold = 1
    Grace = 2
    Channels = 2
    MaxStarts = 1
    MaxFrames = 5
    MaxCommands = 0
    RadioFails = TRUE
    TxDoneLost = TRUE
    Device = {"d1"}
    NoDevice = "none"
    Linked = {}
    Frequencies = 2
    DutyFull = {}
    RxTimeout = 1
    TxTimeout = 1
    MaxReports = 2
    MaxRemote = 1
    MaxPassive = 1
    AnswersFail = FALSE
    AnswersLost = FALSE
    Joiner = {"d1", "d2", "d3"}
    MaxPaired = 2
    MaxSent = 5
    MaxModes = 2
    Node = {"n1", "n2"}
    NoNode = "none"
    MaxScanBuffer = 1
    MaxChallenges = 2
    MaxCalls = 3
    Lossy = FALSE
    Imports = TRUE
    Pairs = FALSE
    NumFrequencies = 3
    MaxSweeps = 3
    SX1262 = TRUE
    Automatic = FALSE
    Interrupts = 1
    MaxTriggers = 2
    Code <- ScannedCodes
    Known = TRUE
    MaxScans = 2
    Candidate = {"d1", "d2"}
    Own = "own"
    MaxDevices = 1
    QueueSize = 2
    MaxImports = 1
    MaxPolls = 1
    MaxConsole = 1
    MaxSniffs = 0
INVARIANTS
    TypesOK
    KeyIsRight
    ScansWhole
PROPERTIES
    IdleIsReady
    AppliedInOrder
    KeyTakenOver
    EverythingEnds
CHECK_DEADLOCK FALSE
