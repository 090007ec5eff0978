SPECIFICATION FairSpec
CONSTANTS
    PollDelay = 1
    Window = 6
    Interval = 3
    Estimates = {1, 3}
    Answers = TRUE
    Fails = TRUE
    MaxEvents = 2
    MaxPolls = 2
    Full = 2
    Pace = 2
    Invert = TRUE
    OneWay = FALSE
    TravelTimes = {}
    MaxMoves = 2
    MaxStops = 2
    Scenes = {"s1"}
    Kinds = {"shutter", "window", "dimmable", "switch"}
    Behaviours = {"nothing", "status", "restore"}
    MaxRestarts = 1
    Remotes = {"r1", "r2", "r3"}
    Devices = {"d1", "d2"}
    MaxEntries = 2
    MaxLinks = 1
    MaxObserved = 2
    NoRemote = "none"
    MaxHeard = 1
INVARIANTS
    TypeOK
    FollowUpHasTime
    RecallReturns
    RemotesKept
PROPERTIES
    RejectedStopResumes
    MotionEndShown
