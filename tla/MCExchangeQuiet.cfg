SPECIFICATION FairSpec
CONSTANTS
    Command <- AllCommands
    Capacity = 1
    RxTimeout = 2
    FinalTimeout = 2
    RetryGap = 1
    UnconfirmedGap = 3
    Budget = 10
    Repeats = 1
    MaxPreambles = 1
    Frames <- PeerFrames
    Interruptions <- NoInterruptions
    Failures <- FailureKinds
INVARIANTS
    AcceptedMeansAnswered
PROPERTIES
    EndsWithOutcome
    Concludes
