SPECIFICATION Spec
CONSTANTS
    Command <- AllCommands
    Capacity = 1
    RxTimeout = 2
    FinalTimeout = 2
    RetryGap = 1
    UnconfirmedGap = 3
    Budget = 10
    Repeats = 1
    MaxPreambles = 1
    Frames <- FrameKinds
    Interruptions <- InterruptionKinds
    Failures <- DriverFailures
INVARIANTS
    TypeOK
    OneOutcome
    AttemptsBounded
    CautiousResend
    AcceptedExecuteNotDenied
PROPERTY
    PollFailureTold
