SPECIFICATION FairSpec
CONSTANTS
    Command <- StopOnly
    Capacity = 1
    RxTimeout = 2
    FinalTimeout = 2
    RetryGap = 1
    UnconfirmedGap = 3
    Budget = 10
    Repeats = 1
    MaxPreambles = 0
    Frames <- ForeignStatus
    Interruptions <- NoInterruptions
    Failures <- NoFailures
PROPERTY
    KeepsListening
