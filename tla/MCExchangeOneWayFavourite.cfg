SPECIFICATION Spec
CONSTANTS
    Command <- OneWayOnly
    Capacity = 1
    RxTimeout = 2
    FinalTimeout = 2
    RetryGap = 1
    UnconfirmedGap = 3
    Budget = 10
    Repeats = 1
    MaxPreambles = 0
    Frames <- NoFrames
    Interruptions <- KeyExtractionTimers
    Failures <- NoFailures
INVARIANT
    NotRepeatable
