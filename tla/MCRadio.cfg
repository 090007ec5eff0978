SPECIFICATION FairSpec
CONSTANTS
    Depth = 3
    Contended = TRUE
    Latency = 1
    Stalls = TRUE
    SoftwareTimeout = TRUE
    MaxTx = 3
    MaxFrames = 2
INVARIANTS
    TypeOK
    ReportedWentOut
    DeliveredOnce
    SharedFifo
PROPERTY
    RunsToItsEnd
CHECK_DEADLOCK FALSE
