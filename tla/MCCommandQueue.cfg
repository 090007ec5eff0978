SPECIFICATION Spec
CONSTANTS
    open = open
    NoEntry = NoEntry
    Command <- MCCommand
    Attempts <- MCAttempts
    DefaultAttempts = 3
    QueueSize = 4
INVARIANTS
    TypeOK
    LiveSlots
PROPERTY
    ImplementsFifo
