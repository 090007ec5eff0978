SPECIFICATION Spec
CONSTANTS
    RemoteA = RemoteA
    RemoteB = RemoteB
    NoIdentity = NoIdentity
    Window = 3
    Channels = 3
    Link <- ThirdToFirst
    Identity <- Remotes
    StartValues <- AroundTheWrap
    MaxSends = 7
    SaveWrites = {TRUE}
    SharedImports = FALSE
    SharedClones = FALSE
INVARIANTS
    TypeOK
    ReservedInFlash
PROPERTY
    NeverReplays
