SPECIFICATION Spec
CONSTANTS
    RemoteA = RemoteA
    RemoteB = RemoteB
    NoIdentity = NoIdentity
    Window = 16
    Channels = 2
    Link <- Unlinked
    Identity <- Remotes
    StartValues <- AroundTheWrap
    MaxSends = 8
    SaveWrites = {TRUE}
    SharedImports = TRUE
    SharedClones = FALSE
PROPERTY
    NeverReplays
