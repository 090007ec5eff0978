SPECIFICATION Spec
CONSTANTS
    RemoteA = RemoteA
    RemoteB = RemoteB
    NoIdentity = NoIdentity
    Window = 16
    Channels = 1
    Link <- Unlinked
    Identity <- Remotes
    StartValues <- AroundTheWrap
    MaxSends = 8
    SaveWrites = {TRUE, FALSE}
    SharedImports = FALSE
    SharedClones = FALSE
PROPERTY
    NeverReplays
