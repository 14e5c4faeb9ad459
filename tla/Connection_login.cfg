SPECIFICATION FairSpec
CONSTANTS
    ProofReplySize = 32
    U32Wrap = 65536
    Cuts <- Offsets
    MaxStray = 1
    Lossy = TRUE
INVARIANTS
    IInv
    OneRead
    ReadHasRoom
    MutualAuth
    CredentialsOnIo
PROPERTIES
    LoginResolves
\* A login that is over does nothing more.
CHECK_DEADLOCK FALSE
