SPECIFICATION Spec
CONSTANTS
    ProofReplySize = 32
    U32Wrap = 65536
    Cuts = {3}
    MaxStray = 0
    Lossy = FALSE
INVARIANTS
    RefusalIsReal
\* A login that is over does nothing more.
CHECK_DEADLOCK FALSE
