SPECIFICATION Spec
CONSTANTS
    ProofReplySize = 32
    U32Wrap = 65536
    Cuts = {21}
    MaxStray = 0
    Lossy = FALSE
INVARIANTS
    InvalidProofIsReal
\* A login that is over does nothing more.
CHECK_DEADLOCK FALSE
