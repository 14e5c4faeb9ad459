SPECIFICATION Spec
CONSTANTS
    ProofReplySize = 36
    U32Wrap = 65536
    Cuts = {2}
    MaxStray = 2
    Lossy = TRUE
INVARIANTS
    HookOnce
    StepErrorIsReal
    RefusalIsReal
    InvalidProofIsReal
PROPERTIES
    ClosingIsFinal
    LoginSpec
\* A login that is over does nothing more.
CHECK_DEADLOCK FALSE
