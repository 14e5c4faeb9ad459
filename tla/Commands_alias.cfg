SPECIFICATION Spec
CONSTANTS
    Pieces <- Letters
    MaxPieces = 2
INVARIANTS
    OnlyCommandsAct
CHECK_DEADLOCK FALSE
