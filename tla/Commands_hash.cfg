SPECIFICATION Spec
CONSTANTS
    Pieces <- Letters
    MaxPieces = 2
INVARIANTS
    HashIsFNV1a
CHECK_DEADLOCK FALSE
