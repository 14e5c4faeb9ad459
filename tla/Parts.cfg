SPECIFICATION PartsSpec
CONSTANTS
    Files <- AllFiles
    Names = {"a", "b"}
    Radix = 4
    GuidBytes = 2
    Words <- TwoWords
    Chars = {1}
    MaxValues = 3
    Base = 3
    Width = 4
    Modulus = 79
    Generator = 3
    Hash <- ToyHash
    PasswordKeys = {1, 5, 9}
    Salts = {1, 9}
    PrivateKeys = {1, 5, 7, 33}
    ServerKeys <- AllKeys
    MaxBytes = 4
    Pieces <- Typed
    MaxPieces = 4
    LockThreads = {l1, l2, l3}
    PoolUsers = {u1, u2, u3}
    Objects = {o1, o2, o3}
    NoObject = none
    MainThread = main
    OtherThreads = {tick, io}
    MaxMessages = 3
INVARIANTS
    ReachableFound
    ReadsBack
    RightPasswordLogsIn
    AuthedSharesSecret
    MisreadOnlyAcrossSetup
    CommandsAct
    LockInv
    WritersExclude
    MissedOnlyInWindow
    OneOwner
    CleanEnd
    ColorKept
\* A question that has been answered, a failed assertion, a broken pool and the
\* last message are ends.
CHECK_DEADLOCK FALSE
