SPECIFICATION FairSpec
CONSTANT MaxLines = 5
INVARIANTS
    LifeInv
    AnsweredBeforeExit
PROPERTIES
    QuitEnds
    PingAnswered
    ExitEnds
\* The process ends, or waits for a line that is never typed.
CHECK_DEADLOCK FALSE
