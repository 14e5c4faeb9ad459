SPECIFICATION ClientSpec
CONSTANTS
    MaxLines = 1
    MaxLogins = 2
INVARIANTS
    ClientInv
    HeardByCurrent
    ListKeepsAll
PROPERTIES
    LifecycleImplemented
    LoginsImplemented
    ClientKeepsReports
\* Once the bounds are reached the client may be left with nothing to do.
CHECK_DEADLOCK FALSE
