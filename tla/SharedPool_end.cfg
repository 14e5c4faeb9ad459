SPECIFICATION PoolSpec
CONSTANTS
    PoolUsers = {u1, u2}
    Objects = {o1, o2}
    NoObject = none
INVARIANTS
    ReturnsToExisting
\* When everything has been deleted there is nothing more to do.
CHECK_DEADLOCK FALSE
