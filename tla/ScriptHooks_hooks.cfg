SPECIFICATION Spec
CONSTANTS
    Files = {file1, file2}
    NameOf <- SameName
    MaxLoads = 3
    MaxCalls = 3
    MaxHooks = 3
    AfterRace = 2
INVARIANTS
    HooksInv
    SafeUnlessRaced
    RefsExact
    RunsHooked
PROPERTIES
    HooksKeepReports
SYMMETRY FilesAlike
\* Once the bounds are reached both threads may have nothing to do.
CHECK_DEADLOCK FALSE
