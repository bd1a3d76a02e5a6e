CONSTANTS
    Instances = {i1}
    MaxRuns = 1
    Slots = {c1, c2}
    MaxFound = 2
    AutoCleanup = TRUE
    AutoMax = 1
    StoreErrors = TRUE
    MaxCrashes = 1
    NoFunc = NoFunc
    ScanFunc = ScanFunc
SPECIFICATION FairSpec
INVARIANTS
    TypeOK
    NoStrandedRun
    DeletionOwnsRow
PROPERTIES
    MutexReleased
    RunsSettle
CHECK_DEADLOCK FALSE
