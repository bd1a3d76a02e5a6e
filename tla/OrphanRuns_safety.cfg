CONSTANTS
    Instances = {i1}
    MaxRuns = 2
    Slots = {c1, c2}
    MaxFound = 1
    AutoCleanup = TRUE
    AutoMax = 1
    StoreErrors = FALSE
    MaxCrashes = 1
    NoFunc = NoFunc
    ScanFunc = ScanFunc
SPECIFICATION Spec
SYMMETRY Symmetry
INVARIANTS
    OneDeletionPerInstance
    OneActiveRun
CHECK_DEADLOCK FALSE
