CONSTANTS
    Instances = {i1}
    Kinds = {daily}
    Unscheduled = {}
    Keep <- KeepOne
    Torrents = {t}
    Blobs = {b}
    Workers = {w}
    JobsCap = 1
    Callers = {c1}
    Scheduler = sched
    MaxRuns = 2
    MaxErrors = 1
    MaxCrashes = 1
    None = None
SPECIFICATION Spec
INVARIANTS
    NoStrandedRun
    SnapshotsUsable
    RetentionSparesNewest
PROPERTIES
    FinishedStays
    OneBackupPerInstance
CHECK_DEADLOCK FALSE
