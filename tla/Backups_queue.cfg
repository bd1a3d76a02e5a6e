CONSTANTS
    Instances = {i1, i2}
    Kinds = {daily}
    Unscheduled = {manual}
    Keep <- KeepOne
    Torrents = {}
    Blobs = {}
    Workers = {w}
    JobsCap = 1
    Callers = {c1}
    Scheduler = sched
    MaxRuns = 2
    MaxErrors = 0
    MaxCrashes = 0
    None = None
SPECIFICATION FairSpec
INVARIANTS
    InflightExact
PROPERTIES
    InstanceReleased
    RunsEnd
CHECK_DEADLOCK FALSE
