CONSTANTS
    i1 = i1
    Strides = {2}
    MaxTime = 3
    Instances = {i1}
    Callers = {w1, w2, scan}
    Handlers = {h}
    Checkers = {}
    Locks = {l1, l2, l3, l4, l5}
    Ids = {1, 2, 3}
    Backoffs <- BackoffsMC
    Width = 4
    MaxAttempts = 1
    MaxEdits = 1
    None = None
    Torrents = {t}
    InstanceOf <- AllOnOne
    Workers = {w1, w2}
    DebounceWindow = 1
    Windows = {1, 3}
    Scanner = scan
SPECIFICATION FairSpec
INVARIANTS
    TypeOK
    RunningExact
PROPERTIES
    OneJobPerTorrent
    CooldownKept
    JobsFinish
CHECK_DEADLOCK FALSE
