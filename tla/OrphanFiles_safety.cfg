CONSTANTS
    fa = fa
    fb = fb
    top = top
    sub = sub
    t1 = t1
    t2 = t2
    t3 = t3
    Files = {fa, fb}
    Roots = {top, sub}
    Under <- MCUnder
    Torrents = {t1, t2, t3}
    SavePath <- MCSavePath
    TFiles <- MCTFiles
    Me = me
    Others = {i2}
    Nowhere = Nowhere
    MaxFiles = 1
    MaxChanges = 2
SPECIFICATION Spec
INVARIANTS
    TypeOK
    PreviewOnlyOrphans
PROPERTIES
    OwnFilesSurvive
    SharedFilesSurvive
CHECK_DEADLOCK FALSE
