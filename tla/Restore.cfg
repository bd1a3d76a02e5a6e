CONSTANTS
    Hashes = {t1, t2}
    Categories = {c1, c2}
    Tags = {g1}
    MaxChanges = 1
    None = None
    NoCategory = NoCategory
SPECIFICATION Spec
SYMMETRY Symmetry
INVARIANTS
    Converges
PROPERTIES
    RestoreConfined
CHECK_DEADLOCK FALSE
