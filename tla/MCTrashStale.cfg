CONSTANTS
    p1 = p1
    p2 = p2
    u1 = u1
    u2 = u2
    da = da
    db = db
    dc = dc
    c1 = c1
    c2 = c2
    c3 = c3
    None = None
    Removers = {p1, p2}
    Restorers = {}
    Purgers = {u1, u2}
    Path = {da, db}
    Operands <- SingleRemovals
    Siblings <- NoSiblings
    Content = {c1, c2}
    Slot = {0, 1}
    MaxSuffix = 1
    Custom = TRUE
    NoReplace = TRUE
    Collision = "fail"
    Overlap = TRUE
    JournalFails = FALSE
    MayDie = {}
SPECIFICATION Spec
PROPERTIES
    OnlySelectedLeaves
CHECK_DEADLOCK FALSE
