CONSTANTS
    p1 = p1
    p2 = p2
    u1 = u1
    u2 = u2
    da = da
    db = db
    c1 = c1
    c2 = c2
    None = None
    Removers = {p1, p2}
    Restorers = {u1}
    Purgers = {u2}
    Path = {da, db}
    Operands <- SingleRemovals
    Siblings <- NoSiblings
    Content = {c1, c2}
    Slot = {0}
    MaxSuffix = 0
    Custom = TRUE
    NoReplace = TRUE
    Collision = "fail"
    Overlap = FALSE
    JournalFails = TRUE
    MayDie = {u1, u2}
SPECIFICATION DoctorSpec
INVARIANTS
    FindingsWereTrue
    LastingTroubleIsFound
    OneLifePerItem
SYMMETRY Symmetry
CHECK_DEADLOCK FALSE
