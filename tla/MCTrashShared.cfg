CONSTANTS
    p1 = p1
    p2 = p2
    u1 = u1
    u2 = u2
    da = da
    db = db
    dc = dc
    c1 = c1
    c2 = c2
    c3 = c3
    None = None
    Removers = {p1, p2}
    Restorers = {u1, u2}
    Purgers = {}
    Path = {da, db}
    Operands <- TwoRemovals
    Siblings <- NoSiblings
    Content = {c1, c2}
    Slot = {0, 1}
    MaxSuffix = 1
    Custom = TRUE
    NoReplace = FALSE
    Collision = "fail"
    Overlap = TRUE
    JournalFails = TRUE
    MayDie = {p1, u1}
SPECIFICATION Spec
INVARIANTS
    TypeOK
    ReservationsExclusive
    NoLeakedReservation
    MovesAreRecorded
PROPERTIES
    TrashNeverOverwritten
SYMMETRY Symmetry
CHECK_DEADLOCK FALSE
