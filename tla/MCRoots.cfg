CONSTANTS
    t1 = t1
    t2 = t2
    u1 = u1
    home = home
    usb = usb
    None = None
    Removals = {t1, t2}
    Purges = {u1}
    Device = {home, usb}
    HomeDevice = home
    On <- BothMounted
    Modeless = {}
    Settings <- Backends
    MaxMeddling = 1
SYMMETRY Symmetry
SPECIFICATION Spec
INVARIANTS
    TypeOK
    CompetitionIsHarmless
    PurgeFindsItsRoot
PROPERTIES
    PrivateWhenMoved
CHECK_DEADLOCK FALSE
