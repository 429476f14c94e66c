CONSTANTS
    d = d
    f = f
    s = s
    g = g
    z = z
    e = e
    h = h
    t = t
    x = x
    v = v
    w = w
    o = o
    p = p
    q = q
    None = None
    Node = {d, f, s, g, z, e, h, t, x, v, w, o, p, q}
    Parent <- TheParent
    Order <- TheOrder
    Dir = {d, s, z, h, t, v}
    Dev <- MountedDevice
    HardRoots = {z}
    AllowedRoots = {d, e, h, v, o, p}
    Patterns <- ThePatterns
    TrashRoot = t
    Late = {w}
    Requests <- ParsedRequests
    CommandLines <- TheCommandLines
    Settings <- TheSettings
    Faults = TRUE
SPECIFICATION CommandSpec
INVARIANTS
    TypeOK
    ProtectedStays
    ContentsFirst
    MovedWithConsent
    TrashIsLeftAlone
    MovesReachTheJournal
    ZeroMeansDone
    ReadsWhatIsWritten
    SelectsWhatIsWritten
CHECK_DEADLOCK FALSE
