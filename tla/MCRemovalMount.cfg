CONSTANTS
    d = d
    f = f
    s = s
    g = g
    z = z
    e = e
    h = h
    t = t
    x = x
    v = v
    w = w
    o = o
    p = p
    q = q
    None = None
    Node = {d, f, s, g, z, e, h, t, x, v, w, o, p, q}
    Parent <- TheParent
    Order <- TheOrder
    Dir = {d, s, z, h, t, v}
    Dev <- MountedDevice
    HardRoots = {}
    AllowedRoots = {}
    Patterns <- ThePatterns
    TrashRoot = t
    Late = {}
    Requests <- Inspected
    Faults = FALSE
SPECIFICATION Spec
INVARIANTS
    DescendantsRetained
CHECK_DEADLOCK FALSE
