CONSTANTS
    top = top
    sub = sub
    leaf = leaf
    o1 = o1
    o2 = o2
    u1 = u1
    u2 = u2
    None = None
    Node <- Paths
    Dir = {top, sub}
    Above <- AbovePath
    Removals = {o1, o2}
    Plan <- Plans
    Restores = {u1, u2}
    Policies = {"fail", "rename", "overwrite"}
    MayFail = {o1, o2, u1, u2}
SPECIFICATION Spec
SYMMETRY SameRestores
INVARIANTS
    TypeOK
    
    EntriesSurvive
    UndoBringsBack
PROPERTIES
    OperationIsUndoneWhole
CHECK_DEADLOCK FALSE
