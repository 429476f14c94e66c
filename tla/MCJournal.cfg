CONSTANTS
    w1 = w1
    w2 = w2
    w3 = w3
    w4 = w4
    r1 = r1
    None = None
    Writers = {w1, w2, w3, w4}
    Readers = {r1}
    Size <- BatchSizes
    Invalid = {w3}
SPECIFICATION FairSpec
INVARIANTS
    TypeOK
    AckedIsDurable
    BatchesDontInterleave
    NeverCorrupt
    ReadsSeeWholeBatches
    NoFalseAlarm
PROPERTIES
    SyncedIsForever
    ImplementsEventLog
    EveryCallReturns
CHECK_DEADLOCK FALSE
