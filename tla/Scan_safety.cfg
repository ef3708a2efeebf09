SPECIFICATION Spec
CONSTANTS
    Paths = {p1, p2}
    Auxiliary = {p2}
    Facts = {f1, f2}
    NoFacts = NoFacts
    Tasks = {t1, t2}
    NoTask = NoTask
    Workers = {w1, w2}
    NoOwner = NoOwner
    Relief = w2
    Keys = {k1, k2}
    Possible <- Anything
    Limits <- Few
INVARIANTS
    ScanRecordsAgree
    OneLiveRevision
PROPERTIES
    RequestsAreEarned
    MissingWasAbsent
    ScanLeaseSpec
SYMMETRY Names
CHECK_DEADLOCK FALSE
