SPECIFICATION Spec
CONSTANTS
    MaxId = 5
    Successors = 1
    PageSize = 2
    Breaks = 2
    Notices = {1, 2}
    MaxTries = 2
    MaxVersion = 2
    NoticeFaults = 1
    Renewals = 2
    MaxChanges = 1
    MaxPlans = 2
    Callers = {1, 2}
    MaxRequests = 2
    PlanKeys = {"k1"}
    Directories <- Tree
    Administrators = {1, 2}
    MaxEdits = 3
    CallIds = {"r", "s"}
    CallKeys = {"k", "l"}
    Bodies = {"b", "c"}
    Deliveries = {1, 2}
    Unhandled = {"l"}
    Visitors = {1, 2}
    MaxTime = 1
    MaxVisits = 3
    FailureLimit = 2
    Window = 0
    LockTime = 1
    IdleTime = 1
    AbsoluteTime = 1
    CodeTime = 1
    Release = 2
    MaxBackups = 2
    MaxData = 1
    Accidents = 1
    Items = {1, 2, 3}
    Early = {1, 2}
    MaxHistory = 4
    Times = {1, 2}
    PageLimit = 1
INVARIANTS
    SeesAllOrGap
    HealthIsItsOwn
    CallTellsTruth
    OnlyAuthorizedRuns
    Disjoint
    RunsOnce
    OneDevicePerCode
    BackupsHold
    WalkIsWhole
PROPERTIES
    CatchesUp
    DeliveriesEnd
CHECK_DEADLOCK FALSE
