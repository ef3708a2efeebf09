\* One task, two workers, two requests, one decision, one incident.
SPECIFICATION Spec
CONSTANTS
    Tasks = {t1}
    Workers = {w1, w2}
    Keys = {k1, k2}
    Decisions = {d1}
    Delegated = {}
    MaxIncidents = 1
    NoTask = NoTask
    NoOwner = NoOwner
SYMMETRY AnyWorker
INVARIANTS
    TypeOK
    AttemptLedger
    SnapshotCurrent
    RecordsAgree
PROPERTIES
    AcceptedCancelBinds
    LeaseSpec
