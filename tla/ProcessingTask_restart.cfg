\* A decision, a retry and a restart.
SPECIFICATION FairSpec
CONSTANTS
    Tasks = {t1}
    Workers = {w1}
    Keys = {k1}
    Decisions = {d1}
    Delegated = {}
    MaxIncidents = 1
    NoTask = NoTask
    NoOwner = NoOwner
PROPERTIES
    RestartServes
