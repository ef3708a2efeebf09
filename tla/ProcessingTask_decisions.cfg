\* Liveness when nobody retries or cancels, with handlers that leave the transition to the worker.
SPECIFICATION FairSpec
CONSTANTS
    Tasks = {t1}
    Workers = {w1}
    Keys = {}
    Decisions = {d1, d2}
    Delegated = {"identification-complete", "waiting-confirmation", "paused"}
    MaxIncidents = 2
    NoTask = NoTask
    NoOwner = NoOwner
PROPERTIES
    Settles
    RestartServes
    DecisionApplied
