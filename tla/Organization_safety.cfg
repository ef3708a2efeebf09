\* Overlapping runs and rollbacks of every operation.
SPECIFICATION Spec
CHECK_DEADLOCK FALSE
CONSTANTS
    Scenarios <- SafetyScenarios
    Runners = {r1, r2}
    Callers = {c1, c2}
    Keys = {k1, k2}
    NoOne = NoOne
SYMMETRY AnyActor
INVARIANTS
    ExecutionInvariant
    MediaSurvives
    CompensatedIsRestored
PROPERTIES
    UserDataKept
