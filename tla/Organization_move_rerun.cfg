\* A file stage is run again after a crash while its move is rolled back.
SPECIFICATION Spec
CHECK_DEADLOCK FALSE
CONSTANTS
    Scenarios <- MoveTakenBack
    Runners = {r1}
    Callers = {c1}
    Keys = {k1}
    NoOne = NoOne
INVARIANTS
    MediaSurvives
