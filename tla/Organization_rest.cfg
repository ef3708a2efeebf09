\* Plans come to rest, and their results say so.
SPECIFICATION FairSpec
CHECK_DEADLOCK FALSE
CONSTANTS
    Scenarios <- RestScenarios
    Runners = {r1}
    Callers = {c1}
    Keys = {k1}
    NoOne = NoOne
PROPERTIES
    ComesToRest
    CompletedOnVerified
