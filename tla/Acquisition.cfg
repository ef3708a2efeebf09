SPECIFICATION FairSpec
CONSTANTS
    Downloads = {1, 2}
    Connections = {c1}
    Transmission = {}
    Happens <- MCHappens
    Events = {1, 2}
    Items = {1}
    Nonces = {4}
    CommandKeys = {k1}
    MaxAttempts = 2
    Stranding = FALSE
INVARIANTS VerdictFitsConfig AddedOnce FeedTakenOnce
PROPERTIES RaisedUnderItsSource AcquisitionEnds
CHECK_DEADLOCK FALSE
