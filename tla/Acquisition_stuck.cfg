\* The service may be back before the leases of its former life expire.
SPECIFICATION FairSpec
CONSTANTS
    Downloads = {1}
    Connections = {c1}
    Transmission = {}
    Happens <- MCHappens
    Events = {1}
    Items = {1}
    Nonces = {}
    CommandKeys = {}
    MaxAttempts = 2
    Stranding = TRUE
PROPERTY AutomationEnds
CHECK_DEADLOCK FALSE
