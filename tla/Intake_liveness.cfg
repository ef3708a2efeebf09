SPECIFICATION FairSpec
CONSTANTS
    Paths = {p1}
    Auxiliary = {}
    Facts = {f1}
    NoFacts = NoFacts
    Tasks = {t1, t2}
    NoTask = NoTask
    Workers = {w1}
    NoOwner = NoOwner
    Keys = {}
    Possible <- Losses
    Limits <- Once
    AskKeys = {}
    ChannelCapacity = 1
    CoalescerCapacity = 1
PROPERTIES
    ReconcilesEnd
    ChangesSeen
    SettledFileRequested
