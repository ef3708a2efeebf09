SPECIFICATION Spec
CONSTANTS
    Paths = {p1}
    Auxiliary = {p1}
    Facts = {f1}
    NoFacts = NoFacts
    Tasks = {t1, t2, t3}
    NoTask = NoTask
    Workers = {w1}
    NoOwner = NoOwner
    Keys = {}
    Possible <- Schedulers
    Limits <- Twice
    AskKeys = {a1}
    ChannelCapacity = 1
    CoalescerCapacity = 1
INVARIANTS
    IntakeInvariant
SYMMETRY Slots
