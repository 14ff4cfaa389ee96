SPECIFICATION Spec
CONSTANTS
    a = a
    b = b
    p = p
    q = q
    Client = {a, b}
    Path = {p, q}
    RunId = {1, 2}
    External = {"x", "y"}
    NoExternal = "none"
    Change = {a, b}
    Name = {a, b}
    Announced <- AnnouncedPaths
    Scripts <- Pairs
    MaxEvents = 2
    MaxWrites = 2
    MaxTroubles = 1
CHECK_DEADLOCK FALSE
INVARIANTS
    ClaimsAnnounced
    WindowsAlone
    OneExclusiveOwner
    WorkIsAttributed
    RetriesSucceed
    OneAnswerPerKey
PROPERTIES
    EndedIsFinal
