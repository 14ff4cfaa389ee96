SPECIFICATION FairSpec
CONSTANTS
    p1 = p1
    p2 = p2
    p3 = p3
    outer = outer
    inner = inner
    Proc = {p1, p2, p3}
    Legacy = {p1}
    Root = {outer, inner}
    None = None
    Overlap <- Overlapping
    Inside <- InsideOf
    Commands <- Trios
    MaxKills = 1
    MaxReuse = 1
CHECK_DEADLOCK FALSE
INVARIANTS
    OverlapExplained
PROPERTIES
    AskedEnd
