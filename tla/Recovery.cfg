SPECIFICATION MCSpec
CONSTANTS
    Proc = {p1, p2}
    Plan = {r1, r2}
    Path = {1, 2}
    First = 1
    Content = {c, d}
    Other = Other
    None = None
    MaxEdits = 3
    MaxFaults = 2
SYMMETRY Symmetry
CHECK_DEADLOCK FALSE
PROPERTIES
    LosesNothing
    SettledForGood
