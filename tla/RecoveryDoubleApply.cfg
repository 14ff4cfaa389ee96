SPECIFICATION MCSpec
CONSTANTS
    Proc = {p1, p2}
    Plan = {r1}
    Path = {1}
    First = 1
    Content = {c}
    Other = Other
    None = None
    MaxEdits = 0
    MaxFaults = 0
SYMMETRY Symmetry
CHECK_DEADLOCK FALSE
INVARIANTS
    SuccessIsRecorded
