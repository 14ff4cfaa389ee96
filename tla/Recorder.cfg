SPECIFICATION Spec
CONSTANTS
    Path = {f, g}
    Content = {c, d}
    None = None
    MaxChanges = 3
    MaxFaults = 2
INVARIANTS
    NothingForgotten
    HistoryMatchesRows
    DeletionsAreReal
PROPERTIES
    Converges
