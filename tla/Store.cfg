SPECIFICATION Spec
CONSTANTS
    Proc = {p1, p2}
    Path = {f, g}
    Hash = {h1, h2}
    None = None
    MaxRefs = 3
    MaxRecs = 1
SYMMETRY Symmetry
CONSTRAINT Bound
INVARIANTS
    ReferencedSnapshotsKept
    CapturedContentKept
