SPECIFICATION Spec
CONSTANTS
    p1 = p1
    p2 = p2
    r1 = r1
    Path = {p1, p2}
    Value <- Lines
    Folder <- Folders
    None = None
    Unknown = Unknown
    Run = {}
    MaxEvents = 3
    MaxTime = 3
    MaxSlips = 1
    MaxStops = 1
    BurstGap = 0
    BurstEvents = 3
    BurstPaths = 2
    BurstDeletes = 2
    PanicWindow = 2
    EditGap = 0
    AlertDeletes = 1
    Term <- Words
    Incidental <- Pronouns
    Matches <- Occurs
    Names <- Tokens
    Parts <- WordParts
    GroupKey <- Keys
SYMMETRY Symmetry
CHECK_DEADLOCK FALSE
INVARIANTS
    StatesAreTrue
    TimeTravelIsExact
    FallbackFromBefore
    IntentUndone
    PreviewIsTrue
