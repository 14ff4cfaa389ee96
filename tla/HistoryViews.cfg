SPECIFICATION Spec
CONSTANTS
    p1 = p1
    p2 = p2
    r1 = r1
    Path = {p1, p2}
    Value <- TwoLines
    Folder <- Folders
    None = None
    Unknown = Unknown
    Run = {r1}
    MaxEvents = 3
    MaxTime = 3
    MaxSlips = 0
    MaxStops = 0
    BurstGap = 0
    BurstEvents = 3
    BurstPaths = 2
    BurstDeletes = 2
    PanicWindow = 2
    EditGap = 0
    AlertDeletes = 1
    Term <- Words
    Incidental <- Pronouns
    Matches <- Occurs
    Names <- Tokens
    Parts <- WordParts
    GroupKey <- Keys
CHECK_DEADLOCK FALSE
INVARIANTS
    RunUndone
    DamageUndone
    AskKeepsGroups
    TimelineComplete
    NetChangeIsTrue
    EditsUndone
