SPECIFICATION Spec
CONSTANTS
  o1 = o1
  o2 = o2
  w1 = w1
  w2 = w2
  h1 = h1
  h2 = h2
  Opener = {o1, o2}
  SchemaRun = {s1}
  Name = {n1}
  NoValue = NoValue
  MaxFileEvents = 3
  MaxRows = 2
  MaxFailures = 1
  Writer = {w1, w2}
  NoFile = NoFile
  MaxBytes = 1
  MaxLines = 4
  MaxInodes = 3
  MaxLives = 3
  MaxDeaths = 1
  Hash = {h1, h2}
  NoHash = NoHash
  MaxLosses = 1
  MaxKills = 1
  MaxCommits = 3
  Installer = {i1, i2}
  HookEvent = {e1, e2}
  UserHook = {mine, other}
  Lookalike = {other}
  Unusable = Unusable
  NoConfig = NoConfig
  NoOne = NoOne
  MaxSaves = 2
  Updater = {u1, u2}
  NoBinary = NoBinary
  MaxRelease = 3
  MaxBinaries = 3
  Root <- Roots
  Tracked <- Files
  IgnoredName <- BuiltinNames
  SecretName <- Secrets
  TemporaryName <- Temporaries
  RuleFile <- RuleFiles
  NoRules = NoRules
  MaxRuleEdits = 2
SYMMETRY Symmetry
INVARIANTS
  UpgradeIsComplete
  NewestLinesKept
  ReasonIsTheRecorders
  SnapshotsSurvive
  SetupMerges
  ExecutableKept
  WaysAgree
PROPERTY
  HistoryIsKept
CHECK_DEADLOCK FALSE
