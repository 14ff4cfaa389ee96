SPECIFICATION IgnoreSpec
CONSTANTS
    Root <- Roots
    Tracked <- Files
    IgnoredName <- BuiltinNames
    SecretName <- Secrets
    TemporaryName <- Temporaries
    RuleFile <- RuleFiles
    NoRules = NoRules
    MaxRuleEdits = 0
CHECK_DEADLOCK FALSE
INVARIANT OptedInStaysRecorded
