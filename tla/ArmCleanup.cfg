SPECIFICATION Spec
CONSTANTS
    Stages <- MCStages
    Offset <- MCOffset
    Rate0 = 2
    Cap0 = 2
    Saturated = FALSE
    MaxLoad = 3
    Horizon = 12
    Resources <- MCResources
    Cooldown = TRUE
    AbortOnFail = FALSE
    MaxTicks = 2
    MaxCancels = 2
    MaxInterrupts = 3
    Cases <- MCCases
    GoCases <- MCGoCases
    TsArms = 2
INVARIANT CleanupIsMandatory
CHECK_DEADLOCK FALSE
