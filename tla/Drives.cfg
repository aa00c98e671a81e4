SPECIFICATION RunSpec
CONSTANTS
    Stages <- ShortStages
    Offset <- ShortOffset
    Rate0 = 2
    Cap0 = 2
    Saturated = FALSE
    MaxLoad = 2
    Horizon = 4
    RateUnit = 2
    Poisson = TRUE
    MaxGap = 1
    Poll = 1
    Breaker = TRUE
    ErrNum = 1
    ErrDen = 2
    BreakerMinN = 2
    CooldownTimeout = 1
    RunnerCancels = FALSE
    MaxRequests = 2
    MaxCancels = 1
    Sweeps <- MCSweeps
    Settings <- MCSettings
    Cohorts <- MCCohorts
    Recordings = {"r1", "r2"}
    Held <- MCHeld
    TargetOf <- MCTargetOf
    Rules = {"m", "v"}
    RulesFor <- MCRulesFor
    RuleAnswers <- MCRuleAnswers
    Policies <- MCPolicies
    MaxLaunches = 2
INVARIANTS CallsAccounted ReportsTrue
PROPERTIES StopIsHistory DrivesEnd
