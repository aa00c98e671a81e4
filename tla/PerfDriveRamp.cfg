SPECIFICATION RampSpec
CONSTANTS
    Stages <- RampStages
    Offset <- RampOffset
    Rate0 = 2
    Cap0 = 2
    Saturated = FALSE
    MaxLoad = 3
    Horizon = 5
    RateUnit = 2
    Poisson = FALSE
    MaxGap = 1
    Poll = 1
    Breaker = TRUE
    ErrNum = 1
    ErrDen = 2
    BreakerMinN = 2
    CooldownTimeout = 1
    RunnerCancels = FALSE
    MaxRequests = 3
    MaxCancels = 1
    Sweeps <- MCSweeps
    Settings <- MCSettings
    Cohorts <- MCCohorts
    Recordings = {"r1", "r2"}
    Held <- MCHeld
    TargetOf <- MCTargetOf
    Rules = {"m", "v"}
    RulesFor <- MCRulesFor
    RuleAnswers <- MCRuleAnswers
    Policies <- MCPolicies
    MaxLaunches = 2
INVARIANTS AdmittedByPlan StopReasonMatchesWindows
PROPERTY PacedArrivals
