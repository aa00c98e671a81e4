SPECIFICATION FairSpec
CONSTANTS
    k1 = k1  k2 = k2  r1 = r1  r2 = r2  m1 = m1  m2 = m2
    NoSheet = NoSheet
    Keys = {k1, k2}
    Rows = {r1, r2}
    KeyOf <- TwoKeys
    Metrics = {m1, m2}
    Known = {m1}
    Teardown = TRUE
    MaxCrashes = 1
INVARIANTS DependenciesFilledFirst NothingRedone
PROPERTIES CheckpointKeepsOk RunsComplete
