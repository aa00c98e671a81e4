SPECIFICATION Spec
CONSTANTS
    k1 = k1  k2 = k2  r1 = r1  r2 = r2  m1 = m1  m2 = m2
    NoSheet = NoSheet
    Keys = {k1}
    Rows = {r1}
    KeyOf <- OneRow
    Metrics = {m1}
    Known = {m1}
    Teardown = TRUE
    MaxCrashes = 0
INVARIANTS SolvesLiveSubject
