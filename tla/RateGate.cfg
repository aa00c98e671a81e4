SPECIFICATION FairSpec
CONSTANTS
    Nobody = Nobody
    Callers = {c1, c2, c3}
    Attempts = 2
    Limit0 = 8
    MinLimit = 1
    MaxLimit = 8
    Pause = 2
    Backoff = 1
INVARIANT GateSound
PROPERTIES RetriesPaced AttemptsEnd
