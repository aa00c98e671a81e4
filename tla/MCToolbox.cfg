SPECIFICATION Spec
CONSTANTS
    Requests = {"r1", "r2", "r3"}
    MaxWorkers = 3
    Targets = {"l1", "l2", "l3"}
    Content <- MCContent
    Slots = 2
    MaxCapture = 2
    MaxTotal = 3
    MaxRestarts = 1
    MaxTries = 2
    Calls = {"exec", "logs", "forward", "delete", "ready", "deleted", "replaced"}
    Kind <- MCKind
    MaxCalls = 3
    MaxInstances = 2
    ExecSlots = 1
    Input = 4
    Extra = 1
    PipeSize = 1
    MaxOutput = 3
    MaxStops = 2
    MaxAsks = 2
    Keys = {"k"}
    Routes = 2
    MaxDeaths = 1
    MaxBorrows = 2
    Endpoints = {"e"}
    MaxExits = 2
    Rounds = {"s1", "s2"}
    RoundOf <- MCRoundOf
    Wanted = {"a", "b"}
    Keyless = "none"
    Bytes <- MCBytes
    MaxEntries = 1
    MaxBytes = 1
    PoolSize = 1
    RelayCalls = {"q1", "q2", "q3", "q4"}
    RelayTarget <- MCRelayTarget
    Signalled = {"q1"}
    MaxTargets = 2
    ApiReads = {"g1", "g2", "g3", "g4"}
    ApiSlots = 3
    Credentials = {"k1", "k2"}
    Sessions = {"x1", "x2", "x3"}
    SessionSlots = 2
    SessionBytes = 1
    Captures <- MCCaptures
    LineSize = 3
    ReadTries = 2
    RecentLimit = 2
INVARIANTS ChannelSound PodWorkSound NoOrphan RoutesSound QueriesSound
PROPERTIES ForwardsSound CallEnds
CHECK_DEADLOCK FALSE
