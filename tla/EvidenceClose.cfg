SPECIFICATION TwinSpec
CONSTANTS
    Twins = {"python"}
    TsCalls = {"r1", "r2", "r3"}
    TsTraceOf <- MCTsTraceOf
    TsLoads = {"l1", "l2"}
    TsAsks <- MCTsAsks
    TsPreload = {"r"}
    TsUses <- MCTsUses
    TsActive = 2
    TsConcurrency = 1
    TsMaxItems = 2
    base = base
    kind = kind
    size = size
    body = body
    a = a
    b = b
    c = c
    t1 = t1
    t2 = t2
    s1 = s1
    s2 = s2
    s3 = s3
    e1 = e1
    e2 = e2
    e3 = e3
    Fields = {base, kind, size, body}
    Structure = {base, kind}
    Weight <- MCWeight
    Budget = 3
    Batch = 1
    Concurrency = 1
    Traces = {t1}
    Spans = {s1}
    SpansOf <- RetrySpansOf
    StripeOf <- RetryStripeOf
    Leases = {e1}
    TraceOf <- RetryTraceOf
    Saved <- RetrySaved
    Loads = {a, b, c}
    Asks <- RetryAsks
PROPERTIES LoadsSettled
