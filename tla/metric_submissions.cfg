CONSTANTS
    s1 = s1
    e1 = e1
    r1 = r1
    r2 = r2
    d1 = d1
    d2 = d2
    p1 = p1
    p2 = p2
    c1 = c1
    NoKey = NoKey
    BadKey = BadKey
    Nobody = Nobody
    MaxAmount = 2
    Services = {s1}
    Keys = {}
    Editors = {}
    Jobs <- NoJobs
    Asks <- PlainAsks
    Requests = {r1}
    Purgers = {d1, d2}
    Posts = {p1, p2}
    Clerks = {c1}
    Letters <- AllLetters
SPECIFICATION MCMetricSpec
INVARIANT CapabilityTellsMetric
INVARIANT ConflictNeverAnswered
PROPERTY SubmittedOnce
PROPERTY MetricCallsAnswered
