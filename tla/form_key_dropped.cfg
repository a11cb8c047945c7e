CONSTANTS
    s1 = s1
    s2 = s2
    e1 = e1
    Services = {s1}
    Editors = {}
    Jobs <- MCJobs
    MaxAmount = 2
    Texts = {"x"}
    MaxTries = 2
    NoCard = NoCard
SPECIFICATION MCSpec
INVARIANT DroppedKeyPlacedNothing
