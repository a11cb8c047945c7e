CONSTANTS
    s1 = s1
    s2 = s2
    e1 = e1
    Services = {s1, s2}
    Editors = {}
    Jobs <- MCJobs
    MaxAmount = 2
    Texts = {"x"}
    MaxTries = 1
    NoCard = NoCard
SPECIFICATION MCSpec
INVARIANT SentAsShown
