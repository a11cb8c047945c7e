CONSTANTS
    s1 = s1
    s2 = s2
    e1 = e1
    Services = {s1}
    Editors = {e1}
    Jobs <- MCJobs
    MaxAmount = 2
    Texts = {"x"}
    MaxTries = 3
    NoCard = NoCard
SPECIFICATION MCSpec
INVARIANT HomeTypeOK
INVARIANT ResendingIsSafe
INVARIANT SuccessMeansPlaced
