CONSTANTS
    s1 = s1
    e1 = e1
    e2 = e2
    r1 = r1
    r2 = r2
    r3 = r3
    d1 = d1
    k1 = k1
    NoKey = NoKey
    BadKey = BadKey
    Nobody = Nobody
    MaxAmount = 2
    Services <- MCServices
    Keys <- MCKeys
    Editors = {e1, e2}
    Requests = {r1, r2, r3}
    Purgers = {d1}
    Jobs <- AdminJobs
    Asks <- MCAsks
SPECIFICATION MCSpec
INVARIANT IntakeTypeOK
INVARIANT OneLiveOrderPerKey
INVARIANT ClaimFollowsOrder
INVARIANT RetryOnlyAfterDeletion
INVARIANT ServiceOfOrderExists
INVARIANT BudgetRangeOrdered
PROPERTY AdmittedAtCommit
PROPERTY NoCollateralWrite
PROPERTY DeletedStaysDeleted
PROPERTY RequestsAnswered
PROPERTY KeepsContract
