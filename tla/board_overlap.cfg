CONSTANTS
    w1 = w1
    w2 = w2
    q1 = q1
    Ids = {1}
    Workers = {w1, w2}
    Readers = {q1}
    Contents <- MCContents
    Patches <- Improvements
    Queries <- OneQuery
SPECIFICATION BoardSpec
INVARIANT ScoreInSync
