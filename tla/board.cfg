CONSTANTS
    w1 = w1
    w2 = w2
    q1 = q1
    Ids = {1, 2}
    Workers = {w1, w2}
    Readers = {q1}
    Contents <- AllContents
    Patches <- SomePatches
    Queries <- MCQueries
SPECIFICATION MCBoardSpec
INVARIANT BandsMatchLevels
INVARIANT BetterAnswersNeverCost
PROPERTY QuietPatchHeals
PROPERTY PageShowsTop
