CONSTANTS
    c1 = c1
    c2 = c2
    t1 = t1
    t2 = t2
    a1 = a1
    Slots = {c1, c2}
    Tokens = {t1, t2}
    NoToken = NoToken
    Levels = {"all", "hot"}
    Words = {"", "car"}
    Apps = {a1}
    Periods = {"week", "month"}
    MaxTotal = 2
    FirstLevel = "all"
    EmptyWord = ""
    FirstPeriod = "week"
SPECIFICATION PanelSpec
SYMMETRY MCSymmetry
CONSTRAINT OneTabUsed
INVARIANT PanelShowsOwner
INVARIANT ListMatchesControls
INVARIANT StatisticsMatchPeriod
INVARIANT LoadingHasCall
INVARIANT HiddenTabsRest
