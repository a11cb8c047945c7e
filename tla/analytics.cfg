CONSTANTS
    Period = 2
    TopN = 2
    Applications = {1, 2, 3}
    Subjects = {1}
    Contents <- ApiContents
    Databases <- MCDatabases
    MaxTime = 3
    MaxChanges = 2
SPECIFICATION AnalyticsSpec
INVARIANT CountedMetricHasOrder
INVARIANT TopDominates
INVARIANT SharesOfTheWhole
INVARIANT DetailWithinOverview
PROPERTY CountedOrderHasMetric
