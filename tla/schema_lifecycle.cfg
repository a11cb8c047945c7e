CONSTANTS
    Databases <- MCDatabases
    MaxId = 2
    MaxCrashes = 1
SPECIFICATION LifecycleSpec
INVARIANT VersionTellsSchema
INVARIANT OnlyLegacyChangesHands
INVARIANT IdsStayFree
INVARIANT UpgradeNeverBlocked
INVARIANT ServingMeansHead
INVARIANT ServingCanWrite
PROPERTY FinalizeSeals
PROPERTY RerunsConverge
