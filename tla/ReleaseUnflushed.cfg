SPECIFICATION FairSpec
CONSTANTS
    Units = {active}
    Retired = {legacy}
    Guarded = {active}
    MaxRuns = 1
    MaxWrites = 1
    MaxCrashes = 1
PROPERTIES PointOfNoReturnPersists
CHECK_DEADLOCK FALSE
