SPECIFICATION FairSpec
CONSTANTS
    Units = {active, plain}
    Retired = {legacy}
    Guarded = {active}
    MaxRuns = 2
    MaxWrites = 2
    MaxCrashes = 1
INVARIANTS NoWriteLost OneSide AuthorityWhole
PROPERTIES ReleasePersists AbortEnds
CHECK_DEADLOCK FALSE
