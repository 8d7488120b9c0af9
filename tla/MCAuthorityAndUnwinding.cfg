SPECIFICATION PartsSpec
CONSTANTS
    MaxTrees = 3
    MaxSaves = 2
    MaxPolicies = 2
    MaxCrashes = 3
    FsyncCommitsName = TRUE
    Clients = {client}
    Retired = {}
    Receivers = {receiver}
    Publishers = {}
    Dependents = {client,receiver}
    Removed = {client}
    MaxFences = 1
    MaxWrites = 0
    MaxExports = 1
    MaxKills = 1
    MaxFailures = 1
    MaxLost = 0
    ForeignActs = FALSE
    TimersRace = FALSE
    Alters = FALSE
INVARIANTS NoSaveLost WorkerAlone RecordedTreeThere
PROPERTIES BoundValidation ReadyPublished GivingUpUnwinds
CHECK_DEADLOCK FALSE
