SPECIFICATION Spec
CONSTANTS
    Clients = {client}
    Retired = {}
    Receivers = {receiver}
    Publishers = {}
    Dependents = {client, receiver}
    Removed = {client}
    MaxFences = 2
    MaxWrites = 1
    MaxExports = 1
    MaxKills = 0
    MaxFailures = 0
    MaxLost = 1
    ForeignActs = FALSE
    TimersRace = FALSE
    Alters = FALSE
PROPERTIES ThawFollowsAcceptance
CHECK_DEADLOCK FALSE
