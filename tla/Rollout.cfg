SPECIFICATION Spec
CONSTANTS
    Clients = {client}
    Retired = {}
    Receivers = {receiver}
    Publishers = {publisher}
    Dependents = {client, receiver}
    Removed = {client}
    MaxFences = 2
    MaxWrites = 1
    MaxExports = 1
    MaxKills = 1
    MaxFailures = 0
    MaxLost = 1
    ForeignActs = TRUE
    TimersRace = FALSE
    Alters = FALSE
INVARIANTS NoUnitForgotten NoForeignFence HoldingsRecorded
PROPERTIES AdvancesInWindow NoUnacceptedThaw
CHECK_DEADLOCK FALSE
