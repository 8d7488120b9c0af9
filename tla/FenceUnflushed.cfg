SPECIFICATION Spec
CONSTANTS
    Primary = primary
    Units = {primary, setup}
    MaxTokens = 2
    MaxInhibitions = 2
    MaxBase = 1
    MaxCrashes = 1
INVARIANTS InhibitionPersists
CHECK_DEADLOCK FALSE
