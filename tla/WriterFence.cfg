SPECIFICATION FairSpec
CONSTANTS
    Primary = primary
    Units = {primary, setup}
    MaxTokens = 2
    MaxInhibitions = 2
    MaxBase = 1
    MaxCrashes = 2
INVARIANTS FencedWhilePromised FencePersists
PROPERTIES NoStartWhileInhibited OriginalRestored ThawCompletes
CHECK_DEADLOCK FALSE
