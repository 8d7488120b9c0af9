SPECIFICATION PartsSpec
CONSTANTS
  Attempts = {1, 2}
  Scheduled = {1, 2}
  Bytes = {a, b}
  Keep = 1
  MaxClock = 2
  MaxTools = 2
  MaxKills = 1
  MayReuse = FALSE
  Roots = {r1, r2}
  Data = {a, b}
  Requirements <- NoneOrAll
  Identifiers = {i}
  NoIdentifier = none
  MaxChanges = 2
  MaxCommands = 3
INVARIANTS
  LastSuccessWhole
  AcceptedIsRestored
  CleanupHasItsTree
  PruneAdmitted
  AdmittedIsCertified
  ReadyServesDatabase
SYMMETRY Alike
CHECK_DEADLOCK FALSE
