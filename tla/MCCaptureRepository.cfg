SPECIFICATION Spec
CONSTANTS
  Captures = {c1, c2}
  None = None
  MaxBases = 2
  MaxSegment = 4
  MaxTokens = 2
  MaxWrites = 1
  KeepNewest = 1
INVARIANTS
  EvidenceKept
  SelectedReplays
PROPERTY
  ImplementsEvidence
SYMMETRY Symmetry
CHECK_DEADLOCK FALSE
