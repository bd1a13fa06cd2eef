SPECIFICATION Spec
CONSTANTS
  Path <- TildePaths
  Entries <- OneEntry
  Foreign <- ForeignNames
  Ignored <- NoPaths
INVARIANTS EncodedNamesLegal
CHECK_DEADLOCK FALSE
