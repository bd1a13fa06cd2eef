SPECIFICATION Spec
CONSTANTS
  Path <- Paths
  Entries <- ThreeEntries
  Foreign <- ForeignNames
  Ignored <- IgnoredPaths
INVARIANTS TypeOK NoneMissed NoneTwice NoneNeedless  ReadAsWritten 
CHECK_DEADLOCK FALSE
