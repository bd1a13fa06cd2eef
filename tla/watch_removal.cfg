SPECIFICATION Spec
CONSTANTS
  Ino = {i1, i2}
  Name = {"x"}
  FileName = {"f"}
  MaxDepth = 2
  QueueLimit = 4
  Ops <- RemovalOps
  MaxOps = 4
  Configs <- TwoRoots
  ReadAhead = 2
  IgnoredName = {}
INVARIANTS SurvivesRemoval
CHECK_DEADLOCK FALSE
