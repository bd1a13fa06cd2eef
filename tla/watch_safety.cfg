SPECIFICATION Spec
CONSTANTS
  Ino = {i1, i2, i3, i4}
  Name = {"x", "y", "z"}
  FileName = {"f"}
  MaxDepth = 3
  QueueLimit = 3
  Ops <- AllOps
  MaxOps = 4
  Configs <- SomeConfigs
  ReadAhead = 2
  IgnoredName = {"z"}
SYMMETRY Symmetry
INVARIANTS TypeOK MapsAgree FollowsKernel OnlyKnownWatches PathsCurrent WatchesExactly
CHECK_DEADLOCK FALSE
