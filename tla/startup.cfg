SPECIFICATION FairSpec
CONSTANTS
  ConfigFile = {"a", "b", "c", "d", "x", "y", "z"}
  extension <- Extensions
  content <- Contents
  local_dir <- LocalDirs
  NoFile = NoFile
  username <- Usernames
  Catalogue <- Catalogues
  NLogins = 2
  Fault <- AllFaults
INVARIANTS TypeOK AccountsReady WokenByTheLast ConfigInOrder 
PROPERTIES LoginIsBarrier StartupEnds HealthyStart
CHECK_DEADLOCK FALSE
