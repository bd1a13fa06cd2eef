SPECIFICATION Spec
CONSTANTS
  ConfigFile = {"a", "b", "c", "d", "x", "y", "z"}
  extension <- Extensions
  content <- Contents
  local_dir <- LocalDirs
  NoFile = NoFile
  username <- Usernames
  Catalogue <- Catalogues
  NLogins = 2
  Fault <- AllFaults
INVARIANTS BlockedUntilAllDone
CHECK_DEADLOCK FALSE
