SPECIFICATION MirrorSpec
CONSTANTS
  Url = {u1}
  Worker = {w1, w2}
  Job = {j1, j2, j3}
  NoJob = NoJob
  MAX_WORKERS_PER_URL = 2
  max_retries = 1
  Fault <- AllFaults
  MaxJobless = 0
  File = {f1, f2}
  urlOf <- oneUrl
  MaxOps = 4
  JobFault <- AllJobFaults
SYMMETRY Symmetry
INVARIANTS MirrorTypeOK CopyFollowsFile
CHECK_DEADLOCK FALSE
