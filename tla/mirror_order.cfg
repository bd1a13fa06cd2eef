SPECIFICATION MirrorSpec
CONSTANTS
  Url = {u1}
  Worker = {w1, w2, w3}
  Job = {j1, j2, j3}
  NoJob = NoJob
  MAX_WORKERS_PER_URL = 3
  max_retries = 3
  Fault <- NoFaults
  MaxJobless = 0
  File = {f1}
  urlOf <- oneUrl
  MaxOps = 4
  JobFault <- NoFaults
SYMMETRY Symmetry
INVARIANTS Synchronized
CHECK_DEADLOCK FALSE
