SPECIFICATION Spec
CONSTANTS
  Url = {u1}
  Worker = {w1, w2, w3}
  Job = {j1, j2}
  NoJob = NoJob
  MAX_WORKERS_PER_URL = 3
  max_retries = 3
  Fault <- NoFaults
  MaxJobless = 3
INVARIANTS NothingLost
CHECK_DEADLOCK FALSE
