SPECIFICATION Spec
CONSTANTS
  Url = {u1}
  Worker = {w1, w2, w3}
  Job = {j1, j2, j3, j4}
  NoJob = NoJob
  MAX_WORKERS_PER_URL = 3
  max_retries = 3
  Fault <- JobFaults
  MaxJobless = 0
SYMMETRY Symmetry
INVARIANTS GivenUpOnlyAfterRetries
CHECK_DEADLOCK FALSE
