SPECIFICATION FairSpec
CONSTANTS
  Url = {u1}
  Worker = {w1, w2}
  Job = {j1, j2, j3}
  NoJob = NoJob
  MAX_WORKERS_PER_URL = 2
  max_retries = 1
  Fault <- AllFaults
  MaxJobless = 1
PROPERTIES AllSettle PoolDrains DoneUnlessFailing
CHECK_DEADLOCK FALSE
