SPECIFICATION Spec
CONSTANTS
  Url = {u1, u2}
  Worker = {w1, w2, w3, w4}
  Job = {j1, j2, j3}
  NoJob = NoJob
  MAX_WORKERS_PER_URL = 2
  max_retries = 1
  Fault <- AllFaults
  MaxJobless = 1
SYMMETRY Symmetry
INVARIANTS TypeOK PoolBound OneHolder  IdleWillLook
PROPERTIES ServedInOrder ImplementsJobService
CHECK_DEADLOCK FALSE
