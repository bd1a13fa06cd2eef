--------------------------- MODULE MCWorkerPool ---------------------------
\* Instances of WorkerPool for TLC.
EXTENDS WorkerPool

AllFaults == {"connect", "job", "reconnect"}
JobFaults == {"job"}
NoFaults == {}

\* Workers and jobs are interchangeable.  Only the runs that check no liveness
\* property use this.
Symmetry == Permutations(Worker) \cup Permutations(Job)
=============================================================================
