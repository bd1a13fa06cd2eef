---------------------------- MODULE JobService ----------------------------
(***************************************************************************)
(* What the worker pool promises about each single job, with no worker, no *)
(* URL and no connection in sight.  A job is handed over once, waits, is   *)
(* attempted a bounded number of times and is then settled for good: either*)
(* done or abandoned.  One step may move several jobs (a worker that throws*)
(* its queue away abandons all of it at once), but each along one edge.    *)
(***************************************************************************)
EXTENDS Naturals

CONSTANTS Job,       \* the jobs that are ever handed over
          MaxTries   \* how often one job may be attempted, at least once

VARIABLES status,    \* where each job is
          tries      \* how often each job has been attempted

Status == {"new", "accepted", "running", "done", "abandoned"}

Init ==
    /\ status = [j \in Job |-> "new"]
    /\ tries = [j \in Job |-> 0]

Rests(j) == status'[j] = status[j] /\ tries'[j] = tries[j]

Accept(j) ==
    /\ status[j] = "new" /\ status'[j] = "accepted"
    /\ tries'[j] = tries[j]

\* The first attempt and every later one.
Attempt(j) ==
    /\ status[j] \in {"accepted", "running"} /\ status'[j] = "running"
    /\ tries[j] < MaxTries /\ tries'[j] = tries[j] + 1

Finish(j) ==
    /\ status[j] = "running" /\ status'[j] = "done"
    /\ tries'[j] = tries[j]

Abandon(j) ==
    /\ status[j] \in {"accepted", "running"} /\ status'[j] = "abandoned"
    /\ tries'[j] = tries[j]

JobMove(j) ==
    Rests(j) \/ Accept(j) \/ Attempt(j) \/ Finish(j) \/ Abandon(j)

Next ==
    /\ status' \in [Job -> Status]
    /\ tries' \in [Job -> 0..MaxTries]
    /\ \A j \in Job : JobMove(j)

Spec == Init /\ [][Next]_<<status, tries>>
=============================================================================
