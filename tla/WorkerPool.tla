---------------------------- MODULE WorkerPool ----------------------------
(***************************************************************************)
(* WorkerManager and the workers it launches (WorkerManager.hpp,           *)
(* Worker.hpp, Worker.cpp and the connection of https.hpp).                *)
(*                                                                         *)
(* Everything runs on one io_service thread, so what a coroutine does      *)
(* between two suspensions is one action.  A worker is suspended at six    *)
(* places, which are the values of pc:                                     *)
(*   spawned    launched, doWork not entered yet                           *)
(*   connect    in the constructor of HTTPS                                *)
(*   run        in job.go                                                  *)
(*   reconnect  in conn.reconnect after job.go threw                       *)
(*   idle       on the one second idle timer                               *)
(*   shutdown   in async_shutdown, called by ~HTTPS on the way out         *)
(* and "none" is a Worker that is not in any list.                         *)
(***************************************************************************)
EXTENDS Naturals, SequencesExt

CONSTANTS
    Url,                  \* keys of WorkerManager::workers
    Worker,               \* Worker objects; one is reused after its erasure
    Job,                  \* jobs that the rest of the program creates
    NoJob,                \* the worker is not in the middle of a job
    MAX_WORKERS_PER_URL,  \* 3 in the code
    max_retries,          \* 3 in the code
    Fault,                \* which network operations may fail
    MaxJobless            \* bound on calls of getWorker that add no job

ASSUME ConstantsAssumption ==
    /\ NoJob \notin Job
    /\ MAX_WORKERS_PER_URL \in Nat \ {0}
    /\ max_retries \in Nat
    /\ Fault \subseteq {"connect", "job", "reconnect"}
    /\ MaxJobless \in Nat

VARIABLES
    workers,   \* workers[u]: the list of the url, front first
    state,     \* Worker::_state
    queue,     \* Worker::_queue
    pc,        \* where doWork is suspended
    job,       \* the job that doWork has popped
    retries,   \* the local retries of doWork
    jobless,   \* calls of getWorker so far that added no job (bounded)
    fate,      \* history: what became of each job
    tries      \* history: how often job.go has been called for each job

vars == <<workers, state, queue, pc, job, retries, jobless, fate, tries>>

WorkerState == {"Raw", "Ready", "Working", "Idle", "Dead"}
Place == {"none", "spawned", "connect", "run", "reconnect", "idle", "shutdown"}
\* givenUp: dropped by the retry rule; lost: destroyed along with its worker
Fate == {"new", "queued", "running", "done", "givenUp", "lost"}

Init ==
    /\ workers = [u \in Url |-> <<>>]
    /\ state = [w \in Worker |-> "Raw"]
    /\ queue = [w \in Worker |-> <<>>]
    /\ pc = [w \in Worker |-> "none"]
    /\ job = [w \in Worker |-> NoJob]
    /\ retries = [w \in Worker |-> 0]
    /\ jobless = 0
    /\ fate = [j \in Job |-> "new"]
    /\ tries = [j \in Job |-> 0]

-----------------------------------------------------------------------------
(* WorkerManager::getWorker                                                *)

idle(w) == state[w] \in {"Ready", "Idle"}

FirstIdle(list, i) ==
    /\ idle(list[i])
    /\ \A k \in 1..(i - 1) : ~idle(list[k])

LeastBusy(list, i) ==
    /\ \A k \in DOMAIN list :
          ~idle(list[k]) /\ Len(queue[list[i]]) <= Len(queue[list[k]])
    /\ \A k \in 1..(i - 1) : Len(queue[list[i]]) < Len(queue[list[k]])

\* push_front of a new Worker, and launch
Launch(u, w) ==
    /\ Len(workers[u]) < MAX_WORKERS_PER_URL
    /\ pc[w] = "none"
    /\ workers' = [workers EXCEPT ![u] = <<w>> \o @]
    /\ state' = [state EXCEPT ![w] = "Ready"]
    /\ pc' = [pc EXCEPT ![w] = "spawned"]

\* the first idle worker of a full list, else the first of the least busy
Reuse(u, w) ==
    /\ Len(workers[u]) >= MAX_WORKERS_PER_URL
    /\ \E i \in DOMAIN workers[u] :
          /\ w = workers[u][i]
          /\ FirstIdle(workers[u], i) \/ LeastBusy(workers[u], i)
    /\ UNCHANGED <<workers, state, pc>>

getWorker(u, w) == Launch(u, w) \/ Reuse(u, w)

(***************************************************************************)
(* The callers never suspend between getWorker and addJob, so the two are  *)
(* one step.  The watch loop calls getWorker for each event it is given and*)
(* the start-up sync for each file, before they know whether there is a job*)
(* for the worker: that is JoblessCall.                                    *)
(***************************************************************************)
AddJob(u, j) ==
    /\ fate[j] = "new"
    /\ \E w \in Worker :
          /\ getWorker(u, w)
          /\ queue' = [queue EXCEPT ![w] = Append(@, j)]
    /\ fate' = [fate EXCEPT ![j] = "queued"]
    /\ UNCHANGED <<job, retries, jobless, tries>>

JoblessCall(u) ==
    /\ jobless < MaxJobless
    /\ \E w \in Worker : getWorker(u, w)
    /\ jobless' = jobless + 1
    /\ UNCHANGED <<queue, job, retries, fate, tries>>

-----------------------------------------------------------------------------
(* doWork                                                                  *)

\* doWork is entered: it suspends at once in the constructor of HTTPS.
Start(w) ==
    /\ pc[w] = "spawned"
    /\ pc' = [pc EXCEPT ![w] = "connect"]
    /\ state' = [state EXCEPT ![w] = "Working"]
    /\ retries' = [retries EXCEPT ![w] = 0]
    /\ UNCHANGED <<workers, queue, job, jobless, fate, tries>>

\* The condition of the inner loop.
HasRetriesOnceMore(r) == r <= max_retries + 1   \* bug: one too many
HasRetries(r) == r <= max_retries

\* Pop job j, leaving rest, and call its go.
Run(w, f, j, rest) ==
    /\ pc' = [pc EXCEPT ![w] = "run"]
    /\ state' = [state EXCEPT ![w] = "Working"]
    /\ job' = [job EXCEPT ![w] = j]
    /\ queue' = [queue EXCEPT ![w] = rest]
    /\ fate' = [f EXCEPT ![j] = "running"]
    /\ tries' = [tries EXCEPT ![j] = @ + 1]

\* Wait on the idle timer, with the queue empty.
Wait(w) ==
    /\ pc' = [pc EXCEPT ![w] = "idle"]
    /\ state' = [state EXCEPT ![w] = "Idle"]
    /\ job' = [job EXCEPT ![w] = NoJob]
    /\ queue' = [queue EXCEPT ![w] = <<>>]
    /\ UNCHANGED tries

\* The next job of the queue.  f is fate with the outcome of the last job.
RunNextJobUnpopped(w, f, r) ==   \* bug: the job stays in the queue
    queue[w] # <<>> /\ HasRetries(r) /\ Run(w, f, Head(queue[w]), queue[w])
RunNextJobYoungest(w, f, r) ==   \* bug: last in, first out
    queue[w] # <<>> /\ HasRetries(r) /\ Run(w, f, Last(queue[w]), Front(queue[w]))
RunNextJobUnlimited(w, f, r) ==  \* bug: the inner loop is always entered
    queue[w] # <<>> /\ Run(w, f, Head(queue[w]), Tail(queue[w]))
RunNextJob(w, f, r) ==
    /\ queue[w] # <<>>
    /\ HasRetries(r)
    /\ Run(w, f, Head(queue[w]), Tail(queue[w]))

\* retries is past its limit: the inner loop is never entered again, so each
\* job of the queue is popped and dropped, and the worker waits.
DropQueue(w, f, r) ==
    /\ queue[w] # <<>>
    /\ ~HasRetries(r)
    /\ fate' = [j \in Job |-> IF j \in Range(queue[w]) THEN "givenUp" ELSE f[j]]
    /\ Wait(w)

\* The rest of the outer loop.
NextJob(w, f, r) == RunNextJob(w, f, r) \/ DropQueue(w, f, r)

AfterJob(w, f, r) ==
    \/ NextJob(w, f, r)
    \/ queue[w] = <<>> /\ fate' = f /\ Wait(w)

\* doWork ends with nothing in the queue: ~HTTPS starts its shutdown.
Leave(w, s) ==
    /\ queue[w] = <<>>
    /\ pc' = [pc EXCEPT ![w] = "shutdown"]
    /\ state' = [state EXCEPT ![w] = s]
    /\ UNCHANGED <<queue, job, fate, tries>>

\* Connected.  A worker that was given no job meanwhile leaves at once, still
\* in state Working.
Connected(w) ==
    /\ pc[w] = "connect"
    /\ NextJob(w, fate, retries[w]) \/ Leave(w, "Working")
    /\ UNCHANGED <<workers, retries, jobless>>

\* job.go came back.  upload.cpp catches its own exceptions, so this is also
\* how a failed upload ends.
JobReturns(w) ==
    /\ pc[w] = "run"
    /\ AfterJob(w, [fate EXCEPT ![job[w]] = "done"], retries[w])
    /\ UNCHANGED <<workers, retries, jobless>>

JobThrows(w) ==
    /\ "job" \in Fault
    /\ pc[w] = "run"
    /\ pc' = [pc EXCEPT ![w] = "reconnect"]
    /\ UNCHANGED <<workers, state, queue, job, retries, jobless, fate, tries>>

\* Count the failure; call job.go again, or give the job up.
ReconnectedRequeues(w) ==   \* bug: the job goes to the back of the queue
    /\ pc[w] = "reconnect"
    /\ AfterJob(w, [fate EXCEPT ![job[w]] = "queued"], retries[w] + 1)
    /\ UNCHANGED <<workers, retries, jobless>>
Reconnected(w) ==
    /\ pc[w] = "reconnect"
    /\ retries' = [retries EXCEPT ![w] = @ + 1]
    /\ \/ /\ HasRetries(retries[w] + 1)
          /\ pc' = [pc EXCEPT ![w] = "run"]
          /\ tries' = [tries EXCEPT ![job[w]] = @ + 1]
          /\ UNCHANGED <<state, queue, job, fate>>
       \/ /\ ~HasRetries(retries[w] + 1)
          /\ AfterJob(w, [fate EXCEPT ![job[w]] = "givenUp"], retries[w] + 1)
    /\ UNCHANGED <<workers, jobless>>

\* The exception unwinds doWork: the current job dies now, the queue when
\* ~HTTPS is done with its shutdown.
ReconnectFails(w) ==
    /\ "reconnect" \in Fault
    /\ pc[w] = "reconnect"
    /\ pc' = [pc EXCEPT ![w] = "shutdown"]
    /\ fate' = [fate EXCEPT ![job[w]] = "lost"]
    /\ job' = [job EXCEPT ![w] = NoJob]
    /\ UNCHANGED <<workers, state, queue, retries, jobless, tries>>

\* The idle timer fires.
IdleTimeoutSaysIdle(w) ==   \* bug: the dying worker still says Idle
    /\ pc[w] = "idle"
    /\ NextJob(w, fate, retries[w]) \/ Leave(w, "Idle")
    /\ UNCHANGED <<workers, retries, jobless>>
IdleTimeoutDeaf(w) ==       \* bug: jobs that came in meanwhile are ignored
    /\ pc[w] = "idle"
    /\ Leave(w, "Dead")
    /\ UNCHANGED <<workers, retries, jobless>>
IdleTimeoutRearmed(w) ==    \* bug: the timer is armed for ever
    /\ pc[w] = "idle"
    /\ NextJob(w, fate, retries[w])
    /\ UNCHANGED <<workers, retries, jobless>>
IdleTimeout(w) ==
    /\ pc[w] = "idle"
    /\ NextJob(w, fate, retries[w]) \/ Leave(w, "Dead")
    /\ UNCHANGED <<workers, retries, jobless>>

\* list::erase of the iterator that launch has captured.
eraseFront(list, w) ==      \* bug: erases whoever is at the front
    IF \E i \in DOMAIN list : list[i] = w THEN Tail(list) ELSE list
erase(list, w) ==
    IF \E i \in DOMAIN list : list[i] = w
    THEN RemoveAt(list, CHOOSE i \in DOMAIN list : list[i] = w)
    ELSE list

\* The two sentries: the worker is Dead, then onDone erases it from its list,
\* which destroys it and whatever its queue holds.
Retire(w) ==
    /\ workers' = [u \in Url |-> erase(workers[u], w)]
    /\ fate' = [j \in Job |-> IF j \in Range(queue[w]) THEN "lost" ELSE fate[j]]
    /\ state' = [state EXCEPT ![w] = "Raw"]
    /\ pc' = [pc EXCEPT ![w] = "none"]
    /\ queue' = [queue EXCEPT ![w] = <<>>]
    /\ retries' = [retries EXCEPT ![w] = 0]
    /\ UNCHANGED <<job, jobless, tries>>

\* The constructor of HTTPS throws: there is no connection to shut down.
ConnectFails(w) ==
    /\ "connect" \in Fault
    /\ pc[w] = "connect"
    /\ Retire(w)

\* async_shutdown completes; its error, if any, is only logged.
ShutdownDone(w) ==
    /\ pc[w] = "shutdown"
    /\ Retire(w)

-----------------------------------------------------------------------------
doWork(w) ==
    \/ Start(w)
    \/ Connected(w)
    \/ ConnectFails(w)
    \/ JobReturns(w)
    \/ JobThrows(w)
    \/ Reconnected(w)
    \/ ReconnectFails(w)
    \/ IdleTimeout(w)
    \/ ShutdownDone(w)

Next ==
    \/ \E u \in Url, j \in Job : AddJob(u, j)
    \/ \E u \in Url : JoblessCall(u)
    \/ \E w \in Worker : doWork(w)

Spec == Init /\ [][Next]_vars

\* The io_service runs each handler that is ready, and each network operation
\* is assumed to end, well or badly: the code has no timeout of its own on them.
FairSpec == Spec /\ \A w \in Worker : WF_vars(doWork(w))
-----------------------------------------------------------------------------
(* Properties                                                              *)

TypeOK ==
    /\ workers \in [Url -> Seq(Worker)]
    /\ state \in [Worker -> WorkerState]
    /\ queue \in [Worker -> Seq(Job)]
    /\ pc \in [Worker -> Place]
    /\ job \in [Worker -> Job \cup {NoJob}]
    /\ retries \in [Worker -> 0..(max_retries + 1)]
    /\ jobless \in 0..MaxJobless
    /\ fate \in [Job -> Fate]
    /\ tries \in [Job -> Nat]

Listed(u, w) == \E i \in DOMAIN workers[u] : workers[u][i] = w

\* Launching, reusing and erasing never lose track of a worker: the coroutines
\* in existence are exactly the workers in the lists, each is in one list, once
\* (its iterator stays valid until its own onDone erases it), and no list is
\* longer than MAX_WORKERS_PER_URL (WorkerManager.hpp:21-24).
PoolBound ==
    /\ \A u \in Url :
          /\ Len(workers[u]) <= MAX_WORKERS_PER_URL
          /\ \A i, k \in DOMAIN workers[u] :
                workers[u][i] = workers[u][k] => i = k
          /\ \A v \in Url, w \in Worker : Listed(u, w) /\ Listed(v, w) => u = v
    /\ \A w \in Worker : pc[w] # "none" <=> \E u \in Url : Listed(u, w)

Waiting(w, j) == \E i \in DOMAIN queue[w] : queue[w][i] = j

QueuesApart ==
    \A w, x \in Worker : \A i \in DOMAIN queue[w], k \in DOMAIN queue[x] :
       queue[w][i] = queue[x][k] => w = x /\ i = k
JobsApart ==
    \A w, x \in Worker : job[w] # NoJob /\ job[w] = job[x] => w = x
FateAgrees ==
    \A j \in Job :
       /\ fate[j] = "queued" <=> \E w \in Worker : Waiting(w, j)
       /\ fate[j] = "running" <=> \E w \in Worker : job[w] = j
MiddleOfJob ==
    \A w \in Worker : job[w] # NoJob <=> pc[w] \in {"run", "reconnect"}

\* A job is in one place until it is settled: waiting at one position of one
\* queue, or popped by one worker that is running it or reconnecting to run it
\* again; a job that is settled or was never handed over is held by nobody, so
\* no job is run twice at once nor after it was dropped (Worker.hpp:54-66).
OneHolder == QueuesApart /\ JobsApart /\ FateAgrees /\ MiddleOfJob

\* However a worker's failures are spread over its jobs, no job is attempted
\* more often than max_retries allows, and none is ever dropped by the retry
\* rule by a worker that had retries left (Worker.cpp:43, 74-75).
TryLimit ==
    /\ \A j \in Job : tries[j] <= max_retries + 1
    /\ \A w \in Worker :
          pc[w] \in {"run", "reconnect"} =>
             retries[w] <= max_retries /\ tries[job[w]] <= retries[w] + 1

\* getWorker prefers a worker that says it is idle: such a worker is one that
\* is certain to look at its queue again, never one on its way out
\* (Worker.hpp:52, Worker.cpp:85-98).
IdleWillLook ==
    /\ \A w \in Worker : idle(w) <=> pc[w] \in {"spawned", "idle"}
    /\ \A w \in Worker : state[w] = "Dead" => pc[w] = "shutdown"

\* A worker serves its queue in order: it never starts a job while one that was
\* added to the same queue before it is still waiting (Worker.hpp:61-66).
ServedInOrder ==
    [][\A w \in Worker : \A i, k \in DOMAIN queue[w] :
          i < k /\ fate'[queue[w][k]] = "running"
             => fate'[queue[w][i]] # "queued"]_vars

\* The pool is a job service: seen from outside, each job is accepted once,
\* attempted at most max_retries + 1 times and settled for good.
Service ==
    INSTANCE JobService WITH
       MaxTries <- max_retries + 1,
       status <- [j \in Job |->
          CASE fate[j] = "queued" -> "accepted"
            [] fate[j] \in {"givenUp", "lost"} -> "abandoned"
            [] OTHER -> fate[j]]
ImplementsJobService == Service!Spec

\* Each job that was handed to a worker is settled in the end, one way or the
\* other, as long as every network operation ends (Worker.cpp:41-98).
AllSettle ==
    \A j \in Job :
       fate[j] \in {"queued", "running"} ~> fate[j] \in {"done", "givenUp", "lost"}

\* Once events stop coming, every connection is closed and every worker is
\* erased: none stays behind in a list (Worker.cpp:81-98).
PoolDrains == <>[](\A w \in Worker : pc[w] = "none")

\* Only the failures of its own worker can come in the way of a job: one that
\* waits for a worker that runs or idles and has retries left is done in the
\* end, or else that worker has met a failure and reconnects; what happens to
\* other workers does not matter (Worker.cpp:41-98).
DoneUnlessFailing ==
    \A w \in Worker, j \in Job :
       Waiting(w, j) /\ pc[w] \in {"run", "idle"} /\ HasRetries(retries[w])
          ~> fate[j] = "done" \/ pc[w] = "reconnect"

-----------------------------------------------------------------------------
(* What the repository says and the code does not do                       *)

\* refactor-plan.mkd:124-126 lets an upload worker run all the jobs of its
\* queue before it disconnects and dies: no job may die with it.
NothingLost == \A j \in Job : fate[j] # "lost"

\* The comment of Worker.cpp:73 says that a job that failed is retried: a job
\* is given up only when all its own attempts failed.
GivenUpOnlyAfterRetries ==
    \A j \in Job : fate[j] = "givenUp" => tries[j] = max_retries + 1
=============================================================================
