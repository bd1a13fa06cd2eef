---------------------------- MODULE MirrorProofs ----------------------------
(***************************************************************************)
(* Theorems about Mirror, for every pool, all files and every order of the *)
(* steps of jobs, workers, other processes and the event loop.             *)
(*                                                                         *)
(* The pool inside Mirror is a WorkerPool, so that all of WorkerPoolProofs *)
(* holds of it.  What is added is told from the newest job of a file: the  *)
(* last event of it, or else the last job in the queue, or else the job    *)
(* that runs.  It is of the right kind for what the file is now, and what  *)
(* it knows of the file is true.  Only jobs with a newer one after them may*)
(* be wrong.  This needs the jobs of a file to be on one worker.           *)
(***************************************************************************)
EXTENDS Mirror, WorkerPoolProofs, FiniteSetTheorems

-----------------------------------------------------------------------------
(* The inductive invariant                                                 *)

\* A job that was handed over has its event, and jobs of one kind take steps of
\* that kind.
WorkTyped ==
    /\ \A j \in Job : fate[j] # "new" => work[j] \in Event
    /\ \A w \in Worker : step[w] \in {"head", "open", "put"} => kind(w) # "deleted"

\* An event of file f is still to become a job.
Coming(f) == \E k \in DOMAIN events : events[k].file = f

\* Nothing of file f comes after place i of the queue of w; 0 is what it runs.
Newest(w, i, f) ==
    /\ ~Coming(f)
    /\ \A m \in DOMAIN queue[w] : m > i => work[queue[w][m]].file # f

\* The job of e would do what has to be done.
Agrees(e) == e.kind = "deleted" <=> local[e.file] = 0

\* The last event of a file agrees with it ...
EventsAgree ==
    \A k \in DOMAIN events :
       (\A m \in DOMAIN events : m > k => events[m].file # events[k].file)
          => Agrees(events[k])

\* ... and so does the last job in a queue, if no event comes after it ...
QueuesAgree ==
    \A w \in Worker : \A i \in DOMAIN queue[w] :
       Newest(w, i, work[queue[w][i]].file) => Agrees(work[queue[w][i]])

\* ... and the job that runs, if nothing comes after it.
RunningAgrees ==
    \A w \in Worker :
       job[w] # NoJob /\ Newest(w, 0, file(w)) => Agrees(work[job[w]])

\* What the newest job has found out is true.
RunningKnows ==
    \A w \in Worker :
       pc[w] = "run" /\ Newest(w, 0, file(w)) =>
          /\ step[w] \in {"head", "open", "put"} => md5[w] = local[file(w)]
          /\ step[w] = "put" => body[w] = local[file(w)]
          /\ step[w] = "finished" => remote[file(w)] = local[file(w)]

\* Some worker has a job of f.
Held(f) == \E w \in Worker, j \in Job : Holds(w, j) /\ work[j].file = f

\* A file that nothing is to be done about has its copy, unless it is behind.
RestFollows ==
    \A f \in File \ behind : ~Coming(f) /\ ~Held(f) => remote[f] = local[f]

\* What is known of the jobs and the files while the jobs of a file are on one
\* worker.
Follows ==
    ~Overlap /\ QueuesAgree /\ RunningAgrees /\ RunningKnows /\ RestFollows

\* What holds in every reachable state.
MirrorIInv ==
    /\ IInv
    /\ MirrorTypeOK /\ WorkTyped
    /\ EventsAgree
    /\ apart => Follows

-----------------------------------------------------------------------------
(* What the pool does                                                      *)

\* One trip through the loop of doWork takes at most the head of the queue.
LEMMA LoopTakes ==
    ASSUME TypeOK, NEW w \in Worker, NEW f, NEW r, AfterJob(w, f, r)
    PROVE  /\ \A x \in Worker : x # w =>
                 queue'[x] = queue[x] /\ job'[x] = job[x] /\ pc'[x] = pc[x]
           /\ \/ /\ queue[w] # <<>>
                 /\ queue'[w] = Tail(queue[w]) /\ job'[w] = Head(queue[w])
              \/ queue'[w] = <<>> /\ job'[w] = NoJob
BY DEF TypeOK, AfterJob, NextJob, RunNextJob, DropQueue, Run, Wait

\* So does every step of a worker; other workers keep what they have.
LEMMA WorkerTakes ==
    ASSUME TypeOK, OneHolder, NEW w \in Worker, doWork(w)
    PROVE  /\ \A x \in Worker : x # w =>
                 queue'[x] = queue[x] /\ job'[x] = job[x] /\ pc'[x] = pc[x]
           /\ \/ queue'[w] = queue[w] /\ job'[w] \in {job[w], NoJob}
              \/ /\ queue[w] # <<>>
                 /\ queue'[w] = Tail(queue[w]) /\ job'[w] = Head(queue[w])
              \/ queue'[w] = <<>> /\ job'[w] = NoJob
<1> DEFINE All == /\ \A x \in Worker : x # w =>
                        queue'[x] = queue[x] /\ job'[x] = job[x] /\ pc'[x] = pc[x]
                  /\ \/ queue'[w] = queue[w] /\ job'[w] \in {job[w], NoJob}
                     \/ /\ queue[w] # <<>>
                        /\ queue'[w] = Tail(queue[w]) /\ job'[w] = Head(queue[w])
                     \/ queue'[w] = <<>> /\ job'[w] = NoJob
<1>1. ASSUME NEW f, NEW r, AfterJob(w, f, r)
      PROVE  All
  BY <1>1, LoopTakes
<1>2. ASSUME NEW s, Leave(w, s)
      PROVE  All
  BY <1>2 DEF Leave, TypeOK
<1>3. ASSUME Retire(w), pc[w] \in {"connect", "shutdown"}
      PROVE  All
  BY <1>3 DEF Retire, TypeOK, OneHolder, MiddleOfJob
<1>4. CASE Connected(w) \/ IdleTimeout(w)
  BY <1>1, <1>2, <1>4 DEF Connected, IdleTimeout, AfterJob
<1>5. CASE JobReturns(w)
  BY <1>1, <1>5 DEF JobReturns
<1>6. CASE Reconnected(w)
  <2>1. CASE HasRetries(retries[w] + 1)
    BY <1>6, <2>1 DEF Reconnected, TypeOK
  <2>2. CASE ~HasRetries(retries[w] + 1)
    BY <1>1, <1>6, <2>2 DEF Reconnected
  <2> QED BY <2>1, <2>2
<1>7. CASE Start(w) \/ JobThrows(w) \/ ReconnectFails(w)
  BY <1>7 DEF Start, JobThrows, ReconnectFails, TypeOK
<1>8. CASE ConnectFails(w) \/ ShutdownDone(w)
  BY <1>3, <1>8 DEF ConnectFails, ShutdownDone
<1> QED BY <1>4, <1>5, <1>6, <1>7, <1>8 DEF doWork

\* A new job goes to the end of one queue, and no worker starts or stops.
LEMMA AddPuts ==
    ASSUME TypeOK, NEW u \in Url, NEW j \in Job, AddJob(u, j)
    PROVE  /\ \E x \in Worker :
                 /\ queue'[x] = Append(queue[x], j)
                 /\ \A y \in Worker : y # x => queue'[y] = queue[y]
           /\ job' = job
           /\ fate[j] = "new" /\ fate'[j] = "queued"
           /\ \A i \in Job : i # j => fate'[i] = fate[i]
           /\ \A y \in Worker : pc'[y] = "run" <=> pc[y] = "run"
<1>1. PICK x \in Worker : getWorker(u, x) /\ queue' = [queue EXCEPT ![x] = Append(@, j)]
  BY DEF AddJob
<1>2. \A y \in Worker : pc'[y] = "run" <=> pc[y] = "run"
  BY <1>1 DEF getWorker, Launch, Reuse, TypeOK
<1> QED BY <1>1, <1>2 DEF AddJob, TypeOK

\* A job is held exactly while it is waiting or running.
LEMMA HeldByFate ==
    ASSUME OneHolder, NEW j \in Job
    PROVE  (\E w \in Worker : Holds(w, j)) <=> fate[j] \in {"queued", "running"}
BY DEF OneHolder, FateAgrees, Holds

\* The job that a worker runs, and those in its queue, have their events.
LEMMA HeldWork ==
    ASSUME TypeOK, OneHolder, WorkTyped, NEW w \in Worker
    PROVE  /\ job[w] # NoJob => /\ job[w] \in Job /\ fate[job[w]] = "running"
                                /\ work[job[w]] \in Event /\ file(w) \in File
                                /\ Holds(w, job[w])
           /\ pc[w] \in {"run", "reconnect"} => job[w] # NoJob
           /\ \A i \in DOMAIN queue[w] :
                 /\ queue[w][i] \in Job /\ fate[queue[w][i]] = "queued"
                 /\ work[queue[w][i]] \in Event
                 /\ Holds(w, queue[w][i])
<1>1. ASSUME job[w] # NoJob
      PROVE  /\ job[w] \in Job /\ fate[job[w]] = "running"
             /\ work[job[w]] \in Event /\ file(w) \in File
             /\ Holds(w, job[w])
  <2>1. job[w] \in Job
    BY <1>1 DEF TypeOK
  <2>2. fate[job[w]] = "running"
    BY <2>1 DEF OneHolder, FateAgrees
  <2>3. work[job[w]] \in Event
    BY <2>1, <2>2 DEF WorkTyped
  <2> QED BY <2>1, <2>2, <2>3 DEF file, Event, Holds
<1>2. pc[w] \in {"run", "reconnect"} => job[w] # NoJob
  BY DEF OneHolder, MiddleOfJob
<1>3. ASSUME NEW i \in DOMAIN queue[w]
      PROVE  /\ queue[w][i] \in Job /\ fate[queue[w][i]] = "queued"
             /\ work[queue[w][i]] \in Event
             /\ Holds(w, queue[w][i])
  <2>1. queue[w][i] \in Job
    BY DEF TypeOK
  <2>2. Waiting(w, queue[w][i])
    BY DEF Waiting
  <2>3. fate[queue[w][i]] = "queued"
    BY <2>1, <2>2 DEF OneHolder, FateAgrees
  <2> QED BY <2>1, <2>2, <2>3 DEF WorkTyped, Holds
<1> QED BY <1>1, <1>2, <1>3

-----------------------------------------------------------------------------
(* The pool inside Mirror                                                  *)

\* Seen by the pool, each step is one of its own or none.
LEMMA PoolInside ==
    ASSUME MirrorTypeOK, MirrorNext
    PROVE  [Next]_vars
<1>1. ASSUME HandleEvent
      PROVE  [Next]_vars
  <2>1. CASE UNCHANGED vars
    BY <2>1
  <2>2. CASE events # <<>> /\ \E j \in Job : AddJob(urlOf[Head(events).file], j)
    <3>1. Head(events) \in Event
      BY <2>2 DEF MirrorTypeOK
    <3>2. urlOf[Head(events).file] \in Url
      BY <3>1, MirrorAssumption DEF Event
    <3> QED BY <2>2, <3>2 DEF Next
  <2> QED BY <1>1, <2>1, <2>2 DEF HandleEvent
<1>2. ASSUME NEW w \in Worker, workerStep(w)
      PROVE  doWork(w)
  BY <1>2 DEF workerStep, poolStep, doWork
<1>3. ASSUME NEW w \in Worker, jobStep(w)
      PROVE  UNCHANGED vars
  BY <1>3 DEF jobStep, TakeMD5, HeadRemote, Open, Put, UploadFails, Delete
<1> QED BY <1>1, <1>2, <1>3 DEF MirrorNext, WriteFile, RemoveFile, Next

-----------------------------------------------------------------------------
(* Types                                                                   *)

\* The contents that there may be.
LEMMA ContentsTyped ==
    ASSUME MirrorTypeOK
    PROVE  /\ 0 \in 0..MaxOps
           /\ \A f \in File : local[f] \in 0..MaxOps /\ remote[f] \in 0..MaxOps
           /\ ops < MaxOps => ops + 1 \in 0..MaxOps
BY MirrorAssumption DEF MirrorTypeOK

\* Which files are behind, of those whose jobs do not end in a step.
LEMMA BehindStays ==
    ASSUME TypeOK, OneHolder,
           \A j \in Job : fate'[j] = fate[j] \/ fate'[j] = "queued"
    PROVE  /\ {j \in Job : Succeeds(j)} = {}
           /\ {j \in Job : ComesToNothing(j)} = {}
<1>1. ASSUME NEW j \in Job, Succeeds(j)
      PROVE  FALSE
  <2>1. PICK w \in Worker : job[w] = j /\ fate'[j] = "done"
    BY <1>1 DEF Succeeds
  <2>2. fate[j] = "running"
    BY <2>1 DEF OneHolder, FateAgrees
  <2>3. fate'[j] = fate[j] \/ fate'[j] = "queued"
    OBVIOUS
  <2> QED BY <2>1, <2>2, <2>3
<1>2. ASSUME NEW j \in Job, ComesToNothing(j)
      PROVE  FALSE
  BY <1>2 DEF ComesToNothing
<1> QED BY <1>1, <1>2

\* The files that are behind are files.
LEMMA BehindTyped ==
    ASSUME IInv, MirrorTypeOK, WorkTyped, MirrorNext
    PROVE  behind' \subseteq File
<1>1. TypeOK /\ OneHolder /\ [Next]_vars
  BY PoolInside DEF IInv
<1>2. ASSUME NEW j \in Job, ComesToNothing(j)
      PROVE  work[j].file \in File
  <2>1. FateMove(j)
    BY <1>1, StepMoves
  <2>2. fate[j] # "new"
    BY <1>2, <2>1 DEF ComesToNothing, FateMove
  <2> QED BY <2>2 DEF WorkTyped, Event
<1>3. behind \subseteq File
  BY DEF MirrorTypeOK
<1>4. behind' = (behind \ FilesOf({j \in Job : Succeeds(j)}))
                   \cup FilesOf({j \in Job : ComesToNothing(j)})
  BY DEF MirrorNext
<1> QED BY <1>2, <1>3, <1>4 DEF FilesOf

\* An operation of another process appends an event.
FileStep(f) == WriteFile(f) \/ RemoveFile(f)

\* Its event says whether the file is still there.
LEMMA FileTyped ==
    ASSUME MirrorTypeOK, NEW f \in File, FileStep(f)
    PROVE  /\ \E e \in Event :
                 /\ events' = Append(events, e) /\ e.file = f
                 /\ e.kind = "deleted" <=> local'[f] = 0
           /\ events' \in Seq(Event)
           /\ local' \in [File -> 0..MaxOps] /\ ops' \in 0..MaxOps
           /\ \A g \in File : g # f => local'[g] = local[g]
           /\ UNCHANGED <<vars, remote, alive, work, step, md5, body, conn>>
<1>1. CASE WriteFile(f)
  <2> DEFINE e == [kind |-> "closed", file |-> f]
  <2>1. /\ ops < MaxOps /\ ops' = ops + 1 /\ local' = [local EXCEPT ![f] = ops + 1]
        /\ events' = Append(events, e)
        /\ UNCHANGED <<vars, remote, alive, work, step, md5, body, conn>>
    BY <1>1 DEF WriteFile
  <2>2. e \in Event /\ e.file = f /\ e.kind = "closed"
    BY DEF Event
  <2>3. ops + 1 \in 0..MaxOps /\ ops + 1 # 0
    BY <2>1, ContentsTyped DEF MirrorTypeOK
  <2>4. local' \in [File -> 0..MaxOps] /\ local'[f] # 0
    BY <2>1, <2>3 DEF MirrorTypeOK
  <2>5. events' \in Seq(Event)
    BY <2>1, <2>2 DEF MirrorTypeOK
  <2> HIDE DEF e
  <2> QED BY <2>1, <2>2, <2>3, <2>4, <2>5 DEF MirrorTypeOK
<1>2. CASE RemoveFile(f)
  <2> DEFINE e == [kind |-> "deleted", file |-> f]
  <2>1. /\ ops < MaxOps /\ ops' = ops + 1 /\ local' = [local EXCEPT ![f] = 0]
        /\ events' = Append(events, e)
        /\ UNCHANGED <<vars, remote, alive, work, step, md5, body, conn>>
    BY <1>2 DEF RemoveFile
  <2>2. e \in Event /\ e.file = f /\ e.kind = "deleted"
    BY DEF Event
  <2>3. ops + 1 \in 0..MaxOps
    BY <2>1, ContentsTyped
  <2>4. local' \in [File -> 0..MaxOps] /\ local'[f] = 0
    BY <2>1, ContentsTyped DEF MirrorTypeOK
  <2>5. events' \in Seq(Event)
    BY <2>1, <2>2 DEF MirrorTypeOK
  <2> HIDE DEF e
  <2> QED BY <2>1, <2>2, <2>3, <2>4, <2>5 DEF MirrorTypeOK
<1> QED BY <1>1, <1>2 DEF FileStep

\* The event loop turns the first event into a job, or ends.
LEMMA EventTyped ==
    ASSUME MirrorTypeOK, HandleEvent
    PROVE  /\ events # <<>> /\ Head(events) \in Event
           /\ UNCHANGED <<local, remote, ops, step, md5, body, conn>>
           /\ \/ UNCHANGED <<vars, work, events>> /\ alive' = FALSE
              \/ /\ \E j \in Job : /\ AddJob(urlOf[Head(events).file], j)
                                   /\ work' = [work EXCEPT ![j] = Head(events)]
                 /\ urlOf[Head(events).file] \in Url
                 /\ events' = Tail(events) /\ events' \in Seq(Event)
                 /\ alive' = alive
<1>1. events # <<>> /\ events \in Seq(Event)
  BY DEF HandleEvent, MirrorTypeOK
<1>2. Head(events) \in Event /\ Tail(events) \in Seq(Event)
  BY <1>1
<1>3. urlOf[Head(events).file] \in Url
  BY <1>2, MirrorAssumption DEF Event
<1> QED BY <1>1, <1>2, <1>3 DEF HandleEvent

\* A job changes only what its own worker has, and the copy of its file.
LEMMA JobTyped ==
    ASSUME IInv, MirrorTypeOK, WorkTyped, NEW w \in Worker, jobStep(w)
    PROVE  /\ pc[w] = "run" /\ file(w) \in File
           /\ remote' \in [File -> 0..MaxOps]
           /\ step' \in [Worker -> Step]
           /\ md5' \in [Worker -> 0..MaxOps] /\ body' \in [Worker -> 0..MaxOps]
           /\ conn' \in [Worker -> Conn]
           /\ \A f \in File : f # file(w) => remote'[f] = remote[f]
           /\ \A x \in Worker : x # w =>
                 step'[x] = step[x] /\ md5'[x] = md5[x] /\ body'[x] = body[x]
           /\ step'[w] \in {"head", "open", "put"} => kind(w) # "deleted"
           /\ UNCHANGED <<vars, local, events, ops, alive, work>>
<1>1. pc[w] = "run"
  BY DEF jobStep, TakeMD5, HeadRemote, Open, Put, UploadFails, Delete, At
<1>2. file(w) \in File
  BY <1>1, HeldWork DEF IInv
<1>3. 0 \in 0..MaxOps /\ local[file(w)] \in 0..MaxOps /\ body[w] \in 0..MaxOps
  BY <1>2, ContentsTyped DEF MirrorTypeOK
<1>4. step[w] \in {"head", "open", "put"} => kind(w) # "deleted"
  BY DEF WorkTyped
<1>5. CASE TakeMD5(w) \/ HeadRemote(w) \/ Open(w)
  BY <1>1, <1>2, <1>3, <1>4, <1>5
     DEF TakeMD5, HeadRemote, Open, At, goTo, MirrorTypeOK, Step
<1>6. ServerPuts(w) => /\ remote' \in [File -> 0..MaxOps]
                       /\ \A f \in File : f # file(w) => remote'[f] = remote[f]
  BY <1>2, <1>3 DEF ServerPuts, MirrorTypeOK
<1>7. CASE Put(w)
  BY <1>1, <1>2, <1>6, <1>7 DEF Put, goTo, MirrorTypeOK, Step
<1>8. CASE UploadFails(w)
  <2>1. /\ remote' \in [File -> 0..MaxOps]
        /\ \A f \in File : f # file(w) => remote'[f] = remote[f]
    BY <1>6, <1>8 DEF UploadFails, MirrorTypeOK
  <2>2. conn' \in [Worker -> Conn]
    BY <1>8 DEF UploadFails, MirrorTypeOK, Conn
  <2> QED BY <1>1, <1>2, <1>8, <2>1, <2>2 DEF UploadFails, goTo, MirrorTypeOK, Step
<1>9. CASE Delete(w)
  <2>1. /\ remote' \in [File -> 0..MaxOps]
        /\ \A f \in File : f # file(w) => remote'[f] = remote[f]
    BY <1>3, <1>9 DEF Delete, MirrorTypeOK
  <2>2. conn' \in [Worker -> Conn]
    BY <1>9 DEF Delete, MirrorTypeOK, Conn
  <2> QED BY <1>1, <1>2, <1>9, <2>1, <2>2 DEF Delete, goTo, MirrorTypeOK, Step
<1> QED BY <1>5, <1>7, <1>8, <1>9 DEF jobStep

\* A step of doWork starts its worker afresh.
LEMMA WorkerTyped ==
    ASSUME MirrorTypeOK, NEW w \in Worker, workerStep(w)
    PROVE  /\ doWork(w)
           /\ step' \in [Worker -> Step]
           /\ md5' \in [Worker -> 0..MaxOps] /\ body' \in [Worker -> 0..MaxOps]
           /\ conn' \in [Worker -> Conn]
           /\ step'[w] = "start"
           /\ \A x \in Worker : x # w =>
                 step'[x] = step[x] /\ md5'[x] = md5[x] /\ body'[x] = body[x]
           /\ UNCHANGED <<local, remote, events, ops, alive, work>>
<1>1. doWork(w) /\ UNCHANGED <<local, remote, events, ops, alive, work>>
  BY DEF workerStep, poolStep, doWork
<1>2. /\ step' = [step EXCEPT ![w] = "start"]
      /\ md5' = [md5 EXCEPT ![w] = 0]
      /\ body' = [body EXCEPT ![w] = 0]
      /\ conn' = [conn EXCEPT ![w] = IF pc[w] \in {"run", "idle"} THEN @ ELSE "good"]
  BY DEF workerStep, goTo
<1>3. conn' \in [Worker -> Conn]
  BY <1>2 DEF MirrorTypeOK, Conn
<1>4. 0 \in 0..MaxOps
  BY ContentsTyped
<1> QED BY <1>1, <1>2, <1>3, <1>4 DEF MirrorTypeOK, Step

\* No worker hands a job over.
LEMMA NoneIsNew ==
    ASSUME IInv, NEW w \in Worker, doWork(w), NEW j \in Job, fate[j] = "new"
    PROVE  fate'[j] = "new"
<1>1. TypeOK /\ OneHolder /\ [Next]_vars
  BY DEF IInv, Next
<1>2. TypeOK' /\ OneHolder'
  BY <1>1, StepHolds DEF IInv
<1>3. fate'[j] \in {"new", "queued"}
  BY <1>1, StepMoves DEF FateMove
<1>4. ASSUME fate'[j] = "queued"
      PROVE  FALSE
  <2>1. PICK x \in Worker : \E i \in DOMAIN queue'[x] : queue'[x][i] = j
    BY <1>2, <1>4 DEF OneHolder, FateAgrees, Waiting
  <2>2. queue'[x] = queue[x] \/ (queue[x] # <<>> /\ queue'[x] = Tail(queue[x])) \/ queue'[x] = <<>>
    BY <1>1, WorkerTakes
  <2>3. \E i \in DOMAIN queue[x] : queue[x][i] = j
    <3>1. CASE queue'[x] = queue[x]
      BY <2>1, <3>1
    <3>2. CASE queue[x] # <<>> /\ queue'[x] = Tail(queue[x])
      <4> DEFINE q == queue[x]
      <4>1. q \in Seq(Job)
        BY <1>1 DEF TypeOK
      <4> HIDE DEF q
      <4>2. q # <<>> /\ queue'[x] = Tail(q)
        BY <3>2 DEF q
      <4>3. \E i \in DOMAIN q : q[i] = j
        BY <2>1, <4>1, <4>2
      <4> QED BY <4>3 DEF q
    <3>3. CASE queue'[x] = <<>>
      BY <2>1, <3>3
    <3> QED BY <2>2, <3>1, <3>2, <3>3
  <2>4. fate[j] = "queued"
    BY <1>1, <2>3 DEF OneHolder, FateAgrees, Waiting
  <2> QED BY <2>4
<1> QED BY <1>3, <1>4

\* Every step keeps the types.
LEMMA MirrorTypesStep ==
    ASSUME IInv, MirrorTypeOK, WorkTyped, MirrorNext
    PROVE  MirrorTypeOK' /\ WorkTyped'
<1>1. TypeOK /\ OneHolder
  BY DEF IInv
<1>2. /\ behind' \subseteq File
      /\ apart' \in BOOLEAN
  BY BehindTyped DEF MirrorNext, MirrorTypeOK
<1>3. ASSUME NEW f \in File, FileStep(f)
      PROVE  MirrorTypeOK' /\ WorkTyped'
  <2>1. /\ events' \in Seq(Event)
        /\ local' \in [File -> 0..MaxOps] /\ ops' \in 0..MaxOps
        /\ UNCHANGED <<vars, remote, alive, work, step, md5, body, conn>>
    BY <1>3, FileTyped
  <2>2. fate' = fate /\ job' = job /\ pc' = pc
    BY <2>1 DEF vars
  <2>3. MirrorTypeOK'
    BY <1>2, <2>1, <2>2 DEF MirrorTypeOK
  <2>4. WorkTyped'
    BY <2>1, <2>2 DEF WorkTyped, kind
  <2> QED BY <2>3, <2>4
<1>4. ASSUME HandleEvent
      PROVE  MirrorTypeOK' /\ WorkTyped'
  <2>1. /\ Head(events) \in Event
        /\ UNCHANGED <<local, remote, ops, step, md5, body, conn>>
        /\ \/ UNCHANGED <<vars, work, events>> /\ alive' = FALSE
           \/ /\ \E j \in Job : /\ AddJob(urlOf[Head(events).file], j)
                                /\ work' = [work EXCEPT ![j] = Head(events)]
              /\ urlOf[Head(events).file] \in Url
              /\ events' \in Seq(Event) /\ alive' = alive
    BY <1>4, EventTyped
  <2>2. CASE UNCHANGED <<vars, work, events>> /\ alive' = FALSE
    <3>1. fate' = fate /\ job' = job /\ pc' = pc
      BY <2>2 DEF vars
    <3> QED BY <1>2, <2>1, <2>2, <3>1 DEF MirrorTypeOK, WorkTyped, kind
  <2>3. ASSUME NEW j \in Job, AddJob(urlOf[Head(events).file], j),
               work' = [work EXCEPT ![j] = Head(events)],
               urlOf[Head(events).file] \in Url,
               events' \in Seq(Event), alive' = alive
        PROVE  MirrorTypeOK' /\ WorkTyped'
    <3>1. /\ job' = job /\ fate[j] = "new"
          /\ \A i \in Job : i # j => fate'[i] = fate[i]
          /\ \A y \in Worker : pc'[y] = "run" <=> pc[y] = "run"
      BY <1>1, <2>3, AddPuts
    <3>2. /\ work' \in [Job -> Event \cup {NoJob}]
          /\ work'[j] \in Event /\ \A i \in Job : i # j => work'[i] = work[i]
      BY <2>1, <2>3 DEF MirrorTypeOK
    <3>3. MirrorTypeOK'
      BY <1>2, <2>1, <2>3, <3>1, <3>2 DEF MirrorTypeOK
    <3>4. \A i \in Job : fate'[i] # "new" => work'[i] \in Event
      BY <3>1, <3>2 DEF WorkTyped
    <3>5. ASSUME NEW w \in Worker, step'[w] \in {"head", "open", "put"}
          PROVE  kind(w)' # "deleted"
      <4>1. pc[w] = "run" /\ kind(w) # "deleted"
        BY <2>1, <3>5 DEF MirrorTypeOK, WorkTyped
      <4>2. job[w] \in Job /\ fate[job[w]] = "running"
        BY <1>1, <4>1, HeldWork
      <4> QED BY <3>1, <3>2, <4>1, <4>2 DEF kind
    <3> QED BY <3>3, <3>4, <3>5 DEF WorkTyped
  <2> QED BY <2>1, <2>2, <2>3
<1>5. ASSUME NEW w \in Worker, jobStep(w)
      PROVE  MirrorTypeOK' /\ WorkTyped'
  <2>1. /\ pc[w] = "run"
        /\ remote' \in [File -> 0..MaxOps]
        /\ step' \in [Worker -> Step]
        /\ md5' \in [Worker -> 0..MaxOps] /\ body' \in [Worker -> 0..MaxOps]
        /\ conn' \in [Worker -> Conn]
        /\ \A x \in Worker : x # w => step'[x] = step[x]
        /\ step'[w] \in {"head", "open", "put"} => kind(w) # "deleted"
        /\ UNCHANGED <<vars, local, events, ops, alive, work>>
    BY <1>5, JobTyped
  <2>2. fate' = fate /\ job' = job /\ pc' = pc
    BY <2>1 DEF vars
  <2>3. MirrorTypeOK'
    BY <1>2, <2>1, <2>2 DEF MirrorTypeOK
  <2>4. WorkTyped'
    BY <2>1, <2>2 DEF WorkTyped, kind
  <2> QED BY <2>3, <2>4
<1>6. ASSUME NEW w \in Worker, workerStep(w)
      PROVE  MirrorTypeOK' /\ WorkTyped'
  <2>1. /\ doWork(w)
        /\ step' \in [Worker -> Step]
        /\ md5' \in [Worker -> 0..MaxOps] /\ body' \in [Worker -> 0..MaxOps]
        /\ conn' \in [Worker -> Conn]
        /\ step'[w] = "start" /\ \A x \in Worker : x # w => step'[x] = step[x]
        /\ UNCHANGED <<local, remote, events, ops, alive, work>>
    BY <1>6, WorkerTyped
  <2>2. \A x \in Worker : x # w => job'[x] = job[x] /\ pc'[x] = pc[x]
    BY <1>1, <2>1, WorkerTakes
  <2>3. MirrorTypeOK'
    BY <1>2, <2>1, <2>2 DEF MirrorTypeOK
  <2>4. \A j \in Job : fate'[j] # "new" => work'[j] \in Event
    BY <2>1, NoneIsNew DEF WorkTyped
  <2>5. \A x \in Worker : step'[x] \in {"head", "open", "put"} => kind(x)' # "deleted"
    BY <2>1, <2>2 DEF WorkTyped, kind
  <2> QED BY <2>3, <2>4, <2>5 DEF WorkTyped
<1> QED BY <1>3, <1>4, <1>5, <1>6 DEF MirrorNext, FileStep

-----------------------------------------------------------------------------
(* Events and jobs agree with the files                                    *)

\* The rest of a list of events has no others.
LEMMA TailEvents ==
    ASSUME NEW q \in Seq(Event), q # <<>>
    PROVE  /\ Tail(q) \in Seq(Event) /\ Len(q) \in Nat \ {0}
           /\ Head(q) = q[1] /\ 1 \in DOMAIN q
           /\ \A k \in DOMAIN Tail(q) : Tail(q)[k] = q[k + 1] /\ k + 1 \in DOMAIN q
           /\ \A k \in DOMAIN q : k # 1 => k - 1 \in DOMAIN Tail(q) /\ q[k] = Tail(q)[k - 1]
OBVIOUS

\* A new event is of a file of its own, or the newest of its file.
LEMMA FileEventsAgree ==
    ASSUME MirrorTypeOK, EventsAgree, NEW f \in File, FileStep(f)
    PROVE  /\ EventsAgree'
           /\ \A g : Coming(g)' <=> Coming(g) \/ g = f
<1>1. PICK e \in Event : /\ events' = Append(events, e) /\ e.file = f
                         /\ e.kind = "deleted" <=> local'[f] = 0
  BY FileTyped
<1>2. \A g \in File : g # f => local'[g] = local[g]
  BY FileTyped
<1>3. events \in Seq(Event)
  BY DEF MirrorTypeOK
<1>4. /\ Len(events) \in Nat /\ DOMAIN events = 1..Len(events)
      /\ DOMAIN events' = 1..(Len(events) + 1)
      /\ events'[Len(events) + 1] = e
      /\ \A k \in DOMAIN events : events'[k] = events[k] /\ events[k] \in Event
  BY <1>1, <1>3
<1>5. ASSUME NEW k \in DOMAIN events',
             \A m \in DOMAIN events' : m > k => events'[m].file # events'[k].file
      PROVE  Agrees(events[k])'
  <2>1. CASE k = Len(events) + 1
    BY <1>1, <1>4, <2>1 DEF Agrees
  <2>2. CASE k # Len(events) + 1
    <3>1. k \in DOMAIN events /\ events'[k] = events[k] /\ events[k].file \in File
      BY <1>4, <2>2 DEF Event
    <3>2. events[k].file # f
      <4>1. Len(events) + 1 \in DOMAIN events' /\ Len(events) + 1 > k
        BY <1>4, <3>1
      <4> QED BY <1>1, <1>4, <1>5, <3>1, <4>1
    <3>3. \A m \in DOMAIN events : m > k => events[m].file # events[k].file
      BY <1>4, <1>5, <3>1
    <3>4. Agrees(events[k])
      BY <3>1, <3>3 DEF EventsAgree
    <3> QED BY <1>2, <3>1, <3>2, <3>4 DEF Agrees
  <2> QED BY <2>1, <2>2
<1>6. EventsAgree'
  BY <1>5 DEF EventsAgree
<1>7. ASSUME NEW g
      PROVE  Coming(g)' <=> Coming(g) \/ g = f
  <2>1. \A k \in DOMAIN events : k \in DOMAIN events'
    BY <1>4
  <2>2. Len(events) + 1 \in DOMAIN events'
    BY <1>4
  <2>3. \A k \in DOMAIN events' : k \in DOMAIN events \/ k = Len(events) + 1
    BY <1>4
  <2> QED BY <1>1, <1>4, <2>1, <2>2, <2>3 DEF Coming
<1> QED BY <1>6, <1>7

\* The event that becomes a job was the first.
LEMMA LoopEventsAgree ==
    ASSUME MirrorTypeOK, EventsAgree, HandleEvent
    PROVE  EventsAgree'
<1>1. events \in Seq(Event) /\ events # <<>> /\ local' = local
  BY EventTyped DEF MirrorTypeOK
<1>2. CASE events' = events
  BY <1>1, <1>2 DEF EventsAgree, Agrees
<1>3. CASE events' = Tail(events)
  <2>1. ASSUME NEW k \in DOMAIN events',
               \A m \in DOMAIN events' : m > k => events'[m].file # events'[k].file
        PROVE  Agrees(events[k])'
    <3>1. /\ k + 1 \in DOMAIN events /\ events'[k] = events[k + 1] /\ k \in Nat
      BY <1>1, <1>3, <2>1, TailEvents
    <3>2. ASSUME NEW m \in DOMAIN events, m > k + 1
          PROVE  events[m].file # events[k + 1].file
      <4>1. m \in Nat /\ m # 1 /\ m - 1 > k
        BY <1>1, <3>1, <3>2
      <4>2. m - 1 \in DOMAIN events' /\ events[m] = events'[m - 1]
        BY <1>1, <1>3, <4>1, TailEvents
      <4> QED BY <2>1, <3>1, <4>1, <4>2
    <3>3. Agrees(events[k + 1])
      BY <3>1, <3>2 DEF EventsAgree
    <3> QED BY <1>1, <3>1, <3>3 DEF Agrees
  <2> QED BY <2>1 DEF EventsAgree
<1> QED BY <1>2, <1>3, EventTyped

\* Once a file is written or removed, its newest event is not a job yet; what
\* is known of other files is as true as before.
LEMMA FileFollows ==
    ASSUME IInv, MirrorTypeOK, WorkTyped, EventsAgree, Follows,
           NEW f \in File, FileStep(f), behind' = behind
    PROVE  QueuesAgree' /\ RunningAgrees' /\ RunningKnows' /\ RestFollows'
<1>1. /\ \A g \in File : g # f => local'[g] = local[g]
      /\ UNCHANGED <<vars, remote, work, step, md5, body>>
  BY FileTyped
<1>2. queue' = queue /\ job' = job /\ pc' = pc
  BY <1>1 DEF vars
<1>3. \A g : Coming(g)' <=> Coming(g) \/ g = f
  BY FileEventsAgree
<1>4. \A w \in Worker : \A i, g : Newest(w, i, g)' => Newest(w, i, g) /\ g # f
  BY <1>1, <1>2, <1>3 DEF Newest
<1>5. TypeOK /\ OneHolder
  BY DEF IInv
<1>6. ASSUME NEW w \in Worker, NEW i \in DOMAIN queue'[w],
             Newest(w, i, work[queue[w][i]].file)'
      PROVE  Agrees(work[queue[w][i]])'
  <2>1. /\ Newest(w, i, work[queue[w][i]].file) /\ work[queue[w][i]].file # f
        /\ i \in DOMAIN queue[w]
    BY <1>1, <1>2, <1>4, <1>6
  <2>2. work[queue[w][i]] \in Event
    BY <1>5, <2>1, HeldWork
  <2>3. Agrees(work[queue[w][i]])
    BY <2>1 DEF Follows, QueuesAgree
  <2> QED BY <1>1, <1>2, <2>1, <2>2, <2>3 DEF Agrees, Event
<1>7. ASSUME NEW w \in Worker, job[w] # NoJob, Newest(w, 0, file(w))'
      PROVE  /\ Newest(w, 0, file(w)) /\ file(w) # f
             /\ work[job[w]] \in Event /\ local'[file(w)] = local[file(w)]
  <2>1. Newest(w, 0, file(w)) /\ file(w) # f
    BY <1>1, <1>2, <1>4, <1>7 DEF file
  <2>2. work[job[w]] \in Event /\ file(w) \in File
    BY <1>5, <1>7, HeldWork
  <2> QED BY <1>1, <2>1, <2>2
<1>8. RunningAgrees'
  BY <1>1, <1>2, <1>7 DEF Follows, RunningAgrees, Agrees, file
<1>9. RunningKnows'
  <2>1. \A w \in Worker : pc[w] = "run" => job[w] # NoJob
    BY <1>5, HeldWork
  <2>2. \A w \in Worker : file(w)' = file(w)
    BY <1>1, <1>2 DEF file
  <2> QED BY <1>1, <1>2, <1>7, <2>1, <2>2 DEF Follows, RunningKnows
<1>10. RestFollows'
  <2>1. \A g : Held(g)' <=> Held(g)
    BY <1>1, <1>2 DEF Held, Holds, Waiting
  <2> QED BY <1>1, <1>3, <2>1 DEF Follows, RestFollows
<1>11. QueuesAgree'
  BY <1>6 DEF QueuesAgree
<1> QED BY <1>8, <1>9, <1>10, <1>11

-----------------------------------------------------------------------------
(* What the newest job knows                                               *)

\* Two workers have jobs of different files.
LEMMA FilesApart ==
    ASSUME ~Overlap, NEW w \in Worker, NEW x \in Worker, w # x,
           NEW i \in Job, NEW j \in Job, Holds(w, i), Holds(x, j)
    PROVE  work[i].file # work[j].file
BY DEF Overlap

\* The step of a newest job finds out what is true, or makes it true.
LEMMA JobKnows ==
    ASSUME IInv, MirrorTypeOK, WorkTyped, Follows,
           NEW w \in Worker, jobStep(w), Newest(w, 0, file(w))
    PROVE  /\ step'[w] \in {"head", "open", "put"} => md5'[w] = local[file(w)]
           /\ step'[w] = "put" => body'[w] = local[file(w)]
           /\ step'[w] = "finished" => remote'[file(w)] = local[file(w)]
<1>1. pc[w] = "run" /\ file(w) \in File
  BY JobTyped
<1>2. kind(w) = "deleted" <=> local[file(w)] = 0
  <2>1. job[w] # NoJob
    BY <1>1, HeldWork DEF IInv
  <2> QED BY <2>1 DEF Follows, RunningAgrees, Agrees, kind, file
<1>3. /\ step[w] \in {"head", "open", "put"} => md5[w] = local[file(w)]
      /\ step[w] = "put" => body[w] = local[file(w)]
  BY <1>1 DEF Follows, RunningKnows
<1>4. step[w] \in {"head", "open", "put"} => kind(w) # "deleted"
  BY DEF WorkTyped
<1>5. /\ step \in [Worker -> Step] /\ remote \in [File -> 0..MaxOps]
      /\ md5 \in [Worker -> 0..MaxOps] /\ body \in [Worker -> 0..MaxOps]
  BY DEF MirrorTypeOK
<1>6. CASE TakeMD5(w)
  BY <1>1, <1>2, <1>5, <1>6 DEF TakeMD5, goTo
<1>7. CASE HeadRemote(w)
  BY <1>1, <1>3, <1>5, <1>7 DEF HeadRemote, At, goTo
<1>8. CASE Open(w)
  BY <1>1, <1>2, <1>3, <1>4, <1>5, <1>8 DEF Open, At, goTo
<1>9. CASE Put(w)
  BY <1>1, <1>3, <1>5, <1>9 DEF Put, ServerPuts, At, goTo
<1>10. CASE UploadFails(w)
  BY <1>5, <1>10 DEF UploadFails, goTo
<1>11. CASE Delete(w)
  BY <1>1, <1>2, <1>5, <1>11 DEF Delete, goTo
<1> QED BY <1>6, <1>7, <1>8, <1>9, <1>10, <1>11 DEF jobStep

\* The step of a job does not make wrong what others know.
LEMMA JobFollows ==
    ASSUME IInv, MirrorTypeOK, WorkTyped, Follows,
           NEW w \in Worker, jobStep(w), behind' = behind
    PROVE  QueuesAgree' /\ RunningAgrees' /\ RunningKnows' /\ RestFollows'
<1>1. /\ pc[w] = "run" /\ file(w) \in File
      /\ \A f \in File : f # file(w) => remote'[f] = remote[f]
      /\ \A x \in Worker : x # w =>
            step'[x] = step[x] /\ md5'[x] = md5[x] /\ body'[x] = body[x]
      /\ UNCHANGED <<vars, local, events, ops, alive, work>>
  BY JobTyped
<1>2. queue' = queue /\ job' = job /\ pc' = pc
  BY <1>1 DEF vars
<1>3. /\ \A g : Coming(g)' <=> Coming(g)
      /\ \A x \in Worker : \A i, g : Newest(x, i, g)' <=> Newest(x, i, g)
      /\ \A x \in Worker : file(x)' = file(x)
      /\ \A g : Held(g)' <=> Held(g)
  BY <1>1, <1>2 DEF Coming, Newest, file, Held, Holds, Waiting
<1>4. job[w] \in Job /\ Holds(w, job[w])
  BY <1>1, HeldWork DEF IInv
<1>5. QueuesAgree'
  BY <1>1, <1>2, <1>3 DEF Follows, QueuesAgree, Agrees
<1>6. RunningAgrees'
  BY <1>1, <1>2, <1>3 DEF Follows, RunningAgrees, Agrees
<1>7. ASSUME NEW x \in Worker, pc[x] = "run", Newest(x, 0, file(x))
      PROVE  /\ step'[x] \in {"head", "open", "put"} => md5'[x] = local[file(x)]
             /\ step'[x] = "put" => body'[x] = local[file(x)]
             /\ step'[x] = "finished" => remote'[file(x)] = local[file(x)]
  <2>1. CASE x = w
    BY <1>7, <2>1, JobKnows
  <2>2. CASE x # w
    <3>1. job[x] \in Job /\ Holds(x, job[x]) /\ file(x) \in File
      BY <1>7, HeldWork DEF IInv
    <3>2. file(x) # file(w)
      BY <1>4, <2>2, <3>1, FilesApart DEF Follows, file
    <3>3. remote'[file(x)] = remote[file(x)]
      BY <1>1, <3>1, <3>2
    <3> QED BY <1>1, <1>7, <2>2, <3>3 DEF Follows, RunningKnows
  <2> QED BY <2>1, <2>2
<1>8. RunningKnows'
  BY <1>1, <1>2, <1>3, <1>7 DEF RunningKnows
<1>9. RestFollows'
  <2>1. Held(file(w))
    BY <1>4 DEF Held, file
  <2> QED BY <1>1, <1>3, <2>1 DEF Follows, RestFollows
<1> QED BY <1>5, <1>6, <1>8, <1>9

-----------------------------------------------------------------------------
(* An event becomes a job                                                  *)

\* Worker x is given j, a new job of event e.
Given(x, j, e) ==
    /\ queue'[x] = Append(queue[x], j)
    /\ \A y \in Worker : y # x => queue'[y] = queue[y]
    /\ job' = job
    /\ fate[j] = "new"
    /\ \A y \in Worker : pc'[y] = "run" <=> pc[y] = "run"
    /\ work' = [work EXCEPT ![j] = e]
    /\ events # <<>> /\ e = Head(events) /\ events' = Tail(events)
    /\ UNCHANGED <<local, remote, ops, step, md5, body, conn>>

\* What the event loop does: it gives the job of its first event to some worker.
LEMMA LoopGives ==
    ASSUME IInv, MirrorTypeOK, HandleEvent
    PROVE  /\ events # <<>> /\ Head(events) \in Event
           /\ \/ /\ UNCHANGED <<vars, work, events>>
                 /\ UNCHANGED <<local, remote, ops, step, md5, body, conn>>
              \/ \E x \in Worker, j \in Job : Given(x, j, Head(events))
           /\ \A j \in Job : fate'[j] = fate[j] \/ fate'[j] = "queued"
<1>1. /\ events # <<>> /\ Head(events) \in Event
      /\ UNCHANGED <<local, remote, ops, step, md5, body, conn>>
  BY EventTyped
<1>2. CASE UNCHANGED <<vars, work, events>>
  BY <1>1, <1>2 DEF vars
<1>3. ASSUME NEW j \in Job, AddJob(urlOf[Head(events).file], j),
             work' = [work EXCEPT ![j] = Head(events)],
             urlOf[Head(events).file] \in Url, events' = Tail(events)
      PROVE  /\ \E x \in Worker : Given(x, j, Head(events))
             /\ \A i \in Job : fate'[i] = fate[i] \/ fate'[i] = "queued"
  <2>1. /\ \E x \in Worker :
              /\ queue'[x] = Append(queue[x], j)
              /\ \A y \in Worker : y # x => queue'[y] = queue[y]
        /\ job' = job
        /\ fate[j] = "new" /\ fate'[j] = "queued"
        /\ \A i \in Job : i # j => fate'[i] = fate[i]
        /\ \A y \in Worker : pc'[y] = "run" <=> pc[y] = "run"
    BY <1>3, AddPuts DEF IInv
  <2> QED BY <1>1, <1>3, <2>1 DEF Given
<1> QED BY <1>1, <1>2, <1>3, EventTyped

\* What every worker had it has still, and x has j at the end of its queue.
LEMMA GivenKeeps ==
    ASSUME IInv, MirrorTypeOK, WorkTyped, NEW x \in Worker, NEW j \in Job,
           NEW e \in Event, Given(x, j, e)
    PROVE  /\ queue'[x][Len(queue[x]) + 1] = j /\ work'[j] = e
           /\ Len(queue[x]) + 1 \in DOMAIN queue'[x]
           /\ \A i \in DOMAIN queue[x] : i < Len(queue[x]) + 1 /\ i \in Nat
           /\ Len(queue[x]) \in Nat
           /\ \A y \in Worker : \A i \in DOMAIN queue'[y] :
                 \/ y = x /\ i = Len(queue[x]) + 1
                 \/ i \in DOMAIN queue[y]
           /\ \A y \in Worker : \A i \in DOMAIN queue[y] :
                 /\ i \in DOMAIN queue'[y] /\ queue'[y][i] = queue[y][i]
                 /\ work'[queue[y][i]] = work[queue[y][i]]
           /\ \A y \in Worker : job[y] # NoJob =>
                 work'[job'[y]] = work[job[y]] /\ file(y)' = file(y)
           /\ \A g : Coming(g) <=> Coming(g)' \/ g = e.file
<1>1. TypeOK /\ OneHolder
  BY DEF IInv
<1>2. queue[x] \in Seq(Job) /\ Len(queue[x]) \in Nat
  BY <1>1 DEF TypeOK
<1>3. /\ queue'[x][Len(queue[x]) + 1] = j
      /\ DOMAIN queue'[x] = 1..(Len(queue[x]) + 1) /\ DOMAIN queue[x] = 1..Len(queue[x])
      /\ \A i \in DOMAIN queue[x] : queue'[x][i] = queue[x][i]
  BY <1>2 DEF Given
<1>4. work'[j] = e /\ \A i \in Job : i # j => work'[i] = work[i]
  BY DEF Given, MirrorTypeOK
<1>5. ASSUME NEW y \in Worker, NEW i \in DOMAIN queue[y]
      PROVE  /\ i \in DOMAIN queue'[y] /\ queue'[y][i] = queue[y][i]
             /\ work'[queue[y][i]] = work[queue[y][i]]
  <2>1. queue[y][i] \in Job /\ fate[queue[y][i]] = "queued"
    BY <1>1, HeldWork
  <2>2. i \in DOMAIN queue'[y] /\ queue'[y][i] = queue[y][i]
    <3>1. CASE y = x
      BY <1>2, <1>3, <3>1
    <3>2. CASE y # x
      BY <3>2 DEF Given
    <3> QED BY <3>1, <3>2
  <2> QED BY <1>4, <2>1, <2>2 DEF Given
<1>6. ASSUME NEW y \in Worker, job[y] # NoJob
      PROVE  work'[job'[y]] = work[job[y]] /\ file(y)' = file(y)
  <2>1. job[y] \in Job /\ fate[job[y]] = "running"
    BY <1>1, <1>6, HeldWork
  <2> QED BY <1>4, <2>1 DEF Given, file
<1>7. ASSUME NEW g
      PROVE  Coming(g) <=> Coming(g)' \/ g = e.file
  <2>1. events \in Seq(Event)
    BY DEF MirrorTypeOK
  <2>2. /\ e = events[1] /\ 1 \in DOMAIN events
        /\ \A k \in DOMAIN events' : events'[k] = events[k + 1] /\ k + 1 \in DOMAIN events
        /\ \A k \in DOMAIN events : k # 1 =>
              k - 1 \in DOMAIN events' /\ events[k] = events'[k - 1]
    BY <2>1, TailEvents DEF Given
  <2>3. ASSUME NEW k \in DOMAIN events, events[k].file = g
        PROVE  Coming(g)' \/ g = e.file
    <3>1. CASE k = 1
      BY <2>2, <2>3, <3>1
    <3>2. CASE k # 1
      BY <2>2, <2>3, <3>2 DEF Coming
    <3> QED BY <3>1, <3>2
  <2>4. ASSUME NEW k \in DOMAIN events', events'[k].file = g
        PROVE  Coming(g)
    BY <2>2, <2>4 DEF Coming
  <2> QED BY <2>2, <2>3, <2>4 DEF Coming
<1>8. ASSUME NEW y \in Worker, NEW i \in DOMAIN queue'[y]
      PROVE  \/ y = x /\ i = Len(queue[x]) + 1
             \/ i \in DOMAIN queue[y]
  BY <1>2, <1>3, <1>8 DEF Given
<1> QED BY <1>2, <1>3, <1>4, <1>5, <1>6, <1>7, <1>8

\* Of a job that was held before and has none after it now, the same was true.
LEMMA GivenNewest ==
    ASSUME IInv, MirrorTypeOK, WorkTyped, NEW x \in Worker, NEW j \in Job,
           NEW e \in Event, Given(x, j, e), ~Overlap',
           NEW y \in Worker, NEW i, NEW k \in Job, Holds(y, k)',
           NEW g, work'[k].file = g, i = 0 \/ i \in DOMAIN queue[y],
           Newest(y, i, g)'
    PROVE  Newest(y, i, g)
<1>1. /\ queue'[x][Len(queue[x]) + 1] = j /\ work'[j] = e
      /\ Len(queue[x]) + 1 \in DOMAIN queue'[x]
      /\ \A m \in DOMAIN queue[x] : m < Len(queue[x]) + 1 /\ m \in Nat
      /\ Len(queue[x]) \in Nat
  BY GivenKeeps
<1>2. g # e.file
  <2>1. CASE y = x
    <3>1. Len(queue[x]) + 1 > i
      BY <1>1, <2>1
    <3> QED BY <1>1, <2>1, <3>1 DEF Newest
  <2>2. CASE y # x
    <3>1. Holds(x, j)'
      BY <1>1 DEF Holds, Waiting
    <3>2. work'[k].file # work'[j].file
      BY <2>2, <3>1 DEF Overlap
    <3> QED BY <1>1, <3>2
  <2> QED BY <2>1, <2>2
<1>3. ~Coming(g)
  <2>1. Coming(g) <=> Coming(g)' \/ g = e.file
    BY GivenKeeps
  <2> QED BY <1>2, <2>1 DEF Newest
<1>4. ASSUME NEW m \in DOMAIN queue[y], m > i
      PROVE  work[queue[y][m]].file # g
  <2>1. /\ m \in DOMAIN queue'[y] /\ queue'[y][m] = queue[y][m]
        /\ work'[queue[y][m]] = work[queue[y][m]]
    BY GivenKeeps
  <2>2. work'[queue'[y][m]].file # g
    BY <1>4, <2>1 DEF Newest
  <2> QED BY <2>1, <2>2
<1> QED BY <1>3, <1>4 DEF Newest

\* The new job is the newest of its file and agrees with it; those before it
\* are not the newest any more, and nothing else is known or done.
LEMMA LoopFollows ==
    ASSUME IInv, MirrorTypeOK, WorkTyped, EventsAgree, Follows, ~Overlap',
           HandleEvent, behind' = behind
    PROVE  QueuesAgree' /\ RunningAgrees' /\ RunningKnows' /\ RestFollows'
<1> DEFINE All == QueuesAgree' /\ RunningAgrees' /\ RunningKnows' /\ RestFollows'
<1>1. CASE /\ UNCHANGED <<vars, work, events>>
           /\ UNCHANGED <<local, remote, ops, step, md5, body, conn>>
  <2>1. queue' = queue /\ job' = job /\ pc' = pc
    BY <1>1 DEF vars
  <2>2. /\ \A g : Coming(g)' <=> Coming(g)
        /\ \A y \in Worker : \A i, g : Newest(y, i, g)' <=> Newest(y, i, g)
        /\ \A y \in Worker : file(y)' = file(y)
        /\ \A g : Held(g)' <=> Held(g)
    BY <1>1, <2>1 DEF Coming, Newest, file, Held, Holds, Waiting
  <2>3. QueuesAgree' /\ RunningAgrees'
    BY <1>1, <2>1, <2>2 DEF Follows, QueuesAgree, RunningAgrees, Agrees
  <2>4. RunningKnows'
    BY <1>1, <2>1, <2>2 DEF Follows, RunningKnows
  <2>5. RestFollows'
    BY <1>1, <2>2 DEF Follows, RestFollows
  <2> QED BY <2>3, <2>4, <2>5
<1>2. ASSUME NEW x \in Worker, NEW j \in Job, NEW e \in Event, e = Head(events),
             Given(x, j, e)
      PROVE  All
  <2>1. /\ work'[j] = e
        /\ queue'[x][Len(queue[x]) + 1] = j
        /\ Len(queue[x]) + 1 \in DOMAIN queue'[x]
        /\ \A y \in Worker : \A i \in DOMAIN queue'[y] :
              \/ y = x /\ i = Len(queue[x]) + 1
              \/ i \in DOMAIN queue[y]
        /\ \A y \in Worker : \A i \in DOMAIN queue[y] :
              /\ i \in DOMAIN queue'[y] /\ queue'[y][i] = queue[y][i]
              /\ work'[queue[y][i]] = work[queue[y][i]]
        /\ \A y \in Worker : job[y] # NoJob =>
              work'[job'[y]] = work[job[y]] /\ file(y)' = file(y)
        /\ \A g : Coming(g) <=> Coming(g)' \/ g = e.file
    BY <1>2, GivenKeeps
  <2>2. /\ job' = job /\ UNCHANGED <<local, remote, step, md5, body>>
        /\ \A y \in Worker : pc'[y] = "run" <=> pc[y] = "run"
    BY <1>2 DEF Given
  <2>3. TypeOK /\ OneHolder
    BY DEF IInv
  <2>4. ASSUME NEW y \in Worker, NEW i \in DOMAIN queue'[y],
               Newest(y, i, work[queue[y][i]].file)'
        PROVE  Agrees(work[queue[y][i]])'
    <3>1. CASE y = x /\ i = Len(queue[x]) + 1
      <4>1. ~Coming(e.file)'
        BY <2>1, <2>4, <3>1 DEF Newest
      <4>2. events \in Seq(Event) /\ events # <<>>
        BY <1>2 DEF MirrorTypeOK, Given
      <4>3. /\ 1 \in DOMAIN events /\ events[1] = e
            /\ \A k \in DOMAIN events : k # 1 =>
                  k - 1 \in DOMAIN events' /\ events[k] = events'[k - 1]
        BY <1>2, <4>2, TailEvents DEF Given
      <4>4. \A k \in DOMAIN events : k > 1 => events[k].file # events[1].file
        BY <4>1, <4>3 DEF Coming
      <4>5. Agrees(e)
        BY <4>3, <4>4 DEF EventsAgree
      <4> QED BY <2>1, <2>2, <3>1, <4>5 DEF Agrees
    <3>2. CASE i \in DOMAIN queue[y]
      <4>0. PICK k : k = queue[y][i]
        OBVIOUS
      <4>1. k \in Job /\ queue'[y][i] = k /\ work'[k] = work[k]
        BY <2>1, <2>3, <3>2, <4>0, HeldWork
      <4>2. Holds(y, k)'
        BY <2>1, <3>2, <4>1 DEF Holds, Waiting
      <4>3. PICK g : g = work'[k].file
        OBVIOUS
      <4>4. Newest(y, i, g)'
        BY <2>4, <4>1, <4>3 DEF Newest
      <4>5. Newest(y, i, g)
        BY <1>2, <3>2, <4>1, <4>2, <4>3, <4>4, GivenNewest
      <4>6. Agrees(work[k])
        BY <3>2, <4>0, <4>1, <4>3, <4>5 DEF Follows, QueuesAgree
      <4> QED BY <2>2, <4>1, <4>6 DEF Agrees
    <3> QED BY <2>1, <3>1, <3>2
  <2>5. ASSUME NEW y \in Worker, job[y] # NoJob, Newest(y, 0, file(y))'
        PROVE  Newest(y, 0, file(y))
    <3>1. job[y] \in Job /\ job'[y] = job[y] /\ file(y)' = file(y)
      BY <2>1, <2>2, <2>3, <2>5, HeldWork
    <3>2. Holds(y, job[y])'
      BY <3>1 DEF Holds
    <3>3. PICK k, g : k = job[y] /\ g = file(y)
      OBVIOUS
    <3>4. work'[k].file = g /\ Newest(y, 0, g)'
      BY <2>1, <2>5, <3>1, <3>3 DEF file, Newest
    <3>5. k \in Job /\ Holds(y, k)'
      BY <3>1, <3>2, <3>3 DEF Holds, Waiting
    <3>6. Newest(y, 0, g)
      BY <1>2, <3>4, <3>5, GivenNewest
    <3> QED BY <3>3, <3>6
  <2>6. RunningAgrees'
    <3> SUFFICES ASSUME NEW y \in Worker, job'[y] # NoJob, Newest(y, 0, file(y))'
                 PROVE  Agrees(work[job[y]])'
      BY DEF RunningAgrees
    <3>1. job[y] # NoJob /\ Newest(y, 0, file(y))
      BY <2>2, <2>5
    <3>2. Agrees(work[job[y]])
      BY <3>1 DEF Follows, RunningAgrees
    <3> QED BY <2>1, <2>2, <3>1, <3>2 DEF Agrees
  <2>7. RunningKnows'
    <3> SUFFICES ASSUME NEW y \in Worker, pc'[y] = "run", Newest(y, 0, file(y))'
                 PROVE  /\ step[y] \in {"head", "open", "put"} => md5[y] = local[file(y)]
                        /\ step[y] = "put" => body[y] = local[file(y)]
                        /\ step[y] = "finished" => remote[file(y)] = local[file(y)]
      BY <2>1, <2>2, <2>3, HeldWork DEF RunningKnows
    <3>1. pc[y] = "run" /\ job[y] # NoJob
      BY <2>2, <2>3, HeldWork
    <3>2. Newest(y, 0, file(y))
      BY <2>5, <3>1
    <3> QED BY <3>1, <3>2 DEF Follows, RunningKnows
  <2>8. RestFollows'
    <3> SUFFICES ASSUME NEW g \in File \ behind, ~Coming(g)', ~Held(g)'
                 PROVE  remote[g] = local[g]
      BY <2>2 DEF RestFollows
    <3>1. Holds(x, j)'
      BY <2>1 DEF Holds, Waiting
    <3>2. g # e.file
      BY <2>1, <3>1 DEF Held
    <3>3. ASSUME NEW y \in Worker, NEW k \in Job, Holds(y, k), work[k].file = g
          PROVE  FALSE
      <4>1. CASE job[y] = k
        <5>1. k # NoJob
          BY ConstantsAssumption
        <5>2. job'[y] = k /\ work'[k].file = g
          BY <2>1, <2>2, <3>3, <4>1, <5>1
        <5> QED BY <5>2 DEF Held, Holds
      <4>2. CASE Waiting(y, k)
        <5>1. PICK i \in DOMAIN queue[y] : queue[y][i] = k
          BY <4>2 DEF Waiting
        <5>2. Holds(y, k)' /\ work'[k].file = g
          BY <2>1, <3>3, <5>1 DEF Holds, Waiting
        <5> QED BY <5>2 DEF Held
      <4> QED BY <3>3, <4>1, <4>2 DEF Holds
    <3>4. ~Coming(g)
      BY <2>1, <3>2
    <3> QED BY <3>3, <3>4 DEF Follows, RestFollows, Held
  <2>9. QueuesAgree'
    BY <2>4 DEF QueuesAgree
  <2> QED BY <2>6, <2>7, <2>8, <2>9
<1> QED BY <1>1, <1>2, LoopGives

-----------------------------------------------------------------------------
(* A worker takes its next job, and ends one                               *)

\* When the head of a queue is taken, what comes after a job stays the same.
LEMMA TailNewest ==
    ASSUME NEW w \in Worker, queue[w] \in Seq(Job), queue[w] # <<>>,
           queue'[w] = Tail(queue[w]), UNCHANGED <<events, work>>,
           NEW i \in Nat, NEW g, Newest(w, i, g)'
    PROVE  Newest(w, i + 1, g)
<1>1. /\ \A m \in DOMAIN queue[w] : m \in Nat
      /\ \A m \in DOMAIN queue[w] : m # 1 =>
            m - 1 \in DOMAIN Tail(queue[w]) /\ queue[w][m] = Tail(queue[w])[m - 1]
  OBVIOUS
<1>2. ASSUME NEW m \in DOMAIN queue[w], m > i + 1
      PROVE  work[queue[w][m]].file # g
  <2>1. m \in Nat /\ m # 1 /\ m - 1 > i
    BY <1>1, <1>2
  <2>2. m - 1 \in DOMAIN queue'[w] /\ queue[w][m] = queue'[w][m - 1]
    BY <1>1, <2>1
  <2> QED BY <2>1, <2>2 DEF Newest
<1>3. ~Coming(g)
  BY DEF Newest, Coming
<1> QED BY <1>2, <1>3 DEF Newest

\* The jobs in the queues, and the one that is taken, agree as before.
LEMMA WorkerAgrees ==
    ASSUME IInv, MirrorTypeOK, WorkTyped, Follows, NEW w \in Worker, workerStep(w)
    PROVE  QueuesAgree' /\ RunningAgrees'
<1>1. doWork(w) /\ UNCHANGED <<local, events, work>>
  BY WorkerTyped
<1>2. TypeOK /\ OneHolder
  BY DEF IInv
<1>3. /\ \A x \in Worker : x # w =>
            queue'[x] = queue[x] /\ job'[x] = job[x] /\ pc'[x] = pc[x]
      /\ \/ queue'[w] = queue[w] /\ job'[w] \in {job[w], NoJob}
         \/ /\ queue[w] # <<>>
            /\ queue'[w] = Tail(queue[w]) /\ job'[w] = Head(queue[w])
         \/ queue'[w] = <<>> /\ job'[w] = NoJob
  BY <1>1, <1>2, WorkerTakes
<1>4. queue[w] \in Seq(Job)
  BY <1>2 DEF TypeOK
<1>5. ASSUME NEW x \in Worker, queue'[x] = queue[x], NEW i \in DOMAIN queue'[x],
             Newest(x, i, work[queue[x][i]].file)'
      PROVE  Agrees(work[queue[x][i]])'
  <2>1. Newest(x, i, work[queue[x][i]].file)
    BY <1>1, <1>5 DEF Newest, Coming
  <2> QED BY <1>1, <1>5, <2>1 DEF Follows, QueuesAgree, Agrees
<1>6. ASSUME NEW x \in Worker, queue'[x] = queue[x], job'[x] = job[x],
             job[x] # NoJob, Newest(x, 0, file(x))'
      PROVE  Agrees(work[job[x]])'
  <2>1. Newest(x, 0, file(x))
    BY <1>1, <1>6 DEF Newest, Coming, file
  <2> QED BY <1>1, <1>6, <2>1 DEF Follows, RunningAgrees, Agrees
<1>7. CASE queue'[w] = queue[w] /\ job'[w] \in {job[w], NoJob}
  BY <1>3, <1>5, <1>6, <1>7 DEF QueuesAgree, RunningAgrees
<1>8. CASE queue[w] # <<>> /\ queue'[w] = Tail(queue[w]) /\ job'[w] = Head(queue[w])
  <2>1. /\ 1 \in DOMAIN queue[w] /\ Head(queue[w]) = queue[w][1]
        /\ \A i \in DOMAIN Tail(queue[w]) :
              i \in Nat /\ i + 1 \in DOMAIN queue[w] /\ Tail(queue[w])[i] = queue[w][i + 1]
    BY <1>4, <1>8
  <2>2. ASSUME NEW i \in DOMAIN queue'[w], Newest(w, i, work[queue[w][i]].file)'
        PROVE  Agrees(work[queue[w][i]])'
    <3>1. /\ i \in Nat /\ i + 1 \in DOMAIN queue[w]
          /\ queue'[w][i] = queue[w][i + 1]
      BY <1>8, <2>1
    <3>2. PICK g : g = work[queue[w][i + 1]].file
      OBVIOUS
    <3>3. Newest(w, i, g)'
      BY <1>1, <2>2, <3>1, <3>2 DEF Newest
    <3>4. Newest(w, i + 1, g)
      BY <1>1, <1>4, <1>8, <3>1, <3>3, TailNewest
    <3>5. Agrees(work[queue[w][i + 1]])
      BY <3>1, <3>2, <3>4 DEF Follows, QueuesAgree
    <3> QED BY <1>1, <3>1, <3>5 DEF Agrees
  <2>3. ASSUME Newest(w, 0, file(w))'
        PROVE  Agrees(work[job[w]])'
    <3>1. PICK g : g = work[queue[w][1]].file
      OBVIOUS
    <3>2. Newest(w, 0, g)'
      BY <1>1, <1>8, <2>1, <2>3, <3>1 DEF Newest, file
    <3>3. Newest(w, 0 + 1, g)
      BY <1>1, <1>4, <1>8, <3>2, TailNewest
    <3>4. Agrees(work[queue[w][1]])
      BY <2>1, <3>1, <3>3 DEF Follows, QueuesAgree
    <3> QED BY <1>1, <1>8, <2>1, <3>4 DEF Agrees
  <2> QED BY <1>3, <1>5, <1>6, <2>2, <2>3 DEF QueuesAgree, RunningAgrees
<1>9. CASE queue'[w] = <<>> /\ job'[w] = NoJob
  BY <1>3, <1>5, <1>6, <1>9 DEF QueuesAgree, RunningAgrees
<1> QED BY <1>3, <1>7, <1>8, <1>9

\* If none of the jobs of a file is left, and the last did not come to nothing,
\* it has made the copy equal to the file.
LEMMA LastJobDone ==
    ASSUME IInv, MirrorTypeOK, WorkTyped, Follows, MirrorNext,
           NEW w \in Worker, workerStep(w),
           NEW g \in File, g \notin behind', ~Coming(g), ~Held(g)'
    PROVE  remote[g] = local[g]
<1>1. TypeOK /\ OneHolder /\ [Next]_vars
  BY PoolInside DEF IInv
<1>2. OneHolder'
  BY <1>1, StepHolds DEF IInv
<1>3. work' = work
  BY WorkerTyped
<1>4. behind' = (behind \ FilesOf({j \in Job : Succeeds(j)}))
                   \cup FilesOf({j \in Job : ComesToNothing(j)})
  BY DEF MirrorNext
<1>5. ASSUME NEW x \in Worker, NEW j \in Job, Holds(x, j), work[j].file = g
      PROVE  Succeeds(j) /\ fate[j] = "running"
  <2>1. fate[j] \in {"queued", "running"}
    BY <1>1, <1>5, HeldByFate
  <2>2. fate'[j] \notin {"queued", "running"}
    <3>1. SUFFICES ASSUME fate'[j] \in {"queued", "running"}
                   PROVE  Held(g)'
      OBVIOUS
    <3>2. \E y \in Worker : Holds(y, j)'
      BY <1>2, <3>1 DEF OneHolder, FateAgrees, Holds
    <3> QED BY <1>3, <1>5, <3>2 DEF Held
  <2>3. FateMove(j)
    BY <1>1, StepMoves
  <2>4. fate'[j] # fate[j] /\ fate'[j] \in {"done", "givenUp", "lost"}
    BY <2>1, <2>2, <2>3 DEF FateMove
  <2>5. ~ComesToNothing(j)
    BY <1>4, <1>5 DEF FilesOf
  <2>6. Succeeds(j)
    BY <2>4, <2>5 DEF ComesToNothing
  <2> QED BY <2>3, <2>4, <2>6 DEF Succeeds, FateMove
<1>6. CASE Held(g)
  <2>1. PICK x \in Worker, j \in Job : Holds(x, j) /\ work[j].file = g
    BY <1>6 DEF Held
  <2>2. PICK y \in Worker : job[y] = j /\ step[y] = "finished"
    BY <1>5, <2>1 DEF Succeeds
  <2>3. pc[y] = "run" /\ file(y) = g
    BY <2>1, <2>2 DEF MirrorTypeOK, file
  <2>4. ASSUME NEW m \in DOMAIN queue[y], work[queue[y][m]].file = g
        PROVE  FALSE
    <3>1. /\ queue[y][m] \in Job /\ fate[queue[y][m]] = "queued"
          /\ Holds(y, queue[y][m])
      BY <1>1, HeldWork
    <3> QED BY <1>5, <2>4, <3>1
  <2>5. Newest(y, 0, g)
    BY <2>4 DEF Newest
  <2> QED BY <2>2, <2>3, <2>5 DEF Follows, RunningKnows
<1>7. CASE ~Held(g)
  <2>1. g \notin FilesOf({j \in Job : Succeeds(j)})
    BY <1>7 DEF FilesOf, Succeeds, Held, Holds
  <2>2. g \notin behind
    BY <1>4, <2>1
  <2> QED BY <1>7, <2>2 DEF Follows, RestFollows
<1> QED BY <1>6, <1>7

\* A step of doWork does not make wrong what was known, and what is not held by
\* a job any more has been done.
LEMMA WorkerFollows ==
    ASSUME IInv, MirrorTypeOK, WorkTyped, Follows, MirrorNext,
           NEW w \in Worker, workerStep(w)
    PROVE  QueuesAgree' /\ RunningAgrees' /\ RunningKnows' /\ RestFollows'
<1>1. /\ doWork(w) /\ step'[w] = "start"
      /\ \A x \in Worker : x # w =>
            step'[x] = step[x] /\ md5'[x] = md5[x] /\ body'[x] = body[x]
      /\ UNCHANGED <<local, remote, events, work>>
  BY WorkerTyped
<1>2. \A x \in Worker : x # w =>
         queue'[x] = queue[x] /\ job'[x] = job[x] /\ pc'[x] = pc[x]
  BY <1>1, WorkerTakes DEF IInv
<1>3. RunningKnows'
  <2> SUFFICES ASSUME NEW x \in Worker, pc'[x] = "run", Newest(x, 0, file(x))'
               PROVE  /\ step'[x] \in {"head", "open", "put"} => md5'[x] = local'[file(x)']
                      /\ step'[x] = "put" => body'[x] = local'[file(x)']
                      /\ step'[x] = "finished" => remote'[file(x)'] = local'[file(x)']
    BY DEF RunningKnows
  <2>1. CASE x = w
    BY <1>1, <2>1
  <2>2. CASE x # w
    <3>1. file(x)' = file(x) /\ Newest(x, 0, file(x))
      BY <1>1, <1>2, <2>2 DEF file, Newest, Coming
    <3> QED BY <1>1, <1>2, <2>2, <3>1 DEF Follows, RunningKnows
  <2> QED BY <2>1, <2>2
<1>4. RestFollows'
  BY <1>1, LastJobDone DEF RestFollows, Coming
<1> QED BY <1>3, <1>4, WorkerAgrees

-----------------------------------------------------------------------------
(* The inductive invariant of the composition                              *)

\* A step that ends no job leaves the same files behind.
LEMMA BehindSame ==
    ASSUME IInv, MirrorNext, \A j \in Job : fate'[j] = fate[j] \/ fate'[j] = "queued"
    PROVE  behind' = behind
<1>1. behind' = (behind \ FilesOf({j \in Job : Succeeds(j)}))
                   \cup FilesOf({j \in Job : ComesToNothing(j)})
  BY DEF MirrorNext
<1>2. FilesOf({j \in Job : Succeeds(j)}) = {} /\ FilesOf({j \in Job : ComesToNothing(j)}) = {}
  BY BehindStays DEF IInv, FilesOf
<1> QED BY <1>1, <1>2

\* Every step keeps the inductive invariant.
LEMMA MirrorStepHolds ==
    ASSUME MirrorIInv, MirrorNext
    PROVE  MirrorIInv'
<1>1. IInv /\ MirrorTypeOK /\ WorkTyped /\ EventsAgree
  BY DEF MirrorIInv
<1>2. IInv'
  BY <1>1, PoolInside, StepHolds
<1>3. MirrorTypeOK' /\ WorkTyped'
  BY <1>1, MirrorTypesStep
<1>4. apart' = (apart /\ ~Overlap')
  BY DEF MirrorNext
<1>5. ASSUME NEW f \in File, FileStep(f)
      PROVE  EventsAgree' /\ (apart' => Follows')
  <2>1. EventsAgree'
    BY <1>1, <1>5, FileEventsAgree
  <2>2. \A j \in Job : fate'[j] = fate[j]
    BY <1>1, <1>5, FileTyped DEF vars
  <2>3. behind' = behind
    BY <1>1, <2>2, BehindSame
  <2> QED BY <1>1, <1>4, <1>5, <2>1, <2>3, FileFollows DEF MirrorIInv, Follows
<1>6. ASSUME HandleEvent
      PROVE  EventsAgree' /\ (apart' => Follows')
  <2>1. EventsAgree'
    BY <1>1, <1>6, LoopEventsAgree
  <2>2. behind' = behind
    BY <1>1, <1>6, LoopGives, BehindSame
  <2>3. ASSUME apart'
        PROVE  Follows'
    <3>1. Follows /\ ~Overlap'
      BY <1>4, <2>3 DEF MirrorIInv
    <3>2. QueuesAgree' /\ RunningAgrees' /\ RunningKnows' /\ RestFollows'
      BY <1>1, <1>6, <2>2, <3>1, LoopFollows
    <3> QED BY <3>1, <3>2 DEF Follows
  <2> QED BY <2>1, <2>3
<1>7. ASSUME NEW w \in Worker, jobStep(w)
      PROVE  EventsAgree' /\ (apart' => Follows')
  <2>1. UNCHANGED <<vars, local, events>>
    BY <1>1, <1>7, JobTyped
  <2>2. EventsAgree'
    BY <1>1, <2>1 DEF EventsAgree, Agrees
  <2>3. \A j \in Job : fate'[j] = fate[j]
    BY <2>1 DEF vars
  <2>4. behind' = behind
    BY <1>1, <2>3, BehindSame
  <2> QED BY <1>1, <1>4, <1>7, <2>2, <2>4, JobFollows DEF MirrorIInv, Follows
<1>8. ASSUME NEW w \in Worker, workerStep(w)
      PROVE  EventsAgree' /\ (apart' => Follows')
  <2>1. local' = local /\ events' = events
    BY <1>1, <1>8, WorkerTyped
  <2>2. EventsAgree'
    BY <1>1, <2>1 DEF EventsAgree, Agrees
  <2> QED BY <1>1, <1>4, <1>8, <2>2, WorkerFollows DEF MirrorIInv, Follows
<1>9. EventsAgree' /\ (apart' => Follows')
  BY <1>5, <1>6, <1>7, <1>8 DEF MirrorNext, FileStep
<1> QED BY <1>2, <1>3, <1>9 DEF MirrorIInv

\* So does a step that changes nothing.
LEMMA MirrorStutters ==
    ASSUME MirrorIInv, UNCHANGED <<vars, mirrorVars, apart, behind>>
    PROVE  MirrorIInv'
<1>1. IInv'
  BY StepHolds DEF MirrorIInv
<1>2. /\ queue' = queue /\ job' = job /\ pc' = pc /\ fate' = fate
      /\ UNCHANGED <<local, remote, events, ops, alive, work, step, md5, body, conn>>
      /\ apart' = apart /\ behind' = behind
  BY DEF vars, mirrorVars
<1>3. MirrorTypeOK' /\ WorkTyped' /\ EventsAgree'
  BY <1>2 DEF MirrorIInv, MirrorTypeOK, WorkTyped, EventsAgree, Agrees, kind
<1>4. /\ \A g : Coming(g)' <=> Coming(g)
      /\ \A w \in Worker : \A i, g : Newest(w, i, g)' <=> Newest(w, i, g)
      /\ \A w \in Worker : file(w)' = file(w)
      /\ \A w \in Worker, j \in Job : Holds(w, j)' <=> Holds(w, j)
  BY <1>2 DEF Coming, Newest, file, Holds, Waiting
<1>5. (Overlap' <=> Overlap) /\ \A g : Held(g)' <=> Held(g)
  BY <1>2, <1>4 DEF Overlap, Held
<1>6. QueuesAgree => QueuesAgree'
  BY <1>2, <1>4 DEF QueuesAgree, Agrees
<1>7. RunningAgrees => RunningAgrees'
  BY <1>2, <1>4 DEF RunningAgrees, Agrees
<1>8. RunningKnows => RunningKnows'
  BY <1>2, <1>4 DEF RunningKnows
<1>9. RestFollows => RestFollows'
  BY <1>2, <1>4, <1>5 DEF RestFollows
<1> QED BY <1>1, <1>2, <1>3, <1>5, <1>6, <1>7, <1>8, <1>9 DEF MirrorIInv, Follows

\* A list of all elements of a set, each once, misses none.
LEMMA ListedAll ==
    ASSUME NEW S, IsFiniteSet(S), NEW order \in SetToSeqs(S)
    PROVE  /\ order \in Seq(S)
           /\ \A x \in S : \E k \in DOMAIN order : order[k] = x
<1> DEFINE D == 1..Cardinality(S)
<1>1. Cardinality(S) \in Nat
  BY FS_CardinalityType
<1>2. order \in [D -> S] /\ \A i, j \in D : i # j => order[i] # order[j]
  BY DEF SetToSeqs
<1>3. IsFiniteSet(D) /\ Cardinality(D) = Cardinality(S)
  BY <1>1, FS_Interval
<1> HIDE DEF D
<1>4. order \in Injection(D, S)
  BY <1>2 DEF Injection, IsInjective
<1>5. order \in Surjection(D, S)
  BY <1>3, <1>4, FS_Injection
<1>6. \A x \in S : \E k \in D : order[k] = x
  BY <1>5 DEF Surjection
<1>7. order \in Seq(S)
  BY <1>1, <1>2 DEF D
<1> QED BY <1>2, <1>6, <1>7

\* It holds once the start-up sync has handed over its uploads.
LEMMA MirrorInitHolds ==
    ASSUME MirrorInit
    PROVE  MirrorIInv
<1>1. /\ Init /\ local \in [File -> {0, 1}]
      /\ alive = TRUE
      /\ work = [j \in Job |-> NoJob]
      /\ step = [w \in Worker |-> "start"]
      /\ md5 = [w \in Worker |-> 0] /\ body = [w \in Worker |-> 0]
      /\ conn = [w \in Worker |-> "good"]
      /\ apart = TRUE /\ behind = {}
  BY DEF MirrorInit
<1>2. PICK missing \in SUBSET {f \in File : local[f] = 1} :
         /\ remote = [f \in File |-> IF f \in missing THEN 0 ELSE local[f]]
         /\ \E order \in SetToSeqs(missing) :
               events = [k \in DOMAIN order |-> [kind |-> "synced", file |-> order[k]]]
         /\ ops = 1 + Cardinality(missing)
  BY DEF MirrorInit
<1>3. /\ IsFiniteSet(missing) /\ Cardinality(missing) \in Nat
      /\ Cardinality(missing) <= Cardinality(File) /\ Cardinality(File) \in Nat
  BY MirrorAssumption, FS_Subset, FS_CardinalityType
<1>4. PICK order \in SetToSeqs(missing) :
         events = [k \in DOMAIN order |-> [kind |-> "synced", file |-> order[k]]]
  BY <1>2
<1>5. /\ order \in Seq(missing)
      /\ \A f \in missing : \E k \in DOMAIN order : order[k] = f
  BY <1>3, ListedAll
<1>6. /\ events \in Seq(Event)
      /\ DOMAIN events = DOMAIN order
      /\ \A k \in DOMAIN events :
            events[k].kind = "synced" /\ events[k].file = order[k] /\ order[k] \in missing
  <2>1. \A k \in DOMAIN order : order[k] \in missing /\ order[k] \in File
    BY <1>5
  <2>2. \A k \in DOMAIN order : [kind |-> "synced", file |-> order[k]] \in Event
    BY <2>1 DEF Event
  <2>3. Len(order) \in Nat /\ DOMAIN order = 1..Len(order)
    BY <1>5
  <2>4. events \in [1..Len(order) -> Event]
    BY <1>4, <2>2, <2>3
  <2>5. events \in Seq(Event)
    BY <2>3, <2>4
  <2> QED BY <1>4, <2>1, <2>5
<1>7. IInv
  BY <1>1, InitHolds
<1>8. /\ queue = [w \in Worker |-> <<>>] /\ pc = [w \in Worker |-> "none"]
      /\ job = [w \in Worker |-> NoJob] /\ fate = [j \in Job |-> "new"]
  BY <1>1 DEF Init
<1>9. MirrorTypeOK
  <2>1. 0 \in 0..MaxOps /\ 1 \in 0..MaxOps /\ ops \in 0..MaxOps
    BY <1>2, <1>3, MirrorAssumption
  <2>2. local \in [File -> 0..MaxOps]
    BY <1>1, <2>1
  <2>3. remote \in [File -> 0..MaxOps]
    BY <1>2, <2>1, <2>2
  <2> QED BY <1>1, <1>6, <2>1, <2>2, <2>3 DEF MirrorTypeOK, Step, Conn
<1>10. WorkTyped
  BY <1>1, <1>8 DEF WorkTyped
<1>11. EventsAgree
  BY <1>6 DEF EventsAgree, Agrees
<1>12. \A w \in Worker : queue[w] = <<>> /\ job[w] = NoJob /\ pc[w] = "none"
  BY <1>8
<1>13. \A w \in Worker, j \in Job : ~Holds(w, j)
  BY <1>12, ConstantsAssumption DEF Holds, Waiting
<1>14. ~Overlap /\ QueuesAgree /\ RunningAgrees /\ RunningKnows
  BY <1>12, <1>13 DEF Overlap, QueuesAgree, RunningAgrees, RunningKnows
<1>15. RestFollows
  BY <1>2, <1>5, <1>6 DEF RestFollows, Coming
<1> QED BY <1>7, <1>9, <1>10, <1>11, <1>14, <1>15 DEF MirrorIInv, Follows

-----------------------------------------------------------------------------
(* Theorems                                                                *)

\* The inductive invariant holds in every reachable state.
THEOREM MirrorInvariant == MirrorSpec => []MirrorIInv
<1>1. MirrorInit => MirrorIInv
  BY MirrorInitHolds
<1>2. MirrorIInv /\ [MirrorNext]_<<vars, mirrorVars, apart, behind>> => MirrorIInv'
  BY MirrorStepHolds, MirrorStutters
<1> QED BY <1>1, <1>2, PTL DEF MirrorSpec

\* Every variable of the composition stays within its type, and only a worker
\* that runs a job is in the middle of one (Worker.cpp:43-80).
THEOREM MirrorTypesHold == MirrorSpec => []MirrorTypeOK
<1>1. MirrorIInv => MirrorTypeOK
  BY DEF MirrorIInv
<1> QED BY <1>1, MirrorInvariant, PTL

\* The composition does nothing to the workers that the pool would not do: every
\* theorem of WorkerPoolProofs holds of the pool that the event loop feeds, with
\* the event loop and the jobs that the code has (mainProcess.cpp:98-138).
THEOREM MirrorRunsThePool == MirrorSpec => Spec
<1>1. MirrorInit => Init
  BY DEF MirrorInit
<1>2. MirrorIInv /\ [MirrorNext]_<<vars, mirrorVars, apart, behind>> => [Next]_vars
  BY PoolInside DEF MirrorIInv
<1> QED BY <1>1, <1>2, MirrorInvariant, PTL DEF MirrorSpec, Spec

\* When nothing is left to do, the copy of a file is equal to the file, unless
\* two workers had jobs of one file at a time or its last job came to nothing:
\* for every number of workers, files and operations, whatever fails
\* (upload.cpp:56-140, 149-217, delete.cpp:10-49).
THEOREM CopiesFollowFiles == MirrorSpec => []CopyFollowsFile
<1>1. ASSUME MirrorIInv, Settled, apart, NEW f \in File \ behind
      PROVE  remote[f] = local[f]
  <2>1. RestFollows /\ OneHolder
    BY <1>1 DEF MirrorIInv, Follows, IInv
  <2>2. ~Coming(f)
    BY <1>1 DEF Settled, Coming
  <2>3. \A w \in Worker, j \in Job : ~Holds(w, j)
    BY <1>1, <2>1, HeldByFate DEF Settled
  <2> QED BY <2>1, <2>2, <2>3 DEF RestFollows, Held
<1>2. MirrorIInv => CopyFollowsFile
  BY <1>1 DEF CopyFollowsFile
<1> QED BY <1>2, MirrorInvariant, PTL

=============================================================================
