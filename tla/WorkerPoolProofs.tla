-------------------------- MODULE WorkerPoolProofs --------------------------
(***************************************************************************)
(* Theorems about WorkerPool, for all jobs, workers, URLs, limits, faults. *)
(*                                                                         *)
(* No invariant of WorkerPool but IdleWillLook is inductive alone.  The    *)
(* types need a busy worker to hold a job and to have retries left, which  *)
(* OneHolder and TryLimit say; TryLimit needs a job that is popped never to*)
(* have been attempted, which is TriesFresh and, because the job was in one*)
(* queue only, OneHolder.  Their conjunction IInv is inductive, and so each*)
(* conjunct has a section of its own below: what a step does to it, action *)
(* by action, given the others before the step.                            *)
(***************************************************************************)
EXTENDS WorkerPool, SequenceTheorems, TLAPS

\* What is left of a sequence when its element i is removed.
LEMMA RemoveAtFacts ==
    ASSUME NEW S, NEW s \in Seq(S), NEW i \in 1..Len(s)
    PROVE  /\ RemoveAt(s, i) \in Seq(S)
           /\ Len(RemoveAt(s, i)) = Len(s) - 1
           /\ \A k \in 1..(Len(s) - 1) :
                 RemoveAt(s, i)[k] = IF k < i THEN s[k] ELSE s[k + 1]
<1> DEFINE a == SubSeq(s, 1, i - 1)
           b == SubSeq(s, i + 1, Len(s))
<1>1. /\ a \in Seq(S) /\ Len(a) = i - 1
      /\ \A k \in 1..(i - 1) : a[k] = s[k]
  BY SubSeqProperties
<1>2. /\ b \in Seq(S) /\ Len(b) = Len(s) - i
      /\ \A k \in 1..(Len(s) - i) : b[k] = s[i + k]
  BY SubSeqProperties
<1> HIDE DEF a, b
<1>3. /\ a \o b \in Seq(S)
      /\ Len(a \o b) = Len(s) - 1
      /\ \A k \in 1..(Len(a) + Len(b)) :
            (a \o b)[k] = IF k <= Len(a) THEN a[k] ELSE b[k - Len(a)]
  BY <1>1, <1>2, ConcatProperties
<1>4. ASSUME NEW k \in 1..(Len(s) - 1)
      PROVE  (a \o b)[k] = IF k < i THEN s[k] ELSE s[k + 1]
  <2>1. CASE k < i
    BY <2>1, <1>1, <1>2, <1>3
  <2>2. CASE ~(k < i)
    <3>1. /\ (a \o b)[k] = b[k - (i - 1)]
          /\ k - (i - 1) \in 1..(Len(s) - i)
      BY <2>2, <1>1, <1>2, <1>3
    <3>2. b[k - (i - 1)] = s[i + (k - (i - 1))]
      BY <3>1, <1>2
    <3> QED BY <2>2, <3>1, <3>2
  <2> QED BY <2>1, <2>2
<1>5. RemoveAt(s, i) = a \o b
  BY DEF RemoveAt, a, b
<1> QED BY <1>3, <1>4, <1>5

-----------------------------------------------------------------------------
(* Types                                                                   *)

\* What one trip through the loop of doWork leaves well typed.
LoopTyped ==
    /\ state' \in [Worker -> WorkerState]
    /\ queue' \in [Worker -> Seq(Job)]
    /\ pc' \in [Worker -> Place]
    /\ job' \in [Worker -> Job \cup {NoJob}]
    /\ fate' \in [Job -> Fate]
    /\ tries' \in [Job -> Nat]

\* Running the next job, or dropping the queue, keeps every type.
LEMMA NextJobTyped ==
    ASSUME TypeOK, NEW w \in Worker, NEW f \in [Job -> Fate], NEW r,
           NextJob(w, f, r)
    PROVE  LoopTyped
<1>1. CASE RunNextJob(w, f, r)
  <2>1. Head(queue[w]) \in Job /\ Tail(queue[w]) \in Seq(Job)
    BY <1>1 DEF TypeOK, RunNextJob
  <2> QED
    BY <1>1, <2>1 DEF TypeOK, RunNextJob, Run, LoopTyped, Place, Fate, WorkerState
<1>2. CASE DropQueue(w, f, r)
  BY <1>2 DEF TypeOK, DropQueue, Wait, LoopTyped, Place, Fate, WorkerState
<1> QED BY <1>1, <1>2 DEF NextJob

\* So does the rest of the loop after a job.
LEMMA AfterJobTyped ==
    ASSUME TypeOK, NEW w \in Worker, NEW f \in [Job -> Fate], NEW r,
           AfterJob(w, f, r)
    PROVE  LoopTyped
<1>1. CASE NextJob(w, f, r)
  BY <1>1, NextJobTyped
<1>2. CASE queue[w] = <<>> /\ fate' = f /\ Wait(w)
  BY <1>2 DEF TypeOK, Wait, LoopTyped, Place, WorkerState
<1> QED BY <1>1, <1>2 DEF AfterJob

\* So does leaving the loop.
LEMMA LeaveTyped ==
    ASSUME TypeOK, NEW w \in Worker, NEW s \in WorkerState, Leave(w, s)
    PROVE  LoopTyped
BY DEF TypeOK, Leave, LoopTyped, Place

\* Erasing a worker leaves a list of workers.
LEMMA eraseTyped ==
    ASSUME NEW list \in Seq(Worker), NEW w
    PROVE  erase(list, w) \in Seq(Worker)
BY RemoveAtFacts DEF erase

\* The end of a worker keeps every type.
LEMMA RetireTyped ==
    ASSUME TypeOK, NEW w \in Worker, Retire(w)
    PROVE  TypeOK'
<1>1. workers' \in [Url -> Seq(Worker)]
  BY eraseTyped DEF TypeOK, Retire
<1> QED BY <1>1, ConstantsAssumption DEF TypeOK, Retire, Place, Fate, WorkerState

\* Handing out a worker keeps the types of what getWorker changes.
LEMMA getWorkerTyped ==
    ASSUME TypeOK, NEW u \in Url, NEW w \in Worker, getWorker(u, w)
    PROVE  /\ workers' \in [Url -> Seq(Worker)]
           /\ state' \in [Worker -> WorkerState]
           /\ pc' \in [Worker -> Place]
<1>1. <<w>> \o workers[u] \in Seq(Worker)
  BY DEF TypeOK
<1> QED BY <1>1 DEF TypeOK, getWorker, Launch, Reuse, WorkerState, Place

\* The retry counter of a worker that is about to count a failure, and the job
\* of a worker that is in the middle of one.
Busy ==
    \A w \in Worker : pc[w] \in {"run", "reconnect"} =>
       job[w] \in Job /\ retries[w] <= max_retries

\* Every step keeps the types, as long as the workers that are busy are so
\* as Busy says.
LEMMA TypeStep ==
    ASSUME TypeOK, Busy, [Next]_vars
    PROVE  TypeOK'
<1> USE ConstantsAssumption
<1>1. ASSUME NEW u \in Url, NEW j \in Job, AddJob(u, j)
      PROVE  TypeOK'
  <2>1. PICK w \in Worker : getWorker(u, w) /\ queue' = [queue EXCEPT ![w] = Append(@, j)]
    BY <1>1 DEF AddJob
  <2> QED BY <1>1, <2>1, getWorkerTyped DEF TypeOK, AddJob, Fate
<1>2. ASSUME NEW u \in Url, JoblessCall(u)
      PROVE  TypeOK'
  <2>1. PICK w \in Worker : getWorker(u, w)
    BY <1>2 DEF JoblessCall
  <2> QED BY <1>2, <2>1, getWorkerTyped DEF TypeOK, JoblessCall
<1>3. ASSUME NEW w \in Worker, Start(w)
      PROVE  TypeOK'
  BY <1>3 DEF TypeOK, Start, Place, WorkerState
<1>4. ASSUME NEW w \in Worker, Connected(w)
      PROVE  TypeOK'
  <2>1. LoopTyped
    BY <1>4, NextJobTyped, LeaveTyped DEF TypeOK, Connected, WorkerState
  <2> QED BY <1>4, <2>1 DEF TypeOK, Connected, LoopTyped
<1>5. ASSUME NEW w \in Worker, ConnectFails(w)
      PROVE  TypeOK'
  BY <1>5, RetireTyped DEF ConnectFails
<1>6. ASSUME NEW w \in Worker, JobReturns(w)
      PROVE  TypeOK'
  <2>1. [fate EXCEPT ![job[w]] = "done"] \in [Job -> Fate]
    BY <1>6 DEF TypeOK, Fate
  <2>2. LoopTyped
    BY <1>6, <2>1, AfterJobTyped DEF JobReturns
  <2> QED BY <1>6, <2>2 DEF TypeOK, JobReturns, LoopTyped
<1>7. ASSUME NEW w \in Worker, JobThrows(w)
      PROVE  TypeOK'
  BY <1>7 DEF TypeOK, JobThrows, Place
<1>8. ASSUME NEW w \in Worker, Reconnected(w)
      PROVE  TypeOK'
  <2>1. retries' \in [Worker -> 0..(max_retries + 1)]
    BY <1>8 DEF TypeOK, Busy, Reconnected
  <2>2. CASE HasRetries(retries[w] + 1)
    <3>1. /\ pc' = [pc EXCEPT ![w] = "run"]
          /\ tries' = [tries EXCEPT ![job[w]] = @ + 1]
          /\ UNCHANGED <<workers, state, queue, job, fate, jobless>>
      BY <1>8, <2>2 DEF Reconnected
    <3>2. job[w] \in Job
      BY <1>8 DEF Busy, Reconnected
    <3>3. tries[job[w]] + 1 \in Nat
      BY <3>2 DEF TypeOK
    <3>4. tries' \in [Job -> Nat]
      BY <3>1, <3>2, <3>3 DEF TypeOK
    <3> QED BY <2>1, <3>1, <3>4 DEF TypeOK, Place
  <2>3. CASE ~HasRetries(retries[w] + 1)
    <3>1. [fate EXCEPT ![job[w]] = "givenUp"] \in [Job -> Fate]
      BY DEF TypeOK, Fate
    <3>2. LoopTyped
      BY <1>8, <2>3, <3>1, AfterJobTyped DEF Reconnected
    <3> QED BY <1>8, <2>1, <3>2 DEF TypeOK, Reconnected, LoopTyped
  <2> QED BY <2>2, <2>3
<1>9. ASSUME NEW w \in Worker, ReconnectFails(w)
      PROVE  TypeOK'
  BY <1>9 DEF TypeOK, ReconnectFails, Place, Fate
<1>10. ASSUME NEW w \in Worker, IdleTimeout(w)
       PROVE  TypeOK'
  <2>1. LoopTyped
    BY <1>10, NextJobTyped, LeaveTyped DEF TypeOK, IdleTimeout, WorkerState
  <2> QED BY <1>10, <2>1 DEF TypeOK, IdleTimeout, LoopTyped
<1>11. ASSUME NEW w \in Worker, ShutdownDone(w)
       PROVE  TypeOK'
  BY <1>11, RetireTyped DEF ShutdownDone
<1>12. CASE UNCHANGED vars
  BY <1>12 DEF TypeOK, vars
<1> QED
  BY <1>1, <1>2, <1>3, <1>4, <1>5, <1>6, <1>7, <1>8, <1>9, <1>10, <1>11, <1>12
     DEF Next, doWork

-----------------------------------------------------------------------------
(* The lists of workers                                                    *)

\* Erasing w from a list without duplicates removes w and nobody else.
LEMMA eraseFacts ==
    ASSUME NEW list \in Seq(Worker), NEW w \in Worker,
           \A i, k \in DOMAIN list : list[i] = list[k] => i = k
    PROVE  /\ Len(erase(list, w)) <= Len(list)
           /\ \A i, k \in DOMAIN erase(list, w) :
                 erase(list, w)[i] = erase(list, w)[k] => i = k
           /\ \A x \in Worker :
                 (\E i \in DOMAIN erase(list, w) : erase(list, w)[i] = x)
                    <=> x # w /\ \E i \in DOMAIN list : list[i] = x
<1>1. CASE \A i \in DOMAIN list : list[i] # w
  <2>1. erase(list, w) = list
    BY <1>1 DEF erase
  <2> QED BY <1>1, <2>1
<1>2. CASE \E i \in DOMAIN list : list[i] = w
  <2> DEFINE p == CHOOSE i \in DOMAIN list : list[i] = w
             e == RemoveAt(list, p)
  <2>1. p \in 1..Len(list) /\ list[p] = w /\ erase(list, w) = e
    BY <1>2 DEF erase
  <2> HIDE DEF p
  <2>2. /\ e \in Seq(Worker)
        /\ Len(e) = Len(list) - 1
        /\ \A k \in 1..(Len(list) - 1) : e[k] = IF k < p THEN list[k] ELSE list[k + 1]
    BY <2>1, RemoveAtFacts
  <2> HIDE DEF e
  <2>3. \A i, k \in DOMAIN e : e[i] = e[k] => i = k
    <3> DEFINE at(i) == IF i < p THEN i ELSE i + 1
    <3>1. ASSUME NEW i \in DOMAIN e
          PROVE  i \in Nat /\ at(i) \in DOMAIN list /\ e[i] = list[at(i)]
      <4>1. i \in 1..(Len(list) - 1) /\ i \in DOMAIN list /\ i + 1 \in DOMAIN list
        BY <2>2
      <4> QED BY <2>1, <2>2, <4>1
    <3>2. ASSUME NEW i \in Nat, NEW k \in Nat, at(i) = at(k)
          PROVE  i = k
      BY <2>1, <3>2
    <3> HIDE DEF at
    <3> QED BY <3>1, <3>2
  <2>4. ASSUME NEW i \in DOMAIN e
        PROVE  e[i] # w /\ \E k \in DOMAIN list : list[k] = e[i]
    <3>1. i \in 1..(Len(list) - 1) /\ i \in DOMAIN list /\ i + 1 \in DOMAIN list
      BY <2>2
    <3>2. PICK a \in DOMAIN list : e[i] = list[a] /\ a # p
      BY <2>1, <2>2, <3>1
    <3>3. list[a] # list[p]
      BY <2>1, <3>2
    <3> QED BY <2>1, <3>2, <3>3
  <2>5. ASSUME NEW x \in Worker, x # w, NEW i \in DOMAIN list, list[i] = x
        PROVE  \E k \in DOMAIN e : e[k] = x
    <3>1. CASE i < p
      BY <2>1, <2>2, <2>5, <3>1
    <3>2. CASE i > p
      <4>1. i - 1 \in DOMAIN e /\ e[i - 1] = x
        BY <2>1, <2>2, <2>5, <3>2
      <4> QED BY <4>1
    <3> QED BY <2>1, <2>5, <3>1, <3>2
  <2> QED BY <2>1, <2>2, <2>3, <2>4, <2>5
<1> QED BY <1>1, <1>2

\* A worker goes on without entering or leaving a list.
LEMMA PoolUntouched ==
    ASSUME TypeOK, PoolBound, workers' = workers, NEW w \in Worker, NEW x \in Place,
           pc' = [pc EXCEPT ![w] = x], pc[w] # "none", x # "none"
    PROVE  PoolBound'
<1>1. \A v \in Url, y \in Worker : Listed(v, y)' <=> Listed(v, y)
  BY DEF Listed
<1>2. \A y \in Worker : pc'[y] # "none" <=> pc[y] # "none"
  BY DEF TypeOK
<1> QED BY <1>1, <1>2 DEF PoolBound

\* getWorker lists each new worker once, in one list, below the bound.
LEMMA PoolLaunched ==
    ASSUME TypeOK, PoolBound, NEW u \in Url, NEW w \in Worker, getWorker(u, w)
    PROVE  PoolBound'
<1>1. CASE Launch(u, w)
  <2> DEFINE list == <<w>> \o workers[u]
  <2>0. workers[u] \in Seq(Worker)
    BY DEF TypeOK
  <2>1. /\ list \in Seq(Worker)
        /\ Len(list) = Len(workers[u]) + 1
        /\ list[1] = w
        /\ \A i \in 2..(Len(workers[u]) + 1) : list[i] = workers[u][i - 1]
        /\ \A i \in 1..Len(workers[u]) : list[i + 1] = workers[u][i]
    BY <2>0
  <2>2. /\ workers' = [workers EXCEPT ![u] = list]
        /\ pc[w] = "none"
        /\ pc' = [pc EXCEPT ![w] = "spawned"]
        /\ Len(workers[u]) < MAX_WORKERS_PER_URL
    BY <1>1 DEF Launch
  <2>3. \A v \in Url : ~Listed(v, w)
    BY <2>2 DEF PoolBound
  <2> HIDE DEF list
  <2>4. \A i, k \in DOMAIN list : list[i] = list[k] => i = k
    <3>1. \A i \in 2..(Len(workers[u]) + 1) :
             i - 1 \in DOMAIN workers[u] /\ list[i] = workers[u][i - 1] /\ list[i] # w
      <4>1. \A i \in 2..(Len(workers[u]) + 1) : i - 1 \in DOMAIN workers[u]
        BY <2>0
      <4>2. \A i \in DOMAIN workers[u] : workers[u][i] # w
        BY <2>3 DEF Listed
      <4> QED BY <2>1, <4>1, <4>2
    <3>2. \A i, k \in DOMAIN workers[u] : workers[u][i] = workers[u][k] => i = k
      BY DEF PoolBound
    <3>3. DOMAIN list = 1..(Len(workers[u]) + 1) /\ Len(workers[u]) \in Nat
      BY <2>0, <2>1
    <3>4. SUFFICES ASSUME NEW i \in DOMAIN list, NEW k \in DOMAIN list,
                          list[i] = list[k]
                   PROVE  i = k
      OBVIOUS
    <3>5. CASE i = 1 \/ k = 1
      BY <2>1, <3>1, <3>3, <3>4, <3>5
    <3>6. CASE i # 1 /\ k # 1
      <4>1. i \in 2..(Len(workers[u]) + 1) /\ k \in 2..(Len(workers[u]) + 1)
        BY <3>3, <3>6
      <4>2. i - 1 = k - 1
        BY <3>1, <3>2, <3>4, <4>1
      <4> QED BY <3>3, <4>2
    <3> QED BY <3>5, <3>6
  <2>5. \A x \in Worker : (\E i \in DOMAIN list : list[i] = x) <=> x = w \/ Listed(u, x)
    <3>1. ASSUME NEW x \in Worker, NEW i \in DOMAIN workers[u], workers[u][i] = x
          PROVE  \E k \in DOMAIN list : list[k] = x
      <4>0. i \in 1..Len(workers[u])
        BY <2>0
      <4>1. i + 1 \in DOMAIN list /\ list[i + 1] = x
        BY <2>0, <2>1, <3>1, <4>0
      <4> QED BY <4>1
    <3>2. ASSUME NEW i \in DOMAIN list, list[i] # w
          PROVE  Listed(u, list[i])
      <4>0. i \in 2..(Len(workers[u]) + 1)
        BY <2>0, <2>1, <3>2
      <4>1. i - 1 \in DOMAIN workers[u] /\ workers[u][i - 1] = list[i]
        BY <2>0, <2>1, <4>0
      <4> QED BY <4>1 DEF Listed
    <3>3. 1 \in DOMAIN list
      BY <2>0, <2>1
    <3> QED BY <2>1, <3>1, <3>2, <3>3 DEF Listed
  <2>6. \A v \in Url, x \in Worker :
           Listed(v, x)' <=> (v = u /\ x = w) \/ Listed(v, x)
    BY <2>2, <2>5 DEF Listed, TypeOK
  <2>7. \A v \in Url : /\ Len(workers'[v]) <= MAX_WORKERS_PER_URL
                       /\ \A i, k \in DOMAIN workers'[v] :
                             workers'[v][i] = workers'[v][k] => i = k
    BY <2>1, <2>2, <2>4, ConstantsAssumption DEF PoolBound, TypeOK
  <2>8. \A v1, v2 \in Url, x \in Worker : Listed(v1, x)' /\ Listed(v2, x)' => v1 = v2
    BY <2>3, <2>6 DEF PoolBound
  <2>9. \A x \in Worker : pc'[x] # "none" <=> \E v \in Url : Listed(v, x)'
    BY <2>2, <2>6 DEF PoolBound, TypeOK
  <2> QED BY <2>7, <2>8, <2>9 DEF PoolBound
<1>2. CASE Reuse(u, w)
  BY <1>2 DEF Reuse, PoolBound, Listed
<1> QED BY <1>1, <1>2 DEF getWorker

\* The end of a worker takes it out of the one list it is in.
LEMMA PoolRetired ==
    ASSUME TypeOK, PoolBound, NEW w \in Worker, Retire(w)
    PROVE  PoolBound'
<1>1. \A v \in Url : workers'[v] = erase(workers[v], w) /\ workers[v] \in Seq(Worker)
  BY DEF Retire, TypeOK
<1>2. \A v \in Url, x \in Worker : Listed(v, x)' <=> x # w /\ Listed(v, x)
  BY <1>1, eraseFacts DEF PoolBound, Listed
<1>3. ASSUME NEW v \in Url
      PROVE  /\ Len(workers'[v]) <= MAX_WORKERS_PER_URL
             /\ \A i, k \in DOMAIN workers'[v] :
                   workers'[v][i] = workers'[v][k] => i = k
  <2>1. /\ Len(workers'[v]) <= Len(workers[v])
        /\ \A i, k \in DOMAIN workers'[v] : workers'[v][i] = workers'[v][k] => i = k
    BY <1>1, eraseFacts DEF PoolBound
  <2>2. workers'[v] \in Seq(Worker)
    BY <1>1, eraseTyped
  <2>3. Len(workers[v]) <= MAX_WORKERS_PER_URL
    BY DEF PoolBound
  <2> QED BY <1>1, <2>1, <2>2, <2>3, ConstantsAssumption
<1>4. \A v1, v2 \in Url, x \in Worker : Listed(v1, x)' /\ Listed(v2, x)' => v1 = v2
  BY <1>2 DEF PoolBound
<1>5. \A x \in Worker : pc'[x] # "none" <=> \E v \in Url : Listed(v, x)'
  BY <1>2 DEF PoolBound, Retire, TypeOK
<1> QED BY <1>3, <1>4, <1>5 DEF PoolBound

\* Where the steps of doWork that stay in the loop can leave a worker.
LEMMA LoopPlace ==
    ASSUME NEW w, NEW f, NEW r, AfterJob(w, f, r)
    PROVE  \E x \in {"run", "idle"} : pc' = [pc EXCEPT ![w] = x]
BY DEF AfterJob, NextJob, RunNextJob, DropQueue, Run, Wait

\* Every step keeps the lists of workers in order.
LEMMA PoolStep ==
    ASSUME TypeOK, PoolBound, [Next]_vars
    PROVE  PoolBound'
<1>1. ASSUME NEW u \in Url, NEW j \in Job, AddJob(u, j)
      PROVE  PoolBound'
  BY <1>1, PoolLaunched DEF AddJob
<1>2. ASSUME NEW u \in Url, JoblessCall(u)
      PROVE  PoolBound'
  BY <1>2, PoolLaunched DEF JoblessCall
<1>3. ASSUME NEW w \in Worker, Start(w)
      PROVE  PoolBound'
  BY <1>3, PoolUntouched DEF Start, Place
<1>4. ASSUME NEW w \in Worker, Connected(w)
      PROVE  PoolBound'
  <2>1. \E x \in {"run", "idle", "shutdown"} : pc' = [pc EXCEPT ![w] = x]
    BY <1>4, LoopPlace DEF Connected, AfterJob, Leave
  <2> QED BY <1>4, <2>1, PoolUntouched DEF Connected, Place
<1>5. ASSUME NEW w \in Worker, ConnectFails(w)
      PROVE  PoolBound'
  BY <1>5, PoolRetired DEF ConnectFails
<1>6. ASSUME NEW w \in Worker, JobReturns(w)
      PROVE  PoolBound'
  <2>1. \E x \in {"run", "idle"} : pc' = [pc EXCEPT ![w] = x]
    BY <1>6, LoopPlace DEF JobReturns
  <2> QED BY <1>6, <2>1, PoolUntouched DEF JobReturns, Place
<1>7. ASSUME NEW w \in Worker, JobThrows(w)
      PROVE  PoolBound'
  BY <1>7, PoolUntouched DEF JobThrows, Place
<1>8. ASSUME NEW w \in Worker, Reconnected(w)
      PROVE  PoolBound'
  <2>1. \E x \in {"run", "idle"} : pc' = [pc EXCEPT ![w] = x]
    BY <1>8, LoopPlace DEF Reconnected
  <2> QED BY <1>8, <2>1, PoolUntouched DEF Reconnected, Place
<1>9. ASSUME NEW w \in Worker, ReconnectFails(w)
      PROVE  PoolBound'
  BY <1>9, PoolUntouched DEF ReconnectFails, Place
<1>10. ASSUME NEW w \in Worker, IdleTimeout(w)
       PROVE  PoolBound'
  <2>1. \E x \in {"run", "idle", "shutdown"} : pc' = [pc EXCEPT ![w] = x]
    BY <1>10, LoopPlace DEF IdleTimeout, AfterJob, Leave
  <2> QED BY <1>10, <2>1, PoolUntouched DEF IdleTimeout, Place
<1>11. ASSUME NEW w \in Worker, ShutdownDone(w)
       PROVE  PoolBound'
  BY <1>11, PoolRetired DEF ShutdownDone
<1>12. CASE UNCHANGED vars
  BY <1>12 DEF PoolBound, Listed, vars
<1> QED
  BY <1>1, <1>2, <1>3, <1>4, <1>5, <1>6, <1>7, <1>8, <1>9, <1>10, <1>11, <1>12
     DEF Next, doWork

-----------------------------------------------------------------------------
(* Who holds a job                                                         *)

\* How a job may end.
Outcome == {"done", "givenUp", "lost"}

\* f is fate once the job that worker w is in the middle of, if any, is settled.
Settles(w, f) ==
    /\ f \in [Job -> Fate]
    /\ \A j \in Job : IF j = job[w] THEN f[j] \in Outcome ELSE f[j] = fate[j]

\* Giving a final fate to the job of w settles it.
LEMMA SettlesByRule ==
    ASSUME TypeOK, NEW w \in Worker, NEW s \in Outcome
    PROVE  Settles(w, [fate EXCEPT ![job[w]] = s])
BY DEF TypeOK, Settles, Outcome, Fate

\* A worker without a job has nothing to settle.
LEMMA SettlesNothing ==
    ASSUME TypeOK, NEW w \in Worker, job[w] = NoJob
    PROVE  Settles(w, fate)
BY ConstantsAssumption DEF TypeOK, Settles

\* The head and the tail of a queue, element by element.
LEMMA TailFacts ==
    ASSUME NEW S, NEW s \in Seq(S), s # <<>>
    PROVE  /\ Head(s) \in S /\ Tail(s) \in Seq(S) /\ Len(s) \in Nat
           /\ 1 \in DOMAIN s /\ Head(s) = s[1]
           /\ DOMAIN s = 1..Len(s)
           /\ DOMAIN Tail(s) = 1..(Len(s) - 1)
           /\ \A i \in 1..(Len(s) - 1) : Tail(s)[i] = s[i + 1]
BY HeadTailProperties

\* The queue of w is emptied and its jobs get some final fate: what Wait,
\* DropQueue, Leave and Retire have in common.
LEMMA HolderEmptied ==
    ASSUME TypeOK, OneHolder, NEW w \in Worker, NEW f, Settles(w, f),
           NEW v \in Outcome, NEW x \in Place, x \notin {"run", "reconnect"},
           queue' = [queue EXCEPT ![w] = <<>>],
           job' = [job EXCEPT ![w] = NoJob],
           pc' = [pc EXCEPT ![w] = x],
           \A j \in Job : fate'[j] = IF Waiting(w, j) THEN v ELSE f[j]
    PROVE  OneHolder'
<1>1. QueuesApart'
  BY DEF TypeOK, OneHolder, QueuesApart
<1>2. JobsApart'
  BY DEF TypeOK, OneHolder, JobsApart
<1>3. MiddleOfJob'
  BY DEF TypeOK, OneHolder, MiddleOfJob
<1>4. ASSUME NEW y \in Worker, NEW j \in Job
      PROVE  Waiting(y, j)' <=> y # w /\ Waiting(y, j)
  BY DEF TypeOK, Waiting
<1>5. ASSUME NEW y \in Worker, NEW j \in Job, Waiting(y, j), Waiting(w, j)
      PROVE  y = w
  BY <1>5 DEF OneHolder, QueuesApart, Waiting
<1>6. ASSUME NEW j \in Job
      PROVE  /\ fate'[j] = "queued" <=> \E y \in Worker : Waiting(y, j)'
             /\ fate'[j] = "running" <=> \E y \in Worker : job'[y] = j
  <2>1. /\ fate[j] = "queued" <=> \E y \in Worker : Waiting(y, j)
        /\ fate[j] = "running" <=> \E y \in Worker : job[y] = j
    BY DEF OneHolder, FateAgrees
  <2>2. \A y \in Worker : job'[y] = j <=> y # w /\ job[y] = j
    BY ConstantsAssumption DEF TypeOK
  <2>3. CASE Waiting(w, j)
    <3>1. fate'[j] \in Outcome /\ fate[j] = "queued"
      BY <2>1, <2>3
    <3> QED BY <1>4, <1>5, <2>1, <2>2, <2>3, <3>1 DEF Outcome
  <2>4. CASE ~Waiting(w, j)
    <3>1. fate'[j] = f[j]
      BY <2>4
    <3>2. CASE j = job[w]
      <4>1. fate[j] = "running" /\ f[j] \in Outcome
        BY <2>1, <3>2 DEF Settles
      <4>2. \A y \in Worker : job[y] = j => y = w
        BY <3>2, ConstantsAssumption DEF OneHolder, JobsApart
      <4> QED BY <1>4, <2>1, <2>2, <3>1, <4>1, <4>2 DEF Outcome
    <3>3. CASE j # job[w]
      <4>1. fate'[j] = fate[j]
        BY <3>1, <3>3 DEF Settles
      <4> QED BY <1>4, <2>1, <2>2, <2>4, <3>3, <4>1
    <3> QED BY <3>2, <3>3
  <2> QED BY <2>3, <2>4
<1> QED BY <1>1, <1>2, <1>3, <1>6 DEF OneHolder, FateAgrees

\* Popping the next job moves it from the queue of w to the hands of w.
LEMMA HolderPops ==
    ASSUME TypeOK, OneHolder, NEW w \in Worker, NEW f, Settles(w, f), NEW r,
           RunNextJob(w, f, r)
    PROVE  OneHolder'
<1> DEFINE h == Head(queue[w])
           len == Len(queue[w])
<1>1. /\ h \in Job /\ len \in Nat /\ Tail(queue[w]) \in Seq(Job)
      /\ 1 \in DOMAIN queue[w] /\ h = queue[w][1]
      /\ DOMAIN queue[w] = 1..len
      /\ DOMAIN Tail(queue[w]) = 1..(len - 1)
      /\ \A i \in 1..(len - 1) : Tail(queue[w])[i] = queue[w][i + 1]
  BY TailFacts DEF TypeOK, RunNextJob
<1>2. /\ pc' = [pc EXCEPT ![w] = "run"]
      /\ job' = [job EXCEPT ![w] = h]
      /\ queue' = [queue EXCEPT ![w] = Tail(queue[w])]
      /\ fate' = [f EXCEPT ![h] = "running"]
  BY DEF RunNextJob, Run
<1> HIDE DEF h, len
<1>3. Waiting(w, h)
  BY <1>1 DEF Waiting
<1>4. fate[h] = "queued" /\ \A y \in Worker : job[y] # h
  BY <1>1, <1>3 DEF OneHolder, FateAgrees
<1>5. ASSUME NEW y \in Worker, NEW i \in DOMAIN queue'[y]
      PROVE  \E k \in DOMAIN queue[y] :
                /\ queue'[y][i] = queue[y][k]
                /\ k = IF y = w THEN i + 1 ELSE i
  <2>1. CASE y = w
    <3>1. queue'[y] = Tail(queue[w]) /\ i \in 1..(len - 1)
      BY <1>1, <1>2, <2>1 DEF TypeOK
    <3>2. i + 1 \in DOMAIN queue[w]
      BY <1>1, <3>1
    <3> QED BY <1>1, <2>1, <3>1, <3>2
  <2>2. CASE y # w
    BY <1>2, <2>2 DEF TypeOK
  <2> QED BY <2>1, <2>2
<1>6. QueuesApart'
  <2>1. SUFFICES ASSUME NEW y \in Worker, NEW z \in Worker,
                        NEW i \in DOMAIN queue'[y], NEW k \in DOMAIN queue'[z],
                        queue'[y][i] = queue'[z][k]
                 PROVE  y = z /\ i = k
    BY DEF QueuesApart
  <2>2. i \in Nat /\ k \in Nat
    <3>1. queue'[y] \in Seq(Job) /\ queue'[z] \in Seq(Job)
      BY <1>1, <1>2 DEF TypeOK
    <3> QED BY <3>1
  <2>3. PICK a \in DOMAIN queue[y] : /\ queue'[y][i] = queue[y][a]
                                     /\ a = IF y = w THEN i + 1 ELSE i
    BY <1>5
  <2>4. PICK b \in DOMAIN queue[z] : /\ queue'[z][k] = queue[z][b]
                                     /\ b = IF z = w THEN k + 1 ELSE k
    BY <1>5
  <2>5. y = z /\ a = b
    <3>1. queue[y][a] = queue[z][b]
      BY <2>1, <2>3, <2>4
    <3>2. QueuesApart
      BY DEF OneHolder
    <3> QED BY <3>1, <3>2, Zenon DEF QueuesApart
  <2> QED BY <2>2, <2>3, <2>4, <2>5
<1>7. ASSUME NEW y \in Worker, NEW j \in Job
      PROVE  Waiting(y, j)' <=> Waiting(y, j) /\ j # h
  <2>1. ASSUME Waiting(y, j)'
        PROVE  Waiting(y, j) /\ j # h
    <3>1. PICK i \in DOMAIN queue'[y] : queue'[y][i] = j
      BY <2>1 DEF Waiting
    <3>2. PICK k \in DOMAIN queue[y] : /\ queue'[y][i] = queue[y][k]
                                       /\ k = IF y = w THEN i + 1 ELSE i
      BY <1>5
    <3>3. queue'[y] \in Seq(Job)
      BY <1>1, <1>2 DEF TypeOK
    <3>4. i \in Nat /\ i >= 1
      BY <3>3
    <3>5. ~(y = w /\ k = 1)
      BY <3>2, <3>4
    <3>6. queue[y][k] # queue[w][1]
      BY <1>1, <3>5 DEF OneHolder, QueuesApart
    <3> QED BY <1>1, <3>1, <3>2, <3>6 DEF Waiting
  <2>2. ASSUME Waiting(y, j), j # h
        PROVE  Waiting(y, j)'
    <3>1. PICK k \in DOMAIN queue[y] : queue[y][k] = j
      BY <2>2 DEF Waiting
    <3>2. CASE y = w
      <4>1. k \in 2..len
        BY <1>1, <2>2, <3>1, <3>2
      <4>2. k - 1 \in 1..(len - 1) /\ (k - 1) + 1 = k
        BY <1>1, <4>1
      <4>3. queue'[w] = Tail(queue[w])
        BY <1>2 DEF TypeOK
      <4>4. k - 1 \in DOMAIN queue'[w] /\ queue'[w][k - 1] = j
        BY <1>1, <3>1, <3>2, <4>2, <4>3
      <4> QED BY <3>2, <4>4 DEF Waiting
    <3>3. CASE y # w
      BY <1>2, <3>1, <3>3 DEF Waiting, TypeOK
    <3> QED BY <3>2, <3>3
  <2> QED BY <2>1, <2>2
<1>8. ASSUME NEW j \in Job
      PROVE  /\ fate'[j] = "queued" <=> \E y \in Worker : Waiting(y, j)'
             /\ fate'[j] = "running" <=> \E y \in Worker : job'[y] = j
  <2>1. /\ fate[j] = "queued" <=> \E y \in Worker : Waiting(y, j)
        /\ fate[j] = "running" <=> \E y \in Worker : job[y] = j
    BY DEF OneHolder, FateAgrees
  <2>2. \A y \in Worker : job'[y] = IF y = w THEN h ELSE job[y]
    BY <1>2 DEF TypeOK
  <2>3. fate'[j] = IF j = h THEN "running" ELSE f[j]
    BY <1>1, <1>2 DEF Settles
  <2>4. CASE j = h
    BY <1>7, <2>2, <2>3, <2>4
  <2>5. CASE j # h /\ j = job[w]
    <3>1. f[j] \in Outcome /\ fate[j] = "running"
      BY <2>1, <2>5 DEF Settles
    <3>2. \A y \in Worker : job[y] = j => y = w
      BY <2>5, ConstantsAssumption DEF OneHolder, JobsApart
    <3> QED BY <1>7, <2>1, <2>2, <2>3, <2>5, <3>1, <3>2 DEF Outcome
  <2>6. CASE j # h /\ j # job[w]
    <3>1. fate'[j] = fate[j]
      BY <2>3, <2>6 DEF Settles
    <3> QED BY <1>7, <2>1, <2>2, <2>6, <3>1
  <2> QED BY <2>4, <2>5, <2>6
<1>9. JobsApart' /\ MiddleOfJob'
  BY <1>1, <1>2, <1>4, ConstantsAssumption
     DEF TypeOK, OneHolder, JobsApart, MiddleOfJob
<1> QED BY <1>6, <1>8, <1>9 DEF OneHolder, FateAgrees

\* The loop of doWork moves jobs from the queue into the hands of one worker.
LEMMA HolderLoops ==
    ASSUME TypeOK, OneHolder, NEW w \in Worker, NEW f, Settles(w, f), NEW r,
           AfterJob(w, f, r)
    PROVE  OneHolder'
<1>1. CASE RunNextJob(w, f, r)
  BY <1>1, HolderPops
<1>2. CASE DropQueue(w, f, r)
  <2>1. \A j \in Job : fate'[j] = IF Waiting(w, j) THEN "givenUp" ELSE f[j]
    <3>1. \A j \in Job : j \in Range(queue[w]) <=> Waiting(w, j)
      BY DEF Range, Waiting
    <3> QED BY <1>2, <3>1 DEF DropQueue
  <2> QED
    BY <1>2, <2>1, HolderEmptied DEF DropQueue, Wait, Outcome, Place
<1>3. CASE queue[w] = <<>> /\ fate' = f /\ Wait(w)
  <2>1. \A j \in Job : ~Waiting(w, j)
    BY <1>3 DEF Waiting
  <2> QED BY <1>3, <2>1, HolderEmptied DEF Wait, Outcome, Place
<1> QED BY <1>1, <1>2, <1>3 DEF AfterJob, NextJob

\* A worker leaves the loop holding nothing.
LEMMA HolderLeaves ==
    ASSUME TypeOK, OneHolder, NEW w \in Worker, pc[w] \notin {"run", "reconnect"},
           NEW s, Leave(w, s)
    PROVE  OneHolder'
<1>1. job[w] = NoJob
  BY DEF OneHolder, MiddleOfJob
<1>2. \A j \in Job : ~Waiting(w, j)
  BY DEF Waiting, Leave
<1>3. queue' = [queue EXCEPT ![w] = <<>>] /\ job' = [job EXCEPT ![w] = NoJob]
  BY <1>1 DEF Leave, TypeOK
<1> QED
  BY <1>1, <1>2, <1>3, SettlesNothing, HolderEmptied DEF Leave, Outcome, Place

\* What the queue of a worker holds dies with it.
LEMMA HolderRetires ==
    ASSUME TypeOK, OneHolder, NEW w \in Worker, pc[w] \notin {"run", "reconnect"},
           Retire(w)
    PROVE  OneHolder'
<1>1. job[w] = NoJob
  BY DEF OneHolder, MiddleOfJob
<1>2. \A j \in Job : j \in Range(queue[w]) <=> Waiting(w, j)
  BY DEF Range, Waiting
<1>3. job' = [job EXCEPT ![w] = NoJob]
  BY <1>1 DEF Retire, TypeOK
<1> QED
  BY <1>1, <1>2, <1>3, SettlesNothing, HolderEmptied DEF Retire, Outcome, Place

\* A step that moves no job, and no worker into or out of the middle of one.
LEMMA HolderUntouched ==
    ASSUME OneHolder, UNCHANGED <<queue, job, fate>>,
           \A w \in Worker : pc'[w] \in {"run", "reconnect"} <=> pc[w] \in {"run", "reconnect"}
    PROVE  OneHolder'
<1>1. QueuesApart' /\ JobsApart' /\ MiddleOfJob'
  BY DEF OneHolder, QueuesApart, JobsApart, MiddleOfJob
<1>2. FateAgrees'
  BY DEF OneHolder, FateAgrees, Waiting
<1> QED BY <1>1, <1>2 DEF OneHolder

\* A worker that getWorker returns is not moved into the middle of a job.
LEMMA getWorkerPlace ==
    ASSUME TypeOK, NEW u \in Url, NEW w \in Worker, getWorker(u, w)
    PROVE  \A y \in Worker :
              pc'[y] \in {"run", "reconnect"} <=> pc[y] \in {"run", "reconnect"}
BY DEF TypeOK, getWorker, Launch, Reuse

\* A job that nobody held goes to one queue.
LEMMA HolderAdds ==
    ASSUME TypeOK, OneHolder, NEW u \in Url, NEW j \in Job, AddJob(u, j)
    PROVE  OneHolder'
<1>1. PICK w \in Worker : getWorker(u, w) /\ queue' = [queue EXCEPT ![w] = Append(@, j)]
  BY DEF AddJob
<1>2. /\ fate[j] = "new" /\ fate' = [fate EXCEPT ![j] = "queued"] /\ job' = job
  BY DEF AddJob
<1>3. (\A y \in Worker : ~Waiting(y, j)) /\ \A y \in Worker : job[y] # j
  BY <1>2 DEF OneHolder, FateAgrees
<1> DEFINE len == Len(queue[w])
<1>4. /\ len \in Nat
      /\ DOMAIN queue[w] = 1..len
      /\ DOMAIN queue'[w] = 1..(len + 1)
      /\ \A i \in 1..len : queue'[w][i] = queue[w][i]
      /\ queue'[w][len + 1] = j
  BY <1>1 DEF TypeOK
<1> HIDE DEF len
<1>5. ASSUME NEW y \in Worker, NEW i \in DOMAIN queue'[y]
      PROVE  \/ y = w /\ i = len + 1 /\ queue'[y][i] = j
             \/ i \in DOMAIN queue[y] /\ queue'[y][i] = queue[y][i] /\ queue'[y][i] # j
  <2>1. CASE y # w
    BY <1>1, <1>3, <2>1 DEF TypeOK, Waiting
  <2>2. CASE y = w /\ i \in 1..len
    BY <1>3, <1>4, <2>2 DEF Waiting
  <2>3. CASE y = w /\ i = len + 1
    BY <1>4, <2>3
  <2> QED BY <1>4, <2>1, <2>2, <2>3
<1>6. QueuesApart'
  <2>1. QueuesApart
    BY DEF OneHolder
  <2>2. SUFFICES ASSUME NEW y \in Worker, NEW z \in Worker,
                        NEW i \in DOMAIN queue'[y], NEW k \in DOMAIN queue'[z],
                        queue'[y][i] = queue'[z][k]
                 PROVE  y = z /\ i = k
    BY DEF QueuesApart
  <2>3. CASE queue'[y][i] = j
    <3>1. y = w /\ i = len + 1
      BY <1>5, <2>3
    <3>2. z = w /\ k = len + 1
      BY <1>5, <2>2, <2>3
    <3> QED BY <3>1, <3>2
  <2>4. CASE queue'[y][i] # j
    <3>1. i \in DOMAIN queue[y] /\ queue'[y][i] = queue[y][i]
      BY <1>5, <2>4
    <3>2. k \in DOMAIN queue[z] /\ queue'[z][k] = queue[z][k]
      BY <1>5, <2>2, <2>4
    <3>3. queue[y][i] = queue[z][k]
      BY <2>2, <3>1, <3>2
    <3> QED BY <2>1, <3>1, <3>2, <3>3, Zenon DEF QueuesApart
  <2> QED BY <2>3, <2>4
<1>7. ASSUME NEW y \in Worker, NEW k \in Job
      PROVE  Waiting(y, k)' <=> Waiting(y, k) \/ (y = w /\ k = j)
  <2>1. ASSUME Waiting(y, k)'
        PROVE  Waiting(y, k) \/ (y = w /\ k = j)
    BY <1>5, <2>1 DEF Waiting
  <2>2. ASSUME Waiting(y, k)
        PROVE  Waiting(y, k)'
    <3>1. CASE y = w
      BY <1>4, <2>2, <3>1 DEF Waiting
    <3>2. CASE y # w
      BY <1>1, <2>2, <3>2 DEF Waiting, TypeOK
    <3> QED BY <3>1, <3>2
  <2>3. Waiting(w, j)'
    <3>1. len + 1 \in DOMAIN queue'[w]
      BY <1>4
    <3> QED BY <1>4, <3>1 DEF Waiting
  <2> QED BY <2>1, <2>2, <2>3
<1>8. FateAgrees'
  <2>1. SUFFICES ASSUME NEW k \in Job
                 PROVE  /\ fate'[k] = "queued" <=> \E y \in Worker : Waiting(y, k)'
                        /\ fate'[k] = "running" <=> \E y \in Worker : job'[y] = k
    BY DEF FateAgrees
  <2>2. /\ fate[k] = "queued" <=> \E y \in Worker : Waiting(y, k)
        /\ fate[k] = "running" <=> \E y \in Worker : job[y] = k
    BY DEF OneHolder, FateAgrees
  <2>3. fate'[k] = IF k = j THEN "queued" ELSE fate[k]
    BY <1>2 DEF TypeOK
  <2>4. CASE k = j
    BY <1>2, <1>3, <1>7, <2>3, <2>4
  <2>5. CASE k # j
    BY <1>2, <1>7, <2>2, <2>3, <2>5
  <2> QED BY <2>4, <2>5
<1>9. JobsApart' /\ MiddleOfJob'
  BY <1>1, <1>2, getWorkerPlace DEF OneHolder, JobsApart, MiddleOfJob
<1> QED BY <1>6, <1>8, <1>9 DEF OneHolder

\* Every step leaves each job in at most one place.
LEMMA HolderStep ==
    ASSUME TypeOK, OneHolder, [Next]_vars
    PROVE  OneHolder'
<1>1. ASSUME NEW u \in Url, NEW j \in Job, AddJob(u, j)
      PROVE  OneHolder'
  BY <1>1, HolderAdds
<1>2. ASSUME NEW u \in Url, JoblessCall(u)
      PROVE  OneHolder'
  BY <1>2, getWorkerPlace, HolderUntouched DEF JoblessCall
<1>3. ASSUME NEW w \in Worker, Start(w)
      PROVE  OneHolder'
  BY <1>3, HolderUntouched DEF Start, TypeOK
<1>4. ASSUME NEW w \in Worker, Connected(w)
      PROVE  OneHolder'
  <2>1. job[w] = NoJob
    BY <1>4 DEF Connected, OneHolder, MiddleOfJob
  <2> QED BY <1>4, <2>1, SettlesNothing, HolderLoops, HolderLeaves
             DEF Connected, AfterJob
<1>5. ASSUME NEW w \in Worker, ConnectFails(w)
      PROVE  OneHolder'
  BY <1>5, HolderRetires DEF ConnectFails
<1>6. ASSUME NEW w \in Worker, JobReturns(w)
      PROVE  OneHolder'
  BY <1>6, SettlesByRule, HolderLoops DEF JobReturns, Outcome
<1>7. ASSUME NEW w \in Worker, JobThrows(w)
      PROVE  OneHolder'
  BY <1>7, HolderUntouched DEF JobThrows, TypeOK
<1>8. ASSUME NEW w \in Worker, Reconnected(w)
      PROVE  OneHolder'
  <2>1. CASE HasRetries(retries[w] + 1)
    BY <1>8, <2>1, HolderUntouched DEF Reconnected, TypeOK
  <2>2. CASE ~HasRetries(retries[w] + 1)
    BY <1>8, <2>2, SettlesByRule, HolderLoops DEF Reconnected, Outcome
  <2> QED BY <2>1, <2>2
<1>9. ASSUME NEW w \in Worker, ReconnectFails(w)
      PROVE  OneHolder'
  <2>1. job[w] \in Job /\ pc[w] = "reconnect"
    BY <1>9 DEF ReconnectFails, TypeOK, OneHolder, MiddleOfJob
  <2>2. /\ pc' = [pc EXCEPT ![w] = "shutdown"]
        /\ fate' = [fate EXCEPT ![job[w]] = "lost"]
        /\ job' = [job EXCEPT ![w] = NoJob]
        /\ queue' = queue
    BY <1>9 DEF ReconnectFails
  <2>3. QueuesApart' /\ JobsApart' /\ MiddleOfJob'
    BY <2>2 DEF TypeOK, OneHolder, QueuesApart, JobsApart, MiddleOfJob
  <2>4. \A y \in Worker, k \in Job : Waiting(y, k)' <=> Waiting(y, k)
    BY <2>2 DEF Waiting
  <2>5. fate[job[w]] = "running" /\ \A y \in Worker : ~Waiting(y, job[w])
    BY <2>1 DEF OneHolder, FateAgrees
  <2>6. \A y \in Worker : job[y] = job[w] => y = w
    BY <2>1, ConstantsAssumption DEF OneHolder, JobsApart
  <2>7. FateAgrees'
    <3>1. SUFFICES ASSUME NEW k \in Job
                   PROVE  /\ fate'[k] = "queued" <=> \E y \in Worker : Waiting(y, k)'
                          /\ fate'[k] = "running" <=> \E y \in Worker : job'[y] = k
      BY DEF FateAgrees
    <3>2. /\ fate[k] = "queued" <=> \E y \in Worker : Waiting(y, k)
          /\ fate[k] = "running" <=> \E y \in Worker : job[y] = k
      BY DEF OneHolder, FateAgrees
    <3>3. fate'[k] = IF k = job[w] THEN "lost" ELSE fate[k]
      BY <2>1, <2>2 DEF TypeOK
    <3>4. \A y \in Worker : job'[y] = k <=> y # w /\ job[y] = k
      BY <2>2, ConstantsAssumption DEF TypeOK
    <3>5. CASE k = job[w]
      BY <2>4, <2>5, <2>6, <3>3, <3>4, <3>5
    <3>6. CASE k # job[w]
      BY <2>4, <3>2, <3>3, <3>4, <3>6
    <3> QED BY <3>5, <3>6
  <2> QED BY <2>3, <2>7 DEF OneHolder
<1>10. ASSUME NEW w \in Worker, IdleTimeout(w)
       PROVE  OneHolder'
  <2>1. job[w] = NoJob
    BY <1>10 DEF IdleTimeout, OneHolder, MiddleOfJob
  <2> QED BY <1>10, <2>1, SettlesNothing, HolderLoops, HolderLeaves
             DEF IdleTimeout, AfterJob
<1>11. ASSUME NEW w \in Worker, ShutdownDone(w)
       PROVE  OneHolder'
  BY <1>11, HolderRetires DEF ShutdownDone
<1>12. CASE UNCHANGED vars
  BY <1>12, HolderUntouched DEF vars
<1> QED
  BY <1>1, <1>2, <1>3, <1>4, <1>5, <1>6, <1>7, <1>8, <1>9, <1>10, <1>11, <1>12
     DEF Next, doWork

-----------------------------------------------------------------------------
(* Attempts                                                                *)

\* A job that is still waiting has not been attempted.
TriesFresh == \A j \in Job : fate[j] \in {"new", "queued"} => tries[j] = 0

\* A step that calls no job and puts no worker in the middle of one.
LEMMA TriesUntouched ==
    ASSUME TryLimit, TriesFresh, tries' = tries,
           \A j \in Job : fate'[j] \in {"new", "queued"} => fate[j] \in {"new", "queued"},
           \A w \in Worker : pc'[w] \in {"run", "reconnect"} =>
              pc[w] \in {"run", "reconnect"} /\ job'[w] = job[w] /\ retries'[w] = retries[w]
    PROVE  TryLimit' /\ TriesFresh'
BY DEF TryLimit, TriesFresh

\* A worker whose retry counter becomes r goes on with the loop.
LEMMA TriesLoop ==
    ASSUME TypeOK, OneHolder, TryLimit, TriesFresh, NEW w \in Worker,
           NEW f, Settles(w, f), NEW r \in Nat, AfterJob(w, f, r),
           retries' = [retries EXCEPT ![w] = r]
    PROVE  TryLimit' /\ TriesFresh'
<1>1. \A j \in Job : f[j] \in {"new", "queued"} => fate[j] \in {"new", "queued"}
  BY DEF Settles, Outcome
<1>2. CASE RunNextJob(w, f, r)
  <2> DEFINE h == Head(queue[w])
  <2>1. h \in Job /\ 1 \in DOMAIN queue[w] /\ h = queue[w][1]
    BY <1>2, TailFacts DEF TypeOK, RunNextJob
  <2>2. /\ pc' = [pc EXCEPT ![w] = "run"]
        /\ job' = [job EXCEPT ![w] = h]
        /\ fate' = [f EXCEPT ![h] = "running"]
        /\ tries' = [tries EXCEPT ![h] = @ + 1]
        /\ r <= max_retries
    BY <1>2 DEF RunNextJob, Run, HasRetries
  <2> HIDE DEF h
  <2>3. fate[h] = "queued" /\ \A y \in Worker : job[y] # h
    BY <2>1 DEF OneHolder, FateAgrees, Waiting
  <2>4. tries[h] = 0
    BY <2>1, <2>3 DEF TriesFresh
  <2>5. \A j \in Job : tries'[j] = IF j = h THEN 1 ELSE tries[j]
    BY <2>1, <2>2, <2>4 DEF TypeOK
  <2>6. \A j \in Job : fate'[j] = IF j = h THEN "running" ELSE f[j]
    BY <2>1, <2>2 DEF Settles
  <2>7. TriesFresh'
    BY <1>1, <2>5, <2>6 DEF TriesFresh
  <2>8. \A j \in Job : tries'[j] <= max_retries + 1
    BY <2>5, ConstantsAssumption DEF TryLimit
  <2>9. ASSUME NEW y \in Worker, pc'[y] \in {"run", "reconnect"}
        PROVE  retries'[y] <= max_retries /\ tries'[job'[y]] <= retries'[y] + 1
    <3>1. CASE y = w
      BY <2>1, <2>2, <2>5, <3>1 DEF TypeOK
    <3>2. CASE y # w
      <4>1. /\ pc'[y] = pc[y] /\ job'[y] = job[y] /\ retries'[y] = retries[y]
        BY <2>2, <3>2 DEF TypeOK
      <4>2. job[y] \in Job /\ job[y] # h
        BY <2>3, <2>9, <4>1 DEF OneHolder, MiddleOfJob, TypeOK
      <4> QED BY <2>5, <2>9, <4>1, <4>2 DEF TryLimit
    <3> QED BY <3>1, <3>2
  <2> QED BY <2>7, <2>8, <2>9 DEF TryLimit
<1>3. CASE ~RunNextJob(w, f, r)
  <2>1. /\ pc' = [pc EXCEPT ![w] = "idle"]
        /\ job' = [job EXCEPT ![w] = NoJob]
        /\ tries' = tries
        /\ \A j \in Job : fate'[j] \in {"givenUp", f[j]}
    BY <1>3 DEF AfterJob, NextJob, DropQueue, Wait
  <2> QED BY <1>1, <2>1, TriesUntouched DEF TypeOK
<1> QED BY <1>2, <1>3

\* The end of a worker attempts nothing.
LEMMA TriesRetire ==
    ASSUME TypeOK, TryLimit, TriesFresh, NEW w \in Worker, Retire(w)
    PROVE  TryLimit' /\ TriesFresh'
BY TriesUntouched DEF TypeOK, Retire

\* No step attempts a job too often.
LEMMA TryStep ==
    ASSUME TypeOK, OneHolder, TryLimit, TriesFresh, [Next]_vars
    PROVE  TryLimit' /\ TriesFresh'
<1>1. ASSUME NEW u \in Url, NEW j \in Job, AddJob(u, j)
      PROVE  TryLimit' /\ TriesFresh'
  <2>1. /\ \A k \in Job : fate'[k] \in {"new", "queued"} => fate[k] \in {"new", "queued"}
        /\ UNCHANGED <<tries, job, retries>>
    BY <1>1 DEF AddJob, TypeOK
  <2> QED BY <1>1, <2>1, getWorkerPlace, TriesUntouched DEF AddJob
<1>2. ASSUME NEW u \in Url, JoblessCall(u)
      PROVE  TryLimit' /\ TriesFresh'
  BY <1>2, getWorkerPlace, TriesUntouched DEF JoblessCall
<1>3. ASSUME NEW w \in Worker, Start(w)
      PROVE  TryLimit' /\ TriesFresh'
  BY <1>3, TriesUntouched DEF Start, TypeOK
<1>4. ASSUME NEW w \in Worker, Connected(w)
      PROVE  TryLimit' /\ TriesFresh'
  <2>1. CASE NextJob(w, fate, retries[w])
    <3>1. Settles(w, fate)
      BY <1>4, SettlesNothing DEF Connected, OneHolder, MiddleOfJob
    <3>2. retries[w] \in Nat /\ retries' = [retries EXCEPT ![w] = retries[w]]
      BY <1>4, ConstantsAssumption DEF Connected, TypeOK
    <3> QED BY <2>1, <3>1, <3>2, TriesLoop DEF AfterJob
  <2>2. CASE Leave(w, "Working")
    BY <1>4, <2>2, TriesUntouched DEF Connected, Leave, TypeOK
  <2> QED BY <1>4, <2>1, <2>2 DEF Connected
<1>5. ASSUME NEW w \in Worker, ConnectFails(w)
      PROVE  TryLimit' /\ TriesFresh'
  BY <1>5, TriesRetire DEF ConnectFails
<1>6. ASSUME NEW w \in Worker, JobReturns(w)
      PROVE  TryLimit' /\ TriesFresh'
  <2>1. Settles(w, [fate EXCEPT ![job[w]] = "done"])
    BY SettlesByRule DEF Outcome
  <2>2. retries[w] \in Nat /\ retries' = [retries EXCEPT ![w] = retries[w]]
    BY <1>6, ConstantsAssumption DEF JobReturns, TypeOK
  <2> QED BY <1>6, <2>1, <2>2, TriesLoop DEF JobReturns
<1>7. ASSUME NEW w \in Worker, JobThrows(w)
      PROVE  TryLimit' /\ TriesFresh'
  BY <1>7, TriesUntouched DEF JobThrows, TypeOK
<1>8. ASSUME NEW w \in Worker, Reconnected(w)
      PROVE  TryLimit' /\ TriesFresh'
  <2>1. retries[w] \in Nat /\ retries' = [retries EXCEPT ![w] = retries[w] + 1]
    BY <1>8, ConstantsAssumption DEF Reconnected, TypeOK
  <2>2. CASE HasRetries(retries[w] + 1)
    <3>1. /\ pc' = [pc EXCEPT ![w] = "run"]
          /\ tries' = [tries EXCEPT ![job[w]] = @ + 1]
          /\ job' = job /\ fate' = fate
          /\ retries[w] + 1 <= max_retries
      BY <1>8, <2>2 DEF Reconnected, HasRetries
    <3>2. job[w] \in Job /\ fate[job[w]] = "running"
      BY <1>8 DEF Reconnected, OneHolder, MiddleOfJob, FateAgrees, TypeOK
    <3>3. \A j \in Job : tries'[j] = IF j = job[w] THEN tries[j] + 1 ELSE tries[j]
      BY <3>1, <3>2 DEF TypeOK
    <3>4. tries[job[w]] \in Nat /\ tries[job[w]] <= retries[w] + 1
      BY <1>8, <3>2 DEF Reconnected, TryLimit, TypeOK
    <3>5. TriesFresh'
      BY <3>1, <3>2, <3>3 DEF TriesFresh
    <3>6. \A j \in Job : tries'[j] <= max_retries + 1
      BY <2>1, <3>1, <3>3, <3>4, ConstantsAssumption DEF TryLimit
    <3>7. ASSUME NEW y \in Worker, pc'[y] \in {"run", "reconnect"}
          PROVE  retries'[y] <= max_retries /\ tries'[job'[y]] <= retries'[y] + 1
      <4>1. CASE y = w
        <5>1. retries'[w] = retries[w] + 1 /\ tries'[job[w]] = tries[job[w]] + 1
          BY <2>1, <3>2, <3>3 DEF TypeOK
        <5> QED BY <2>1, <3>1, <3>4, <4>1, <5>1
      <4>2. CASE y # w
        <5>1. pc'[y] = pc[y] /\ job'[y] = job[y] /\ retries'[y] = retries[y]
          BY <2>1, <3>1, <4>2 DEF TypeOK
        <5>2. job[y] \in Job /\ job[y] # job[w]
          BY <3>2, <3>7, <4>2, <5>1, ConstantsAssumption
             DEF OneHolder, MiddleOfJob, JobsApart, TypeOK
        <5> QED BY <3>3, <3>7, <5>1, <5>2 DEF TryLimit
      <4> QED BY <4>1, <4>2
    <3> QED BY <3>5, <3>6, <3>7 DEF TryLimit
  <2>3. CASE ~HasRetries(retries[w] + 1)
    <3>1. Settles(w, [fate EXCEPT ![job[w]] = "givenUp"])
      BY SettlesByRule DEF Outcome
    <3>2. AfterJob(w, [fate EXCEPT ![job[w]] = "givenUp"], retries[w] + 1)
      BY <1>8, <2>3 DEF Reconnected
    <3>3. retries[w] + 1 \in Nat
      BY <2>1
    <3> QED BY <2>1, <3>1, <3>2, <3>3, TriesLoop
  <2> QED BY <2>2, <2>3
<1>9. ASSUME NEW w \in Worker, ReconnectFails(w)
      PROVE  TryLimit' /\ TriesFresh'
  BY <1>9, TriesUntouched DEF ReconnectFails, TypeOK
<1>10. ASSUME NEW w \in Worker, IdleTimeout(w)
       PROVE  TryLimit' /\ TriesFresh'
  <2>1. CASE NextJob(w, fate, retries[w])
    <3>1. Settles(w, fate)
      BY <1>10, SettlesNothing DEF IdleTimeout, OneHolder, MiddleOfJob
    <3>2. retries[w] \in Nat /\ retries' = [retries EXCEPT ![w] = retries[w]]
      BY <1>10, ConstantsAssumption DEF IdleTimeout, TypeOK
    <3> QED BY <2>1, <3>1, <3>2, TriesLoop DEF AfterJob
  <2>2. CASE Leave(w, "Dead")
    BY <1>10, <2>2, TriesUntouched DEF IdleTimeout, Leave, TypeOK
  <2> QED BY <1>10, <2>1, <2>2 DEF IdleTimeout
<1>11. ASSUME NEW w \in Worker, ShutdownDone(w)
       PROVE  TryLimit' /\ TriesFresh'
  BY <1>11, TriesRetire DEF ShutdownDone
<1>12. CASE UNCHANGED vars
  BY <1>12, TriesUntouched DEF vars
<1> QED
  BY <1>1, <1>2, <1>3, <1>4, <1>5, <1>6, <1>7, <1>8, <1>9, <1>10, <1>11, <1>12
     DEF Next, doWork

-----------------------------------------------------------------------------
(* What a worker says of itself                                            *)

\* The loop of doWork says Idle exactly when it waits on the idle timer.
LEMMA IdleLoop ==
    ASSUME TypeOK, IdleWillLook, NEW w \in Worker, NEW f, NEW r, AfterJob(w, f, r)
    PROVE  IdleWillLook'
BY DEF TypeOK, IdleWillLook, idle, AfterJob, NextJob, RunNextJob, DropQueue, Run, Wait

\* No step leaves a worker on its way out that says it is idle.
LEMMA IdleStep ==
    ASSUME TypeOK, IdleWillLook, [Next]_vars
    PROVE  IdleWillLook'
<1> USE DEF IdleWillLook, idle
<1>1. ASSUME NEW u \in Url, NEW w \in Worker, getWorker(u, w)
      PROVE  IdleWillLook'
  BY <1>1 DEF getWorker, Launch, Reuse, TypeOK
<1>2. ASSUME NEW w \in Worker, NEW s \in {"Working", "Dead"}, Leave(w, s)
      PROVE  IdleWillLook'
  BY <1>2 DEF Leave, TypeOK
<1>3. ASSUME NEW w \in Worker, Retire(w)
      PROVE  IdleWillLook'
  BY <1>3 DEF Retire, TypeOK
<1>4. ASSUME NEW w \in Worker, Start(w) \/ JobThrows(w) \/ ReconnectFails(w)
      PROVE  IdleWillLook'
  BY <1>4 DEF Start, JobThrows, ReconnectFails, TypeOK
<1>5. ASSUME NEW w \in Worker, Reconnected(w)
      PROVE  IdleWillLook'
  <2>1. CASE HasRetries(retries[w] + 1)
    BY <1>5, <2>1 DEF Reconnected, TypeOK
  <2>2. CASE ~HasRetries(retries[w] + 1)
    BY <1>5, <2>2, IdleLoop DEF Reconnected
  <2> QED BY <2>1, <2>2
<1>6. ASSUME NEW w \in Worker, Connected(w) \/ JobReturns(w) \/ IdleTimeout(w)
      PROVE  IdleWillLook'
  <2>1. \/ \E f, r : AfterJob(w, f, r)
        \/ \E s \in {"Working", "Dead"} : Leave(w, s)
    BY <1>6 DEF Connected, JobReturns, IdleTimeout, AfterJob
  <2> QED BY <1>2, <2>1, IdleLoop
<1>7. CASE UNCHANGED vars
  BY <1>7 DEF vars
<1> QED
  BY <1>1, <1>3, <1>4, <1>5, <1>6, <1>7
     DEF Next, doWork, AddJob, JoblessCall, ConnectFails, ShutdownDone

-----------------------------------------------------------------------------
(* The job service                                                         *)

\* What one step may do to job j, told by fate and tries.
FateMove(j) ==
    \/ fate'[j] = fate[j] /\ tries'[j] = tries[j]
    \/ fate[j] = "new" /\ fate'[j] = "queued" /\ tries'[j] = tries[j]
    \/ /\ fate[j] \in {"queued", "running"} /\ fate'[j] = "running"
       /\ tries'[j] = tries[j] + 1
    \/ fate[j] = "running" /\ fate'[j] = "done" /\ tries'[j] = tries[j]
    \/ /\ fate[j] \in {"queued", "running"} /\ fate'[j] \in {"givenUp", "lost"}
       /\ tries'[j] = tries[j]

\* Each job moves along one edge of the job service in a trip of the loop ...
LEMMA LoopMoves ==
    ASSUME TypeOK, OneHolder, NEW w \in Worker, NEW f, Settles(w, f), NEW r,
           AfterJob(w, f, r), NEW j \in Job
    PROVE  FateMove(j)
<1>1. /\ fate[j] = "queued" <=> \E y \in Worker : Waiting(y, j)
      /\ fate[j] = "running" <=> \E y \in Worker : job[y] = j
  BY DEF OneHolder, FateAgrees
<1>2. IF j = job[w] THEN fate[j] = "running" /\ f[j] \in Outcome ELSE f[j] = fate[j]
  BY <1>1 DEF Settles
<1>3. CASE RunNextJob(w, f, r)
  <2> DEFINE h == Head(queue[w])
  <2>1. h \in Job /\ 1 \in DOMAIN queue[w] /\ h = queue[w][1]
    BY <1>3, TailFacts DEF TypeOK, RunNextJob
  <2>2. /\ fate' = [f EXCEPT ![h] = "running"]
        /\ tries' = [tries EXCEPT ![h] = @ + 1]
    BY <1>3 DEF RunNextJob, Run
  <2> HIDE DEF h
  <2>3. fate[h] = "queued"
    BY <2>1 DEF OneHolder, FateAgrees, Waiting
  <2>4. /\ fate'[j] = IF j = h THEN "running" ELSE f[j]
        /\ tries'[j] = IF j = h THEN tries[j] + 1 ELSE tries[j]
    BY <2>1, <2>2 DEF Settles, TypeOK
  <2> QED BY <1>2, <2>3, <2>4 DEF FateMove, Outcome
<1>4. CASE DropQueue(w, f, r)
  <2>1. j \in Range(queue[w]) => Waiting(w, j)
    BY DEF Range, Waiting
  <2>2. tries' = tries /\ fate'[j] = IF j \in Range(queue[w]) THEN "givenUp" ELSE f[j]
    BY <1>4 DEF DropQueue, Wait
  <2> QED BY <1>1, <1>2, <2>1, <2>2 DEF FateMove, Outcome
<1>5. CASE queue[w] = <<>> /\ fate' = f /\ Wait(w)
  BY <1>2, <1>5 DEF FateMove, Outcome, Wait
<1> QED BY <1>3, <1>4, <1>5 DEF AfterJob, NextJob

\* ... at the end of a worker ...
LEMMA RetireMoves ==
    ASSUME TypeOK, OneHolder, NEW w \in Worker, Retire(w), NEW j \in Job
    PROVE  FateMove(j)
<1>1. fate[j] = "queued" <=> \E y \in Worker : Waiting(y, j)
  BY DEF OneHolder, FateAgrees
<1>2. j \in Range(queue[w]) => Waiting(w, j)
  BY DEF Range, Waiting
<1> QED BY <1>1, <1>2 DEF Retire, FateMove

\* ... and in every step.
LEMMA StepMoves ==
    ASSUME TypeOK, OneHolder, [Next]_vars, NEW j \in Job
    PROVE  FateMove(j)
<1>1. ASSUME NEW u \in Url, NEW k \in Job, AddJob(u, k)
      PROVE  FateMove(j)
  BY <1>1 DEF AddJob, FateMove, TypeOK
<1>2. ASSUME NEW w \in Worker, Connected(w)
      PROVE  FateMove(j)
  <2>1. Settles(w, fate)
    BY <1>2, SettlesNothing DEF Connected, OneHolder, MiddleOfJob
  <2> QED BY <1>2, <2>1, LoopMoves DEF Connected, AfterJob, Leave, FateMove
<1>3. ASSUME NEW w \in Worker, IdleTimeout(w)
      PROVE  FateMove(j)
  <2>1. Settles(w, fate)
    BY <1>3, SettlesNothing DEF IdleTimeout, OneHolder, MiddleOfJob
  <2> QED BY <1>3, <2>1, LoopMoves DEF IdleTimeout, AfterJob, Leave, FateMove
<1>4. ASSUME NEW w \in Worker, JobReturns(w)
      PROVE  FateMove(j)
  BY <1>4, SettlesByRule, LoopMoves DEF JobReturns, Outcome
<1>5. ASSUME NEW w \in Worker, Reconnected(w)
      PROVE  FateMove(j)
  <2>1. CASE HasRetries(retries[w] + 1)
    <3>1. job[w] \in Job /\ fate[job[w]] = "running"
      BY <1>5 DEF Reconnected, OneHolder, MiddleOfJob, FateAgrees, TypeOK
    <3>2. tries' = [tries EXCEPT ![job[w]] = @ + 1] /\ fate' = fate
      BY <1>5, <2>1 DEF Reconnected
    <3> QED BY <3>1, <3>2 DEF FateMove, TypeOK
  <2>2. CASE ~HasRetries(retries[w] + 1)
    BY <1>5, <2>2, SettlesByRule, LoopMoves DEF Reconnected, Outcome
  <2> QED BY <2>1, <2>2
<1>6. ASSUME NEW w \in Worker, ReconnectFails(w)
      PROVE  FateMove(j)
  <2>1. job[w] \in Job /\ fate[job[w]] = "running"
    BY <1>6 DEF ReconnectFails, OneHolder, MiddleOfJob, FateAgrees, TypeOK
  <2> QED BY <1>6, <2>1 DEF ReconnectFails, FateMove, TypeOK
<1>7. ASSUME NEW w \in Worker, ConnectFails(w) \/ ShutdownDone(w)
      PROVE  FateMove(j)
  BY <1>7, RetireMoves DEF ConnectFails, ShutdownDone
<1>8. ASSUME UNCHANGED <<fate, tries>>
      PROVE  FateMove(j)
  BY <1>8 DEF FateMove
<1> QED
  BY <1>1, <1>2, <1>3, <1>4, <1>5, <1>6, <1>7, <1>8
     DEF Next, doWork, vars, JoblessCall, Start, JobThrows

\* A job that is called for the first time was at the head of a queue.
LEMMA StartsAtHead ==
    ASSUME TypeOK, OneHolder, [Next]_vars, NEW j \in Job,
           fate[j] = "queued", fate'[j] = "running"
    PROVE  \E w \in Worker : queue[w] # <<>> /\ j = Head(queue[w])
<1>1. ASSUME NEW w \in Worker, NEW f, Settles(w, f), NEW r, AfterJob(w, f, r)
      PROVE  queue[w] # <<>> /\ j = Head(queue[w])
  <2>1. j # job[w]
    BY DEF OneHolder, FateAgrees
  <2>2. f[j] = "queued" /\ f \in [Job -> Fate]
    BY <1>1, <2>1 DEF Settles
  <2>3. CASE RunNextJob(w, f, r)
    <3>1. Head(queue[w]) \in Job
      BY <2>3 DEF RunNextJob, TypeOK
    <3> QED BY <2>2, <2>3, <3>1 DEF RunNextJob, Run
  <2>4. CASE DropQueue(w, f, r)
    BY <2>2, <2>4 DEF DropQueue
  <2>5. CASE queue[w] = <<>> /\ fate' = f /\ Wait(w)
    BY <2>2, <2>5
  <2> QED BY <1>1, <2>3, <2>4, <2>5 DEF AfterJob, NextJob
<1>2. ASSUME NEW w \in Worker, Connected(w) \/ IdleTimeout(w)
      PROVE  queue[w] # <<>> /\ j = Head(queue[w])
  <2>1. Settles(w, fate)
    BY <1>2, SettlesNothing DEF Connected, IdleTimeout, OneHolder, MiddleOfJob
  <2> QED BY <1>1, <1>2, <2>1 DEF Connected, IdleTimeout, AfterJob, Leave
<1>3. ASSUME NEW w \in Worker, JobReturns(w) \/ Reconnected(w)
      PROVE  queue[w] # <<>> /\ j = Head(queue[w])
  <2>1. \A s \in Outcome : Settles(w, [fate EXCEPT ![job[w]] = s])
    BY SettlesByRule
  <2> QED BY <1>1, <1>3, <2>1 DEF JobReturns, Reconnected, Outcome
<1>4. ASSUME NEW w \in Worker, Retire(w) \/ ReconnectFails(w)
      PROVE  FALSE
  BY <1>4 DEF Retire, ReconnectFails, TypeOK
<1>5. ASSUME NEW u \in Url, NEW k \in Job, AddJob(u, k)
      PROVE  FALSE
  BY <1>5 DEF AddJob, TypeOK
<1> QED
  BY <1>2, <1>3, <1>4, <1>5
     DEF Next, doWork, vars, JoblessCall, Start, JobThrows, ConnectFails, ShutdownDone

\* What ServedInOrder says of one step.
LEMMA OrderStep ==
    ASSUME TypeOK, OneHolder, [Next]_vars,
           NEW w \in Worker, NEW i \in DOMAIN queue[w], NEW k \in DOMAIN queue[w],
           i < k, fate'[queue[w][k]] = "running"
    PROVE  fate'[queue[w][i]] # "queued"
<1>1. queue[w][k] \in Job /\ i \in Nat /\ k \in Nat /\ i >= 1
  BY DEF TypeOK
<1>2. fate[queue[w][k]] = "queued"
  BY <1>1 DEF OneHolder, FateAgrees, Waiting
<1>3. PICK x \in Worker : queue[x] # <<>> /\ queue[w][k] = Head(queue[x])
  BY <1>1, <1>2, StartsAtHead
<1>4. 1 \in DOMAIN queue[x] /\ Head(queue[x]) = queue[x][1]
  BY <1>3, TailFacts DEF TypeOK
<1>5. QueuesApart
  BY DEF OneHolder
<1>6. k = 1
  <2>1. queue[w][k] = queue[x][1]
    BY <1>3, <1>4
  <2> QED BY <1>4, <1>5, <2>1 DEF QueuesApart
<1> QED BY <1>1, <1>6

\* The pool starts where the job service starts.
LEMMA ServiceInit ==
    ASSUME Init
    PROVE  Service!Init
BY DEF Init, Service!Init

\* Each step of the pool is a step of the job service.
LEMMA ServiceStep ==
    ASSUME TypeOK, TypeOK', OneHolder, TryLimit', [Next]_vars
    PROVE  Service!Next
<1> DEFINE status(j) ==
       CASE fate[j] = "queued" -> "accepted"
         [] fate[j] \in {"givenUp", "lost"} -> "abandoned"
         [] OTHER -> fate[j]
<1>1. \A j \in Job : /\ fate[j] \in Fate /\ fate'[j] \in Fate
                     /\ tries[j] \in Nat /\ tries'[j] \in 0..(max_retries + 1)
  BY ConstantsAssumption DEF TypeOK, TryLimit
<1>2. \A j \in Job : status(j)' \in Service!Status
  BY <1>1 DEF Service!Status, Fate
<1>3. tries' \in [Job -> 0..(max_retries + 1)]
  BY <1>1 DEF TypeOK
<1>4. ASSUME NEW j \in Job
      PROVE  \/ status(j)' = status(j) /\ tries'[j] = tries[j]
             \/ /\ status(j) = "new" /\ status(j)' = "accepted"
                /\ tries'[j] = tries[j]
             \/ /\ status(j) \in {"accepted", "running"} /\ status(j)' = "running"
                /\ tries[j] < max_retries + 1 /\ tries'[j] = tries[j] + 1
             \/ /\ status(j) = "running" /\ status(j)' = "done"
                /\ tries'[j] = tries[j]
             \/ /\ status(j) \in {"accepted", "running"} /\ status(j)' = "abandoned"
                /\ tries'[j] = tries[j]
  BY <1>1, StepMoves, ConstantsAssumption DEF FateMove, Fate
<1> QED
  BY <1>2, <1>3, <1>4
     DEF Service!Next, Service!JobMove, Service!Rests, Service!Accept,
         Service!Attempt, Service!Finish, Service!Abandon

-----------------------------------------------------------------------------
(* The theorems                                                            *)

\* What holds in every reachable state.
IInv == TypeOK /\ PoolBound /\ OneHolder /\ TryLimit /\ TriesFresh /\ IdleWillLook

\* The inductive invariant holds at the start.
LEMMA InitHolds ==
    ASSUME Init
    PROVE  IInv
<1>1. TypeOK
  BY ConstantsAssumption DEF Init, TypeOK, WorkerState, Place, Fate
<1>2. PoolBound
  BY ConstantsAssumption DEF Init, PoolBound, Listed
<1>3. OneHolder
  BY ConstantsAssumption
     DEF Init, OneHolder, QueuesApart, JobsApart, FateAgrees, MiddleOfJob, Waiting
<1>4. TryLimit /\ TriesFresh /\ IdleWillLook
  BY ConstantsAssumption DEF Init, TryLimit, TriesFresh, IdleWillLook, idle
<1> QED BY <1>1, <1>2, <1>3, <1>4 DEF IInv

\* Every step keeps the inductive invariant.
LEMMA StepHolds ==
    ASSUME IInv, [Next]_vars
    PROVE  IInv'
<1>1. TypeOK /\ PoolBound /\ OneHolder /\ TryLimit /\ TriesFresh /\ IdleWillLook
  BY DEF IInv
<1>2. Busy
  BY <1>1 DEF Busy, OneHolder, MiddleOfJob, TryLimit, TypeOK
<1>3. TypeOK'
  BY <1>1, <1>2, TypeStep
<1>4. PoolBound' /\ OneHolder' /\ TryLimit' /\ TriesFresh' /\ IdleWillLook'
  BY <1>1, PoolStep, HolderStep, TryStep, IdleStep
<1> QED BY <1>3, <1>4 DEF IInv

\* The conjunction of the invariants of the pool, with the freshness of jobs
\* that are still waiting, is inductive: it holds in every reachable state,
\* whatever the jobs, workers, limits and faults (Worker.cpp:28-109).
THEOREM PoolInvariant == Spec => []IInv
<1>1. Init => IInv
  BY InitHolds
<1>2. IInv /\ [Next]_vars => IInv'
  BY StepHolds
<1> QED BY <1>1, <1>2, PTL DEF Spec

\* Every variable of the pool stays within its type; in particular no worker
\* counts more than max_retries + 1 failures (Worker.cpp:30, 75).
THEOREM TypesHold == Spec => []TypeOK
<1>1. IInv => TypeOK
  BY DEF IInv
<1> QED BY <1>1, PoolInvariant, PTL

\* No list outgrows MAX_WORKERS_PER_URL and no worker is lost or listed twice
\* (WorkerManager.hpp:19-37, Worker.cpp:31-37).
THEOREM PoolIsBounded == Spec => []PoolBound
<1>1. IInv => PoolBound
  BY DEF IInv
<1> QED BY <1>1, PoolInvariant, PTL

\* A job is never held at two places at once, nor after it was settled
\* (Worker.hpp:54-66, Worker.cpp:41-80).
THEOREM JobsHaveOneHolder == Spec => []OneHolder
<1>1. IInv => OneHolder
  BY DEF IInv
<1> QED BY <1>1, PoolInvariant, PTL

\* No job is attempted more than max_retries + 1 times (Worker.cpp:43, 74-75).
THEOREM TriesAreLimited == Spec => []TryLimit
<1>1. IInv => TryLimit
  BY DEF IInv
<1> QED BY <1>1, PoolInvariant, PTL

\* A worker that says it is idle will look at its queue again
\* (Worker.hpp:52, Worker.cpp:85-98).
THEOREM IdleWorkersWillLook == Spec => []IdleWillLook
<1>1. IInv => IdleWillLook
  BY DEF IInv
<1> QED BY <1>1, PoolInvariant, PTL

\* A worker starts the jobs of its queue in the order they were added, also
\* across failures, reconnections and idle times (Worker.hpp:54-66).
THEOREM QueuesServedInOrder == Spec => ServedInOrder
<1>1. IInv /\ [Next]_vars =>
         \A w \in Worker : \A i, k \in DOMAIN queue[w] :
            i < k /\ fate'[queue[w][k]] = "running" => fate'[queue[w][i]] # "queued"
  BY OrderStep DEF IInv
<1> QED BY <1>1, PoolInvariant, PTL DEF Spec, ServedInOrder

\* The pool implements the job service: whatever workers, connections and
\* failures do, each job moves along the edges of JobService and no others
\* (Worker.cpp:28-109).
THEOREM PoolIsAJobService == Spec => ImplementsJobService
<1>1. Init => Service!Init
  BY ServiceInit
<1>2. IInv /\ IInv' /\ [Next]_vars => Service!Next
  BY ServiceStep DEF IInv
<1> QED BY <1>1, <1>2, PoolInvariant, PTL DEF Spec, Service!Spec, ImplementsJobService
=============================================================================
