------------------------------- MODULE Mirror -------------------------------
(***************************************************************************)
(* What the daemon is for: the remote copy of each file follows the local  *)
(* one.  This composes the worker pool with the event loop that feeds it   *)
(* (mainProcess.cpp:98-138), after the start-up sync has given it its      *)
(* first uploads, and with what the three kinds of job do between their    *)
(* suspensions (jobs/upload.cpp, jobs/delete.cpp).                         *)
(*                                                                         *)
(* A content is the number of the operation that wrote it, 0 if there is   *)
(* no file; it stands for its MD5 sum as well.  The server checks the etag *)
(* of an upload and handles requests of different connections in any       *)
(* order.  An upload that fails is caught inside the job and leaves the    *)
(* connection as it is, for the next job to fail on; only a delete that    *)
(* fails makes the worker reconnect.  Files are never empty nor ignored.   *)
(***************************************************************************)
EXTENDS WorkerPool

CONSTANTS
    File,      \* local files
    urlOf,     \* urlOf[f]: the URL of the entry that f belongs to
    MaxOps,    \* bound on the operations of other processes on the files
    JobFault   \* what may happen to a job: its upload fails, or the 404 that
               \* answers a delete has a body

ASSUME MirrorAssumption ==
    /\ urlOf \in [File -> Url]
    /\ IsFiniteSet(File)
    /\ MaxOps \in Nat /\ MaxOps > Cardinality(File)
    /\ JobFault \subseteq {"upload", "body"}
    /\ JobFault # {} => "job" \in Fault

VARIABLES
    local,     \* content of each local file
    remote,    \* content of its remote copy
    events,    \* what is still to become a job: uploads of the start-up sync,
               \* then inotify events
    ops,       \* operations so far (bounded); each upload of the start-up sync
               \* counts as one of them
    alive,     \* the event loop has not ended with an exception
    work,      \* the event that each job was created for
    step,      \* what the job that a worker runs will do next
    md5,       \* the local md5 that it took
    body,      \* the content that it sends
    conn,      \* what a worker can do with its connection
    apart,     \* history: no file ever had jobs on two workers at a time
    behind     \* history: files whose last job came to nothing

mirrorVars == <<local, remote, events, ops, alive, work, step, md5, body, conn>>

Event == [kind : {"synced", "closed", "deleted"}, file : File]
Step == {"start", "head", "open", "put", "unanswered", "failed", "finished"}

\* stale: what is read next is the rest of an answer that was not read.
Conn == {"good", "broken", "stale"}

\* The start-up sync has found the files of missing to have no copy.
MirrorInit ==
    /\ Init
    /\ local \in [File -> {0, 1}]
    /\ \E missing \in SUBSET {f \in File : local[f] = 1} :
          /\ remote = [f \in File |-> IF f \in missing THEN 0 ELSE local[f]]
          /\ \E order \in SetToSeqs(missing) :
                events = [k \in DOMAIN order |-> [kind |-> "synced", file |-> order[k]]]
          /\ ops = 1 + Cardinality(missing)
    /\ alive = TRUE
    /\ work = [j \in Job |-> NoJob]
    /\ step = [w \in Worker |-> "start"]
    /\ md5 = [w \in Worker |-> 0]
    /\ body = [w \in Worker |-> 0]
    /\ conn = [w \in Worker |-> "good"]
    /\ apart = TRUE
    /\ behind = {}

-----------------------------------------------------------------------------
(* The other processes and the event loop                                  *)

\* A file is written and closed, or removed.
WriteFile(f) ==
    /\ ops < MaxOps
    /\ ops' = ops + 1
    /\ local' = [local EXCEPT ![f] = ops + 1]
    /\ events' = Append(events, [kind |-> "closed", file |-> f])
    /\ UNCHANGED <<vars, remote, alive, work, step, md5, body, conn>>

RemoveFile(f) ==
    /\ ops < MaxOps
    /\ ops' = ops + 1
    /\ local[f] # 0
    /\ local' = [local EXCEPT ![f] = 0]
    /\ events' = Append(events, [kind |-> "deleted", file |-> f])
    /\ UNCHANGED <<vars, remote, alive, work, step, md5, body, conn>>

\* The event becomes a job of the URL of its file; file_size throws if the
\* file of a close event has gone.  The loop handles what one read has given it
\* without a suspension; one event at a time allows all that, and more.
HandleEvent ==
    /\ events # <<>>
    /\ LET e == Head(events)
       IN  \/ /\ e.kind = "closed" /\ local[e.file] = 0
              /\ alive' = FALSE
              /\ UNCHANGED <<vars, work, events>>
           \/ /\ e.kind = "closed" => local[e.file] # 0
              /\ \E j \in Job :
                    /\ AddJob(urlOf[e.file], j)
                    /\ work' = [work EXCEPT ![j] = e]
              /\ events' = Tail(events)
              /\ UNCHANGED alive
    /\ UNCHANGED <<local, remote, ops, step, md5, body, conn>>

-----------------------------------------------------------------------------
(* The jobs                                                                *)

At(w, s) == pc[w] = "run" /\ step[w] = s

kind(w) == work[job[w]].kind
file(w) == work[job[w]].file

goTo(w, s) == step' = [step EXCEPT ![w] = s]

\* The md5 of the file; if it has gone, the job is over.  makeUploadJob, of the
\* start-up sync, goes straight on to send it; makeConditionalUploadJob has it ...
TakeMD5(w) ==
    /\ At(w, "start") /\ kind(w) # "deleted"
    /\ md5' = [md5 EXCEPT ![w] = local[file(w)]]
    /\ goTo(w, IF local[file(w)] = 0 THEN "finished"
               ELSE IF kind(w) = "synced" THEN "open" ELSE "head")
    /\ UNCHANGED <<vars, local, remote, events, ops, alive, work, body, conn>>

\* ... compared with that of the remote copy, if there is one.
HeadMissingOnly(w) ==   \* bug: an existing copy is never replaced
    /\ At(w, "head") /\ conn[w] = "good"
    /\ goTo(w, IF remote[file(w)] # 0 THEN "finished" ELSE "open")
    /\ UNCHANGED <<vars, local, remote, events, ops, alive, work, md5, body, conn>>
HeadRemote(w) ==
    /\ At(w, "head") /\ conn[w] = "good"
    /\ goTo(w, IF remote[file(w)] = md5[w] THEN "finished" ELSE "open")
    /\ UNCHANGED <<vars, local, remote, events, ops, alive, work, md5, body, conn>>

\* upload opens the file, and throws into its own handler if it has gone.
Open(w) ==
    /\ At(w, "open")
    /\ body' = [body EXCEPT ![w] = local[file(w)]]
    /\ goTo(w, IF local[file(w)] = 0 THEN "finished" ELSE "put")
    /\ UNCHANGED <<vars, local, remote, events, ops, alive, work, md5, conn>>

\* The server takes a body that agrees with the etag.  It does not if the file
\* was not the one of the md5, or was written while it was being read.
ServerPuts(w) ==
    \/ body[w] = md5[w] /\ remote' = [remote EXCEPT ![file(w)] = body[w]]
    \/ /\ body[w] # md5[w] \/ local[file(w)] # body[w]
       /\ UNCHANGED remote

Put(w) ==
    /\ At(w, "put")
    /\ ServerPuts(w)
    /\ goTo(w, "finished")
    /\ UNCHANGED <<vars, local, events, ops, alive, work, md5, body, conn>>

\* The HEAD or the PUT is refused, or lost on its way or on the way back; the
\* exception is caught inside the job.  On a connection that is not good any
\* more, it always is, before there is a PUT.
UploadFails(w) ==
    /\ \/ At(w, "head") /\ UNCHANGED remote
       \/ At(w, "put") /\ (ServerPuts(w) \/ UNCHANGED remote)
    /\ \/ "upload" \in JobFault /\ conn[w] = "good"
          /\ \E c \in {"good", "broken"} : conn' = [conn EXCEPT ![w] = c]
       \/ conn[w] # "good" /\ UNCHANGED conn
    /\ goTo(w, "failed")
    /\ UNCHANGED <<vars, local, events, ops, alive, work, md5, body>>

\* deleteRemoteFile: it does not matter whether there is a copy, but if there is
\* none the body of the answer is skipped and stays on the connection.
Delete(w) ==
    /\ At(w, "start") /\ kind(w) = "deleted" /\ conn[w] # "broken"
    /\ remote' = [remote EXCEPT ![file(w)] = 0]
    /\ \/ /\ conn[w] = "good"
          /\ goTo(w, "finished")
          /\ \/ UNCHANGED conn
             \/ /\ "body" \in JobFault /\ remote[file(w)] = 0
                /\ conn' = [conn EXCEPT ![w] = "stale"]
       \/ /\ conn[w] = "stale"
          /\ goTo(w, "unanswered")
          /\ UNCHANGED conn
    /\ UNCHANGED <<vars, local, events, ops, alive, work, md5, body>>

jobStep(w) ==
    TakeMD5(w) \/ HeadRemote(w) \/ Open(w) \/ Put(w) \/ UploadFails(w) \/ Delete(w)

\* A step of doWork.  Only a delete throws: before the server has seen it, or
\* when its answer is lost.
poolStep(w) ==
    /\ \/ Start(w) \/ Connected(w) \/ ConnectFails(w)
       \/ Reconnected(w) \/ ReconnectFails(w)
       \/ IdleTimeout(w) \/ ShutdownDone(w)
       \/ JobReturns(w) /\ step[w] \in {"finished", "failed"}
       \/ JobThrows(w) /\ kind(w) = "deleted"
    /\ UNCHANGED <<local, remote, events, ops, alive, work>>

\* A job that is called, or called again, starts afresh.  Connecting, again or
\* for the first time, clears the read buffer.
workerStepResumes(w) ==   \* bug: a job carries on where the last one ended
    poolStep(w) /\ UNCHANGED <<step, md5, body, conn>>
workerStep(w) ==
    /\ poolStep(w)
    /\ goTo(w, "start")
    /\ md5' = [md5 EXCEPT ![w] = 0]
    /\ body' = [body EXCEPT ![w] = 0]
    /\ conn' = [conn EXCEPT ![w] = IF pc[w] \in {"run", "idle"} THEN @ ELSE "good"]

-----------------------------------------------------------------------------
Holds(w, j) == job[w] = j \/ Waiting(w, j)

\* Two workers hold jobs of one file.
Overlap ==
    \E w, x \in Worker : \E i, j \in Job :
       w # x /\ Holds(w, i) /\ Holds(x, j) /\ work[i].file = work[j].file

\* The jobs that end in a step: those that did what they are for, and others.
Succeeds(j) ==
    \E w \in Worker : job[w] = j /\ step[w] = "finished" /\ fate'[j] = "done"
ComesToNothing(j) ==
    fate'[j] # fate[j] /\ fate'[j] \in {"done", "givenUp", "lost"} /\ ~Succeeds(j)

FilesOf(jobs) == {work[j].file : j \in jobs}

\* An exception ends the event loop and destroys the pool under its workers
\* (mainProcess.cpp:215-226): nothing is said of what they do then.
MirrorNext ==
    /\ alive
    /\ \/ \E f \in File : WriteFile(f)
       \/ \E f \in File : RemoveFile(f)
       \/ HandleEvent
       \/ \E w \in Worker : jobStep(w)
       \/ \E w \in Worker : workerStep(w)
    /\ apart' = (apart /\ ~Overlap')
    /\ behind' = (behind \ FilesOf({j \in Job : Succeeds(j)}))
                  \cup FilesOf({j \in Job : ComesToNothing(j)})

MirrorSpec == MirrorInit /\ [][MirrorNext]_<<vars, mirrorVars, apart, behind>>

-----------------------------------------------------------------------------
(* Properties                                                              *)

\* A worker is in the middle of a job only while it runs one.
MirrorTypeOK ==
    /\ local \in [File -> 0..MaxOps]
    /\ remote \in [File -> 0..MaxOps]
    /\ events \in Seq(Event)
    /\ ops \in 0..MaxOps
    /\ alive \in BOOLEAN
    /\ work \in [Job -> Event \cup {NoJob}]
    /\ step \in [Worker -> Step]
    /\ \A w \in Worker : step[w] # "start" => pc[w] = "run"
    /\ md5 \in [Worker -> 0..MaxOps]
    /\ body \in [Worker -> 0..MaxOps]
    /\ conn \in [Worker -> Conn]
    /\ apart \in BOOLEAN
    /\ behind \subseteq File

\* Nothing is left to do.
Settled ==
    events = <<>> /\ \A j \in Job : fate[j] \in {"new", "done", "givenUp", "lost"}

\* As long as the jobs of a file follow each other on one worker, and the last
\* of them did not come to nothing, the copy ends up equal to the file: whatever
\* is written or removed while a job is taking the md5, asking the server,
\* opening or sending the file, however often a delete is called again, and
\* whatever the jobs before it left undone, half done or done unnoticed
\* (upload.cpp:56-140, 149-217, delete.cpp:10-49).
CopyFollowsFile ==
    Settled /\ apart => \A f \in File \ behind : remote[f] = local[f]

\* (README.md:3) The daemon synchronizes changes of the file system to the
\* server: when all is settled, and no job came to nothing, the copy is equal to
\* the file.
Synchronized == Settled /\ behind = {} => remote = local
=============================================================================
