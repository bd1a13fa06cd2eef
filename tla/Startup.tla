------------------------------ MODULE Startup ------------------------------
(***************************************************************************)
(* A run of the program from main to the event loop, or to the end of a    *)
(* listing (main.cpp, mainProcess.cpp, login.cpp, AccountCache.cpp,        *)
(* syncAllDirectories.cpp).                                                *)
(*                                                                         *)
(* When the configuration is read, the main coroutine waits twice on a ten *)
(* minute timer: for loginWorkers, each of which fetches the account of    *)
(* every entry, and for syncWorkers, one for each entry.  The last of them *)
(* to finish cancels the timer.  The counters and the timers are locals of *)
(* login and of syncAllDirectories, and the coroutines hold references to  *)
(* them.  A coroutine runs up to its first suspension when it is spawned.  *)
(***************************************************************************)
EXTENDS Config

CONSTANTS
    username,     \* username[f]: the account that the file f names
    Catalogue,    \* the files that may find their region in the catalogue of
                  \* their account: the sets that are possible
    NLogins,      \* login coroutines, 2 in the code
    Fault         \* what may go wrong

Login == 1..NLogins

ASSUME ConstantsAssumption ==
    /\ NLogins \in Nat \ {0}
    /\ username \in [ConfigFile -> STRING]
    /\ Catalogue \subseteq SUBSET ConfigFile
    /\ Fault \subseteq {"config", "connect", "write", "read", "sync", "watch",
                       "slow"}

VARIABLES
    command,       \* the option that the program was started with
    main,          \* what the main coroutine waits for, or that it ended
    process,       \* the process as a whole
    loginPc,       \* where each login coroutine is suspended
    loginNext,     \* the entry whose account it asks for
    loginWorkers,  \* the local counter of login
    loginTimer,    \* waitForLogins
    accounts,      \* the usernames in the AccountCache
    listed,        \* entries that --list has written
    syncPc,        \* where the sync coroutine of each entry is suspended
    syncWorkers,   \* the local counter of syncAllDirectories
    syncTimer      \* waitForSync

loginVars == <<loginPc, loginNext, loginWorkers, loginTimer, accounts>>
syncVars == <<syncPc, syncWorkers, syncTimer>>
startVars == <<command, configVars>>
vars == <<startVars, main, process, loginVars, listed, syncVars>>

\* Entries are numbered in the order of the configuration.
N == Len(entries)
Entry == 1..N
usernameOf(e) == username[entries[e]]

\* undefined: a coroutine has touched a local of a function that has returned
\* refused: main returned -1
Process == {"up", "exited", "refused", "aborted", "undefined"}
Timer == {"armed", "cancelled", "expired"}

Init ==
    /\ ConfigInit
    /\ command \in {"create-sample", "list", "go"}
    /\ main = "config"
    /\ process = "up"
    /\ loginPc = [i \in Login |-> "none"]
    /\ loginNext = [i \in Login |-> 1]
    /\ loginWorkers = NLogins
    /\ loginTimer = "armed"
    /\ accounts = {}
    /\ listed = 0
    /\ syncPc = <<>>
    /\ syncWorkers = 0
    /\ syncTimer = "armed"

\* An exception that leaves a coroutine ends ios.run, and main returns.
Exit ==
    /\ process' = "exited"
    /\ UNCHANGED <<startVars, main, loginVars, listed, syncVars>>

\* A failed assert, or LOG_S(FATAL).
Abort ==
    /\ process' = "aborted"
    /\ UNCHANGED <<startVars, main, loginVars, listed, syncVars>>

\* timer.cancel wakes a waiter that the timer has not woken already.
cancel(timer) == IF timer = "armed" THEN "cancelled" ELSE timer

-----------------------------------------------------------------------------
(* The configuration                                                       *)

\* --create-sample writes a file, or is refused, and does nothing else.
CreateSample ==
    /\ command = "create-sample"
    /\ \E f \in ConfigFile :
          \/ SampleWritten(f) /\ process' = "exited"
          \/ SampleRefused(f) /\ process' = "refused"
    /\ UNCHANGED <<command, main, loginVars, listed, syncVars>>

ReadConfigFile ==
    /\ command # "create-sample"
    /\ main = "config"
    /\ \E f \in unread :
          \/ readFile(f)
          \/ "config" \in Fault /\ readFileFails(f)
    /\ UNCHANGED <<command, main, process, loginVars, listed, syncVars>>

\* read_config rethrows what the directory iterator throws, out of main.
ReadConfigFails ==
    /\ command # "create-sample"
    /\ main = "config" /\ "config" \in Fault
    /\ Abort

\* The main coroutine is spawned.  It creates the inotify watches, which may
\* throw, and login spawns its coroutines and waits for them.
SpawnMain ==
    /\ command # "create-sample"
    /\ main = "config" /\ unread = {}
    /\ syncPc' = [e \in Entry |-> "none"]
    /\ \/ /\ main' = "login"
          /\ loginPc' = [i \in Login |-> "connect"]
       \/ /\ command = "go" /\ "watch" \in Fault
          /\ main' = "unwatched"
          /\ UNCHANGED loginPc
    /\ UNCHANGED <<startVars, process, loginNext, loginWorkers, loginTimer,
                   accounts, listed, syncWorkers, syncTimer>>

read_config == CreateSample \/ ReadConfigFile \/ ReadConfigFails \/ SpawnMain

-----------------------------------------------------------------------------
(* The login coroutines                                                    *)

\* The callback that fillAccountCache calls when it has asked for each account.
onDoneFirst(i) ==   \* bug: the first one to finish wakes the main coroutine
    /\ loginPc' = [loginPc EXCEPT ![i] = "done"]
    /\ loginWorkers' = loginWorkers - 1
    /\ loginTimer' = cancel(loginTimer)
    /\ UNCHANGED loginNext
onDoneUncounted(i) ==   \* bug: each coroutine counts down at both its ends
    /\ loginPc' = [loginPc EXCEPT ![i] = "done"]
    /\ loginWorkers' = loginWorkers - 2
    /\ loginTimer' = IF loginWorkers' = 0 THEN cancel(loginTimer) ELSE loginTimer
    /\ UNCHANGED loginNext
onDoneMute(i) ==    \* bug: the last one to finish does not wake it
    /\ loginPc' = [loginPc EXCEPT ![i] = "done"]
    /\ loginWorkers' = loginWorkers - 1
    /\ UNCHANGED <<loginNext, loginTimer>>
onDone(i) ==
    /\ loginPc' = [loginPc EXCEPT ![i] = "done"]
    /\ loginWorkers' = loginWorkers - 1
    /\ loginTimer' = IF loginWorkers' = 0 THEN cancel(loginTimer) ELSE loginTimer
    /\ UNCHANGED loginNext

\* Go on to the request for the account of entry e, if there is such an entry.
RequestAccount(i, e) ==
    \/ /\ e <= N
       /\ loginPc' = [loginPc EXCEPT ![i] = "write"]
       /\ loginNext' = [loginNext EXCEPT ![i] = e]
       /\ UNCHANGED <<loginWorkers, loginTimer>>
    \/ e > N /\ onDone(i)

LoginConnected(i) ==
    /\ loginPc[i] = "connect"
    /\ RequestAccount(i, 1)
    /\ UNCHANGED <<startVars, main, process, accounts, listed, syncVars>>

LoginWritten(i) ==
    /\ loginPc[i] = "write"
    /\ loginPc' = [loginPc EXCEPT ![i] = "read"]
    /\ UNCHANGED <<startVars, main, process, loginNext, loginWorkers, loginTimer,
                   accounts, listed, syncVars>>

LoginRead(i) ==
    /\ loginPc[i] = "read"
    /\ accounts' = accounts \cup {usernameOf(loginNext[i])}
    /\ RequestAccount(i, loginNext[i] + 1)
    /\ UNCHANGED <<startVars, main, process, listed, syncVars>>

\* The connection or the answer fails: nothing catches it.  An answer without
\* a cloudFiles catalogue, and a failed write, are LOG_S(FATAL).
LoginFails(i) ==
    \/ /\ loginPc[i] = "connect" /\ "connect" \in Fault
       /\ Exit
    \/ /\ loginPc[i] = "write" /\ "write" \in Fault
       /\ Abort
    \/ /\ loginPc[i] = "read" /\ "read" \in Fault
       /\ Exit \/ Abort

LoginTimerExpires ==
    /\ "slow" \in Fault
    /\ main = "login" /\ loginTimer = "armed"
    /\ loginTimer' = "expired"
    /\ UNCHANGED <<startVars, main, process, loginPc, loginNext, loginWorkers,
                   accounts, listed, syncVars>>

-----------------------------------------------------------------------------
(* The main coroutine                                                      *)

\* accounts.at and getURL throw out of the spawning loop when they find nothing.
CanSpawn(e, known) == usernameOf(e) \in accounts /\ entries[e] \in known

\* login returns and syncAllDirectories spawns a coroutine for each entry, up
\* to the first that throws.
LoginReturns ==
    /\ command = "go"
    /\ main = "login"
    /\ loginTimer # "armed"
    /\ loginWorkers = 0
    /\ \E known \in Catalogue :
          LET spawned == {e \in Entry : \A d \in 1..e : CanSpawn(d, known)}
          IN  /\ main' = IF spawned = Entry THEN "sync" ELSE "failed"
              /\ syncPc' = [e \in Entry |->
                    IF e \in spawned THEN "connect" ELSE "none"]
              /\ syncWorkers' = Cardinality(spawned)
    /\ UNCHANGED <<startVars, process, loginVars, listed, syncTimer>>

\* login returns, and --list asks for one container after the other.
StartListing ==
    /\ command = "list"
    /\ main = "login"
    /\ loginTimer # "armed"
    /\ loginWorkers = 0
    /\ main' = "list"
    /\ UNCHANGED <<startVars, process, loginVars, listed, syncVars>>

\* The assertion at the end of login.
LoginTimedOut ==
    /\ main = "login"
    /\ loginTimer # "armed"
    /\ loginWorkers # 0
    /\ Abort

LoginTimedOutIgnored ==   \* bug: login returns although its workers still run
    /\ main = "login"
    /\ loginTimer # "armed"
    /\ loginWorkers # 0
    /\ main' = "sync"
    /\ syncPc' = [e \in Entry |-> "connect"]
    /\ syncWorkers' = N
    /\ UNCHANGED <<startVars, process, loginVars, listed, syncTimer>>
AfterLoginUnchecked == LoginReturns \/ StartListing \/ LoginTimedOutIgnored
AfterLogin == LoginReturns \/ StartListing \/ LoginTimedOut

\* The account is there, its catalogue has the region, and the server answers.
ListEntry ==
    /\ main = "list" /\ listed < N
    /\ \/ /\ \E known \in Catalogue : CanSpawn(listed + 1, known)
          /\ listed' = listed + 1
          /\ UNCHANGED <<startVars, main, process, loginVars, syncVars>>
       \/ /\ \/ \E known \in Catalogue : ~CanSpawn(listed + 1, known)
             \/ "sync" \in Fault
          /\ Exit

ListEnds ==
    /\ main = "list" /\ listed = N
    /\ Exit

\* syncAllDirectories returns, whatever woke it, and the event loop starts.
AfterSync ==
    /\ main = "sync"
    /\ syncTimer # "armed"
    /\ main' = "watch"
    /\ UNCHANGED <<startVars, process, loginVars, listed, syncVars>>

\* An exception ends the event loop; accounts and workers are destroyed.
WatchFails ==
    /\ "watch" \in Fault
    /\ main = "watch"
    /\ main' = "failed"
    /\ UNCHANGED <<startVars, process, loginVars, listed, syncVars>>

\* ios.run has nothing left to run.
RunReturns ==
    /\ main \in {"unwatched", "failed"}
    /\ \A e \in Entry : syncPc[e] \in {"none", "done"}
    /\ Exit

-----------------------------------------------------------------------------
(* The sync coroutines                                                     *)

\* ~CountSentry, while syncAllDirectories is still waiting ...
CountDownMute(e) ==   \* bug: the last one to finish does not wake it
    /\ main = "sync"
    /\ syncPc' = [syncPc EXCEPT ![e] = "done"]
    /\ syncWorkers' = syncWorkers - 1
    /\ UNCHANGED <<startVars, main, process, loginVars, listed, syncTimer>>
CountDown(e) ==
    /\ main = "sync"
    /\ syncPc' = [syncPc EXCEPT ![e] = "done"]
    /\ syncWorkers' = syncWorkers - 1
    /\ syncTimer' = IF syncWorkers' = 0 THEN cancel(syncTimer) ELSE syncTimer
    /\ UNCHANGED <<startVars, main, process, loginVars, listed>>

\* ... and after it has returned: the counter and the timer are gone.
CountDownDangling ==
    /\ main # "sync"
    /\ process' = "undefined"
    /\ UNCHANGED <<startVars, main, loginVars, listed, syncVars>>

SyncFinishes(e) == CountDown(e) \/ CountDownDangling

\* Connected: there is nothing to upload, or the listing starts.  The account
\* of the entry went away with the main coroutine, if that has failed.
SyncConnected(e) ==
    /\ syncPc[e] = "connect"
    /\ \/ SyncFinishes(e)
       \/ /\ main # "failed"
          /\ syncPc' = [syncPc EXCEPT ![e] = "list"]
          /\ UNCHANGED <<startVars, main, process, loginVars, listed, syncWorkers,
                         syncTimer>>

\* The listing is merged with the local files and the uploads are queued.
SyncListed(e) ==
    /\ syncPc[e] = "list"
    /\ SyncFinishes(e)

SyncFails(e) ==
    /\ "sync" \in Fault
    /\ syncPc[e] \in {"connect", "list"}
    /\ Exit

SyncTimerExpires ==
    /\ "slow" \in Fault \/ N = 0
    /\ main = "sync" /\ syncTimer = "armed"
    /\ syncTimer' = "expired"
    /\ UNCHANGED <<startVars, main, process, loginVars, listed, syncPc, syncWorkers>>

-----------------------------------------------------------------------------
login(i) == LoginConnected(i) \/ LoginWritten(i) \/ LoginRead(i) \/ LoginFails(i)

syncOneConfigEntry(e) == SyncConnected(e) \/ SyncListed(e) \/ SyncFails(e)

Next ==
    /\ process = "up"
    /\ \/ read_config
       \/ \E i \in Login : login(i)
       \/ LoginTimerExpires
       \/ AfterLogin
       \/ ListEntry
       \/ ListEnds
       \/ \E e \in DOMAIN syncPc : syncOneConfigEntry(e)
       \/ SyncTimerExpires
       \/ AfterSync
       \/ WatchFails
       \/ RunReturns

Spec == Init /\ [][Next]_vars

\* The io_service runs what is ready, and every network operation is assumed to
\* end.  Nothing is assumed of the two timers, which may or may not be too
\* short, but where nothing is spawned that could cancel the second one.
Fairness ==
    /\ WF_vars(process = "up" /\ read_config)
    /\ \A i \in Login : WF_vars(process = "up" /\ login(i))
    /\ \A e \in 1..Cardinality(ConfigFile) :
          WF_vars(process = "up" /\ e \in DOMAIN syncPc /\ syncOneConfigEntry(e))
    /\ WF_vars(process = "up" /\ (AfterLogin \/ AfterSync))
    /\ WF_vars(process = "up" /\ (ListEntry \/ ListEnds))
    /\ WF_vars(process = "up" /\ entries = <<>> /\ SyncTimerExpires)

FairSpec == Spec /\ Fairness

-----------------------------------------------------------------------------
(* Properties                                                              *)

TypeOK ==
    /\ ConfigTypeOK
    /\ command \in {"create-sample", "list", "go"}
    /\ main \in {"config", "login", "list", "sync", "watch", "failed",
                "unwatched"}
    /\ process \in Process
    /\ loginPc \in [Login -> {"none", "connect", "write", "read", "done"}]
    /\ loginNext \in [Login -> Nat]
    /\ loginWorkers \in 0..NLogins
    /\ loginTimer \in Timer
    /\ accounts \subseteq {usernameOf(e) : e \in Entry}
    /\ listed \in 0..N
    /\ IF main = "config"
       THEN syncPc = <<>>
       ELSE syncPc \in [Entry -> {"none", "connect", "list", "done"}]
    /\ syncWorkers \in 0..N
    /\ syncTimer \in Timer

LoggedIn == main \notin {"config", "unwatched", "login"}

\* "All Rackspace accounts should be initialized by the time this is called"
\* (mainProcess.cpp:95): whatever the order in which the login coroutines
\* interleave, fail or run out of time, nothing after login ever misses the
\* account of an entry.
AccountsReady ==
    LoggedIn =>
       \A e \in Entry : usernameOf(e) \in accounts

\* The main coroutine is woken before the time is up by the last coroutine it
\* waits for, never earlier, and it is never forgotten: both timers, and both
\* counters, agree with what the coroutines have still to do (login.cpp:17-26,
\* syncAllDirectories.cpp:145-161).
WokenByTheLast ==
    /\ loginWorkers = Cardinality({i \in Login : loginPc[i] # "done"})
    /\ loginTimer = "cancelled" => loginWorkers = 0
    /\ loginTimer = "armed" => loginWorkers # 0
    /\ main = "sync" =>
          /\ syncWorkers = Cardinality({e \in Entry : syncPc[e] # "done"})
          /\ syncTimer = "cancelled" => syncWorkers = 0
          /\ syncTimer = "armed" /\ N > 0 => syncWorkers # 0

\* login is a barrier: it returns only when both its coroutines have asked for
\* every account.  When its time is up, it does not return: it aborts the
\* process (login.cpp:30-40).
LoginBarrier ==
    INSTANCE Barrier WITH
       Party <- Login,
       arrived <- {i \in Login : loginPc[i] = "done"},
       passed <- LoggedIn
LoginIsBarrier == LoginBarrier!Spec

\* The start-up ends: the event loop runs, or the daemon is gone.  No wake-up
\* is lost even though nothing is assumed of the ten minute timers.
StartupEnds == <>(main \in {"watch", "failed", "unwatched"} \/ process # "up")

\* If nothing fails and no timer is too short, the event loop is reached, and
\* each entry has been synchronised by then.
HealthyStart ==
    [](/\ process = "up" /\ main \notin {"failed", "unwatched"}
       /\ "expired" \notin {loginTimer, syncTimer})
       => <>(main = "watch" /\ \A e \in Entry : syncPc[e] = "done")

\* A sample that --create-sample has reported as written is one that --go reads
\* as an entry: the writer and the reader agree on keys, patterns and extensions
\* (config_writer.cpp:22-61, config_reader.cpp:74-114).
SampleLoads ==
    command = "create-sample" /\ process = "exited" =>
       \E f \in ConfigFile : content[f] = NoFile /\ loads(f)

-----------------------------------------------------------------------------
(* What the repository says and the code does not do                       *)

\* syncAllDirectories.cpp:165-166: "block the main thread with a timer until
\* they're all done".
BlockedUntilAllDone == main = "watch" => \A e \in Entry : syncPc[e] = "done"
=============================================================================
