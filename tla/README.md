# A verification of cdnalizerd

cdnalizerd watches local directories and copies what changes in them to
Rackspace Cloud Files. This directory holds TLA+ models of the daemon, from its
command line and its configuration to the bytes of its URLs, the TLC configurations
that check them, and machine-checked proofs of every safety property that they check,
for every value of the constants. Paths of the form `Worker.cpp:30` are relative to `src/src/`.

1. [The system](#1-the-system)
2. [The modules](#2-the-modules)
3. [What is checked](#3-what-is-checked)
4. [Fairness](#4-fairness)
5. [What is proved](#5-what-is-proved)
6. [What the code does that its documents deny](#6-what-the-code-does-that-its-documents-deny)
7. [What is not modelled](#7-what-is-not-modelled)
8. [The plan](#8-the-plan)

## 1. The system

### How it runs

There is one `io_service` and one thread (`main.cpp:104-108`). All activity is
in stackful coroutines made by `asio::spawn`; code between two suspensions
(`async_*` calls given a `yield_context`) is atomic, so in every module one
action is one such stretch of code. A spawned coroutine runs at once, up to its
first suspension. Assertions are active in the default build. An exception that
leaves a coroutine leaves `ios.run()`, is logged, and the process ends with exit
code 0 (`main.cpp:107-119`); `LOG_S(FATAL)` and a failed `assert` abort it.

### Components

| Component | State | Operations | Talks to |
|---|---|---|---|
| **Worker pool** (`WorkerManager.hpp`, `Worker.*`, `https.hpp`) | a list of at most three workers per URL; per worker a state, a queue of jobs, the place where its coroutine is suspended, a retry counter; per connection nothing that outlives it | `getWorker`, `launch`, `addJob`, `doWork`, the `onDone` that erases a worker | called by the watch loop and the start-up sync; calls `Job::go` |
| **Jobs** (`jobs/upload.cpp`, `jobs/delete.cpp`, `Job.*`) | the path, the URL, and while one runs the md5 and the open file | conditional upload (md5, HEAD, open, PUT), upload, delete | run by a worker; the local files, the server |
| **Login** (`processes/login.cpp`, `AccountCache.cpp`, `Rackspace.hpp`) | the account cache, a counter of two login coroutines, a ten minute timer | fetch the account of each entry, count down, cancel the timer | must be complete before anything else starts |
| **Start-up sync** (`processes/syncAllDirectories.cpp`) | a counter of coroutines, one per entry, and a ten minute timer; per coroutine the sorted local files and two iterators | list, merge, hand out uploads, count down | account cache, listing, worker pool |
| **Listing** (`processes/list.cpp`) | the page and the marker | one request per page | start-up sync |
| **Inotify wrapper** (`inotify.hpp`) | the maps `watches` (descriptor to path) and `paths` (path to descriptor), the read buffer | `addWatch`, `removeWatch`, `waitForEvent` | the kernel's queue |
| **Watch loop** (`processes/mainProcess.cpp`) | `watchToConfig` (descriptor to entry) | the recursive scan, and one branch per kind of event | inotify wrapper, account cache, worker pool |
| **Configuration** (`config/*`) | entries sorted by `local_dir` | read the files of a directory, validate, insert, look up, ignore rules, write a sample | `main`; everyone else reads it |
| **URLs and paths** (`url.*`, `url_parser.hpp`, `utils.*`) | none | join, encode, parse | everyone |
| **Command line** (`main.cpp`) | the option | write a sample, list, go; end the process | configuration, login, listing, watch loop |
| **Logging, cfsync, moves, experiments** | – | – | – |

### What is hard, and what makes each part correct

`PROJECT.json` lists the hazards one by one, at their lines. In short:

* **Worker pool.** Callers, and the coroutines of the workers themselves, change
  lists, states and queues in between each other's suspensions; any network
  operation may fail. A worker must be in one list, once, as long as its
  coroutine lives; a job must be in one place, be tried a bounded number of
  times, be served in order, and be settled in the end; a worker that says it is
  idle must be one that will look at its queue again.
* **Jobs.** Files change between the md5, the question to the server and the
  upload; jobs about one file may be on two connections at once. The copy must
  end up equal to the file.
* **Login and start-up sync.** Counters and timers are locals that other
  coroutines hold references to. The waiter must be woken by the last one it
  waits for, never earlier and never not at all, and go on only when it may.
* **The merge.** Two sequences in two orders, file names that are put together
  by one function and taken apart by another, and files that change while the
  listing is fetched. Nothing may be missed.
* **URLs.** They are put together by hand and taken apart by a generated automaton,
  for every single upload. What the one lets through the other must take, or an
  exception ends the process; what is sent must be about the object that was
  meant, whatever bytes a file name has.
* **Configuration.** Files come in any order and any of them may be bad; look-up is by
  bisection. Two entries may overlap, which nothing forbids and the watch loop
  has to live with.
* **Watch loop.** It learns of everything late, through a bounded queue, and
  keeps three maps by hand. They must agree with each other and with what the
  kernel has, give or take what is still in the queue or in the read buffer.

## 2. The modules

Dependencies (`<-` is EXTENDS, `<=` is refinement by INSTANCE):

    JobService <= WorkerPool <- MCWorkerPool
                  WorkerPool <- WorkerPoolProofs
                  WorkerPool <- Mirror     <- MCMirror
    WorkerPoolProofs, Mirror <- MirrorProofs
    Barrier    <= Startup    <- MCStartup, StartupProofs
    Config     <- Startup
    FileSystem <- WatchLoop  <- MCWatchLoop, WatchLoopProofs
                  WatchLoopProofs          <- WatchExactProofs
    Url        <- SyncEntry  <- MCSyncEntry, SyncEntryProofs
    Url        <- UrlProofs  <- UrlReadProofs <- SyncEntryProofs

**WorkerPool** models `WorkerManager` and `Worker`. `pc[w]` names the six places
where `doWork` suspends; each action is what follows one of them, up to the next.
`AddJob(u, j)` is `getWorker` followed by `addJob`, which no caller separates by
a suspension. `JoblessCall(u)` is `getWorker` alone: `mainProcess.cpp:101` and
`syncAllDirectories.cpp:78, 130` call it before they know whether there is a job.
`Start` is an action of its own although `asio::spawn` normally enters the
coroutine at once: entry may be deferred when the strand is in use, and the model
allows both. `Retire` is the pair of sentries that run when `doWork` is left;
between the decision to leave and `Retire` lies the suspension of
`async_shutdown` in `~HTTPS` (pc `"shutdown"`), which is the source of most of
what is subtle here. `fate` and `tries` are history variables. A job is a black
box that returns or throws.

**JobService** is what the pool promises of each job, without workers or
connections: handed over once, attempted at most `MaxTries` times, settled for
good. `WorkerPool!ImplementsJobService` is the refinement, with
`status` read off `fate` (`givenUp` and `lost` are both `abandoned`).

**Mirror** composes the pool with its purpose. Other processes write and remove
files, `HandleEvent` turns the oldest event into a job (`mainProcess.cpp:98-138`)
after it has handed out the uploads of the start-up sync,
and the action `JobReturns` of the pool is only taken when the steps of the job
are over: `TakeMD5`, `HeadRemote`, `Open`, `Put` for a conditional upload, one per
suspension, and `Delete`; an upload of the start-up sync does not ask the server, and
goes from `TakeMD5` to `Open`. The content of a file is the number of the operation
that wrote it and stands for its md5. The server refuses a body that does not
agree with the etag (`ServerPuts`). Failures are those of the code: an upload that
fails is caught inside the job (`UploadFails`), whether the server has taken the
file or not, and may leave a broken connection to the next job of its worker
(`conn`); a delete that fails throws, and the worker reconnects and calls it
again; a 404 may leave its body unread, which the next answer is mistaken for
(`conn[w] = "stale"`). Two history variables say what is claimed of which file:
`apart`, no file ever had jobs on two workers at once, and `behind`, the files whose
last job came to nothing.

**Config** is the configuration: files that the directory iterator gives in any
order, what `parseTree` asks of each, `addEntry` with its `lower_bound`,
`getEntryByPath`, and the writer of the sample. Its operators are the first
stage of **Startup**, which models a run of the program: `--create-sample`,
`--list` and `--go`, reading the configuration, then `login`,
`syncAllDirectories` and the hand-over to the event loop, with two counters, two
timers, the login coroutines and one sync coroutine per entry. `--list` and
`--list-detailed` differ in what they print and are one command. `process` is
`"exited"` after an uncaught exception or at the end, `"refused"` when `main` returns
-1, `"aborted"` after a failed assertion, a fatal log line or an exception of
`read_config`, which is called outside of any handler, and `"undefined"` once a
coroutine touches a local of a function that has returned; nothing is said about
what follows undefined behaviour, so that state is final.

**Barrier** is the abstract specification of such a wait; login refines it
(`LoginIsBarrier`), `syncAllDirectories` does not (section 6).

**Url** holds `urlencode`, `joinSlashes` and `URL::parse`. `Transitions` is the table
of `url_parser.hpp` decoded, state by state: on which bytes it goes where, which
fields the text since the last mark is assigned to, and whether a new mark is
set. `run` drives it over a text, as the loop of `URL::parse` does. `urldecode` is
the server's side and external. No state, hence no behaviour of its own: it is
checked by what SyncEntry does with it, and proved about on its own: `UrlProofs` is
about making a URL and decoding its target, `UrlReadProofs` about the automaton.

**SyncEntry** models one sync coroutine in detail: `ListLocal`, the request for
the listing (`doGetPages`) during which files change (`Change`), and one action
per branch of the merge (`SkipDirectory`, `SameName`, `LocalFirst`,
`RemoteFirst`, `Vanished`), then `UploadLeftover`. Each upload builds the URL of its
object from the entry and the path, byte by byte, and has it parsed; when the
parser refuses it the coroutine ends with `pc = "badURL"`. `unJoinPaths` and the
two orders are over bytes as well, because whether the merge works depends on
them. What a page of the listing holds is left entirely open. This includes
everything that `list.cpp` can give: as it stands it leaves the container out of the
request, passes a page on as text rather than as a list of objects, and never asks
for a second page, so the branches of the merge are checked for listings that
only a repaired `list.cpp` would deliver. `Startup!SyncListed` is this module seen
from outside.

**FileSystem** is the environment of the watch loop: directories with inodes,
the operations of other processes, and the kernel's inotify queue with its
overflow and its `IN_IGNORED`. It is external to the code.

**WatchLoop** models the scan (`ScanWatch`, `ScanList`: a recursive iterator
that sees a directory as it is when it gets there) and the event loop.
`ReadEvents` is one `read` of `waitForEvent`, which brings some of the queue into the
buffer; `HandleEvent` takes the next event from there, with one operator per
branch. The configuration (`roots`) is one of `Configs`: the `local_dir`s may be
equal, nested, and end in a slash or not, and since the maps of an `Instance` are
keyed by strings, two names of one directory are two keys (`dir` is the directory
that a name stands for). An exception ends the loop, and `loop` then holds the
cause. `calm` and `moved` are history variables that say under which
circumstances a property is claimed.

The `MC*` modules hold the values for TLC and nothing else, the `*Proofs` modules
theorems, lemmas and the definitions that only these need.

## 3. What is checked

| Run | Shows |
|---|---|
| `pool_safety` | With every failure possible: no worker is lost track of (`PoolBound`), no job is in two places (`OneHolder`), the retry limit holds (`TryLimit`), an idle worker will look at its queue (`IdleWillLook`), queues are served in order (`ServedInOrder`), the pool is a job service (`ImplementsJobService`). |
| `pool_liveness` | Every job that is handed over is settled (`AllSettle`), once nobody calls the pool any more every worker goes away (`PoolDrains`), and only a failure of its own worker keeps a job that waits there, while the worker runs or idles with retries left, from being done (`DoneUnlessFailing`). |
| `mirror` | Where the jobs of a file stay on one worker and the last of them does not come to nothing, the copy ends up equal to the file, whatever happens between the suspensions of a job, however often a delete is sent, and whatever earlier uploads left undone, half done, or done unnoticed (`CopyFollowsFile`). |
| `startup` | Whatever the files and their order, the entries are sorted and found (`ConfigInOrder`); a sample reported as written can be read (`SampleLoads`); no account is ever missing (`AccountsReady`), each waiter is woken by the last coroutine (`WokenByTheLast`), login is a barrier (`LoginIsBarrier`), the start-up ends (`StartupEnds`), and well if nothing fails (`HealthyStart`). |
| `sync_entry` | The merge misses no file that has to be uploaded, whatever the orders and the listing (`NoneMissed`), has no two jobs about one object (`NoneTwice`), and uploads none needlessly where the orders and the names agree (`NoneNeedless`); each upload reaches the right object of the right account (`JobsReachTheirObjects`), the automaton takes each URL apart as the grammar of `url.rl` says (`ReadAsWritten`), and refuses none but for a tilde (`OnlyTildeRefused`). |
| `watch_safety` | The three maps agree (`MapsAgree`) and follow the kernel (`FollowsKernel`); no event is of an unknown watch but after an overflow (`OnlyKnownWatches`); without renames every path, and every job, belongs to its entry (`PathsCurrent`); if no process gets ahead of the daemon and no entries overlap, it watches exactly what it should (`WatchesExactly`). |
| `pool_nothing_lost`, `pool_retries`, `mirror_order`, `startup_block`, `watch_removal`, `sync_url` | Counterexamples: see section 6. |

Every property of a passing run is paired in `PROJECT.json` with a mutant of the
code that violates it, so that none of them holds by accident. The mutants stand
next to the definitions they replace, marked `bug:`.

### Bounds, and why they are enough

* `pool_safety`: two URLs, four workers, a limit of two per list, three jobs,
  one retry, one jobless call. Two lists show that they do not mix. Two workers
  per list is the least for which reuse, the first idle and the least busy differ; four
  workers fill both lists, so that one worker's object is reused while others
  live. One retry separates a job that is called again from one that is given
  up; with three jobs one is running while two wait, which order needs. Theorems
  cover all other values (section 5).
* `pool_liveness`: one URL and two workers, as lists do not
  interact; no symmetry, which is unsound for liveness.
* `pool_nothing_lost`, `pool_retries`, `mirror_order`: the code's own constants,
  three workers and three retries.
* `mirror`: three operations (`MaxOps = 4`, as 1 is the content at the start) on two
  files, each upload of the start-up sync being one of them, and one retry. Two operations make one job overtake or follow another
  about the same file; the third is about the other file or changes the first
  again. Three jobs on one worker are enough for one to break the connection, one
  to fail on it, and one to mend it.
* `startup`: both login coroutines; five files, of which three make an entry (two of
  them with equal directories, two with one account), one lacks a key and one has
  an extension that is not known; each may be refused by the system, so there are
  none to three entries in any order of reading. Two more names are free for a
  sample, and every other name is taken. A region may be unknown.
* `sync_entry`: four paths, of which `a/:@\xff` and `a-%41?` are in different order as
  paths and as strings and need encoding, one is a directory with another in it,
  and one is ignored; each may be absent, a directory, empty or a file, old or
  new. Three entries: a plain account, one with user, password and port, one with
  a port only; remote directories `r`, `/` and `r~`; a container with a question mark.
  Every listing made of their names and a foreign one. Merging decides on
  neighbouring pairs, which four paths exhaust; the accounts take the automaton
  through user, password, host and port in every combination that a URL without
  search can have. No URL of the program has a search, so its three transitions
  are there for completeness.
* `sync_url`: the names `a` and `~`.
* `watch_safety`: four directories of depth three, four operations, and a queue
  of three events, small enough for three operations to overflow it, large
  enough for a directory that is made, removed and made again before the daemon
  looks; a buffer of two, so that one read may leave something over. Four
  configurations: one entry with a slash at the end, two equal entries, and
  nested ones with and without slashes. Any directories may be there below them at the
  start, each but one counting as one of the operations. The daemon may be anywhere in
  its scan at each operation.

`MaxJobless`, `MaxOps`, `MaxDepth`, `QueueLimit`, `ReadAhead` and the sizes of the sets are
the only bounds; each is named where it is declared. Deadlock is not checked: in
every model the daemon may come to rest (no jobs or operations left) or
be gone.

## 4. Fairness

`WorkerPool!FairSpec` has weak fairness on `doWork(w)` for each worker: the
`io_service` runs every handler that is ready, timers fire, and each network
operation is assumed to end, well or badly. The code sets no time limit on
network operations, so the last is an assumption about the network (the
kernel ends a dead TCP connection sooner or later); a server that keeps a
connection open without ever answering is outside of the liveness claims.
Callers are never obliged to call. `Startup!Fairness` is the same for `main` while it
reads the configuration or writes a sample, for the login and sync coroutines,
for the listing and for the main coroutine. Nothing is assumed of the two
timers, so the properties hold whether ten minutes are enough or not; the one
exception is a configuration without entries, where the timer of the start-up
sync is all there is to wait for, and it fires in the end. Mirror,
SyncEntry and WatchLoop make no liveness claims.

## 5. What is proved

TLAPS checks the theorems below for every value of the constants that the named
assumptions allow. Each is `Spec => []Property` for the specification of its
component unless it says otherwise; the properties are those that the runs check,
stated in the component's module.

| Module | Theorems |
|---|---|
| `WorkerPoolProofs` | `PoolInvariant`, `TypesHold`, `PoolIsBounded` (`PoolBound`), `JobsHaveOneHolder` (`OneHolder`), `TriesAreLimited` (`TryLimit`), `IdleWorkersWillLook` (`IdleWillLook`); the action property `QueuesServedInOrder` (`ServedInOrder`); the refinement `PoolIsAJobService` (`ImplementsJobService`) |
| `StartupProofs` | `StartupInvariant`, `TypesHold`, `ConfigStaysInOrder` (`ConfigInOrder`), `AccountsAreReady` (`AccountsReady`), `LastOneWakes` (`WokenByTheLast`), `SamplesLoad` (`SampleLoads`); the refinement `LoginRefinesBarrier` (`LoginIsBarrier`) |
| `UrlProofs` | `EncodedReadBack`: `urldecode(urlencode(s)) = s` for every string of bytes |
| `UrlReadProofs` | `ReadAsMade`: `Made(raw, parse(raw))` for every text that `parse` accepts and that does not end at its question mark |
| `SyncEntryProofs` | `Invariant`, `Tried`, `TypesHold`, `NothingMissed` (`NoneMissed`), `NothingNeedless` (`NoneNeedless`), `NoPathTwice`, `NoObjectTwice` (`NoneTwice`), `EachReachesItsObject` (`JobsReachTheirObjects`), `EachReadAsWritten` (`ReadAsWritten`), `RefusedForTilde` (`OnlyTildeRefused`) |
| `WatchLoopProofs` | `WatchInvariant`, `TypesHold`, `MapsStayTogether` (`MapsAgree`), `MapsFollowKernel` (`FollowsKernel`), `NoUnknownWatch` (`OnlyKnownWatches`), `PathsStayCurrent` (`PathsCurrent`) |
| `WatchExactProofs` | `ExactInvariant`, `WatchesTheRightOnes` (`WatchesExactly`) |
| `MirrorProofs` | `MirrorInvariant`, `MirrorTypesHold` (`MirrorTypeOK`), `CopiesFollowFiles` (`CopyFollowsFile`); `MirrorRunsThePool`, which is `MirrorSpec => Spec` with the `Spec` of the pool |

### From which assumptions

All of them are `ASSUME`s of the component's module, which TLC evaluates on its runs.

* `WorkerPool!ConstantsAssumption`: a list holds at least one worker, the numbers are
  natural numbers. Neither workers nor jobs need be finitely many.
* `MirrorAssumption`: finitely many files, and room for one operation beyond those
  that give each file its first content (the content at the start is number 1).
* `ConfigAssumption` and `Startup!ConstantsAssumption`: finitely many files of a
  configuration, any number of login coroutines but none.
* `FileSystemAssumption`, `WatchAssumption`, `NamesAssumption`: the kernel's queue holds
  two events at least, since one operation reports at most twice (the kernel's own
  limit is 16384); finitely many inodes; entries are not empty and no deeper than
  `MaxDepth`; no file has the empty name, which stands for a slash at the end of a
  string. Any number of entries, overlapping or not.
* `SyncAssumption`: finitely many paths, whose elements are not empty and hold no slash;
  a `container` and a `remote_dir` are strings of bytes and not empty, which `validate`
  asks for (`config.hpp:65-66`); the URL of an account is one that the parser accepts, as
  otherwise `Rackspace` would have handed out none; and the foreign names of the listing
  are those that `unJoinPaths` does not turn into the string of a local path, as otherwise
  they are not foreign. Any bytes may be in the names, and an account may have a user, a
  password, a port and a path, or none of them.
* `AccountAssumption`: the URL of an account has no search and does not end at a question
  mark. It comes from the login service. Where there is a search, `URL::operator/` puts the
  path behind it, and the request is not about the object.

### Along which argument

**WorkerPool.** The inductive invariant is

    IInv == TypeOK /\ PoolBound /\ OneHolder /\ TryLimit /\ TriesFresh /\ IdleWillLook

Its parts need one another. That `retries` stays in its range needs `TryLimit`,
which says that a worker with a job in hand has retries left. That no job exceeds
its tries needs `TriesFresh` (a job that waits or is new has never been
attempted), and this is kept because a job that is popped was at one
position of one queue only, which is `OneHolder`. `OneHolder` in turn needs the
types, and that a new worker (`PoolBound`: in no list, no coroutine) has nothing in
hand. Order (`ServedInOrder`) follows because a queue without repetitions loses
its head only, and the refinement because each step moves each job along
one edge: `OneHolder` says which jobs a step can touch at all.

**Startup.** Each counter is the cardinality of the set of coroutines that have not
counted down yet (`WokenByTheLast`); this needs the stage of the main coroutine
(`Stage`), and that a login coroutine that has ended has asked for every account
(`Progress`), from which `AccountsReady` follows once the counter is zero
(`LoginOver`). The entries are sorted without repetition and come from files that were read
(`InOrder`). That bisection finds what it looks for rests on lemmas about
`lower_bound`, which hold of any sorted sequence. The refinement
maps the counter to the barrier's set of those who have not arrived.

**SyncEntry.** While a page is merged: both sequences are strictly sorted (`Sorted`);
the files that the iterator has passed have jobs if they need them
(`PassedHaveJobs`), and jobs are about passed files in their order (`JobsInOrder`); and
if the names agree (`Plain`) and the orders do (`SameOrder`), the object of each file
that is up to date and not passed yet is on the rest of the page (`CurrentAhead`).
The last is why nothing is uploaded needlessly: when a local name comes first, a copy
of it further on would have had to come before the name at the iterator, and
`AfterPrefix` says that the directory in front of both does not change their order.
The first needs that the two comparisons of the code are strict total orders
(`LexStrict`, used for bytes in strings and for strings in paths), and that sorting by
rank gives each item once and in order (`Ranks`, `SortedByRank`). That nothing is
missed, with *any* `remote_dir`, rests on `NamesNotConfused`: what `unJoinPaths`
leaves of the name of one object is never the string of another path, since
where `joinSlashes` has dropped a slash, what is left has one at the wrong place. The
facts about `FlattenSeq` that this takes are by induction over positions, from the
least number principle (`LeastNumber`, `UpTo`).

**Url and the requests of SyncEntry.** Three facts about texts are proved for every
string of bytes, each by induction over a length or a position (`ByLength`, `UpTo`,
`StepByStep`, which follow from the least number principle and take a set where an
induction theorem takes a predicate).

*Making.* `urlencode` commutes with joining and with `trim` (`UrlencodeJoined`,
`TrimUrlencode`), so the address of an object is the account's URL, a slash, and the
encoded name of container and object (`AddressIs`, `AddressOf`); no byte of it is a question
mark, and each is in `PathByte` unless the name has a tilde (`UrlencodeBytes`, `NameBehind`).
`urldecode` gives the name back (`DecodeFirst`, `EncodedReadBack`), behind any path of the
account (`DecodeJoined`, `DecodeName`).

*Reading.* `At` says for each state what the text read so far is made of: the fields that
are known, their separators, and the text since the mark, of which two states do not know
yet whether it is a user or a host, a password or a port. `MovedWell` proves, transition
by transition, that the table leads from one such description to another; the invariant
(`GoodEverywhere`) and the assignment at the end of the text give `ReadAsMade`.

*Reading on.* Two texts with the same beginning are read alike up to there
(`SameReading`). An account's URL that ends in a state of `OpenStates` is taken to `path`
by the slash and stays there, so the path of the whole is the path of the account with
the name behind it, and the other fields are those of the account (`GoesOn`); if each byte
is in `PathByte` the whole is accepted (`PathTaken`). That `joinSlashes` may drop a slash at
the end of the account's URL changes nothing (`OpenTrim`).

`ObjectRequested` puts these together for an entry and a path. What the state adds is
`URLsTried`: a job is there for accepted URLs only, and in `badURL` the one at the iterator
was not accepted; it is inductive with the invariant of the merge (`Tried`). `NoneTwice` then
follows backwards: equal targets have equal names behind the same text (`SameBehind`), hence
equal strings of the paths, hence equal paths (`PathsApart`, by the places of the slashes),
and no path has two jobs (`NoPathTwice`).

**WatchLoop.** The events on their way (`coming`, the buffer and the queue) are part
of the invariant: short of an overflow, applying them to the daemon's maps
leads to the kernel's watches (`Follows`), which gives `FollowsKernel` and
`OnlyKnownWatches`. `Maps` is `MapsAgree` with the types, `Rest` the limits of queue and
buffer, and `Located` says that, short of renames, the path of each watch leads to the
inode that the kernel watches, and so for each item of the scan. `WatchExactProofs`
adds, under `calm` and disjoint entries, that what the scan has still to do
(`ScanSound`), or the event on its way (`ComingSound`), accounts for each directory that
is not watched yet, and that each known path is a directory to watch or its end is on
its way (`PathsSound`).

**Mirror.** The pool inside of it is a `WorkerPool`, so its invariant is there to use.
While no file has jobs on two workers (`apart`), what matters about a file is the last
that is known of it: its newest event, else its newest job. That event or job is
an upload exactly if the file is there (`EventsAgree`, `QueuesAgree`, `RunningAgrees`); if
it is running, what it has found out so far is true of the file and of the copy
(`RunningKnows`); and if there is none, the copy is equal to the file or the last job
came to nothing (`RestFollows`).

Each module has a section per conjunct or per action: what each step does to it,
given the whole invariant before the step; then the theorems combine these. TLC has
checked the inductive invariants on the constants of the runs before they were proved.

### What is only model-checked

* Liveness: `AllSettle`, `PoolDrains`, `DoneUnlessFailing`, `StartupEnds`, `HealthyStart`.
  Fairness and `ENABLED` are out of the prover's reach.

Every other property of a passing run is a theorem. What the theorems rest on and do
not show is the assumptions above: that a directory and a listing are what the modules of
the environment say, and that the server decodes a target as `urldecode` does. That the
models agree with the code is a matter of reading (`map` in `PROJECT.json`).

## 6. What the code does that its documents deny

Each of these is a run that TLC ends with a counterexample.

* `pool_nothing_lost`: a job that is given to a worker which is already closing its
  connection is destroyed with it, without any failure. `refactor-plan.mkd:124-126`
  has a worker upload everything in its queue before it disconnects.
* `pool_retries`: `retries` belongs to the worker, not to the job, and is never reset.
  After four failures in all, a worker drops every later job unattempted. The
  comment at `Worker.cpp:73` says that the job is retried.
* `mirror_order`: jobs about one file are spread over workers, so that a delete
  may reach the server before the upload that came first; the copy of a file that
  is gone then stays for good. `README.md:3` promises synchronisation.
  Within its bounds, `CopyFollowsFile` in `mirror` says that this is the only way
  in which a last job that succeeds leaves a wrong copy.
* `startup_block`: when the ten minute timer fires before the sync coroutines have
  finished, the event loop starts all the same. The comment at
  `syncAllDirectories.cpp:165-166` says that it blocks until they are done.
* `watch_removal`: a file that is gone when the event of its last write is handled makes
  `file_size` throw and ends the event loop. `todo.txt:46` lists the handling of
  `rm -rf` as done.
* `sync_url`: `urlencode` leaves a tilde as it is, as `url.cpp:42` lists it under the
  legal characters, but the parser of `url_parser.hpp` takes none in a path. The
  constructor of `URL` throws, out of the sync coroutine and out of `ios.run()`: a
  file `notes.txt~` ends the daemon. `OnlyTildeRefused`, checked in `sync_entry` and proved
  for all names, says that nothing else does.

Two disagreements that are plain from the code need no run. The comment of
`config_reader.cpp` calls the directories `local_path` and `remote_path`, the code
asks for `local_dir` and `remote_dir` (the mutant `SampleKeysAsDocumented` is what a
writer that followed the comment would do). The default of `--config` is
`/etc/cdnalizerd.conf`, an extension that `readFile` gives no parser.

## 7. What is not modelled

* Empty files, which are never uploaded, and ignored files, in Mirror (they are in
  SyncEntry); and requests that the server carries out only after the client has
  seen them fail.
* What happens after a coroutine has touched a dead local, beyond the fact.
* The worker coroutines that outlive the event loop's exception: the
  manager and the accounts they refer to are destroyed (`mainProcess.cpp:215-225`).
* Symbolic links, the merging of equal events in the kernel's queue, and moves of
  files, in FileSystem. Moves of directories are in it; the daemon ignores them.
* The grammars of the configuration's formats, which are a library's, and the patterns
  to ignore, which are sets of names and paths where they are used. What an `.ini` sample
  holds when the writer gives up in the middle: the file is there and is not empty,
  and the command is reported as failed.
* The parsing of the command line, and what `--list` prints.
* `isDir` and `joinPaths` (`utils.cpp`), `removeWatch` by path and `alreadyWatching`
  (`inotify.hpp`): nothing calls them.
* The contents of pages of the listing and its generators as coroutines (see SyncEntry
  above).
* `cfsync`, the headers about moves that nothing uses, logging, the experiments.

## 8. The plan

Done: the pool and its abstract service; login and start-up, with the
configuration and the command line; the watch loop with its buffer and with
entries that overlap; the composition of pool and jobs with every failure of
the network; the merge, and the URLs it makes; and the proofs of section 5. The order
was that of what the rest stands on.

Next, models:

1. *Shutdown of the loop.* Compose WatchLoop's end with the pool: which worker
   coroutines touch `accounts` and `WorkerManager` after their destruction. As the
   code is, any worker that is alive does; a property worth stating needs a
   decision on what the end of the loop should do with them.
2. *Several entries in Mirror*, with a pool of workers for each, and the end of a sync
   coroutine that comes after the ten minutes, so that its uploads mix with those of
   the event loop.

Next, theorems: all safety properties of the runs have theirs. What is left is to
state more. `NothingNeedless` needs `Plain` and `SameOrder`, and a listing in the order of
bytes; which `remote_dir`s and which trees meet them could be a theorem of its own. The models
above bring their own invariants.
