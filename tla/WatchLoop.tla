----------------------------- MODULE WatchLoop -----------------------------
(***************************************************************************)
(* The watches of the daemon: createINotifyWatches and the event loop of   *)
(* watchForFileChanges (mainProcess.cpp) on top of inotify::Instance       *)
(* (inotify.hpp).  One event is handled without a suspension, so handling  *)
(* it is one action; the other processes change the files at any time.     *)
(*                                                                         *)
(* An exception ends the loop for good: loop then names what was wrong.    *)
(***************************************************************************)
EXTENDS FileSystem

CONSTANTS
    Configs,      \* the configurations: each is the local_dir of its entries
                  \* in order, which also stand for the entries; the last name
                  \* of a local_dir that ends in a slash is empty
    ReadAhead,    \* how many events the buffer of an Instance may hold
    IgnoredName   \* names that directoriesToIgnore matches

\* The directory that a string names.
dir(path) == IF Last(path) = "" THEN Front(path) ELSE path

ASSUME WatchAssumption ==
    /\ \A roots \in Configs :
          /\ roots \in Seq(Seq(STRING))
          /\ \A k \in DOMAIN roots : roots[k] # <<>> /\ Len(dir(roots[k])) \in 1..MaxDepth
    /\ ReadAhead \in Nat \ {0}

\* The name that ends a path with a slash is no other name.
ASSUME NamesAssumption == "" \notin Name \cup IgnoredName

VARIABLES
    roots,          \* the configuration
    watches,        \* Instance::watches: the path of each watch descriptor
    paths,          \* Instance::paths: the descriptor of each path
    watchToConfig,  \* the entry of each descriptor
    buffer,         \* Instance::buffer: events read and not yet handled
    scan,           \* what recursivelyWatchDirectory has still to do
    loop,           \* "scanning", "running", or why the loop has ended
    jobs,           \* history: the jobs given to the workers
    calm,           \* history: no process was ever ahead of the daemon
    moved           \* history: a directory was renamed

mapVars == <<watches, paths, watchToConfig>>
vars == <<roots, fsVars, mapVars, buffer, scan, loop, jobs, calm, moved>>

Alive == loop \in {"scanning", "running"}
\* twice: "Can't watch the same path twice"; missing: inotify_add_watch or the
\* directory iterator found no directory; vanished: file_size found no file;
\* overflowed, unknownWatch: watches.at, for the descriptor of an overflow event
\* and for others; noAccount: accounts.find after watchToConfig[]
Cause ==
    {"twice", "missing", "vanished", "overflowed", "unknownWatch", "noAccount"}

Put(f, x, y) == [z \in DOMAIN f \cup {x} |-> IF z = x THEN y ELSE f[z]]
Without(f, x) == [z \in DOMAIN f \ {x} |-> f[z]]

Init ==
    /\ roots \in Configs
    /\ FsInit({dir(root) : root \in Range(roots)})
    /\ watches = <<>>
    /\ paths = <<>>
    /\ watchToConfig = <<>>
    /\ buffer = <<>>
    /\ scan = [k \in DOMAIN roots |->
                 [step |-> "watch", path |-> roots[k], entry |-> roots[k]]]
    /\ loop = "scanning"
    /\ jobs = {}
    /\ calm = TRUE
    /\ moved = FALSE

shouldIgnoreDirectory(path) == Range(path) \cap IgnoredName # {}

Fails(cause) ==
    /\ loop' = cause
    /\ UNCHANGED <<kernelVars, mapVars>>

-----------------------------------------------------------------------------
(* Watching one directory                                                  *)

\* A directory that the daemon does not watch yet.
AddNewOwnEntry(path, entry) ==   \* bug: the directory is its own entry
    /\ wdOf[tree[dir(path)]] = 0
    /\ wdOf' = [wdOf EXCEPT ![tree[dir(path)]] = nextWd]
    /\ nextWd' = nextWd + 1
    /\ watches' = Put(watches, nextWd, path)
    /\ paths' = Put(paths, path, nextWd)
    /\ watchToConfig' = Put(watchToConfig, nextWd, path)
    /\ UNCHANGED <<events, loop>>
AddNewRootPath(path, entry) ==   \* bug: the path kept is that of the root
    /\ wdOf[tree[dir(path)]] = 0
    /\ wdOf' = [wdOf EXCEPT ![tree[dir(path)]] = nextWd]
    /\ nextWd' = nextWd + 1
    /\ watches' = Put(watches, nextWd, entry)
    /\ paths' = Put(paths, path, nextWd)
    /\ watchToConfig' = Put(watchToConfig, nextWd, entry)
    /\ UNCHANGED <<events, loop>>
AddNew(path, entry) ==
    /\ wdOf[tree[dir(path)]] = 0
    /\ wdOf' = [wdOf EXCEPT ![tree[dir(path)]] = nextWd]
    /\ nextWd' = nextWd + 1
    /\ watches' = Put(watches, nextWd, path)
    /\ paths' = Put(paths, path, nextWd)
    /\ watchToConfig' = Put(watchToConfig, nextWd, entry)
    /\ UNCHANGED <<events, loop>>

AddAliasErases(path, entry) ==   \* bug: both Watches are forgotten at once
    /\ wdOf[tree[dir(path)]] # 0
    /\ wdOf' = [wdOf EXCEPT ![tree[dir(path)]] = 0]
    /\ watches' = Without(watches, wdOf[tree[dir(path)]])
    /\ watchToConfig' = Without(watchToConfig, wdOf[tree[dir(path)]])
    /\ events' = Post(events, <<Ignored(wdOf[tree[dir(path)]])>>)
    /\ UNCHANGED <<nextWd, paths, loop>>
\* One that it watches by another path: the kernel answers with the descriptor
\* it has, emplace keeps the old Watch, and the destructor of the new one takes
\* the kernel's watch away.
AddAlias(path, entry) ==
    /\ wdOf[tree[dir(path)]] # 0
    /\ wdOf' = [wdOf EXCEPT ![tree[dir(path)]] = 0]
    /\ paths' = Put(paths, path, wdOf[tree[dir(path)]])
    /\ watchToConfig' = Put(watchToConfig, wdOf[tree[dir(path)]], entry)
    /\ events' = Post(events, <<Ignored(wdOf[tree[dir(path)]])>>)
    /\ UNCHANGED <<nextWd, watches, loop>>

addWatch(path, entry) ==
    \/ path \in DOMAIN paths /\ Fails("twice")
    \/ path \notin DOMAIN paths /\ ~IsDirectory(dir(path)) /\ Fails("missing")
    \/ /\ path \notin DOMAIN paths /\ IsDirectory(dir(path))
       /\ AddNew(path, entry) \/ AddAlias(path, entry)

watchNewDirectory(path, entry) ==
    \/ /\ shouldIgnoreDirectory(path)
       /\ UNCHANGED <<kernelVars, mapVars, loop>>
    \/ /\ ~shouldIgnoreDirectory(path)
       /\ addWatch(path, entry)

-----------------------------------------------------------------------------
(* createINotifyWatches                                                    *)

isRoot(item) == item.path = item.entry

\* The next directory that the iterator shows.
ScanWatch ==
    /\ loop = "scanning" /\ scan # <<>> /\ Head(scan).step = "watch"
    /\ LET item == Head(scan)
       IN  \/ /\ isRoot(item) \/ IsDirectory(dir(item.path))
              /\ watchNewDirectory(item.path, item.entry)
              /\ scan' = <<[item EXCEPT !.step = "list"]>> \o Tail(scan)
           \/ /\ ~isRoot(item) /\ ~IsDirectory(dir(item.path))
              /\ scan' = Tail(scan)
              /\ UNCHANGED <<kernelVars, mapVars, loop>>
    /\ UNCHANGED <<roots, tree, files, ops, buffer, jobs, calm, moved>>

\* The iterator goes down into it, in the order in which the directory is
\* stored; the constructor of the iterator throws when the root is gone.
ScanList ==
    /\ loop = "scanning" /\ scan # <<>> /\ Head(scan).step = "list"
    /\ LET item == Head(scan)
           visit(p) == [step |-> "watch", path |-> p, entry |-> item.entry]
       IN  \/ /\ isRoot(item) /\ ~IsDirectory(dir(item.path))
              /\ Fails("missing") /\ UNCHANGED scan
           \/ /\ ~(isRoot(item) /\ ~IsDirectory(dir(item.path)))
              /\ \E order \in SetToSeqs(Children(dir(item.path))) :
                    scan' = [k \in DOMAIN order |-> visit(order[k])] \o Tail(scan)
              /\ UNCHANGED <<kernelVars, mapVars, loop>>
    /\ UNCHANGED <<roots, tree, files, ops, buffer, jobs, calm, moved>>

\* login and the first synchronisation take any time after this.
ScanDone ==
    /\ loop = "scanning" /\ scan = <<>>
    /\ loop' = "running"
    /\ UNCHANGED <<roots, fsVars, mapVars, buffer, scan, jobs, calm, moved>>

-----------------------------------------------------------------------------
(* The event loop                                                          *)

AddJob(kind, path, entry) ==
    jobs' = jobs \cup {[kind |-> kind, path |-> path, entry |-> entry]}

\* A file was closed: it may be gone by now, be empty, or be ignored.
HandleClosed(path, entry) ==
    \/ /\ ~FileExists(path)
       /\ Fails("vanished") /\ UNCHANGED jobs
    \/ /\ FileExists(path)
       /\ \/ ~shouldIgnoreDirectory(path) /\ AddJob("upload", path, entry)
          \/ UNCHANGED jobs
       /\ UNCHANGED <<kernelVars, mapVars, loop>>

HandleDeleted(path, entry) ==
    /\ \/ ~shouldIgnoreDirectory(path) /\ AddJob("delete", path, entry)
       \/ UNCHANGED jobs
    /\ UNCHANGED <<kernelVars, mapVars, loop>>

HandleCreated(path, entry) ==
    /\ watchNewDirectory(path, entry)
    /\ UNCHANGED jobs

HandleIgnoredKeepsEntry(wd) ==   \* bug: watchToConfig is forgotten
    /\ paths' = Without(paths, watches[wd])
    /\ watches' = Without(watches, wd)
    /\ UNCHANGED <<watchToConfig, kernelVars, loop, jobs>>
HandleIgnoredKeepsPath(wd) ==    \* bug: paths is forgotten
    /\ watchToConfig' = Without(watchToConfig, wd)
    /\ watches' = Without(watches, wd)
    /\ UNCHANGED <<paths, kernelVars, loop, jobs>>
\* removeWatch; the inotify_rm_watch of ~Watch finds nothing to remove.
HandleIgnored(wd) ==
    /\ watchToConfig' = Without(watchToConfig, wd)
    /\ paths' = Without(paths, watches[wd])
    /\ watches' = Without(watches, wd)
    /\ UNCHANGED <<kernelVars, loop, jobs>>

\* Nothing is done about moves, nor about the deletion of a directory.
HandleOther ==
    /\ UNCHANGED <<kernelVars, mapVars, loop, jobs>>

HandleKnown(e) ==
    LET path == Append(dir(watches[e.wd]), e.name)
        entry == watchToConfig[e.wd]
    IN  \/ e.kind = "closed" /\ HandleClosed(path, entry)
        \/ e.kind = "ignored" /\ HandleIgnored(e.wd)
        \/ e.kind = "deleted" /\ HandleDeleted(path, entry)
        \/ e.kind = "created" /\ HandleCreated(path, entry)
        \/ e.kind \in {"deletedDir", "moved"} /\ HandleOther

\* waitForEvent looks into its buffer, and reads only if that is empty.
ReadEventsDropsRest ==   \* bug: the events behind the first one are dropped
    /\ loop = "running" /\ buffer = <<>> /\ events # <<>>
    /\ \E n \in 1..Len(events) :
          /\ n <= ReadAhead
          /\ buffer' = <<Head(events)>>
          /\ events' = SubSeq(events, n + 1, Len(events))
    /\ UNCHANGED <<roots, tree, files, wdOf, nextWd, ops, mapVars, scan, loop, jobs,
                   calm, moved>>
ReadEvents ==
    /\ loop = "running" /\ buffer = <<>> /\ events # <<>>
    /\ \E n \in 1..Len(events) :
          /\ n <= ReadAhead
          /\ buffer' = SubSeq(events, 1, n)
          /\ events' = SubSeq(events, n + 1, Len(events))
    /\ UNCHANGED <<roots, tree, files, wdOf, nextWd, ops, mapVars, scan, loop, jobs,
                   calm, moved>>

HandleEvent ==
    /\ loop = "running" /\ buffer # <<>>
    /\ buffer' = Tail(buffer)
    /\ LET e == Head(buffer)
       IN  \/ /\ e.wd \notin DOMAIN watches
              /\ Fails(IF e = Overflow THEN "overflowed" ELSE "unknownWatch")
              /\ UNCHANGED jobs
           \/ /\ e.wd \in DOMAIN watches /\ e.wd \notin DOMAIN watchToConfig
              /\ Fails("noAccount") /\ UNCHANGED jobs
           \/ /\ e.wd \in DOMAIN watches /\ e.wd \in DOMAIN watchToConfig
              /\ HandleKnown(e)
    /\ UNCHANGED <<roots, tree, files, ops, scan, calm, moved>>

-----------------------------------------------------------------------------
\* The daemon has handled everything.
Waits == loop = "running" /\ buffer = <<>> /\ events = <<>>

\* The other processes, which nobody watches any more when the loop has ended.
Disturb ==
    /\ Alive
    /\ \/ /\ FsOp
          /\ calm' = (calm /\ Waits)
          /\ UNCHANGED moved
       \/ /\ FsRename
          /\ calm' = FALSE
          /\ moved' = TRUE
    /\ UNCHANGED <<roots, mapVars, buffer, scan, loop, jobs>>

Daemon == ScanWatch \/ ScanList \/ ScanDone \/ ReadEvents \/ HandleEvent

Next == Daemon \/ Disturb

Spec == Init /\ [][Next]_vars

-----------------------------------------------------------------------------
(* Properties                                                              *)

TypeOK ==
    /\ \A p \in DOMAIN tree : tree[p] \in Ino /\ Len(p) \in 1..MaxDepth
    /\ files \subseteq Ino \X FileName
    /\ wdOf \in [Ino -> 0..(nextWd - 1)]
    /\ roots \in Configs
    /\ Len(events) <= QueueLimit + 1
    /\ Len(buffer) <= ReadAhead
    /\ loop \in {"scanning", "running"} \cup Cause
    /\ DOMAIN watches \subseteq 1..(nextWd - 1)
    /\ DOMAIN watchToConfig \subseteq 1..(nextWd - 1)
    /\ \A wd \in DOMAIN watchToConfig : watchToConfig[wd] \in Range(roots)

\* The three maps that are kept by hand agree: each watch has an entry, and is
\* found by its path, which no other watch has (inotify.hpp:184-210,
\* mainProcess.cpp:40-41, 121-127).
MapsAgree ==
    /\ DOMAIN watchToConfig = DOMAIN watches
    /\ \A wd \in DOMAIN watches :
          watches[wd] \in DOMAIN paths /\ paths[watches[wd]] = wd

\* Until the queue overflows, the maps follow the kernel through events that
\* are still on their way, in the queue or in the buffer: a watch is known
\* exactly if the kernel has it or its IN_IGNORED is still to come; that comes
\* once, after everything else (inotify.hpp:59-62, 184-285).
FollowsKernel ==
    LET coming == buffer \o events
    IN  loop # "overflowed" /\ Overflow \notin Range(coming) =>
          /\ DOMAIN watches = {wdOf[i] : i \in {h \in Ino : wdOf[h] # 0}}
                \cup {e.wd : e \in {d \in Range(coming) : d.kind = "ignored"}}
          /\ \A k, m \in DOMAIN coming :
                /\ coming[k].wd \in DOMAIN watches
                /\ coming[k].kind = "ignored" =>
                      /\ \A i \in Ino : wdOf[i] # coming[k].wd
                      /\ m > k => coming[m].wd # coming[k].wd

\* "We should have already made a note of this watch and be tracking it"
\* (mainProcess.cpp:124): the loop never meets an event of a watch it does not
\* know, unless the kernel's queue overflowed, nor one without an entry.  This
\* holds for entries with nested directories too, where the same directory may
\* be met by two names, and watched twice.
OnlyKnownWatches == loop \notin {"unknownWatch", "noAccount"}

\* As long as no directory is renamed, the path that a watch was made with is
\* where its directory is, and it is below the entry that the watch belongs to:
\* what happens in it goes to the right place in the right container.
PathsCurrent ==
    ~moved =>
       /\ \A i \in Ino : wdOf[i] # 0 =>
             LET path == dir(watches[wdOf[i]])
             IN  /\ IsDirectory(path) /\ tree[path] = i
                 /\ IsPrefix(dir(watchToConfig[wdOf[i]]), path)
       /\ \A j \in jobs : IsPrefix(dir(j.entry), j.path)

\* No local_dir is inside another.
Disjoint ==
    \A k, m \in DOMAIN roots : k # m => ~IsPrefix(dir(roots[k]), dir(roots[m]))

\* While every operation on the files finds the daemon waiting, the loop goes
\* on, and when it waits it watches each directory that it should and no other
\* (mainProcess.cpp:33-62, 121-146).  The entries must be disjoint: a directory
\* that two of them contain ends the daemon, or is left without a watch.
WatchesExactly ==
    calm /\ Disjoint =>
       /\ Alive
       /\ Waits =>
             /\ {dir(p) : p \in DOMAIN paths} =
                   {p \in DOMAIN tree : ~shouldIgnoreDirectory(p)}
             /\ \A p \in DOMAIN paths : wdOf[tree[dir(p)]] = paths[p]

-----------------------------------------------------------------------------
(* What the repository says and the code does not do                       *)

\* todo.txt:46 lists "Make it able to handle 'rm -rf some-dir'" as done: the
\* loop does not end because a file is gone by the time its event is handled.
SurvivesRemoval == loop # "vanished"
=============================================================================
