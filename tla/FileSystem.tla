---------------------------- MODULE FileSystem ----------------------------
(***************************************************************************)
(* What surrounds the watch loop: a tree of directories with files in them,*)
(* the processes that change it, and the kernel's inotify queue for the    *)
(* daemon (inotify(7)).  External: the code only relies on it.             *)
(*                                                                         *)
(* A path is the sequence of its names; a directory is an inode that is at *)
(* a path and keeps its watch when it is renamed.  Left out: symbolic      *)
(* links, the merging of equal neighbours in the queue, and renamed files. *)
(***************************************************************************)
EXTENDS Naturals, SequencesExt

CONSTANTS
    Ino,         \* inodes of directories
    Name,        \* names of subdirectories
    FileName,    \* names of files
    MaxDepth,    \* length of the longest path of a directory
    QueueLimit,  \* max_queued_events of the kernel
    Ops,         \* the operations that the other processes use
    MaxOps       \* bound on how many operations they do

ASSUME FileSystemAssumption ==
    /\ IsFiniteSet(Ino)
    /\ Name \subseteq STRING /\ FileName \subseteq STRING
    /\ MaxDepth \in Nat \ {0}
    /\ QueueLimit \in Nat /\ QueueLimit >= 2   \* one operation reports at most twice
    /\ MaxOps \in Nat

VARIABLES
    tree,    \* tree[p]: the inode of the directory at path p
    files,   \* <<directory inode, name>> of each file that is not empty
    wdOf,    \* wdOf[i]: the watch descriptor of inode i, 0 if it has none
    nextWd,  \* the kernel never uses a descriptor twice
    events,  \* the queue
    ops      \* operations so far (bounded); each directory that is there at the
             \* start, but one, counts as one of them

kernelVars == <<wdOf, nextWd, events>>
fsVars == <<tree, files, kernelVars, ops>>

parent(p) == Front(p)
Children(p) == {q \in DOMAIN tree : Len(q) = Len(p) + 1 /\ IsPrefix(p, q)}
IsDirectory(p) == p \in DOMAIN tree
FileExists(p) == IsDirectory(parent(p)) /\ <<tree[parent(p)], Last(p)>> \in files

Overflow == [wd |-> 0, kind |-> "overflow", name |-> "none"]
Ignored(wd) == [wd |-> wd, kind |-> "ignored", name |-> "none"]

\* The queue after es are added to it: when it is full, one overflow event
\* stands for everything that is dropped.
Post(queue, es) ==
    LET kept == queue \o SubSeq(es, 1, QueueLimit - Len(queue))
    IN  IF Len(queue) + Len(es) <= QueueLimit THEN queue \o es
        ELSE IF Overflow \in Range(kept) THEN kept
        ELSE Append(kept, Overflow)

\* What the watch on the directory at p, if there is one, reports of an entry.
Report(p, kind, name) ==
    IF IsDirectory(p) /\ wdOf[tree[p]] # 0
    THEN <<[wd |-> wdOf[tree[p]], kind |-> kind, name |-> name]>>
    ELSE <<>>

\* The paths that start with one of dirs.
Below(dirs) ==
    {p \in {d \o s : d \in dirs, s \in UNION {[1..n -> Name] : n \in 0..MaxDepth}} :
        Len(p) <= MaxDepth}

\* The directories of dirs, and some below them, are there.
FsInit(dirs) ==
    /\ \E there \in SUBSET Below(dirs) :
          /\ dirs \subseteq there
          /\ \A p \in there, q \in Below(dirs) : IsPrefix(q, p) => q \in there
          /\ Cardinality(there) <= Cardinality(Ino)
          /\ \E f \in [there -> Ino] : IsInjective(f) /\ tree = f
          /\ ops = Cardinality(there) - 1
    /\ files = {}
    /\ wdOf = [i \in Ino |-> 0]
    /\ nextWd = 1
    /\ events = <<>>

Unused(i) == \A p \in DOMAIN tree : tree[p] # i

Mkdir(p, i) ==
    /\ "mkdir" \in Ops
    /\ ~IsDirectory(p) /\ IsDirectory(parent(p)) /\ Unused(i)
    /\ tree' = [q \in DOMAIN tree \cup {p} |-> IF q = p THEN i ELSE tree[q]]
    /\ events' = Post(events, Report(parent(p), "created", Last(p)))
    /\ UNCHANGED <<files, wdOf, nextWd>>

\* The parent and the directory itself report in an order that depends on the
\* version of the kernel.
Rmdir(p) ==
    /\ "rmdir" \in Ops
    /\ IsDirectory(p) /\ Children(p) = {}
    /\ \A f \in FileName : <<tree[p], f>> \notin files
    /\ LET removed == Report(parent(p), "deletedDir", Last(p))
           ignored == IF wdOf[tree[p]] = 0 THEN <<>> ELSE <<Ignored(wdOf[tree[p]])>>
       IN  \/ events' = Post(events, removed \o ignored)
           \/ events' = Post(events, ignored \o removed)
    /\ tree' = [q \in DOMAIN tree \ {p} |-> tree[q]]
    /\ wdOf' = [wdOf EXCEPT ![tree[p]] = 0]
    /\ UNCHANGED <<files, nextWd>>

\* A directory moves with everything below it, and keeps its watches.
Rename(p, q) ==
    /\ "rename" \in Ops
    /\ IsDirectory(p) /\ ~IsDirectory(q) /\ IsDirectory(parent(q)) /\ ~IsPrefix(p, q)
    /\ LET below == {r \in DOMAIN tree : IsPrefix(p, r)}
           moved(r) == q \o SubSeq(r, Len(p) + 1, Len(r))
       IN  /\ \A r \in below : Len(moved(r)) <= MaxDepth
           /\ tree' = [r \in (DOMAIN tree \ below) \cup {moved(s) : s \in below} |->
                 IF r \in {moved(s) : s \in below}
                 THEN tree[CHOOSE s \in below : moved(s) = r]
                 ELSE tree[r]]
    /\ events' = Post(events, Report(parent(p), "moved", Last(p))
                              \o Report(parent(q), "moved", Last(q)))
    /\ UNCHANGED <<files, wdOf, nextWd>>

\* A file is written, new or not, and closed.
Write(p, f) ==
    /\ "write" \in Ops
    /\ IsDirectory(p)
    /\ files' = files \cup {<<tree[p], f>>}
    /\ events' = Post(events, Report(p, "closed", f))
    /\ UNCHANGED <<tree, wdOf, nextWd>>

Unlink(p, f) ==
    /\ "unlink" \in Ops
    /\ IsDirectory(p) /\ <<tree[p], f>> \in files
    /\ files' = files \ {<<tree[p], f>>}
    /\ events' = Post(events, Report(p, "deleted", f))
    /\ UNCHANGED <<tree, wdOf, nextWd>>

SubPath == {Append(p, n) : p \in {q \in DOMAIN tree : Len(q) < MaxDepth}, n \in Name}

\* One operation of another process.
FsOp ==
    /\ ops < MaxOps
    /\ ops' = ops + 1
    /\ \/ \E p \in SubPath, i \in Ino : Mkdir(p, i)
       \/ \E p \in DOMAIN tree : Rmdir(p)
       \/ \E p \in DOMAIN tree, f \in FileName : Write(p, f) \/ Unlink(p, f)

FsRename ==
    /\ ops < MaxOps
    /\ ops' = ops + 1
    /\ \E p \in DOMAIN tree \cap SubPath, q \in SubPath : Rename(p, q)
=============================================================================
