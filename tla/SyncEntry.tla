----------------------------- MODULE SyncEntry -----------------------------
(***************************************************************************)
(* The synchronisation of one entry at start-up: syncOneConfigEntry merges *)
(* the sorted local files with the listing of the container (list.cpp).    *)
(*                                                                         *)
(* The coroutine is suspended while the listing is fetched; the merge of a *)
(* page that has arrived is one stretch of code, so other processes touch  *)
(* the files in "listing" only.  A listing is one page: count is 1 unless  *)
(* Payload is json, and no caller pages with that (list.cpp:64, 71, 117).  *)
(* What a page holds is left open, as the request leaves the container out *)
(* and is limited to 10001 entries: any of the names there may be, or none *)
(* of them, or the generator throws.                                       *)
(*                                                                         *)
(* A local path is the sequence of its elements, a string the sequence of  *)
(* its bytes.                                                              *)
(***************************************************************************)
EXTENDS Url

CONSTANTS
    Path,        \* paths that may exist below local_dir
    Entries,     \* entries of the configuration, each with the URL of its
                 \* account (base), its container and its remote_dir
    Foreign,     \* names on the server that are those of no local path
    Ignored      \* paths for which shouldIgnoreFile holds

VARIABLES
    pc,          \* where syncOneConfigEntry is
    kind,        \* what each path is
    newer,       \* modified after the copy that the listing tells of
    entry,       \* the one that is synchronised; constant
    localFiles,  \* the sorted vector
    local,       \* local_iterator
    page,        \* names of the page of the listing, in the server's order
    remote,      \* remote_iterator
    jobs         \* the paths of the upload jobs, in the order of addJob

vars == <<pc, kind, newer, entry, localFiles, local, page, remote, jobs>>

Kind == {"absent", "directory", "empty", "file"}

-----------------------------------------------------------------------------
(* Strings and paths                                                       *)

\* s comes before t, when their items are compared one by one.
Before(s, t, less(_, _)) ==
    \E n \in 1..Len(t) :
       /\ n <= Len(s) + 1
       /\ \A m \in 1..(n - 1) : s[m] = t[m]
       /\ n <= Len(s) => less(s[n], t[n])

ByteBefore(s, t) == Before(s, t, <)             \* std::string::compare
PathBefore(p, q) == Before(p, q, ByteBefore)    \* fs::path::operator<

\* The items of S, sorted: as many of them come before the n-th as its place says.
sort(S, before(_, _)) ==
    [n \in 1..Cardinality(S) |->
       CHOOSE x \in S : Cardinality({y \in S : before(y, x)}) = n - 1]

\* The path below local_dir, as a string with a slash in front.
Relative(p) == FlattenSeq([k \in DOMAIN p |-> <<Slash>> \o p[k]])

\* What is left of s without base in front, or nothing.
unJoinPaths(base, s) ==
    IF IsPrefix(base, s) THEN SubSeq(s, Len(base) + 1, Len(s)) ELSE <<>>

\* url / container / remote_dir / localRelativePath.  For what is left over the
\* last goes without its slash, which joinSlashes drops anyway.
urlOf(e, p) == address(e.base, <<e.container, e.remote_dir, Relative(p)>>)

accepted[e \in Entries] == [p \in Path |-> parses(urlOf(e, p))]
dest[e \in Entries] == [p \in Path |-> parse(urlOf(e, p))]

\* The name, in its container, of the object that p should be uploaded to.
objectName[e \in Entries] ==
    [p \in Path |-> joinSlashes(<<e.remote_dir, Relative(p)>>)]

Names == Foreign \cup {objectName[entry][p] : p \in Path}

\* The name of a file or a directory is not empty and has no slash, a container
\* and a remote_dir are not empty (config.hpp:65-66), the URL of an account is one
\* (Rackspace.hpp:46-60), and no foreign name is taken for that of a local path.
ASSUME SyncAssumption ==
    /\ IsFiniteSet(Path) /\ IsFiniteSet(Foreign)
    /\ Path \subseteq Seq(Seq(Byte)) \ {<<>>}
    /\ \A p \in Path : \A k \in DOMAIN p : p[k] # <<>> /\ Slash \notin Range(p[k])
    /\ Foreign \subseteq Seq(Byte)
    /\ \A e \in Entries : /\ {e.container, e.remote_dir} \subseteq Seq(Byte) \ {<<>>}
                         /\ e.base \in Seq(Byte) /\ parses(e.base)
    /\ \A e \in Entries, name \in Foreign, p \in Path :
          unJoinPaths(e.remote_dir, name) # Relative(p)

\* The login service hands out no URL that has a search, or a question mark at its end.
ASSUME AccountAssumption ==
    \A e \in Entries : run(e.base).state \notin {"afterPath", "search"}

-----------------------------------------------------------------------------
\* What is below a path that is there is below a directory.
Tree == {k \in [Path -> Kind] :
           \A p, q \in Path :
              IsStrictPrefix(p, q) /\ k[q] # "absent" => k[p] = "directory"}

Init ==
    /\ pc = "connect"
    /\ kind \in Tree
    /\ newer \in [Path -> BOOLEAN]
    /\ \A p \in Path : newer[p] => kind[p] \in {"empty", "file"}
    /\ entry \in Entries
    /\ localFiles = <<>>
    /\ local = 1
    /\ page = <<>>
    /\ remote = 1
    /\ jobs = <<>>

\* Other processes, while the listing is fetched.
Change(p) ==
    /\ pc = "listing"
    /\ \/ /\ kind[p] \in {"empty", "file"}
          /\ kind' = [kind EXCEPT ![p] = "absent"]
          /\ UNCHANGED newer
       \/ /\ kind[p] \in {"empty", "file"}
          /\ kind' = [kind EXCEPT ![p] = "file"]
          /\ newer' = [newer EXCEPT ![p] = TRUE]
    /\ UNCHANGED <<pc, entry, localFiles, local, page, remote, jobs>>

\* Connected: list the local files, and sort them.
ListLocal ==
    /\ pc = "connect"
    /\ localFiles' = sort({p \in Path : kind[p] # "absent"}, PathBefore)
    /\ pc' = IF localFiles' = <<>> THEN "done" ELSE "listing"
    /\ UNCHANGED <<kind, newer, entry, local, page, remote, jobs>>

\* The answer to the request for the listing: a page, no content, or an error.
doGetPages ==
    /\ pc = "listing"
    /\ \/ /\ pc' = "merge"
          /\ \E names \in SUBSET Names : page' = sort(names, ByteBefore)
       \/ pc' = "leftover" /\ UNCHANGED page
       \/ pc' = "failed" /\ UNCHANGED page
    /\ UNCHANGED <<kind, newer, entry, localFiles, local, remote, jobs>>

-----------------------------------------------------------------------------
(* The merge                                                               *)

\* On to the next local file.
Pass ==
    /\ local' = local + 1
    /\ UNCHANGED <<jobs, pc>>

\* shouldIgnoreFile, then addJob with the URL of the object, whose constructor
\* throws if the parser does not take it.
Upload(p) ==
    \/ p \in Ignored /\ Pass
    \/ /\ p \notin Ignored /\ accepted[entry][p]
       /\ jobs' = Append(jobs, p)
       /\ local' = local + 1
       /\ UNCHANGED pc
    \/ /\ p \notin Ignored /\ ~accepted[entry][p]
       /\ pc' = "badURL"
       /\ UNCHANGED <<jobs, local>>

\* A pair of the loop, neither iterator at its end, that is no directory.
Comparing ==
    /\ pc = "merge"
    /\ local <= Len(localFiles) /\ remote <= Len(page)
    /\ kind[localFiles[local]] # "directory"

here == localFiles[local]
remoteRelativePath == unJoinPaths(entry.remote_dir, page[remote])

SkipDirectory ==
    /\ pc = "merge"
    /\ local <= Len(localFiles) /\ remote <= Len(page)
    /\ kind[here] = "directory"
    /\ local' = local + 1
    /\ UNCHANGED <<pc, kind, newer, entry, localFiles, page, remote, jobs>>

\* last_write_time and file_size throw if the file has gone.
Vanished ==
    /\ Comparing
    /\ kind[here] = "absent"
    /\ Relative(here) = remoteRelativePath
          \/ ByteBefore(Relative(here), remoteRelativePath)
    /\ pc' = "vanished"
    /\ UNCHANGED <<kind, newer, entry, localFiles, local, page, remote, jobs>>

SameNameAnyTime ==   \* bug: a copy is good, however old it is
    /\ Comparing
    /\ kind[here] # "absent"
    /\ Relative(here) = remoteRelativePath
    /\ local' = local + 1
    /\ remote' = remote + 1
    /\ UNCHANGED <<pc, kind, newer, entry, localFiles, page, jobs>>
SameName ==
    /\ Comparing
    /\ kind[here] # "absent"
    /\ Relative(here) = remoteRelativePath
    /\ IF newer[here] /\ kind[here] = "file" THEN Upload(here) ELSE Pass
    /\ remote' = remote + 1
    /\ UNCHANGED <<kind, newer, entry, localFiles, page>>

\* The server has no such file.
LocalFirstTakesPair ==   \* bug: the name that comes later is taken as well
    /\ Comparing
    /\ kind[here] # "absent"
    /\ ByteBefore(Relative(here), remoteRelativePath)
    /\ IF kind[here] = "file" THEN Upload(here) ELSE Pass
    /\ remote' = remote + 1
    /\ UNCHANGED <<kind, newer, entry, localFiles, page>>
LocalFirst ==
    /\ Comparing
    /\ kind[here] # "absent"
    /\ ByteBefore(Relative(here), remoteRelativePath)
    /\ IF kind[here] = "file" THEN Upload(here) ELSE Pass
    /\ UNCHANGED <<kind, newer, entry, localFiles, page, remote>>

RemoteFirst ==
    /\ Comparing
    /\ ByteBefore(remoteRelativePath, Relative(here))
    /\ remote' = remote + 1
    /\ UNCHANGED <<pc, kind, newer, entry, localFiles, local, page, jobs>>

PageEndsStepBack ==   \* bug: off by one, the last file is looked at again
    /\ pc = "merge"
    /\ local > Len(localFiles) \/ remote > Len(page)
    /\ pc' = "leftover"
    /\ local' = local - 1
    /\ UNCHANGED <<kind, newer, entry, localFiles, page, remote, jobs>>
PageEndsOnLast ==   \* bug: the last file counts as left over in any case
    /\ pc = "merge"
    /\ local > Len(localFiles) \/ remote > Len(page)
    /\ pc' = "leftover"
    /\ local' = IF local > Len(localFiles) THEN Len(localFiles) ELSE local
    /\ UNCHANGED <<kind, newer, entry, localFiles, page, remote, jobs>>
PageEnds ==
    /\ pc = "merge"
    /\ local > Len(localFiles) \/ remote > Len(page)
    /\ pc' = "leftover"
    /\ UNCHANGED <<kind, newer, entry, localFiles, local, page, remote, jobs>>

\* Whatever is left over is uploaded, directories and empty files as well.
UploadLeftover ==
    /\ pc = "leftover"
    /\ local <= Len(localFiles)
    /\ Upload(here)
    /\ UNCHANGED <<kind, newer, entry, localFiles, page, remote>>

Finish ==
    /\ pc = "leftover"
    /\ local > Len(localFiles)
    /\ pc' = "done"
    /\ UNCHANGED <<kind, newer, entry, localFiles, local, page, remote, jobs>>

Next ==
    \/ \E p \in Path : Change(p)
    \/ ListLocal
    \/ doGetPages
    \/ SkipDirectory
    \/ Vanished
    \/ SameName
    \/ LocalFirst
    \/ RemoteFirst
    \/ PageEnds
    \/ UploadLeftover
    \/ Finish

Spec == Init /\ [][Next]_vars

-----------------------------------------------------------------------------
(* Properties                                                              *)

\* The iterators stay in the range of what they iterate over.
TypeOK ==
    /\ pc \in {"connect", "listing", "merge", "leftover", "done",
               "failed", "vanished", "badURL"}
    /\ kind \in [Path -> Kind]
    /\ newer \in [Path -> BOOLEAN]
    /\ entry \in Entries
    /\ Range(localFiles) \subseteq Path
    /\ local \in 1..(Len(localFiles) + 1)
    /\ Range(page) \subseteq Names
    /\ remote \in 1..(Len(page) + 1)
    /\ Range(jobs) \subseteq Path

UpToDate(p) == objectName[entry][p] \in Range(page) /\ ~newer[p]

HasJob(p) == p \in Range(jobs)

\* What the server makes of the target of the request of a job.
target[e \in Entries] == [p \in Path |-> urldecode(pathAndSearch(dest[e][p]))]

\* Whatever the listing holds, and in whatever order it and the local files
\* are, a file with content whose copy is missing or older is uploaded, unless
\* it is ignored (syncAllDirectories.cpp:63-142).
NoneMissed ==
    pc = "done" =>
       \A p \in Range(localFiles) :
          kind[p] = "file" /\ p \notin Ignored /\ ~UpToDate(p) => HasJob(p)

\* No two jobs are about the same object.  They would race each other, as each
\* may go to a worker of its own (syncAllDirectories.cpp:82-85, 136-139).
NoneTwice ==
    \A i, k \in DOMAIN jobs : target[entry][jobs[i]] = target[entry][jobs[k]] => i = k

\* remote_dir has no slash at its ends.
Plain == entry.remote_dir = trim(entry.remote_dir)

\* Both orders are the same for the local files.
SameOrder ==
    \A p, q \in Range(localFiles) :
       PathBefore(p, q) => ByteBefore(Relative(p), Relative(q))

\* A file whose copy the listing shows to be up to date is not uploaded again.
\* This needs a remote directory without a slash at its ends (else unJoinPaths
\* does not find the names that joinSlashes has made), and local files whose
\* order as paths is their order as strings (syncAllDirectories.cpp:39-41).
NoneNeedless ==
    Plain /\ SameOrder =>
       \A p \in Path : kind[p] = "file" /\ UpToDate(p) => ~HasJob(p)

reaches[e \in Entries] ==
    LET account == parse(trim(e.base))
    IN  [p \in Path |->
           /\ dest[e][p].host = account.host
           /\ dest[e][p].search = <<>>
           /\ target[e][p] = urldecode(account.path) \o <<Slash>> \o trim(e.container)
                               \o <<Slash>> \o objectName[e][p]]

\* Whatever bytes the names have, the request of a job goes to the server of the
\* account and is about the object that the path stands for, and HEAD and PUT
\* are about the same one although the first leaves the search out
\* (url.cpp:37-97, upload.cpp:80, 170).
JobsReachTheirObjects ==
    \A p \in Range(jobs) : reaches[entry][p]

asWritten[e \in Entries] == [p \in Path |-> Made(urlOf(e, p), dest[e][p])]

\* The generated automaton takes a URL apart in the way url.rl puts it together,
\* though it learns only at an @ or at a slash whether it has read a user and a
\* password or a host and a port (url_parser.hpp:119-343).
ReadAsWritten ==
    \A p \in Range(jobs) : asWritten[entry][p]

Tilde == 126

\* No name but one with a tilde ends the coroutine, and with it the process.
OnlyTildeRefused ==
    pc = "badURL" =>
       Tilde \in Range(entry.container \o entry.remote_dir \o Relative(here))

-----------------------------------------------------------------------------
(* What the repository says and the code does not do                       *)

\* url.cpp:42: "Legal statements - a-z A-Z 0-9 . - _ ~ ! $ & ' ( ) * + , ; = : @":
\* what urlencode makes of a name can stand in a URL.
EncodedNamesLegal == pc # "badURL"
=============================================================================
