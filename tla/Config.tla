------------------------------- MODULE Config -------------------------------
(***************************************************************************)
(* The configuration: how its files are read, in whatever order the        *)
(* directory gives them (config_reader.cpp), how entries are kept sorted   *)
(* and found (config.cpp), and how a sample is written (config_writer.cpp).*)
(*                                                                         *)
(* A file is what parseTree asks of it: whether its parser takes it, which *)
(* keys have a value, and whether its patterns are regular expressions.    *)
(* Strings are abstract; a local_dir is its rank among them.               *)
(***************************************************************************)
EXTENDS Naturals, Functions, SequencesExt

CONSTANTS
    ConfigFile,   \* names of files
    extension,    \* extension[f]
    content,      \* content[f] at the start
    local_dir,    \* local_dir[f]: what f gives as such, if it gives one
    NoFile        \* the content of a name that is not a file

\* What parseTree cannot do without.
Required ==
    {"username", "apikey", "region", "container", "local_dir", "remote_dir"}

Text == [wellFormed : BOOLEAN, keys : SUBSET Required, patterns : BOOLEAN]

ASSUME ConfigAssumption ==
    /\ IsFiniteSet(ConfigFile)
    /\ extension \in [ConfigFile -> {".ini", ".json", ".xml", ".info", ".conf"}]
    /\ content \in [ConfigFile -> Text \cup {NoFile}]
    /\ local_dir \in [ConfigFile -> Nat]
    /\ NoFile \notin Text

VARIABLES
    disk,      \* content of each file
    unread,    \* files that the directory iterator has still to give
    entries    \* Config::_entries, each as the file that it comes from

configVars == <<disk, unread, entries>>

ConfigInit ==
    /\ disk = content
    /\ unread = {f \in ConfigFile : content[f] # NoFile}
    /\ entries = <<>>

-----------------------------------------------------------------------------
(* Reading                                                                 *)

\* A file with any other extension gives an empty tree.
parsed(f) == extension[f] \in {".ini", ".json", ".xml", ".info"}

\* parseTree and addEntry throw nothing.
loads(f) ==
    /\ disk[f] # NoFile
    /\ parsed(f)
    /\ disk[f].wellFormed
    /\ Required \subseteq disk[f].keys
    /\ disk[f].patterns

\* std::lower_bound over sorted entries: the first that is not less.
lower_bound(dir) ==
    Cardinality({i \in DOMAIN entries : local_dir[entries[i]] < dir}) + 1

addEntryAtEnd(f) ==   \* bug: push_back, as Entries in config.hpp offers it
    entries' = Append(entries, f)
addEntry(f) ==
    entries' = InsertAt(entries, lower_bound(local_dir[f]), f)

\* Whatever is wrong with a file is logged, and the next one is read.
readFile(f) ==
    /\ unread' = unread \ {f}
    /\ \/ loads(f) /\ addEntry(f)
       \/ ~loads(f) /\ UNCHANGED entries
    /\ UNCHANGED disk

\* The operating system does not let it be read.
readFileFails(f) ==
    /\ unread' = unread \ {f}
    /\ UNCHANGED <<disk, entries>>

\* The entry that getEntryByPath returns, if it does not throw.
getEntryByPath(dir) == entries[lower_bound(dir)]

-----------------------------------------------------------------------------
(* Writing a sample                                                        *)

\* writeEntry opens the file before it knows whether it can write it, and for
\* an .ini file write_ini throws at the second pattern called "3".
SampleKeysAsDocumented ==   \* bug: the keys of the comment in config_reader.cpp
    (Required \ {"local_dir", "remote_dir"})
SampleKeys == Required

sample(f) ==
    [wellFormed |-> TRUE, patterns |-> TRUE,
     keys |-> IF parsed(f) THEN SampleKeys ELSE {}]

writes(f) == extension[f] \in {".json", ".xml", ".info"}

\* write_sample_config throws, or not.
SampleWritten(f) ==
    /\ disk[f] = NoFile /\ writes(f)
    /\ disk' = [disk EXCEPT ![f] = sample(f)]
    /\ UNCHANGED <<unread, entries>>
SampleRefused(f) ==
    /\ \/ disk[f] # NoFile /\ UNCHANGED disk
       \/ /\ disk[f] = NoFile /\ ~writes(f)
          /\ disk' = [disk EXCEPT ![f] = sample(f)]
    /\ UNCHANGED <<unread, entries>>

-----------------------------------------------------------------------------
(* Properties                                                              *)

ConfigTypeOK ==
    /\ disk \in [ConfigFile -> Text \cup {NoFile}]
    /\ unread \subseteq ConfigFile
    /\ entries \in Seq(ConfigFile)

\* Whatever the order in which the files are read, and whichever of them are
\* refused, the entries are sorted and each file counts once; the binary search
\* of getEntryByPath then finds an entry for each local_dir that has one
\* (config.cpp:29-51).
ConfigInOrder ==
    /\ IsInjective(entries)
    /\ \A i, j \in DOMAIN entries :
          i < j => local_dir[entries[i]] <= local_dir[entries[j]]
    /\ \A f \in Range(entries) :
          /\ lower_bound(local_dir[f]) <= Len(entries)
          /\ local_dir[getEntryByPath(local_dir[f])] = local_dir[f]
=============================================================================
