----------------------------- MODULE MCStartup -----------------------------
\* Instances of Startup for TLC: three entries, two of one account, a file
\* without a container, one whose extension is not known, and two names that
\* are free for a sample.
EXTENDS Startup

Good == [wellFormed |-> TRUE, keys |-> Required, patterns |-> TRUE]

Extensions ==
    [f \in ConfigFile |->
        CASE f = "c" -> ".conf" [] f = "b" -> ".json" [] f = "y" -> ".xml"
          [] f = "z" -> ".ini" [] OTHER -> ".info"]

Contents ==
    [f \in ConfigFile |->
        CASE f = "x" -> [Good EXCEPT !.keys = Required \ {"container"}]
          [] f \in {"y", "z"} -> NoFile
          [] OTHER -> Good]

\* The directories of "a" and "b" are the same.
LocalDirs == [f \in ConfigFile |-> IF f = "d" THEN 1 ELSE 2]

Usernames == [f \in ConfigFile |-> IF f = "b" THEN "bob" ELSE "alice"]

AllFaults == {"config", "connect", "write", "read", "sync", "watch", "slow"}

\* Every region is known, or "b" names one that is not.
Catalogues == {ConfigFile, ConfigFile \ {"b"}}
=============================================================================
