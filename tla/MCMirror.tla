------------------------------ MODULE MCMirror ------------------------------
\* Instances of Mirror for TLC.
EXTENDS Mirror

AllFaults == {"connect", "job", "reconnect"}
NoFaults == {}
AllJobFaults == {"upload", "body"}

\* All the files of an instance belong to one entry.
oneUrl == [f \in File |-> CHOOSE u \in Url : TRUE]

Symmetry == Permutations(Worker) \cup Permutations(Job) \cup Permutations(File)
=============================================================================
