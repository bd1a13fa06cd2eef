---------------------------- MODULE MCSyncEntry ----------------------------
\* Instances of SyncEntry for TLC.
EXTENDS SyncEntry

\* "a", "a-%41?" and "b"; 45 is "-", which comes before the slash
a == <<97>>
aDash == <<97, 45, 37, 52, 49, 63>>
b == <<98>>
\* ":@" and a byte that is no character of its own
special == <<58, 64, 255>>

Paths == {<<a>>, <<a, special>>, <<aDash>>, <<b>>}
IgnoredPaths == {<<b>>}
NoPaths == {}

\* "r", "/" and "r~"
r == <<114>>
root == <<Slash>>
rTilde == <<114, Tilde>>

\* "http://h/v", "https://u:9@h.i:80", "http://h:8/v"
plainBase == http \o <<104, 47, 118>>
loginBase == https \o <<117, 58, 57, 64, 104, 46, 105, 58, 56, 48>>
portBase == http \o <<104, 58, 56, 47, 118>>

entryOf(base, container, dir) ==
    [base |-> base, container |-> container, remote_dir |-> dir]

\* The container of the second one is called "c?".
ThreeEntries == {
    entryOf(plainBase, <<99>>, r),
    entryOf(loginBase, <<99, 63>>, root),
    entryOf(portBase, <<99>>, rTilde) }

OneEntry == {entryOf(plainBase, <<99>>, r)}

\* "a" and "~"
TildePaths == {<<a>>, <<<<Tilde>>>>}

\* "ra": in the listing of the prefix "r", but outside of the directory
ForeignNames == {<<114, 97>>}
=============================================================================
