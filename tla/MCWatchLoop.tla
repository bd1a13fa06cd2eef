---------------------------- MODULE MCWatchLoop ----------------------------
\* Instances of WatchLoop for TLC.
EXTENDS WatchLoop

\* One entry, whose local_dir ends in a slash, as in the sample configuration;
\* the same directory in two entries; one inside the other, without and with
\* slashes.
SomeConfigs ==
    {<<<<"a", "">>>>, <<<<"a">>, <<"a">>>>, <<<<"a">>, <<"a", "x">>>>,
     <<<<"a", "">>, <<"a", "x", "">>>>}
TwoRoots == {<<<<"a">>, <<"b">>>>}
AllOps == {"mkdir", "rmdir", "rename", "write", "unlink"}
RemovalOps == {"write", "unlink", "rmdir"}

\* Inodes are interchangeable.  The properties name none of them.
Symmetry == Permutations(Ino)
=============================================================================
