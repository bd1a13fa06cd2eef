-------------------------- MODULE WatchExactProofs --------------------------
(***************************************************************************)
(* The watches are the right ones while the other processes leave the      *)
(* daemon time to follow: WatchesExactly of WatchLoop, for every           *)
(* configuration of disjoint entries and every tree of directories.        *)
(***************************************************************************)
EXTENDS WatchLoopProofs

-----------------------------------------------------------------------------
(* The inductive invariant                                                 *)

\* The string of an event: what its handler makes of it.
Named(e) == Append(dir(watches[e.wd]), e.name)

\* Each path that the daemon knows is one that it should watch, and is where
\* the kernel's watch is, unless that has ended and the event is still to come.
PathsSound ==
    \A p \in DOMAIN paths :
       /\ paths[p] \in DOMAIN watches /\ watches[paths[p]] = p
       /\ ~shouldIgnoreDirectory(p)
       /\ \/ IsDirectory(dir(p)) /\ wdOf[tree[dir(p)]] = paths[p]
          \/ Ignored(paths[p]) \in Range(coming)

\* Each directory is in an entry, with all that is above it in there.
Rooted ==
    \A p \in DOMAIN tree : \E k \in DOMAIN roots :
       /\ IsPrefix(dir(roots[k]), p)
       /\ \A n \in Len(dir(roots[k]))..Len(p) :
             /\ SubSeq(p, 1, n) \in DOMAIN tree
             /\ n > Len(dir(roots[k])) => p[n] \in Name

\* What the scan has still to do are directories, none of which contains
\* another or one that is watched already; a directory that is not watched yet
\* will be met.
ScanSound ==
    /\ coming = <<>>
    /\ Rooted
    /\ \A k \in DOMAIN scan : IsDirectory(dir(scan[k].path))
    /\ \A k, m \in DOMAIN scan : k # m => ~IsPrefix(dir(scan[k].path), dir(scan[m].path))
    /\ \A k \in DOMAIN scan, q \in DOMAIN tree :
          wdOf[tree[q]] # 0 /\ IsPrefix(dir(scan[k].path), q) =>
             scan[k].step = "list" /\ q = dir(scan[k].path)
    /\ \A q \in DOMAIN tree :
          ~shouldIgnoreDirectory(q) /\ wdOf[tree[q]] = 0 =>
             \E k \in DOMAIN scan :
                /\ IsPrefix(dir(scan[k].path), q)
                /\ scan[k].step = "list" => q # dir(scan[k].path)

\* What is coming is of one operation, and true; a directory that is not
\* watched yet is in it.
ComingSound ==
    /\ \A k \in DOMAIN coming :
          LET e == coming[k]
          IN  /\ e.kind \in {"created", "deleted", "closed", "deletedDir", "ignored"}
              /\ e.kind \in {"created", "closed"} => Len(coming) = 1
              /\ e.kind = "created" =>
                    e.name # "" /\ IsDirectory(Named(e)) /\ wdOf[tree[Named(e)]] = 0
              /\ e.kind = "closed" => FileExists(Named(e))
    /\ \A q \in DOMAIN tree :
          ~shouldIgnoreDirectory(q) /\ wdOf[tree[q]] = 0 =>
             \E k \in DOMAIN coming : coming[k].kind = "created" /\ Named(coming[k]) = q

\* What holds while nobody is ahead of the daemon.
Quiet ==
    calm /\ Disjoint =>
       /\ PathsSound
       /\ \/ loop = "scanning" /\ ScanSound
          \/ loop = "running" /\ ComingSound

\* What holds in every reachable state.
ExactInv == IInv /\ (calm => ~moved) /\ Quiet

-----------------------------------------------------------------------------
(* Paths                                                                   *)

\* Of two paths above the same one, the shorter is above the longer.
LEMMA PrefixOrder ==
    ASSUME NEW S, NEW a \in Seq(S), NEW b \in Seq(S), NEW t \in Seq(S),
           IsPrefix(a, t), IsPrefix(b, t), Len(a) <= Len(b)
    PROVE  IsPrefix(a, b)
<1>1. /\ \A i \in 1..Len(a) : a[i] = t[i]
      /\ \A i \in 1..Len(b) : b[i] = t[i]
      /\ Len(a) \in Nat /\ Len(b) \in Nat
  BY PrefixFacts
<1>2. \A i \in 1..Len(a) : a[i] = b[i]
  BY <1>1
<1> QED BY <1>2, PrefixFacts

\* A prefix of the same length is the whole.
LEMMA PrefixWhole ==
    ASSUME NEW S, NEW a \in Seq(S), NEW t \in Seq(S), IsPrefix(a, t), Len(a) = Len(t)
    PROVE  a = t
<1>1. \A i \in 1..Len(a) : a[i] = t[i]
  BY PrefixFacts
<1> QED BY <1>1, SeqEqual

\* The path to a given depth on the way to t.
LEMMA OnTheWay ==
    ASSUME NEW S, NEW t \in Seq(S), NEW n \in 0..Len(t)
    PROVE  /\ SubSeq(t, 1, n) \in Seq(S) /\ Len(SubSeq(t, 1, n)) = n
           /\ IsPrefix(SubSeq(t, 1, n), t)
<1>1. Len(t) \in Nat /\ n \in Nat /\ n <= Len(t)
  OBVIOUS
<1>2. \A i \in 1..n : t[i] \in S
  BY <1>1, ElementOfSeq
<1> DEFINE s == SubSeq(t, 1, n)
<1>3. s \in Seq(S) /\ Len(s) = n /\ \A i \in 1..n : s[i] = t[i]
  BY <1>1, <1>2, SubSeqProperties
<1> HIDE DEF s
<1>4. IsPrefix(s, t)
  BY <1>1, <1>3, PrefixFacts
<1> QED BY <1>3, <1>4 DEF s

\* A trailing slash does not change whether a directory is ignored.
LEMMA IgnoredAsString ==
    ASSUME NEW p \in Path
    PROVE  shouldIgnoreDirectory(dir(p)) <=> shouldIgnoreDirectory(p)
<1>1. CASE Last(p) # ""
  BY <1>1 DEF dir
<1>2. CASE Last(p) = ""
  <2>1. /\ p \in Seq(AnyName) /\ p # <<>>
        /\ Len(p) \in Nat \ {0} /\ Front(p) \in Seq(AnyName) /\ Len(Front(p)) = Len(p) - 1
        /\ \A i \in 1..(Len(p) - 1) : Front(p)[i] = p[i]
    BY FrontFacts DEF Path
  <2>2. p[Len(p)] = ""
    BY <1>2 DEF Last
  <2> DEFINE f == Front(p)
  <2> HIDE DEF f
  <2>3. DOMAIN p = 1..Len(p) /\ DOMAIN f = 1..(Len(p) - 1)
    BY <2>1 DEF f
  <2>4. Range(f) \subseteq Range(p)
    <3> SUFFICES ASSUME NEW i \in DOMAIN f
                 PROVE  f[i] \in Range(p)
      BY DEF Range
    <3>1. i \in DOMAIN p /\ f[i] = p[i]
      BY <2>1, <2>3 DEF f
    <3> QED BY <3>1 DEF Range
  <2>5. Range(p) \subseteq Range(f) \cup {""}
    <3> SUFFICES ASSUME NEW i \in DOMAIN p
                 PROVE  p[i] = "" \/ p[i] \in Range(f)
      BY DEF Range
    <3>1. i = Len(p) \/ i \in 1..(Len(p) - 1)
      BY <2>1, <2>3
    <3>2. CASE i = Len(p)
      BY <2>2, <3>2
    <3>3. CASE i \in 1..(Len(p) - 1)
      <4>1. i \in DOMAIN f /\ f[i] = p[i]
        BY <2>1, <2>3, <3>3 DEF f
      <4> QED BY <4>1 DEF Range
    <3> QED BY <3>1, <3>2, <3>3
  <2>6. dir(p) = f
    BY <1>2 DEF dir, f
  <2>7. "" \notin IgnoredName
    BY NamesAssumption
  <2> QED BY <2>4, <2>5, <2>6, <2>7 DEF shouldIgnoreDirectory
<1> QED BY <1>1, <1>2

\* What is in an ignored directory is ignored.
LEMMA IgnoredBelow ==
    ASSUME NEW s \in Seq(AnyName), NEW t \in Seq(AnyName), IsPrefix(s, t),
           shouldIgnoreDirectory(s)
    PROVE  shouldIgnoreDirectory(t)
<1>1. /\ Len(s) <= Len(t) /\ \A i \in 1..Len(s) : s[i] = t[i]
      /\ DOMAIN s = 1..Len(s) /\ DOMAIN t = 1..Len(t)
      /\ Len(s) \in Nat /\ Len(t) \in Nat
  BY PrefixFacts
<1>2. PICK i \in DOMAIN s : s[i] \in IgnoredName
  BY DEF shouldIgnoreDirectory, Range
<1>3. i \in DOMAIN t /\ t[i] = s[i]
  BY <1>1
<1> QED BY <1>2, <1>3 DEF shouldIgnoreDirectory, Range

\* A path is in at most one of disjoint entries.
LEMMA OneRoot ==
    ASSUME Rest, Disjoint, NEW q \in Seq(AnyName),
           NEW k \in DOMAIN roots, IsPrefix(dir(roots[k]), q),
           NEW m \in DOMAIN roots, IsPrefix(dir(roots[m]), q)
    PROVE  k = m
<1>1. roots[k] \in Range(roots) /\ roots[m] \in Range(roots)
  BY DEF Range
<1>2. roots[k] \in Path /\ roots[m] \in Path
  BY <1>1, RootsTyped
<1> DEFINE a == dir(roots[k])
           b == dir(roots[m])
<1>3. a \in Seq(AnyName) /\ b \in Seq(AnyName)
  BY <1>2, dirTyped
<1>4. IsPrefix(a, q) /\ IsPrefix(b, q)
  OBVIOUS
<1>5. k # m => ~IsPrefix(a, b) /\ ~IsPrefix(b, a)
  BY DEF Disjoint
<1> HIDE DEF a, b
<1>6. Len(a) \in Nat /\ Len(b) \in Nat
  BY <1>3
<1>7. CASE Len(a) <= Len(b)
  BY <1>3, <1>4, <1>5, <1>7, PrefixOrder
<1>8. CASE Len(b) <= Len(a)
  BY <1>3, <1>4, <1>5, <1>8, PrefixOrder
<1> QED BY <1>6, <1>7, <1>8

-----------------------------------------------------------------------------
(* Watching a directory                                                    *)

\* A directory that the kernel watches has a path that leads to its watch.
LEMMA KnownPlace ==
    ASSUME IInv, ~moved, NEW q \in DOMAIN tree, wdOf[tree[q]] # 0
    PROVE  LET wd == wdOf[tree[q]]
           IN  /\ wd \in DOMAIN watches /\ watches[wd] \in DOMAIN paths
               /\ watches[wd] \in Path
               /\ paths[watches[wd]] = wd /\ dir(watches[wd]) = q
<1>1. tree[q] \in Ino
  BY DEF IInv, Rest
<1> DEFINE wd == wdOf[tree[q]]
<1>2. wd \in DOMAIN watches
  BY <1>1 DEF IInv, Maps
<1>3. watches[wd] \in DOMAIN paths /\ paths[watches[wd]] = wd /\ watches[wd] \in Path
  BY <1>2 DEF IInv, Maps, MapsAgree
<1>4. dir(watches[wd]) \in DOMAIN tree /\ tree[dir(watches[wd])] = tree[q]
  BY <1>1 DEF IInv, Located, IsDirectory
<1>5. dir(watches[wd]) = q
  BY <1>4 DEF IInv, Rest
<1> QED BY <1>2, <1>3, <1>5

\* A directory without a watch gets one, unless it is ignored, and nothing fails.
LEMMA WatchesIt ==
    ASSUME IInv, PathsSound, \A k \in DOMAIN coming : coming[k].kind # "ignored",
           NEW path \in Path, NEW entry, dir(path) \in DOMAIN tree,
           wdOf[tree[dir(path)]] = 0, watchNewDirectory(path, entry), tree' = tree
    PROVE  /\ PathsSound'
           /\ events' = events /\ loop' = loop
           /\ \A q \in DOMAIN tree :
                 wdOf'[tree[q]] = 0 <=>
                    wdOf[tree[q]] = 0 /\ (q = dir(path) => shouldIgnoreDirectory(path))
<1> DEFINE i == tree[dir(path)]
<1>1. \A p \in DOMAIN paths :
         /\ paths[p] \in DOMAIN watches /\ watches[paths[p]] = p
         /\ ~shouldIgnoreDirectory(p)
         /\ IsDirectory(dir(p)) /\ wdOf[tree[dir(p)]] = paths[p]
         /\ paths[p] # 0
  <2> SUFFICES ASSUME NEW p \in DOMAIN paths
               PROVE  /\ paths[p] \in DOMAIN watches /\ watches[paths[p]] = p
                      /\ ~shouldIgnoreDirectory(p)
                      /\ IsDirectory(dir(p)) /\ wdOf[tree[dir(p)]] = paths[p]
                      /\ paths[p] # 0
    OBVIOUS
  <2>1. Ignored(paths[p]) \notin Range(coming)
    BY DEF Range, Ignored
  <2>2. DOMAIN watches \subseteq 1..(nextWd - 1)
    BY DEF IInv, Maps
  <2>3. paths[p] \in DOMAIN watches
    BY DEF PathsSound
  <2>4. paths[p] # 0
    BY <2>2, <2>3
  <2> QED BY <2>1, <2>4 DEF PathsSound
<1>2. path \notin DOMAIN paths
  BY <1>1
<1>3. /\ wdOf \in [Ino -> 0..(nextWd - 1)] /\ nextWd \in Nat \ {0}
      /\ i \in Ino /\ \A q \in DOMAIN tree : tree[q] \in Ino
      /\ \A p, q \in DOMAIN tree : tree[p] = tree[q] => p = q
      /\ DOMAIN watches \subseteq 1..(nextWd - 1)
  BY DEF IInv, Maps, Rest
<1>4. CASE /\ shouldIgnoreDirectory(path)
           /\ UNCHANGED <<kernelVars, mapVars, loop>>
  <2>1. /\ wdOf' = wdOf /\ events' = events /\ loop' = loop
        /\ watches' = watches /\ paths' = paths
    BY <1>4 DEF kernelVars, mapVars
  <2>2. PathsSound'
    BY <1>1, <2>1 DEF PathsSound, IsDirectory
  <2> QED BY <1>4, <2>1, <2>2
<1>5. CASE ~shouldIgnoreDirectory(path) /\ AddNew(path, entry)
  <2>1. /\ wdOf' = [wdOf EXCEPT ![i] = nextWd]
        /\ watches' = Put(watches, nextWd, path)
        /\ paths' = Put(paths, path, nextWd)
        /\ events' = events /\ loop' = loop
    BY <1>5 DEF AddNew
  <2>2. /\ wdOf'[i] = nextWd /\ nextWd # 0
        /\ \A h \in Ino : h # i => wdOf'[h] = wdOf[h]
    BY <1>3, <2>1
  <2>3. \A q \in DOMAIN tree : wdOf'[tree[q]] = 0 <=> wdOf[tree[q]] = 0 /\ q # dir(path)
    BY <1>3, <2>2
  <2>4. ASSUME NEW p \in DOMAIN paths'
        PROVE  /\ paths'[p] \in DOMAIN watches' /\ watches'[paths'[p]] = p
               /\ ~shouldIgnoreDirectory(p)
               /\ dir(p) \in DOMAIN tree /\ wdOf'[tree[dir(p)]] = paths'[p]
    <3>1. CASE p = path
      BY <1>5, <2>1, <2>2, <3>1 DEF Put
    <3>2. CASE p # path
      <4>1. p \in DOMAIN paths /\ paths'[p] = paths[p]
        BY <2>1, <3>2 DEF Put
      <4>2. paths[p] # nextWd
        BY <1>1, <1>3, <4>1
      <4>3. tree[dir(p)] # i /\ tree[dir(p)] \in Ino
        BY <1>1, <1>3, <4>1 DEF IsDirectory
      <4>4. paths[p] \in DOMAIN watches' /\ watches'[paths[p]] = watches[paths[p]]
        BY <1>1, <2>1, <4>1, <4>2 DEF Put
      <4> QED BY <1>1, <2>2, <4>1, <4>3, <4>4 DEF IsDirectory
    <3> QED BY <3>1, <3>2
  <2>5. PathsSound'
    BY <2>4 DEF PathsSound, IsDirectory
  <2> QED BY <1>5, <2>1, <2>3, <2>5
<1> QED BY <1>2, <1>4, <1>5 DEF watchNewDirectory, addWatch, AddAlias, IsDirectory

-----------------------------------------------------------------------------
(* The scan                                                                *)

\* A list whose first item is replaced by others.
LEMMA HeadReplaced ==
    ASSUME NEW S, NEW s \in Seq(S), s # <<>>, NEW new \in Seq(S)
    PROVE  /\ new \o Tail(s) \in Seq(S) /\ Len(new \o Tail(s)) = Len(new) + Len(s) - 1
           /\ \A k \in 1..Len(new) :
                 k \in DOMAIN (new \o Tail(s)) /\ (new \o Tail(s))[k] = new[k]
           /\ \A k \in 2..Len(s) :
                 /\ Len(new) + k - 1 \in DOMAIN (new \o Tail(s))
                 /\ (new \o Tail(s))[Len(new) + k - 1] = s[k]
           /\ \A k \in DOMAIN (new \o Tail(s)) :
                 \/ k \in 1..Len(new)
                 \/ /\ k - Len(new) + 1 \in 2..Len(s)
                    /\ (new \o Tail(s))[k] = s[k - Len(new) + 1]
<1>1. Len(s) \in Nat \ {0} /\ Len(new) \in Nat
  BY EmptySeq
<1> DEFINE t == Tail(s)
<1>2. t \in Seq(S) /\ Len(t) = Len(s) - 1 /\ \A k \in 1..Len(t) : t[k] = s[k + 1]
  BY HeadTailProperties
<1> HIDE DEF t
<1> DEFINE u == new \o t
<1>3. /\ u \in Seq(S) /\ Len(u) = Len(new) + Len(t)
      /\ \A k \in 1..(Len(new) + Len(t)) :
            u[k] = IF k <= Len(new) THEN new[k] ELSE t[k - Len(new)]
  BY <1>2, ConcatProperties
<1> HIDE DEF u
<1>4. Len(u) = Len(new) + Len(s) - 1 /\ DOMAIN u = 1..(Len(new) + Len(s) - 1)
  BY <1>1, <1>2, <1>3
<1>5. ASSUME NEW k \in 1..Len(new)
      PROVE  k \in DOMAIN u /\ u[k] = new[k]
  BY <1>1, <1>2, <1>3, <1>4
<1>6. ASSUME NEW k \in 2..Len(s)
      PROVE  Len(new) + k - 1 \in DOMAIN u /\ u[Len(new) + k - 1] = s[k]
  <2>1. /\ Len(new) + k - 1 \in DOMAIN u /\ ~(Len(new) + k - 1 <= Len(new))
        /\ Len(new) + k - 1 \in 1..(Len(new) + Len(t))
        /\ (Len(new) + k - 1) - Len(new) = k - 1
        /\ k - 1 \in 1..Len(t) /\ (k - 1) + 1 = k
    BY <1>1, <1>2, <1>4
  <2>2. u[Len(new) + k - 1] = t[k - 1]
    BY <1>3, <2>1
  <2>3. t[k - 1] = s[(k - 1) + 1]
    BY <1>2, <2>1
  <2> QED BY <2>1, <2>2, <2>3
<1>7. ASSUME NEW k \in DOMAIN u, k \notin 1..Len(new)
      PROVE  k - Len(new) + 1 \in 2..Len(s) /\ u[k] = s[k - Len(new) + 1]
  <2>1. /\ k - Len(new) + 1 \in 2..Len(s) /\ k \in 1..(Len(new) + Len(t))
        /\ k - Len(new) \in 1..Len(t) /\ ~(k <= Len(new))
    BY <1>1, <1>2, <1>4, <1>7
  <2>2. u[k] = t[k - Len(new)]
    BY <1>3, <2>1
  <2> QED BY <1>2, <2>1, <2>2
<1> QED BY <1>3, <1>4, <1>5, <1>6, <1>7 DEF u, t

\* The iterator shows a directory.
LEMMA ScanWatchQuiet ==
    ASSUME ExactInv, calm, Disjoint, loop = "scanning", PathsSound, ScanSound, ScanWatch
    PROVE  PathsSound' /\ loop' = "scanning" /\ ScanSound'
<1> DEFINE item == Head(scan)
           d == dir(item.path)
           visited == [item EXCEPT !.step = "list"]
<1>1. /\ scan # <<>> /\ item.step = "watch" /\ scan \in Seq(Item) /\ buffer \in Seq(Event)
      /\ IInv /\ tree' = tree /\ roots' = roots /\ buffer' = buffer
  BY DEF ExactInv, IInv, Rest, ScanWatch
<1>2. /\ item \in Item /\ item = scan[1] /\ DOMAIN scan = 1..Len(scan) /\ Len(scan) \in Nat \ {0}
      /\ 1 \in DOMAIN scan
  BY <1>1, HeadTailProperties, EmptySeq
<1>3. item.path \in Path /\ d \in Seq(AnyName)
  BY <1>2, dirTyped DEF Item
<1>4. d \in DOMAIN tree
  BY <1>2 DEF ScanSound, IsDirectory
<1>5. /\ watchNewDirectory(item.path, item.entry)
      /\ scan' = <<visited>> \o Tail(scan)
  BY <1>4 DEF ScanWatch, IsDirectory
<1>6. wdOf[tree[d]] = 0
  <2>1. IsPrefix(d, d)
    BY <1>3, PrefixFacts
  <2>2. \A q \in DOMAIN tree :
           wdOf[tree[q]] # 0 /\ IsPrefix(dir(scan[1].path), q) => scan[1].step = "list"
    BY <1>2 DEF ScanSound
  <2> QED BY <1>1, <1>2, <1>4, <2>1, <2>2
<1>7. \A k \in DOMAIN coming : coming[k].kind # "ignored"
  BY DEF ScanSound
<1>8. /\ PathsSound'
      /\ events' = events /\ loop' = loop
      /\ \A q \in DOMAIN tree :
            wdOf'[tree[q]] = 0 <=>
               wdOf[tree[q]] = 0 /\ (q = d => shouldIgnoreDirectory(item.path))
  BY <1>1, <1>3, <1>4, <1>5, <1>6, <1>7, WatchesIt
<1>9. /\ DOMAIN scan' = DOMAIN scan
      /\ scan'[1].path = scan[1].path /\ scan'[1].step = "list"
      /\ \A k \in DOMAIN scan : k # 1 => scan'[k] = scan[k]
  <2>1. visited \in Item /\ visited.path = scan[1].path /\ visited.step = "list"
    BY <1>2 DEF Item
  <2> HIDE DEF visited
  <2> DEFINE v == <<visited>>
  <2>2. v \in Seq(Item) /\ Len(v) = 1 /\ v[1] = visited
    BY <2>1
  <2>3. scan' = v \o Tail(scan)
    BY <1>5
  <2> HIDE DEF v
  <2>4. /\ v \o Tail(scan) \in Seq(Item)
        /\ Len(v \o Tail(scan)) = Len(v) + Len(scan) - 1
        /\ \A k \in 1..Len(v) : (v \o Tail(scan))[k] = v[k]
        /\ \A k \in 2..Len(scan) : (v \o Tail(scan))[Len(v) + k - 1] = scan[k]
    <3>1. scan \in Seq(Item) /\ scan # <<>> /\ v \in Seq(Item)
      BY <1>1, <2>2
    <3> QED BY <3>1, HeadReplaced
  <2>5. DOMAIN scan' = 1..Len(scan) /\ scan'[1] = visited
    <3>1. scan' \in Seq(Item) /\ Len(scan') = Len(scan)
      BY <1>2, <2>2, <2>3, <2>4
    <3> QED BY <2>2, <2>3, <2>4, <3>1
  <2>6. \A k \in 2..Len(scan) : scan'[k] = scan[k]
    <3>1. \A k \in 2..Len(scan) : Len(v) + k - 1 = k
      BY <1>2, <2>2
    <3> QED BY <2>3, <2>4, <3>1
  <2> QED BY <1>2, <2>1, <2>5, <2>6
<1> HIDE DEF visited
<1>10. \A k \in DOMAIN scan' : dir(scan'[k].path) = dir(scan[k].path)
  BY <1>9
<1>11. coming' = <<>>
  BY <1>1, <1>8 DEF coming, ScanSound
<1>12. Rooted'
  BY <1>1 DEF Rooted, ScanSound
<1>13. /\ \A k \in DOMAIN scan' : dir(scan'[k].path) \in DOMAIN tree
       /\ \A k, m \in DOMAIN scan' :
             k # m => ~IsPrefix(dir(scan'[k].path), dir(scan'[m].path))
  BY <1>9, <1>10 DEF ScanSound, IsDirectory
<1>14. ASSUME NEW k \in DOMAIN scan', NEW q \in DOMAIN tree,
              wdOf'[tree[q]] # 0, IsPrefix(dir(scan'[k].path), q)
       PROVE  scan'[k].step = "list" /\ q = dir(scan'[k].path)
  <2>1. k \in DOMAIN scan /\ dir(scan'[k].path) = dir(scan[k].path)
    BY <1>9, <1>10
  <2>2. CASE wdOf[tree[q]] # 0
    <3>1. scan[k].step = "list" /\ q = dir(scan[k].path)
      BY <1>14, <2>1, <2>2 DEF ScanSound
    <3> QED BY <1>9, <2>1, <3>1
  <2>3. CASE wdOf[tree[q]] = 0
    <3>1. q = d
      BY <1>8, <1>14, <2>3
    <3>2. k = 1
      BY <1>2, <1>14, <2>1, <3>1 DEF ScanSound
    <3> QED BY <1>2, <1>9, <3>1, <3>2
  <2> QED BY <2>2, <2>3
<1>15. ASSUME NEW q \in DOMAIN tree, ~shouldIgnoreDirectory(q), wdOf'[tree[q]] = 0
       PROVE  \E k \in DOMAIN scan' :
                 /\ IsPrefix(dir(scan'[k].path), q)
                 /\ scan'[k].step = "list" => q # dir(scan'[k].path)
  <2>1. /\ wdOf[tree[q]] = 0
        /\ q = d => shouldIgnoreDirectory(item.path)
    BY <1>8, <1>15
  <2>2. q # d
    BY <1>3, <1>15, <2>1, IgnoredAsString
  <2>3. PICK k \in DOMAIN scan :
           /\ IsPrefix(dir(scan[k].path), q)
           /\ scan[k].step = "list" => q # dir(scan[k].path)
    BY <1>15, <2>1 DEF ScanSound
  <2>4. CASE k = 1
    <3>1. dir(scan'[1].path) = d /\ 1 \in DOMAIN scan'
      BY <1>2, <1>9
    <3>2. IsPrefix(dir(scan[1].path), q)
      BY <2>3, <2>4
    <3>3. IsPrefix(d, q)
      BY <1>2, <3>2
    <3> HIDE DEF d
    <3> QED BY <2>2, <3>1, <3>3
  <2>5. CASE k # 1
    <3>1. scan'[k] = scan[k] /\ k \in DOMAIN scan'
      BY <1>9, <2>5
    <3> QED BY <2>3, <3>1
  <2> QED BY <2>4, <2>5
<1>16. ScanSound'
  <2>1. \A k \in DOMAIN scan', q \in DOMAIN tree :
           wdOf'[tree[q]] # 0 /\ IsPrefix(dir(scan'[k].path), q) =>
              scan'[k].step = "list" /\ q = dir(scan'[k].path)
    BY <1>14
  <2>2. \A q \in DOMAIN tree : ~shouldIgnoreDirectory(q) /\ wdOf'[tree[q]] = 0 =>
           \E k \in DOMAIN scan' :
              /\ IsPrefix(dir(scan'[k].path), q)
              /\ scan'[k].step = "list" => q # dir(scan'[k].path)
    BY <1>15
  <2>3. tree' = tree
    BY <1>1
  <2> QED BY <1>11, <1>12, <1>13, <2>1, <2>2, <2>3, Zenon DEF ScanSound, IsDirectory
<1> QED BY <1>8, <1>16

\* An entry of a directory is apart from what the directory is apart from.
LEMMA EntryApart ==
    ASSUME NEW S, NEW d \in Seq(S), NEW c \in Seq(S), NEW x \in Seq(S),
           Len(c) = Len(d) + 1, IsPrefix(d, c), ~IsPrefix(d, x), ~IsPrefix(x, d)
    PROVE  ~IsPrefix(c, x) /\ ~IsPrefix(x, c)
<1>1. Len(d) \in Nat /\ Len(c) \in Nat /\ Len(x) \in Nat
  OBVIOUS
<1>2. ~IsPrefix(c, x)
  BY PrefixBelow
<1>3. ASSUME IsPrefix(x, c)
      PROVE  FALSE
  <2>1. Len(x) <= Len(c)
    BY <1>3, PrefixFacts
  <2>2. CASE Len(x) <= Len(d)
    BY <1>3, <2>2, PrefixOrder
  <2>3. CASE Len(x) = Len(c)
    BY <1>3, <2>3, PrefixWhole
  <2> QED BY <1>1, <2>1, <2>2, <2>3
<1> QED BY <1>2, <1>3

\* A list of all elements of a set, each once, misses none.
LEMMA ListedOnce ==
    ASSUME NEW S, IsFiniteSet(S), NEW order \in SetToSeqs(S)
    PROVE  /\ order \in Seq(S)
           /\ \A i, j \in DOMAIN order : i # j => order[i] # order[j]
           /\ \A x \in S : \E k \in DOMAIN order : order[k] = x
<1> DEFINE D == 1..Cardinality(S)
<1>1. Cardinality(S) \in Nat
  BY FS_CardinalityType
<1>2. order \in [D -> S] /\ \A i, j \in D : i # j => order[i] # order[j]
  BY DEF SetToSeqs
<1>3. IsFiniteSet(D) /\ Cardinality(D) = Cardinality(S)
  BY <1>1, FS_Interval
<1> HIDE DEF D
<1>4. order \in Injection(D, S)
  BY <1>2 DEF Injection, IsInjective
<1>5. order \in Surjection(D, S)
  BY <1>3, <1>4, FS_Injection
<1>6. \A x \in S : \E k \in D : order[k] = x
  BY <1>5 DEF Surjection
<1>7. order \in Seq(S)
  BY <1>1, <1>2 DEF D
<1> QED BY <1>2, <1>6, <1>7

\* The entry of an item is the only one that contains what is in its directory.
LEMMA ItemRoot ==
    ASSUME ExactInv, calm, Disjoint, Rooted,
           NEW k \in DOMAIN scan, NEW q \in DOMAIN tree, IsPrefix(dir(scan[k].path), q)
    PROVE  \A n \in Len(dir(scan[k].path))..Len(q) :
              /\ SubSeq(q, 1, n) \in DOMAIN tree
              /\ n > Len(dir(scan[k].path)) => q[n] \in Name
<1>1. IInv /\ ~moved /\ Rest
  BY DEF ExactInv, IInv
<1>2. /\ scan[k].entry \in Range(roots) /\ scan[k] \in Item
      /\ q \in Seq(AnyName)
      /\ IsPrefix(dir(scan[k].entry), dir(scan[k].path))
  BY <1>1, ElementOfSeq DEF IInv, Rest, Located
<1>3. PICK j \in DOMAIN roots : scan[k].entry = roots[j]
  BY <1>2 DEF Range
<1>4. roots[j] \in Path /\ scan[k].path \in Path
  BY <1>1, <1>2, <1>3, RootsTyped DEF Item
<1>5. dir(roots[j]) \in Seq(AnyName) /\ dir(scan[k].path) \in Seq(AnyName)
  BY <1>4, dirTyped
<1>6. IsPrefix(dir(roots[j]), q)
  BY <1>2, <1>3, <1>5, PrefixBelow
<1>7. PICK m \in DOMAIN roots :
         /\ IsPrefix(dir(roots[m]), q)
         /\ \A n \in Len(dir(roots[m]))..Len(q) :
               /\ SubSeq(q, 1, n) \in DOMAIN tree
               /\ n > Len(dir(roots[m])) => q[n] \in Name
  BY DEF Rooted
<1>8. m = j
  BY <1>1, <1>2, <1>6, <1>7, OneRoot
<1>9. Len(dir(roots[j])) <= Len(dir(scan[k].path))
  BY <1>2, <1>3, <1>5, PrefixFacts
<1>10. /\ Len(dir(roots[j])) \in Nat /\ Len(dir(scan[k].path)) \in Nat
       /\ Len(q) \in Nat
  BY <1>2, <1>5
<1>11. \A n \in Len(dir(scan[k].path))..Len(q) :
          /\ n \in Len(dir(roots[j]))..Len(q)
          /\ n > Len(dir(scan[k].path)) => n > Len(dir(roots[j]))
  BY <1>9, <1>10
<1> QED BY <1>7, <1>8, <1>11

\* The iterator goes down into a directory.
LEMMA ScanListQuiet ==
    ASSUME ExactInv, calm, Disjoint, loop = "scanning", PathsSound, ScanSound, ScanList
    PROVE  PathsSound' /\ loop' = "scanning" /\ ScanSound'
<1> DEFINE item == Head(scan)
           d == dir(item.path)
           S == Children(d)
           visit(p) == [step |-> "watch", path |-> p, entry |-> item.entry]
<1>1. /\ scan # <<>> /\ item.step = "list" /\ scan \in Seq(Item) /\ buffer \in Seq(Event)
      /\ IInv /\ Rest /\ tree' = tree /\ roots' = roots /\ buffer' = buffer
      /\ DOMAIN tree \subseteq Seq(AnyName)
  BY DEF ExactInv, IInv, Rest, ScanList
<1>2. /\ item \in Item /\ item = scan[1] /\ DOMAIN scan = 1..Len(scan) /\ Len(scan) \in Nat \ {0}
      /\ 1 \in DOMAIN scan
  BY <1>1, HeadTailProperties, EmptySeq
<1>3. item.path \in Path /\ d \in Seq(AnyName) /\ item.entry \in Path /\ Len(d) \in Nat
  <2>1. item.path \in Path /\ item.entry \in Range(roots)
    BY <1>1, <1>2 DEF Item, Rest
  <2> QED BY <1>1, <2>1, dirTyped, RootsTyped
<1>4. d \in DOMAIN tree
  BY <1>2 DEF ScanSound, IsDirectory
<1>5. PICK order \in SetToSeqs(S) :
         scan' = [k \in DOMAIN order |-> visit(order[k])] \o Tail(scan)
  BY <1>4 DEF ScanList, IsDirectory
<1>6. /\ wdOf' = wdOf /\ events' = events /\ loop' = loop
      /\ watches' = watches /\ paths' = paths
  BY <1>4 DEF ScanList, IsDirectory, kernelVars, mapVars
<1>7. IsFiniteSet(S)
  <2> DEFINE t == [q \in DOMAIN tree |-> tree[q]]
  <2>1. t \in Injection(DOMAIN tree, Ino)
    BY <1>1 DEF Rest, Injection, IsInjective
  <2> HIDE DEF t
  <2>2. IsFiniteSet(DOMAIN tree)
    BY <2>1, FS_Injection, FileSystemAssumption
  <2>3. S \subseteq DOMAIN tree
    BY DEF Children
  <2> QED BY <2>2, <2>3, FS_Subset
<1>8. /\ order \in Seq(S)
      /\ \A i, j \in DOMAIN order : i # j => order[i] # order[j]
      /\ \A x \in S : \E k \in DOMAIN order : order[k] = x
  BY <1>7, ListedOnce
<1>9. ASSUME NEW c \in S
      PROVE  /\ c \in DOMAIN tree /\ c \in Path /\ c \in Seq(AnyName)
             /\ Len(c) = Len(d) + 1 /\ IsPrefix(d, c)
             /\ dir(c) = c
  <2>1. c \in DOMAIN tree /\ Len(c) = Len(d) + 1 /\ IsPrefix(d, c)
    BY DEF Children
  <2>2. c \in Seq(AnyName) /\ c \in Path
    BY <1>1, <1>3, <2>1, NextLevel
  <2>3. \A n \in Len(d)..Len(c) : n > Len(d) => c[n] \in Name
    BY <1>2, <2>1, ItemRoot DEF ScanSound
  <2>4. c[Len(c)] \in Name
    BY <1>3, <2>1, <2>3
  <2>5. Last(c) # ""
    BY <2>4, NamesAssumption DEF Last
  <2> QED BY <2>1, <2>2, <2>5 DEF dir
<1>10. \A m \in 2..Len(scan) :
          /\ m \in DOMAIN scan /\ dir(scan[m].path) \in Seq(AnyName)
          /\ ~IsPrefix(d, dir(scan[m].path)) /\ ~IsPrefix(dir(scan[m].path), d)
  <2> SUFFICES ASSUME NEW m \in 2..Len(scan)
               PROVE  /\ m \in DOMAIN scan /\ dir(scan[m].path) \in Seq(AnyName)
                      /\ ~IsPrefix(d, dir(scan[m].path)) /\ ~IsPrefix(dir(scan[m].path), d)
    OBVIOUS
  <2>1. m \in DOMAIN scan /\ m # 1
    BY <1>2
  <2>2. scan[m] \in Item
    BY <1>1, <2>1, ElementOfSeq
  <2>3. dir(scan[m].path) \in Seq(AnyName)
    BY <2>2, dirTyped DEF Item
  <2> QED BY <1>2, <2>1, <2>3 DEF ScanSound
<1> DEFINE n == Len(order)
           new == [k \in DOMAIN order |-> visit(order[k])]
<1>11. /\ n \in Nat /\ DOMAIN order = 1..n
       /\ \A k \in 1..n : order[k] \in S
  BY <1>8
<1>12. new \in Seq(Item) /\ Len(new) = n /\ \A k \in 1..n : new[k] = visit(order[k])
  <2>1. \A k \in 1..n : visit(order[k]) \in Item
    <3> SUFFICES ASSUME NEW k \in 1..n
                 PROVE  visit(order[k]) \in Item
      OBVIOUS
    <3>1. order[k] \in Path
      BY <1>9, <1>11
    <3> QED BY <1>3, <3>1 DEF Item
  <2> HIDE DEF visit, n
  <2>2. new \in [1..n -> Item]
    BY <1>11, <2>1
  <2>3. new \in Seq(Item)
    BY <1>11, <2>2, SeqDef
  <2> QED BY <1>11, <2>2, <2>3
<1>13. \A p : (visit(p)).path = p /\ (visit(p)).step = "watch"
  OBVIOUS
<1>14. scan' = new \o Tail(scan)
  BY <1>5
<1> HIDE DEF visit, new, n, item, d, S
<1>15. /\ \A k \in 1..n :
             /\ k \in DOMAIN scan' /\ scan'[k].path = order[k] /\ scan'[k].step = "watch"
             /\ order[k] \in S /\ dir(scan'[k].path) = order[k]
       /\ \A m \in 2..Len(scan) : n + m - 1 \in DOMAIN scan' /\ scan'[n + m - 1] = scan[m]
       /\ \A k \in DOMAIN scan' :
             \/ k \in 1..n
             \/ k - n + 1 \in 2..Len(scan) /\ scan'[k] = scan[k - n + 1]
       /\ \A k \in DOMAIN scan' : k \in Int
  <2>1. scan \in Seq(Item) /\ scan # <<>> /\ new \in Seq(Item)
    BY <1>1, <1>12
  <2>a. Len(new) = n
    BY <1>12
  <2>2. /\ new \o Tail(scan) \in Seq(Item)
        /\ Len(new \o Tail(scan)) = Len(new) + Len(scan) - 1
        /\ \A k \in 1..Len(new) :
              k \in DOMAIN (new \o Tail(scan)) /\ (new \o Tail(scan))[k] = new[k]
        /\ \A k \in 2..Len(scan) :
              /\ Len(new) + k - 1 \in DOMAIN (new \o Tail(scan))
              /\ (new \o Tail(scan))[Len(new) + k - 1] = scan[k]
        /\ \A k \in DOMAIN (new \o Tail(scan)) :
              \/ k \in 1..Len(new)
              \/ /\ k - Len(new) + 1 \in 2..Len(scan)
                 /\ (new \o Tail(scan))[k] = scan[k - Len(new) + 1]
    <3>1. /\ new \o Tail(scan) \in Seq(Item)
          /\ Len(new \o Tail(scan)) = Len(new) + Len(scan) - 1
      BY <2>1, HeadReplaced
    <3>2. \A k \in 1..Len(new) :
             k \in DOMAIN (new \o Tail(scan)) /\ (new \o Tail(scan))[k] = new[k]
      BY <2>1, HeadReplaced
    <3>3. \A k \in 2..Len(scan) :
             /\ Len(new) + k - 1 \in DOMAIN (new \o Tail(scan))
             /\ (new \o Tail(scan))[Len(new) + k - 1] = scan[k]
      BY <2>1, HeadReplaced
    <3>4. \A k \in DOMAIN (new \o Tail(scan)) :
             \/ k \in 1..Len(new)
             \/ /\ k - Len(new) + 1 \in 2..Len(scan)
                /\ (new \o Tail(scan))[k] = scan[k - Len(new) + 1]
      BY <2>1, HeadReplaced
    <3> QED BY <3>1, <3>2, <3>3, <3>4
  <2>3. \A k \in 1..n : /\ k \in DOMAIN scan' /\ scan'[k] = visit(order[k])
                       /\ order[k] \in S
    BY <1>11, <1>12, <1>14, <2>a, <2>2
  <2>4. \A k \in 1..n : dir(order[k]) = order[k]
    BY <1>9, <1>11
  <2>5. \A k \in DOMAIN scan' : k \in Int
    BY <1>14, <2>2
  <2>6. \A k \in 1..n :
           /\ k \in DOMAIN scan' /\ scan'[k].path = order[k] /\ scan'[k].step = "watch"
           /\ order[k] \in S /\ dir(scan'[k].path) = order[k]
    BY <1>13, <2>3, <2>4
  <2>7. /\ \A m \in 2..Len(scan) :
              n + m - 1 \in DOMAIN scan' /\ scan'[n + m - 1] = scan[m]
        /\ \A k \in DOMAIN scan' :
              \/ k \in 1..n
              \/ k - n + 1 \in 2..Len(scan) /\ scan'[k] = scan[k - n + 1]
    BY <1>14, <2>a, <2>2
  <2> QED BY <2>5, <2>6, <2>7
<1>16. PathsSound'
  BY <1>1, <1>6 DEF PathsSound, IsDirectory, coming
<1>17. coming' = <<>> /\ Rooted'
  BY <1>1, <1>6 DEF coming, ScanSound, Rooted
<1>18. ASSUME NEW k \in DOMAIN scan'
       PROVE  dir(scan'[k].path) \in DOMAIN tree
  <2>1. CASE k \in 1..n
    BY <1>9, <1>15, <2>1
  <2>2. CASE k - n + 1 \in 2..Len(scan) /\ scan'[k] = scan[k - n + 1]
    BY <1>10, <2>2 DEF ScanSound, IsDirectory
  <2> QED BY <1>15, <2>1, <2>2
<1>19. ASSUME NEW k \in DOMAIN scan', NEW m \in DOMAIN scan', k # m
       PROVE  ~IsPrefix(dir(scan'[k].path), dir(scan'[m].path))
  <2> DEFINE old(x) == x - n + 1 \in 2..Len(scan) /\ scan'[x] = scan[x - n + 1]
  <2>1. CASE k \in 1..n /\ m \in 1..n
    <3>1. order[k] \in S /\ order[m] \in S /\ order[k] # order[m]
      BY <1>8, <1>11, <1>19, <2>1
    <3>2. /\ order[k] \in Seq(AnyName) /\ order[m] \in Seq(AnyName)
          /\ Len(order[k]) = Len(order[m])
      BY <1>9, <3>1
    <3>3. ~IsPrefix(order[k], order[m])
      BY <3>1, <3>2, PrefixWhole
    <3> QED BY <1>15, <2>1, <3>3
  <2>2. ASSUME NEW i \in 1..n, NEW x \in DOMAIN scan', old(x)
        PROVE  /\ ~IsPrefix(dir(scan'[i].path), dir(scan'[x].path))
               /\ ~IsPrefix(dir(scan'[x].path), dir(scan'[i].path))
    <3>1. PICK j \in 2..Len(scan) : scan'[x] = scan[j]
      BY <2>2
    <3>2. PICK c \in S : dir(scan'[i].path) = c
      BY <1>15
    <3>3. c \in Seq(AnyName) /\ Len(c) = Len(d) + 1 /\ IsPrefix(d, c)
      BY <1>9
    <3>4. /\ dir(scan[j].path) \in Seq(AnyName)
          /\ ~IsPrefix(d, dir(scan[j].path)) /\ ~IsPrefix(dir(scan[j].path), d)
      BY <1>10
    <3>5. ~IsPrefix(c, dir(scan[j].path)) /\ ~IsPrefix(dir(scan[j].path), c)
      BY <1>3, <3>3, <3>4, EntryApart
    <3> QED BY <3>1, <3>2, <3>5
  <2>3. CASE old(k) /\ old(m)
    <3>1. /\ k - n + 1 \in DOMAIN scan /\ m - n + 1 \in DOMAIN scan
          /\ k - n + 1 # m - n + 1
      BY <1>10, <1>11, <1>15, <1>19, <2>3
    <3>2. ~IsPrefix(dir(scan[k - n + 1].path), dir(scan[m - n + 1].path))
      BY <3>1 DEF ScanSound
    <3> QED BY <2>3, <3>2
  <2>4. (k \in 1..n \/ old(k)) /\ (m \in 1..n \/ old(m))
    BY <1>15
  <2> HIDE DEF old
  <2> QED BY <2>1, <2>2, <2>3, <2>4
<1>20. ASSUME NEW k \in DOMAIN scan', NEW q \in DOMAIN tree,
              wdOf[tree[q]] # 0, IsPrefix(dir(scan'[k].path), q)
       PROVE  scan'[k].step = "list" /\ q = dir(scan'[k].path)
  <2>1. CASE k \in 1..n
    <3>1. PICK c \in S : dir(scan'[k].path) = c
      BY <1>15, <2>1
    <3>2. c \in Seq(AnyName) /\ Len(c) = Len(d) + 1 /\ IsPrefix(d, c)
      BY <1>9
    <3>3. q \in Seq(AnyName) /\ IsPrefix(c, q)
      BY <1>1, <1>20, <3>1
    <3>4. IsPrefix(d, q)
      BY <1>3, <3>2, <3>3, PrefixBelow
    <3>5. q = dir(scan[1].path)
      BY <1>2, <1>20, <3>4 DEF ScanSound, d
    <3>6. q = d
      BY <1>2, <3>5 DEF d
    <3>7. Len(c) <= Len(q)
      BY <3>2, <3>3, PrefixFacts
    <3> QED BY <1>3, <3>2, <3>6, <3>7
  <2>2. CASE k - n + 1 \in 2..Len(scan) /\ scan'[k] = scan[k - n + 1]
    <3>1. k - n + 1 \in DOMAIN scan
      BY <1>10, <2>2
    <3> QED BY <1>20, <2>2, <3>1 DEF ScanSound
  <2> QED BY <1>15, <2>1, <2>2
<1>21. ASSUME NEW q \in DOMAIN tree, ~shouldIgnoreDirectory(q), wdOf[tree[q]] = 0
       PROVE  \E k \in DOMAIN scan' :
                 /\ IsPrefix(dir(scan'[k].path), q)
                 /\ scan'[k].step = "list" => q # dir(scan'[k].path)
  <2>1. PICK k \in DOMAIN scan :
           /\ IsPrefix(dir(scan[k].path), q)
           /\ scan[k].step = "list" => q # dir(scan[k].path)
    BY <1>21 DEF ScanSound
  <2>2. CASE k = 1
    <3>1. IsPrefix(d, q) /\ q # d /\ q \in Seq(AnyName)
      BY <1>1, <1>2, <2>1, <2>2 DEF d
    <3>2. Len(q) \in Nat /\ Len(d) + 1 <= Len(q)
      <4>1. Len(d) <= Len(q) /\ Len(d) # Len(q)
        BY <1>3, <3>1, PrefixFacts, PrefixWhole
      <4> QED BY <1>3, <3>1, <4>1
    <3> DEFINE c == SubSeq(q, 1, Len(d) + 1)
    <3>3. c \in DOMAIN tree
      <4>1. \A x \in Len(d)..Len(q) : SubSeq(q, 1, x) \in DOMAIN tree
        BY <1>2, <3>1, ItemRoot DEF d, ScanSound
      <4> QED BY <1>3, <3>2, <4>1
    <3>4. c \in Seq(AnyName) /\ Len(c) = Len(d) + 1 /\ IsPrefix(c, q)
      <4>1. Len(d) + 1 \in 0..Len(q)
        BY <1>3, <3>2
      <4> QED BY <3>1, <4>1, OnTheWay
    <3> HIDE DEF c
    <3>5. IsPrefix(d, c)
      BY <1>3, <3>1, <3>4, PrefixOrder
    <3>6. c \in S
      BY <3>3, <3>4, <3>5 DEF S, Children
    <3>7. PICK x \in 1..n : order[x] = c
      BY <1>8, <1>11, <3>6
    <3>8. /\ x \in DOMAIN scan' /\ scan'[x].step = "watch"
          /\ IsPrefix(dir(scan'[x].path), q)
      BY <1>15, <3>4, <3>7
    <3> QED BY <3>8
  <2>3. CASE k # 1
    <3>1. k \in 2..Len(scan)
      BY <1>2, <2>3
    <3>2. n + k - 1 \in DOMAIN scan' /\ scan'[n + k - 1] = scan[k]
      BY <1>15, <3>1
    <3> QED BY <2>1, <3>2
  <2> QED BY <2>2, <2>3
<1>22. ScanSound'
  <2>1. \A k \in DOMAIN scan', q \in DOMAIN tree :
           wdOf'[tree[q]] # 0 /\ IsPrefix(dir(scan'[k].path), q) =>
              scan'[k].step = "list" /\ q = dir(scan'[k].path)
    BY <1>6, <1>20
  <2>2. \A q \in DOMAIN tree : ~shouldIgnoreDirectory(q) /\ wdOf'[tree[q]] = 0 =>
           \E k \in DOMAIN scan' :
              /\ IsPrefix(dir(scan'[k].path), q)
              /\ scan'[k].step = "list" => q # dir(scan'[k].path)
    BY <1>6, <1>21
  <2>3. tree' = tree
    BY <1>1
  <2> QED BY <1>17, <1>18, <1>19, <2>1, <2>2, <2>3, Zenon DEF ScanSound, IsDirectory
<1> QED BY <1>6, <1>16, <1>22

\* The scan is over.
LEMMA ScanDoneQuiet ==
    ASSUME ExactInv, PathsSound, ScanSound, ScanDone
    PROVE  PathsSound' /\ loop' = "running" /\ ComingSound'
<1>1. /\ loop' = "running" /\ scan = <<>> /\ tree' = tree /\ wdOf' = wdOf
      /\ events' = events /\ buffer' = buffer /\ watches' = watches /\ paths' = paths
  BY DEF ScanDone, fsVars, kernelVars, mapVars
<1>2. coming' = <<>>
  BY <1>1 DEF coming, ScanSound
<1>3. PathsSound'
  BY <1>1 DEF PathsSound, IsDirectory, coming
<1>4. \A q \in DOMAIN tree : ~(~shouldIgnoreDirectory(q) /\ wdOf[tree[q]] = 0)
  <2>1. \A q \in DOMAIN tree :
           ~shouldIgnoreDirectory(q) /\ wdOf[tree[q]] = 0 => \E k \in DOMAIN scan : TRUE
    BY DEF ScanSound
  <2> QED BY <1>1, <2>1
<1>5. ComingSound'
  BY <1>1, <1>2, <1>4 DEF ComingSound
<1> QED BY <1>1, <1>3, <1>5

-----------------------------------------------------------------------------
(* The event loop                                                          *)

\* Events go from the queue to the buffer.
LEMMA ReadQuiet ==
    ASSUME ExactInv, PathsSound, ComingSound, ReadEvents
    PROVE  PathsSound' /\ loop' = "running" /\ ComingSound'
<1>1. /\ loop' = "running" /\ buffer = <<>> /\ tree' = tree /\ files' = files
      /\ wdOf' = wdOf /\ watches' = watches /\ paths' = paths
  BY DEF ReadEvents, mapVars
<1>2. events \in Seq(Event)
  BY DEF ExactInv, IInv, Maps
<1>3. coming' = coming
  <2>1. PICK n \in 1..Len(events) :
           /\ buffer' = SubSeq(events, 1, n)
           /\ events' = SubSeq(events, n + 1, Len(events))
    BY DEF ReadEvents
  <2>2. SubSeq(events, 1, n) \o SubSeq(events, n + 1, Len(events)) = events
    BY <1>2, TwoParts
  <2>3. coming = events
    BY <1>1, <1>2, ConcatEmptySeq DEF coming
  <2> QED BY <2>1, <2>2, <2>3 DEF coming
<1>4. PathsSound'
  BY <1>1, <1>3 DEF PathsSound, IsDirectory
<1>5. ComingSound'
  BY <1>1, <1>3 DEF ComingSound, IsDirectory, FileExists, Named
<1> QED BY <1>1, <1>4, <1>5

\* One event is handled.
LEMMA HandleQuiet ==
    ASSUME ExactInv, PathsSound, ComingSound, HandleEvent
    PROVE  PathsSound' /\ loop' = "running" /\ ComingSound'
<1> DEFINE e == Head(buffer)
           c == Tail(buffer) \o events
           path == Named(e)
<1>1. /\ loop = "running" /\ buffer # <<>> /\ buffer' = Tail(buffer)
      /\ tree' = tree /\ files' = files
      /\ buffer \in Seq(Event) /\ events \in Seq(Event)
      /\ IInv /\ coming = buffer \o events
  BY DEF HandleEvent, ExactInv, IInv, Maps, Rest, coming
<1>2. /\ e \in Event /\ c \in Seq(Event)
      /\ DOMAIN c \subseteq Nat
      /\ Len(coming) = Len(c) + 1 /\ Len(c) \in Nat
      /\ 1 \in DOMAIN coming /\ coming[1] = e
      /\ \A k \in DOMAIN c : k + 1 \in DOMAIN coming /\ coming[k + 1] = c[k]
      /\ \A k \in DOMAIN coming : k = 1 \/ (k - 1 \in DOMAIN c /\ c[k - 1] = coming[k])
  BY <1>1, NextComing
<1>a. Len(coming) = 1 => DOMAIN c = {}
  <2>1. c \in Seq(Event) /\ (Len(coming) = 1 => Len(c) = 0)
    BY <1>2
  <2> HIDE DEF c
  <2> QED BY <2>1
<1>3. e.wd \in DOMAIN watches /\ e.wd \in DOMAIN watchToConfig
  <2>1. /\ Coherent(buffer \o events, wdOf, DOMAIN watches) /\ 0 \notin DOMAIN watches
        /\ DOMAIN watchToConfig = DOMAIN watches
    BY <1>1 DEF IInv, Maps, MapsAgree, Follows
  <2>2. e.wd \notin DOMAIN watches => e = Overflow
    BY <1>1, <2>1, FrontEvent
  <2>3. coming[1].kind \in {"created", "deleted", "closed", "deletedDir", "ignored"}
    BY <1>2 DEF ComingSound
  <2>4. Overflow.kind = "overflow"
    BY DEF Overflow
  <2> HIDE DEF e, c
  <2>5. e # Overflow
    BY <1>2, <2>3, <2>4
  <2> QED BY <2>1, <2>2, <2>5
<1> HIDE DEF e, c, path
<1>4. HandleKnown(e)
  BY <1>3 DEF HandleEvent, e
<1>5. /\ e.kind \in {"created", "deleted", "closed", "deletedDir", "ignored"}
      /\ e.kind \in {"created", "closed"} => Len(coming) = 1
      /\ e.kind = "created" => e.name # "" /\ path \in DOMAIN tree /\ wdOf[tree[path]] = 0
      /\ e.kind = "closed" => FileExists(path)
  BY <1>2 DEF ComingSound, IsDirectory, path
<1>6. path = Append(dir(watches[e.wd]), e.name)
  BY DEF path, Named
<1>7. \A k \in DOMAIN coming : coming[k].kind = "created" => k = 1
  <2> SUFFICES ASSUME NEW k \in DOMAIN coming, coming[k].kind = "created"
               PROVE  k = 1
    OBVIOUS
  <2>1. Len(coming) = 1
    BY DEF ComingSound
  <2>2. DOMAIN c = {}
    BY <1>a, <2>1
  <2> QED BY <1>2, <2>2
<1>8. ASSUME e.kind # "created"
      PROVE  \A q \in DOMAIN tree : ~shouldIgnoreDirectory(q) => wdOf[tree[q]] # 0
  <2>1. \A k \in DOMAIN coming : coming[k].kind # "created"
    BY <1>2, <1>7, <1>8
  <2> QED BY <2>1 DEF ComingSound
<1>9. ASSUME events' = events,
             \A q \in DOMAIN tree : ~shouldIgnoreDirectory(q) => wdOf'[tree[q]] # 0
      PROVE  ComingSound'
  <2>1. coming' = c
    BY <1>1, <1>9 DEF coming, c
  <2>2. ASSUME NEW k \in DOMAIN c
        PROVE  c[k].kind \in {"deleted", "deletedDir", "ignored"}
    <3>1. k + 1 \in DOMAIN coming /\ coming[k + 1] = c[k] /\ k + 1 # 1 /\ Len(coming) # 1
      <4>1. Len(c) # 0
        BY <1>2
      <4> QED BY <1>2, <4>1
    <3> QED BY <3>1 DEF ComingSound
  <2> QED BY <1>1, <1>9, <2>1, <2>2 DEF ComingSound
<1>10. CASE e.kind \in {"closed", "deleted", "deletedDir"}
  <2>1. UNCHANGED <<kernelVars, mapVars, loop>>
    BY <1>4, <1>5, <1>6, <1>10
       DEF HandleKnown, HandleClosed, HandleDeleted, HandleOther, Fails
  <2>2. /\ wdOf' = wdOf /\ events' = events /\ loop' = loop
        /\ watches' = watches /\ paths' = paths
    BY <2>1 DEF kernelVars, mapVars
  <2>3. ComingSound'
    BY <1>8, <1>9, <1>10, <2>2
  <2>4. coming' = c
    BY <1>1, <2>2 DEF coming, c
  <2>5. ASSUME NEW wd, Ignored(wd) \in Range(coming)
        PROVE  Ignored(wd) \in Range(c)
    <3>1. PICK k \in DOMAIN coming : coming[k] = Ignored(wd)
      BY <2>5 DEF Range
    <3>2. k # 1
      BY <1>2, <1>10, <3>1 DEF Ignored
    <3> QED BY <1>2, <3>1, <3>2 DEF Range
  <2>6. PathsSound'
    BY <1>1, <2>2, <2>4, <2>5 DEF PathsSound, IsDirectory
  <2> QED BY <1>1, <2>2, <2>3, <2>6
<1>11. CASE e.kind = "created"
  <2> DEFINE d == dir(watches[e.wd])
  <2>1. watches[e.wd] \in Path
    BY <1>1, <1>3 DEF IInv, Maps
  <2>2. d \in Seq(AnyName) /\ e.name \in AnyName
    BY <1>2, <2>1, dirTyped DEF Event
  <2>3. path \in Path /\ Last(path) = e.name
    BY <1>6, <2>2, InDirectory, AppendParts
  <2>4. dir(path) = path
    BY <1>5, <1>11, <2>3 DEF dir
  <2>5. watchNewDirectory(path, watchToConfig[e.wd])
    BY <1>4, <1>6, <1>11 DEF HandleKnown, HandleCreated
  <2>6. \A k \in DOMAIN coming : coming[k].kind # "ignored"
    <3>1. DOMAIN c = {}
      BY <1>a, <1>5, <1>11
    <3> QED BY <1>2, <1>11, <3>1
  <2>7. path \in DOMAIN tree /\ wdOf[tree[path]] = 0
    BY <1>5, <1>11
  <2>8. /\ PathsSound'
        /\ events' = events /\ loop' = loop
        /\ \A q \in DOMAIN tree :
              wdOf'[tree[q]] = 0 <=>
                 wdOf[tree[q]] = 0 /\ (q = path => shouldIgnoreDirectory(path))
    BY <1>1, <2>3, <2>4, <2>5, <2>6, <2>7, WatchesIt
  <2>9. \A q \in DOMAIN tree : ~shouldIgnoreDirectory(q) => wdOf'[tree[q]] # 0
    <3> SUFFICES ASSUME NEW q \in DOMAIN tree, ~shouldIgnoreDirectory(q), wdOf'[tree[q]] = 0
                 PROVE  FALSE
      OBVIOUS
    <3>1. wdOf[tree[q]] = 0 /\ q # path
      BY <2>8
    <3>2. PICK k \in DOMAIN coming : coming[k].kind = "created" /\ Named(coming[k]) = q
      BY <3>1 DEF ComingSound
    <3>3. k = 1
      BY <1>7, <3>2
    <3> QED BY <1>2, <3>1, <3>2, <3>3 DEF path
  <2> QED BY <1>1, <1>9, <2>8, <2>9
<1>12. CASE e.kind = "ignored"
  <2>1. HandleIgnored(e.wd)
    BY <1>4, <1>12 DEF HandleKnown
  <2>2. /\ wdOf' = wdOf /\ events' = events /\ loop' = loop
        /\ paths' = Without(paths, watches[e.wd])
        /\ watches' = Without(watches, e.wd)
    BY <2>1 DEF HandleIgnored, kernelVars
  <2>3. ComingSound'
    BY <1>8, <1>9, <1>12, <2>2
  <2>4. coming' = c
    BY <1>1, <2>2 DEF coming, c
  <2>5. ASSUME NEW p \in DOMAIN paths'
        PROVE  /\ paths'[p] \in DOMAIN watches' /\ watches'[paths'[p]] = p
               /\ ~shouldIgnoreDirectory(p)
               /\ \/ dir(p) \in DOMAIN tree /\ wdOf[tree[dir(p)]] = paths'[p]
                  \/ Ignored(paths'[p]) \in Range(c)
    <3>1. p \in DOMAIN paths /\ p # watches[e.wd] /\ paths'[p] = paths[p]
      BY <2>2 DEF Without
    <3>2. /\ paths[p] \in DOMAIN watches /\ watches[paths[p]] = p
          /\ ~shouldIgnoreDirectory(p)
          /\ \/ dir(p) \in DOMAIN tree /\ wdOf[tree[dir(p)]] = paths[p]
             \/ Ignored(paths[p]) \in Range(coming)
      BY <3>1 DEF PathsSound, IsDirectory
    <3>3. paths[p] # e.wd
      BY <3>1, <3>2
    <3>4. paths[p] \in DOMAIN watches' /\ watches'[paths[p]] = p
      BY <2>2, <3>2, <3>3 DEF Without
    <3>5. ASSUME Ignored(paths[p]) \in Range(coming)
          PROVE  Ignored(paths[p]) \in Range(c)
      <4>1. PICK k \in DOMAIN coming : coming[k] = Ignored(paths[p])
        BY <3>5 DEF Range
      <4>2. k # 1
        BY <1>2, <3>3, <4>1 DEF Ignored
      <4> QED BY <1>2, <4>1, <4>2 DEF Range
    <3> QED BY <3>1, <3>2, <3>4, <3>5
  <2>6. PathsSound'
    BY <1>1, <2>2, <2>4, <2>5 DEF PathsSound, IsDirectory
  <2> QED BY <1>1, <2>2, <2>3, <2>6
<1> QED BY <1>5, <1>10, <1>11, <1>12

-----------------------------------------------------------------------------
(* The other processes                                                     *)

\* An empty queue has room for what one operation reports.
LEMMA PostsAll ==
    ASSUME NEW es \in Seq(Event), Len(es) <= 2
    PROVE  Post(<<>>, es) = es
<1>1. <<>> \in Seq(Event) /\ Len(<<>>) = 0 /\ Len(es) \in Nat
  BY EmptySeq
<1>2. Len(<<>>) + Len(es) <= QueueLimit
  BY <1>1, FileSystemAssumption
<1>3. Post(<<>>, es) = <<>> \o es
  BY <1>2 DEF Post
<1> QED BY <1>3, ConcatEmptySeq

\* What a watch on p reports of an entry.
LEMMA ReportCases ==
    ASSUME IInv, NEW p, NEW kind \in Kind, NEW name \in AnyName
    PROVE  /\ p \in DOMAIN tree /\ wdOf[tree[p]] # 0 =>
                 LET e == [wd |-> wdOf[tree[p]], kind |-> kind, name |-> name]
                 IN  e \in Event /\ Report(p, kind, name) = <<e>>
           /\ ~(p \in DOMAIN tree /\ wdOf[tree[p]] # 0) => Report(p, kind, name) = <<>>
           /\ Report(p, kind, name) \in Seq(Event) /\ Len(Report(p, kind, name)) <= 1
<1>1. CASE p \in DOMAIN tree /\ wdOf[tree[p]] # 0
  <2> DEFINE e == [wd |-> wdOf[tree[p]], kind |-> kind, name |-> name]
  <2>1. e \in Event
    BY <1>1, KernelTyped DEF IInv, Rest, Event
  <2>2. Report(p, kind, name) = <<e>>
    BY <1>1 DEF Report, IsDirectory
  <2> HIDE DEF e
  <2>3. <<e>> \in Seq(Event) /\ Len(<<e>>) = 1
    BY <2>1
  <2> QED BY <1>1, <2>1, <2>2, <2>3 DEF e
<1>2. CASE ~(p \in DOMAIN tree /\ wdOf[tree[p]] # 0)
  <2>1. Report(p, kind, name) = <<>>
    BY <1>2 DEF Report, IsDirectory
  <2> QED BY <1>2, <2>1, EmptySeq
<1> QED BY <1>1, <1>2

\* An operation finds the daemon waiting: what it changes is on its way.
LEMMA OpQuiet ==
    ASSUME ExactInv, calm, Waits, PathsSound, ComingSound, FsOp,
           UNCHANGED <<roots, mapVars, buffer, scan, loop>>
    PROVE  PathsSound' /\ loop' = "running" /\ ComingSound'
<1>1. /\ IInv /\ ~moved /\ Maps /\ Rest /\ buffer = <<>> /\ events = <<>> /\ coming = <<>>
      /\ loop' = "running" /\ buffer' = <<>> /\ watches' = watches /\ paths' = paths
  <2>1. <<>> \in Seq(Event)
    BY EmptySeq
  <2> QED BY <2>1, ConcatEmptySeq DEF ExactInv, IInv, Waits, coming, mapVars
<1>2. \A p \in DOMAIN paths :
         /\ paths[p] \in DOMAIN watches /\ watches[paths[p]] = p
         /\ ~shouldIgnoreDirectory(p)
         /\ dir(p) \in DOMAIN tree /\ wdOf[tree[dir(p)]] = paths[p]
         /\ paths[p] # 0
  <2>1. Range(coming) = {}
    BY <1>1 DEF Range
  <2>2. 0 \notin DOMAIN watches
    BY <1>1, KernelTyped
  <2> QED BY <2>1, <2>2 DEF PathsSound, IsDirectory
<1>3. \A q \in DOMAIN tree : ~shouldIgnoreDirectory(q) => wdOf[tree[q]] # 0
  <2>1. DOMAIN coming = {}
    BY <1>1
  <2> QED BY <2>1 DEF ComingSound
<1>4. /\ wdOf \in [Ino -> 0..(nextWd - 1)] /\ nextWd \in Nat
      /\ \A q \in DOMAIN tree : tree[q] \in Ino /\ q \in Seq(AnyName)
      /\ \A p, q \in DOMAIN tree : tree[p] = tree[q] => p = q
  BY <1>1 DEF Maps, Rest
<1>5. ASSUME NEW es \in Seq(Event), Len(es) <= 2, events' = Post(events, es)
      PROVE  coming' = es
  <2>1. events' = es
    BY <1>1, <1>5, PostsAll
  <2> QED BY <1>1, <2>1, ConcatEmptySeq DEF coming
<1>6. ASSUME NEW es \in Seq(Event), coming' = es, NEW e, es \in {<<>>, <<e>>},
             tree' = tree, wdOf' = wdOf,
             e.kind \in {"closed", "deleted"}, e.kind = "closed" => FileExists(Named(e))'
      PROVE  PathsSound' /\ ComingSound'
  <2>1. PathsSound'
    BY <1>1, <1>2, <1>6 DEF PathsSound, IsDirectory
  <2>2. \A k \in DOMAIN es : es[k] = e /\ Len(es) = 1
    BY <1>6
  <2>3. ComingSound'
    BY <1>3, <1>6, <2>2 DEF ComingSound
  <2> QED BY <2>1, <2>3
<1>7. ASSUME NEW p \in DOMAIN tree, NEW f \in FileName, Write(p, f) \/ Unlink(p, f)
      PROVE  PathsSound' /\ ComingSound'
  <2>1. p \in Seq(AnyName) /\ f \in AnyName
    BY <1>4, FileSystemAssumption DEF AnyName
  <2>2. tree' = tree /\ wdOf' = wdOf
    BY <1>7 DEF Write, Unlink
  <2>3. PICK kind \in {"closed", "deleted"} :
           /\ events' = Post(events, Report(p, kind, f))
           /\ kind = "closed" => <<tree[p], f>> \in files'
    BY <1>7 DEF Write, Unlink
  <2>4. kind \in Kind
    BY DEF Kind
  <2>a. PICK e : e = [wd |-> wdOf[tree[p]], kind |-> kind, name |-> f]
    OBVIOUS
  <2>b. PICK es : es = Report(p, kind, f)
    OBVIOUS
  <2>5. /\ es \in Seq(Event) /\ Len(es) <= 1
        /\ p \in DOMAIN tree /\ wdOf[tree[p]] # 0 => es = <<e>>
        /\ ~(p \in DOMAIN tree /\ wdOf[tree[p]] # 0) => es = <<>>
    <3> DEFINE g == [wd |-> wdOf[tree[p]], kind |-> kind, name |-> f]
               r == Report(p, kind, f)
    <3>1. /\ r \in Seq(Event) /\ Len(r) <= 1
          /\ p \in DOMAIN tree /\ wdOf[tree[p]] # 0 => r = <<g>>
          /\ ~(p \in DOMAIN tree /\ wdOf[tree[p]] # 0) => r = <<>>
      BY <1>1, <2>1, <2>4, ReportCases
    <3> HIDE DEF g, r
    <3> QED BY <2>a, <2>b, <3>1 DEF g, r
  <2>6. e.wd = wdOf[tree[p]] /\ e.kind = kind /\ e.name = f
    BY <2>a
  <2>7. coming' = es
    <3>1. Len(es) <= 2
      BY <2>5
    <3> QED BY <1>5, <2>3, <2>5, <2>b, <3>1
  <2>8. CASE wdOf[tree[p]] # 0
    <3>1. Named(e)' = Append(p, f)
      <4>1. dir(watches[wdOf[tree[p]]]) = p
        BY <1>1, <2>8, KnownPlace
      <4> QED BY <1>1, <2>6, <4>1 DEF Named
    <3>2. Front(Append(p, f)) = p /\ Last(Append(p, f)) = f
      BY <2>1, AppendParts
    <3>3. e.kind = "closed" => FileExists(Named(e))'
      BY <2>2, <2>3, <2>6, <3>1, <3>2 DEF FileExists, IsDirectory, parent
    <3>4. es \in {<<>>, <<e>>}
      BY <2>5, <2>8
    <3> QED BY <1>6, <2>2, <2>5, <2>6, <2>7, <3>3, <3>4
  <2>9. CASE wdOf[tree[p]] = 0
    <3>a. PICK x : x = [kind |-> "deleted"]
      OBVIOUS
    <3>1. es \in {<<>>, <<x>>} /\ x.kind = "deleted"
      BY <2>5, <2>9, <3>a
    <3> QED BY <1>6, <2>2, <2>5, <2>7, <3>1
  <2> QED BY <2>8, <2>9
<1>8. ASSUME NEW p \in SubPath, NEW i \in Ino, Mkdir(p, i)
      PROVE  PathsSound' /\ ComingSound'
  <2>1. PICK q \in DOMAIN tree, n \in Name : p = Append(q, n)
    BY DEF SubPath
  <2>2. q \in Seq(AnyName) /\ n \in AnyName /\ n # ""
    BY <1>4, FileSystemAssumption, NamesAssumption DEF AnyName
  <2>3. parent(p) = q /\ Last(p) = n /\ IsPrefix(q, p) /\ p \in Seq(AnyName)
    BY <2>1, <2>2, AppendParts, InDirectory DEF parent, Path
  <2>4. /\ p \notin DOMAIN tree /\ \A x \in DOMAIN tree : tree[x] # i
        /\ DOMAIN tree' = DOMAIN tree \cup {p} /\ tree'[p] = i
        /\ \A x \in DOMAIN tree : tree'[x] = tree[x]
        /\ events' = Post(events, Report(q, "created", n))
        /\ wdOf' = wdOf
    BY <1>8, <2>3 DEF Mkdir, IsDirectory, Unused
  <2>5. wdOf[i] = 0
    BY <1>1, <2>4 DEF IInv, Located, IsDirectory
  <2>a. PICK e : e = [wd |-> wdOf[tree[q]], kind |-> "created", name |-> n]
    OBVIOUS
  <2>b. PICK es : es = Report(q, "created", n)
    OBVIOUS
  <2>6. /\ es \in Seq(Event) /\ Len(es) <= 1
        /\ wdOf[tree[q]] # 0 => es = <<e>>
        /\ wdOf[tree[q]] = 0 => es = <<>>
    <3>1. "created" \in Kind
      BY DEF Kind
    <3> DEFINE g == [wd |-> wdOf[tree[q]], kind |-> "created", name |-> n]
               r == Report(q, "created", n)
    <3>2. /\ r \in Seq(Event) /\ Len(r) <= 1
          /\ q \in DOMAIN tree /\ wdOf[tree[q]] # 0 => r = <<g>>
          /\ ~(q \in DOMAIN tree /\ wdOf[tree[q]] # 0) => r = <<>>
      BY <1>1, <2>2, <3>1, ReportCases
    <3> HIDE DEF g, r
    <3> QED BY <2>a, <2>b, <3>2 DEF g, r
  <2>7. e.wd = wdOf[tree[q]] /\ e.kind = "created" /\ e.name = n
    BY <2>a
  <2>8. coming' = es
    <3>1. Len(es) <= 2
      BY <2>6
    <3> QED BY <1>5, <2>4, <2>6, <2>b, <3>1
  <2>9. PathsSound'
    <3>1. \A x \in DOMAIN paths : dir(x) \in DOMAIN tree' /\ tree'[dir(x)] = tree[dir(x)]
      BY <1>2, <2>4
    <3> QED BY <1>1, <1>2, <2>4, <3>1 DEF PathsSound, IsDirectory
  <2>10. wdOf[tree[q]] # 0 => Named(e)' = p
    <3>1. ASSUME wdOf[tree[q]] # 0
          PROVE  dir(watches[wdOf[tree[q]]]) = q
      BY <1>1, <3>1, KnownPlace
    <3> QED BY <1>1, <2>1, <2>7, <3>1 DEF Named
  <2>11. ASSUME NEW k \in DOMAIN es
         PROVE  es = <<e>> /\ k = 1 /\ es[k] = e /\ Len(es) = 1 /\ wdOf[tree[q]] # 0
    BY <2>6
  <2>12. ASSUME NEW x \in DOMAIN tree', ~shouldIgnoreDirectory(x), wdOf'[tree'[x]] = 0
         PROVE  \E k \in DOMAIN es : es[k].kind = "created" /\ Named(es[k])' = x
    <3>1. x = p
      BY <1>3, <2>4, <2>12
    <3>2. ~shouldIgnoreDirectory(q)
      BY <2>2, <2>3, <2>12, <3>1, IgnoredBelow
    <3>3. wdOf[tree[q]] # 0
      BY <1>3, <3>2
    <3>4. es = <<e>>
      BY <2>6, <3>3
    <3>5. 1 \in DOMAIN es /\ es[1] = e
      BY <3>4
    <3> QED BY <2>7, <2>10, <3>1, <3>3, <3>5
  <2>13. ComingSound'
    <3>1. ASSUME NEW k \in DOMAIN es
          PROVE  /\ es[k].kind = "created" /\ Len(es) = 1
                 /\ es[k].name # "" /\ Named(es[k])' \in DOMAIN tree'
                 /\ wdOf'[tree'[Named(es[k])']] = 0
      BY <2>2, <2>4, <2>5, <2>7, <2>10, <2>11
    <3> QED BY <2>8, <2>12, <3>1 DEF ComingSound, IsDirectory
  <2> QED BY <2>9, <2>13
<1>9. ASSUME NEW p \in DOMAIN tree, Rmdir(p)
      PROVE  PathsSound' /\ ComingSound'
  <2> DEFINE i == tree[p]
             removed == Report(parent(p), "deletedDir", Last(p))
             ignored == IF wdOf[i] = 0 THEN <<>> ELSE <<Ignored(wdOf[i])>>
  <2>1. /\ \/ events' = Post(events, removed \o ignored)
           \/ events' = Post(events, ignored \o removed)
        /\ DOMAIN tree' = DOMAIN tree \ {p}
        /\ \A x \in DOMAIN tree' : tree'[x] = tree[x]
        /\ wdOf' = [wdOf EXCEPT ![i] = 0]
    BY <1>9 DEF Rmdir
  <2>2. /\ removed \in Seq(Event) /\ Len(removed) <= 1
        /\ \A k \in DOMAIN removed : removed[k].kind = "deletedDir"
    <3>1. Last(p) \in AnyName /\ "deletedDir" \in Kind
      BY <1>1, TreeFacts DEF Kind
    <3> DEFINE e == [wd |-> wdOf[tree[parent(p)]], kind |-> "deletedDir", name |-> Last(p)]
    <3>2. /\ removed \in Seq(Event) /\ Len(removed) <= 1
          /\ removed \in {<<>>, <<e>>}
      BY <1>1, <3>1, ReportCases
    <3>3. e.kind = "deletedDir"
      OBVIOUS
    <3> HIDE DEF e, removed
    <3> QED BY <3>2, <3>3
  <2>3. /\ ignored \in Seq(Event) /\ Len(ignored) <= 1
        /\ \A k \in DOMAIN ignored : ignored[k].kind = "ignored"
        /\ wdOf[i] # 0 => 1 \in DOMAIN ignored /\ ignored[1] = Ignored(wdOf[i])
    <3>1. wdOf[i] \in Nat
      BY <1>4
    <3>2. Ignored(wdOf[i]) \in Event /\ (Ignored(wdOf[i])).kind = "ignored"
      BY <3>1 DEF Ignored, Event, Kind, AnyName
    <3>3. CASE wdOf[i] = 0
      BY <3>3, EmptySeq
    <3>4. CASE wdOf[i] # 0
      <4> DEFINE g == Ignored(wdOf[i])
      <4>1. g \in Event /\ g.kind = "ignored" /\ ignored = <<g>>
        BY <3>2, <3>4
      <4> HIDE DEF g, ignored
      <4>2. ignored \in Seq(Event) /\ Len(ignored) = 1 /\ ignored[1] = g /\ DOMAIN ignored = {1}
        BY <4>1
      <4> QED BY <4>1, <4>2 DEF g
    <3> QED BY <3>3, <3>4
  <2> HIDE DEF removed, ignored
  <2>4. /\ \A k \in DOMAIN coming' : coming'[k].kind \in {"deletedDir", "ignored"}
        /\ wdOf[i] # 0 => Ignored(wdOf[i]) \in Range(coming')
    <3>1. ASSUME NEW a \in Seq(Event), NEW b \in Seq(Event), Len(a) <= 1, Len(b) <= 1,
                 events' = Post(events, a \o b)
          PROVE  /\ \A k \in DOMAIN coming' :
                       \/ \E m \in DOMAIN a : coming'[k] = a[m]
                       \/ \E m \in DOMAIN b : coming'[k] = b[m]
                 /\ \A m \in DOMAIN a : a[m] \in Range(coming')
                 /\ \A m \in DOMAIN b : b[m] \in Range(coming')
      <4> DEFINE s == a \o b
      <4>1. /\ s \in Seq(Event) /\ Len(s) = Len(a) + Len(b)
            /\ \A k \in 1..(Len(a) + Len(b)) :
                  s[k] = IF k <= Len(a) THEN a[k] ELSE b[k - Len(a)]
        BY ConcatProperties
      <4> HIDE DEF s
      <4>2. /\ DOMAIN a = 1..Len(a) /\ DOMAIN b = 1..Len(b) /\ DOMAIN s = 1..Len(s)
            /\ Len(a) \in Nat /\ Len(b) \in Nat
        BY <4>1
      <4>3. coming' = s
        <5>1. Len(s) <= 2
          BY <3>1, <4>1, <4>2
        <5> QED BY <1>5, <3>1, <4>1, <5>1 DEF s
      <4>4. \A m \in DOMAIN a : m \in DOMAIN s /\ s[m] = a[m]
        BY <4>1, <4>2
      <4>5. \A m \in DOMAIN b : Len(a) + m \in DOMAIN s /\ s[Len(a) + m] = b[m]
        BY <4>1, <4>2
      <4>6. \A k \in DOMAIN s : \/ k \in DOMAIN a /\ s[k] = a[k]
                                \/ k - Len(a) \in DOMAIN b /\ s[k] = b[k - Len(a)]
        BY <4>1, <4>2
      <4> QED BY <4>3, <4>4, <4>5, <4>6 DEF Range
    <3>2. CASE events' = Post(events, removed \o ignored)
      BY <2>2, <2>3, <3>1, <3>2
    <3>3. CASE events' = Post(events, ignored \o removed)
      BY <2>2, <2>3, <3>1, <3>3
    <3> QED BY <2>1, <3>2, <3>3
  <2>5. /\ i \in Ino /\ wdOf'[i] = 0
        /\ \A x \in DOMAIN tree' : wdOf'[tree'[x]] = wdOf[tree[x]]
    <3>1. \A x \in DOMAIN tree' : tree[x] \in Ino /\ tree[x] # i
      BY <1>4, <2>1
    <3> QED BY <1>4, <2>1, <3>1
  <2> HIDE DEF i
  <2>6. ASSUME NEW x \in DOMAIN paths
        PROVE  \/ dir(x) \in DOMAIN tree' /\ wdOf'[tree'[dir(x)]] = paths[x]
               \/ Ignored(paths[x]) \in Range(coming')
    <3>1. CASE dir(x) = p
      BY <1>2, <2>4, <3>1 DEF i
    <3>2. CASE dir(x) # p
      BY <1>2, <2>1, <2>5, <3>2
    <3> QED BY <3>1, <3>2
  <2>7. PathsSound'
    BY <1>1, <1>2, <2>6 DEF PathsSound, IsDirectory
  <2>8. \A x \in DOMAIN tree' : ~shouldIgnoreDirectory(x) => wdOf'[tree'[x]] # 0
    BY <1>3, <2>1, <2>5
  <2>9. ComingSound'
    BY <2>4, <2>8 DEF ComingSound
  <2> QED BY <2>7, <2>9
<1> QED BY <1>1, <1>7, <1>8, <1>9 DEF FsOp

-----------------------------------------------------------------------------
(* The start                                                               *)

\* What is between a directory of D and a path below it is below D too.
LEMMA BelowParts ==
    ASSUME NEW D \in SUBSET Seq(AnyName), \A d \in D : Len(d) \in 1..MaxDepth,
           NEW p \in Below(D)
    PROVE  \E d \in D :
              /\ IsPrefix(d, p)
              /\ \A n \in Len(d)..Len(p) :
                    /\ SubSeq(p, 1, n) \in Below(D)
                    /\ n > Len(d) => p[n] \in Name
<1> DEFINE tails == UNION {[1..n -> Name] : n \in 0..MaxDepth}
           all == {x \o y : x \in D, y \in tails}
<1>1. p \in {d \o s : d \in D, s \in tails} /\ Len(p) <= MaxDepth
  BY DEF Below
<1>2. PICK d \in D, s \in tails : p = d \o s
  BY <1>1
<1>3. PICK l \in 0..MaxDepth : s \in [1..l -> Name]
  BY <1>2
<1>4. l \in Nat /\ Name \subseteq AnyName /\ MaxDepth \in Nat
  BY FileSystemAssumption DEF AnyName
<1>5. s \in Seq(Name) /\ s \in Seq(AnyName) /\ Len(s) = l
  <2>1. s \in [1..l -> AnyName]
    BY <1>3, <1>4
  <2> QED BY <1>3, <1>4, <2>1, SeqDef
<1>6. d \in Seq(AnyName) /\ Len(d) \in Nat
  OBVIOUS
<1>7. /\ p \in Seq(AnyName) /\ Len(p) = Len(d) + l
      /\ \A i \in 1..(Len(d) + l) : p[i] = IF i <= Len(d) THEN d[i] ELSE s[i - Len(d)]
  BY <1>2, <1>5, <1>6, ConcatProperties
<1>8. IsPrefix(d, p)
  <2>1. Len(d) <= Len(p) /\ \A i \in 1..Len(d) : d[i] = p[i]
    BY <1>4, <1>6, <1>7
  <2> QED BY <1>6, <1>7, <2>1, PrefixFacts
<1>9. ASSUME NEW n \in Len(d)..Len(p)
      PROVE  SubSeq(p, 1, n) \in Below(D) /\ (n > Len(d) => p[n] \in Name)
  <2> DEFINE m == n - Len(d)
             t == [i \in 1..m |-> s[i]]
             u == SubSeq(p, 1, n)
  <2>1. m \in 0..MaxDepth /\ m <= l /\ n = Len(d) + m /\ n \in 0..Len(p) /\ m \in Nat
    BY <1>3, <1>4, <1>6, <1>7
  <2>2. \A i \in 1..m : i \in 1..l /\ s[i] \in Name
    BY <1>3, <1>4, <2>1
  <2> HIDE DEF m
  <2>3. t \in [1..m -> Name] /\ t \in Seq(AnyName) /\ Len(t) = m
    <3>1. t \in [1..m -> Name]
      BY <2>2
    <3>2. t \in [1..m -> AnyName]
      BY <1>4, <3>1
    <3> QED BY <2>1, <3>1, <3>2, SeqDef
  <2>4. u \in Seq(AnyName) /\ Len(u) = n /\ \A i \in 1..n : u[i] = p[i]
    <3>1. /\ u \in Seq(AnyName) /\ Len(u) = n /\ IsPrefix(u, p)
      BY <1>7, <2>1, OnTheWay
    <3> HIDE DEF u
    <3>2. \A i \in 1..Len(u) : u[i] = p[i]
      BY <1>7, <3>1, PrefixFacts
    <3> QED BY <3>1, <3>2
  <2> HIDE DEF t, u
  <2>5. /\ d \o t \in Seq(AnyName) /\ Len(d \o t) = Len(d) + m
        /\ \A i \in 1..(Len(d) + m) :
              (d \o t)[i] = IF i <= Len(d) THEN d[i] ELSE t[i - Len(d)]
    BY <1>6, <2>3, ConcatProperties
  <2>6. u = d \o t
    <3>1. ASSUME NEW i \in 1..n
          PROVE  u[i] = (d \o t)[i]
      <4>1. i \in 1..(Len(d) + l) /\ i \in 1..(Len(d) + m)
        BY <1>4, <1>6, <2>1
      <4>2. CASE i <= Len(d)
        BY <1>7, <2>4, <2>5, <4>1, <4>2
      <4>3. CASE ~(i <= Len(d))
        <5>1. i - Len(d) \in 1..m
          BY <1>6, <2>1, <4>1, <4>3
        <5>2. t[i - Len(d)] = s[i - Len(d)]
          BY <5>1 DEF t
        <5> QED BY <1>7, <2>4, <2>5, <4>1, <4>3, <5>2
      <4> QED BY <4>2, <4>3
    <3> QED BY <2>1, <2>4, <2>5, <3>1, SeqEqual
  <2>7. t \in tails
    BY <2>1, <2>3
  <2>8. Len(u) <= MaxDepth
    BY <1>1, <1>4, <1>7, <2>1, <2>4
  <2>9. u \in all
    <3>1. d \in D
      BY <1>2
    <3> HIDE DEF tails
    <3> QED BY <2>6, <2>7, <3>1
  <2>10. u \in Below(D)
    <3>1. Below(D) = {q \in all : Len(q) <= MaxDepth}
      BY DEF Below
    <3> HIDE DEF all
    <3> QED BY <2>8, <2>9, <3>1
  <2>11. n > Len(d) => p[n] \in Name
    <3> SUFFICES ASSUME n > Len(d)
                 PROVE  p[n] \in Name
      OBVIOUS
    <3>1. n \in 1..(Len(d) + l) /\ ~(n <= Len(d)) /\ n - Len(d) \in 1..m
      BY <1>4, <1>6, <2>1
    <3>2. p[n] = s[n - Len(d)]
      BY <1>7, <3>1
    <3> QED BY <2>2, <3>1, <3>2
  <2> QED BY <2>10, <2>11 DEF u
<1> QED BY <1>8, <1>9

\* Before anything is watched.
LEMMA InitQuiet ==
    ASSUME Init
    PROVE  ExactInv
<1>1. IInv
  BY InitIInv
<1> DEFINE D == {dir(root) : root \in Range(roots)}
<1>2. PICK there \in SUBSET Below(D) :
         /\ D \subseteq there
         /\ \A p \in there, q \in Below(D) : IsPrefix(q, p) => q \in there
         /\ DOMAIN tree = there
  BY DEF Init, FsInit
<1>3. /\ calm = TRUE /\ moved = FALSE /\ loop = "scanning" /\ paths = <<>>
      /\ \A i \in Ino : wdOf[i] = 0
      /\ scan = [k \in DOMAIN roots |->
                   [step |-> "watch", path |-> roots[k], entry |-> roots[k]]]
      /\ events = <<>> /\ buffer = <<>>
  BY DEF Init, FsInit
<1>4. \A k \in DOMAIN roots : /\ dir(roots[k]) \in D /\ dir(roots[k]) \in Seq(AnyName)
                            /\ Len(dir(roots[k])) \in 1..MaxDepth
  <2> SUFFICES ASSUME NEW k \in DOMAIN roots
               PROVE  /\ dir(roots[k]) \in D /\ dir(roots[k]) \in Seq(AnyName)
                      /\ Len(dir(roots[k])) \in 1..MaxDepth
    OBVIOUS
  <2>1. roots[k] \in Range(roots)
    BY DEF Range
  <2>2. roots[k] \in Path
    BY <1>1, <2>1, RootsTyped DEF IInv
  <2>3. Len(dir(roots[k])) \in 1..MaxDepth
    BY WatchAssumption DEF Init
  <2> QED BY <2>1, <2>2, <2>3, dirTyped
<1>5. \A d \in D : \E k \in DOMAIN roots : d = dir(roots[k])
  BY DEF Range
<1> HIDE DEF D
<1>6. D \in SUBSET Seq(AnyName) /\ \A d \in D : Len(d) \in 1..MaxDepth
  BY <1>4, <1>5
<1>7. ASSUME NEW p \in DOMAIN tree
      PROVE  \E k \in DOMAIN roots :
                /\ IsPrefix(dir(roots[k]), p)
                /\ \A n \in Len(dir(roots[k]))..Len(p) :
                      /\ SubSeq(p, 1, n) \in DOMAIN tree
                      /\ n > Len(dir(roots[k])) => p[n] \in Name
  <2>1. p \in Below(D) /\ p \in there /\ p \in Seq(AnyName)
    BY <1>1, <1>2 DEF IInv, Rest
  <2>2. PICK d \in D :
           /\ IsPrefix(d, p)
           /\ \A n \in Len(d)..Len(p) :
                 /\ SubSeq(p, 1, n) \in Below(D)
                 /\ n > Len(d) => p[n] \in Name
    BY <1>6, <2>1, BelowParts
  <2>3. \A n \in Len(d)..Len(p) : SubSeq(p, 1, n) \in there
    <3> SUFFICES ASSUME NEW n \in Len(d)..Len(p)
                 PROVE  SubSeq(p, 1, n) \in there
      OBVIOUS
    <3>1. n \in 0..Len(p)
      BY <1>6, <2>1
    <3>2. IsPrefix(SubSeq(p, 1, n), p)
      BY <2>1, <3>1, OnTheWay
    <3> QED BY <1>2, <2>1, <2>2, <3>2
  <2>4. PICK k \in DOMAIN roots : d = dir(roots[k])
    BY <1>5
  <2> QED BY <1>2, <2>2, <2>3, <2>4
<1>8. Rooted
  BY <1>7 DEF Rooted
<1>9. coming = <<>>
  <2>1. <<>> \in Seq(Event)
    BY EmptySeq
  <2> QED BY <1>3, <2>1, ConcatEmptySeq DEF coming
<1>10. /\ DOMAIN scan = DOMAIN roots
       /\ \A k \in DOMAIN scan : scan[k].path = roots[k] /\ scan[k].step = "watch"
  BY <1>3
<1>11. \A q \in DOMAIN tree : wdOf[tree[q]] = 0
  BY <1>1, <1>3 DEF IInv, Rest
<1>12. \A k \in DOMAIN scan : dir(scan[k].path) \in DOMAIN tree
  BY <1>2, <1>4, <1>10
<1>13. ASSUME Disjoint
       PROVE  ScanSound
  <2>1. \A k, m \in DOMAIN scan : k # m => ~IsPrefix(dir(scan[k].path), dir(scan[m].path))
    BY <1>10, <1>13 DEF Disjoint
  <2>2. \A q \in DOMAIN tree : \E k \in DOMAIN scan :
           /\ IsPrefix(dir(scan[k].path), q)
           /\ scan[k].step = "list" => q # dir(scan[k].path)
    <3> SUFFICES ASSUME NEW q \in DOMAIN tree
                 PROVE  \E k \in DOMAIN scan :
                           /\ IsPrefix(dir(scan[k].path), q)
                           /\ scan[k].step = "list" => q # dir(scan[k].path)
      OBVIOUS
    <3>1. PICK k \in DOMAIN roots : IsPrefix(dir(roots[k]), q)
      BY <1>7
    <3>2. k \in DOMAIN scan /\ IsPrefix(dir(scan[k].path), q) /\ scan[k].step # "list"
      BY <1>10, <3>1
    <3> QED BY <3>2
  <2> QED BY <1>8, <1>9, <1>11, <1>12, <2>1, <2>2 DEF ScanSound, IsDirectory
<1>14. PathsSound
  BY <1>3 DEF PathsSound
<1> QED BY <1>1, <1>3, <1>13, <1>14 DEF ExactInv, Quiet

-----------------------------------------------------------------------------
(* The invariant, and what follows from it                                 *)

\* The daemon keeps it.
LEMMA DaemonQuiet ==
    ASSUME ExactInv, Daemon, calm, Disjoint
    PROVE  /\ PathsSound'
           /\ \/ loop' = "scanning" /\ ScanSound'
              \/ loop' = "running" /\ ComingSound'
<1>1. /\ PathsSound
      /\ \/ loop = "scanning" /\ ScanSound
         \/ loop = "running" /\ ComingSound
  BY DEF ExactInv, Quiet
<1>2. CASE ScanWatch
  BY <1>1, <1>2, ScanWatchQuiet DEF ScanWatch
<1>3. CASE ScanList
  BY <1>1, <1>3, ScanListQuiet DEF ScanList
<1>4. CASE ScanDone
  BY <1>1, <1>4, ScanDoneQuiet DEF ScanDone
<1>5. CASE ReadEvents
  BY <1>1, <1>5, ReadQuiet DEF ReadEvents
<1>6. CASE HandleEvent
  BY <1>1, <1>6, HandleQuiet DEF HandleEvent
<1> QED BY <1>2, <1>3, <1>4, <1>5, <1>6 DEF Daemon

\* So do the other processes: one that is ahead of the daemon is not calm.
LEMMA NextExact ==
    ASSUME ExactInv, [Next]_vars
    PROVE  ExactInv'
<1>1. IInv /\ (calm => ~moved) /\ Quiet
  BY DEF ExactInv
<1>2. IInv'
  BY <1>1, NextIInv
<1>3. CASE Daemon
  <2>1. calm' = calm /\ moved' = moved /\ roots' = roots
    BY <1>3 DEF Daemon, ScanWatch, ScanList, ScanDone, ReadEvents, HandleEvent
  <2>2. Disjoint' <=> Disjoint
    BY <2>1 DEF Disjoint
  <2>3. Quiet'
    BY <1>3, <2>1, <2>2, DaemonQuiet DEF Quiet
  <2> QED BY <1>1, <1>2, <2>1, <2>3 DEF ExactInv
<1>4. CASE Disturb
  <2>1. UNCHANGED <<roots, mapVars, buffer, scan, loop>>
    BY <1>4 DEF Disturb
  <2>2. Disjoint' <=> Disjoint
    BY <2>1 DEF Disjoint
  <2>3. CASE FsOp /\ calm' = (calm /\ Waits) /\ moved' = moved
    <3>1. ASSUME calm', Disjoint'
          PROVE  PathsSound' /\ loop' = "running" /\ ComingSound'
      <4>1. calm /\ Waits
        BY <2>3, <3>1
      <4>2. Disjoint
        BY <2>2, <3>1
      <4>3. PathsSound /\ ComingSound
        BY <1>1, <4>1, <4>2 DEF Quiet, Waits
      <4> QED BY <2>1, <2>3, <4>1, <4>3, OpQuiet
    <3>2. Quiet'
      BY <3>1 DEF Quiet
    <3>3. (calm => ~moved)'
      BY <1>1, <2>3
    <3> QED BY <1>2, <3>2, <3>3 DEF ExactInv
  <2>4. CASE calm' = FALSE
    BY <1>2, <2>4 DEF ExactInv, Quiet
  <2> QED BY <1>4, <2>3, <2>4 DEF Disturb
<1>5. CASE UNCHANGED vars
  <2>1. /\ calm' = calm /\ moved' = moved /\ roots' = roots /\ tree' = tree
        /\ files' = files /\ wdOf' = wdOf /\ events' = events /\ buffer' = buffer
        /\ watches' = watches /\ paths' = paths /\ scan' = scan /\ loop' = loop
    BY <1>5 DEF vars, fsVars, kernelVars, mapVars
  <2>2. coming' = coming
    BY <2>1 DEF coming
  <2>3. (PathsSound' <=> PathsSound) /\ (Disjoint' <=> Disjoint)
    BY <2>1, <2>2 DEF PathsSound, IsDirectory, Disjoint
  <2>4. ScanSound => ScanSound'
    BY <2>1, <2>2 DEF ScanSound, IsDirectory, Rooted
  <2>5. ComingSound => ComingSound'
    BY <2>1, <2>2 DEF ComingSound, IsDirectory, FileExists, Named
  <2> QED BY <1>1, <1>2, <2>1, <2>3, <2>4, <2>5 DEF ExactInv, Quiet
<1> QED BY <1>3, <1>4, <1>5 DEF Next

\* ExactInv holds in every reachable state.
THEOREM ExactInvariant == Spec => []ExactInv
<1>1. Init => ExactInv
  BY InitQuiet
<1>2. ExactInv /\ [Next]_vars => ExactInv'
  BY NextExact
<1> QED BY <1>1, <1>2, PTL DEF Spec

\* While every operation on the files finds the daemon waiting, the loop goes on,
\* and when it waits it watches each directory that it should and no other
\* (mainProcess.cpp:33-62, 121-146), for every number of disjoint entries and
\* every tree.
THEOREM WatchesTheRightOnes == Spec => []WatchesExactly
<1>1. ExactInv => WatchesExactly
  <2> SUFFICES ASSUME ExactInv, calm, Disjoint
               PROVE  /\ Alive
                      /\ Waits =>
                            /\ {dir(p) : p \in DOMAIN paths} =
                                  {p \in DOMAIN tree : ~shouldIgnoreDirectory(p)}
                            /\ \A p \in DOMAIN paths : wdOf[tree[dir(p)]] = paths[p]
    BY DEF WatchesExactly
  <2>1. /\ IInv /\ ~moved /\ PathsSound
        /\ \/ loop = "scanning"
           \/ loop = "running" /\ ComingSound
    BY DEF ExactInv, Quiet
  <2>2. Alive
    BY <2>1 DEF Alive
  <2>3. ASSUME Waits
        PROVE  /\ {dir(p) : p \in DOMAIN paths} =
                     {p \in DOMAIN tree : ~shouldIgnoreDirectory(p)}
               /\ \A p \in DOMAIN paths : wdOf[tree[dir(p)]] = paths[p]
    <3>1. coming = <<>> /\ ComingSound
      <4>1. <<>> \in Seq(Event)
        BY EmptySeq
      <4> QED BY <2>1, <2>3, <4>1, ConcatEmptySeq DEF Waits, coming
    <3>2. \A p \in DOMAIN paths :
             /\ p \in Path /\ ~shouldIgnoreDirectory(p)
             /\ dir(p) \in DOMAIN tree /\ wdOf[tree[dir(p)]] = paths[p]
      <4>1. Range(coming) = {}
        BY <3>1 DEF Range
      <4>2. \A p \in DOMAIN paths : p \in Path
        BY <2>1 DEF PathsSound, IInv, Maps
      <4> QED BY <2>1, <4>1, <4>2 DEF PathsSound, IsDirectory
    <3>3. ASSUME NEW p \in DOMAIN paths
          PROVE  dir(p) \in DOMAIN tree /\ ~shouldIgnoreDirectory(dir(p))
      BY <3>2, IgnoredAsString
    <3>4. ASSUME NEW q \in DOMAIN tree, ~shouldIgnoreDirectory(q)
          PROVE  \E p \in DOMAIN paths : dir(p) = q
      <4>1. wdOf[tree[q]] # 0
        <5>1. DOMAIN coming = {}
          BY <3>1
        <5> QED BY <3>1, <3>4, <5>1 DEF ComingSound
      <4> QED BY <2>1, <4>1, KnownPlace
    <3> QED BY <3>2, <3>3, <3>4
  <2> QED BY <2>2, <2>3
<1> QED BY <1>1, ExactInvariant, PTL
=============================================================================
