-------------------------- MODULE WatchLoopProofs --------------------------
(***************************************************************************)
(* Theorems about WatchLoop, for every configuration, every tree of        *)
(* directories, every limit of the queue and of the buffer, and whatever   *)
(* the other processes do.                                                 *)
(***************************************************************************)
EXTENDS WatchLoop, FiniteSetTheorems, SequenceTheorems, TLAPS

-----------------------------------------------------------------------------
(* The inductive invariant                                                 *)

\* What events, paths and the items of a scan are.  "none" is a string, which
\* the provers are not told.
Kind == {"created", "deleted", "closed", "deletedDir", "moved", "ignored", "overflow"}
AnyName == STRING \cup {"none"}
Event == [wd : Nat, kind : Kind, name : AnyName]
Path == Seq(AnyName) \ {<<>>}
Item == [step : {"watch", "list"}, path : Path, entry : Path]

\* The events that the daemon has not handled yet, in their order.
coming == buffer \o events

\* The kernel uses a descriptor for one directory.
Distinct == \A i, h \in Ino : wdOf[i] # 0 /\ wdOf[i] = wdOf[h] => i = h

\* The kernel's state and the three maps: their types, a full queue that says
\* so, and each watch of the kernel in the maps.
Maps ==
    /\ wdOf \in [Ino -> 0..(nextWd - 1)]
    /\ nextWd \in Nat \ {0}
    /\ events \in Seq(Event) /\ Len(events) <= QueueLimit + 1
    /\ Len(events) > QueueLimit => Overflow \in Range(events)
    /\ DOMAIN watches \subseteq 1..(nextWd - 1)
    /\ DOMAIN watchToConfig \subseteq 1..(nextWd - 1)
    /\ \A wd \in DOMAIN watchToConfig : watchToConfig[wd] \in Range(roots)
    /\ \A wd \in DOMAIN watches : watches[wd] \in Path
    /\ MapsAgree
    /\ Distinct
    /\ \A i \in Ino : wdOf[i] # 0 => wdOf[i] \in DOMAIN watches

\* The directories, and what the daemon has read and has still to do.
Rest ==
    /\ DOMAIN tree \subseteq Seq(AnyName)
    /\ \A p \in DOMAIN tree : tree[p] \in Ino /\ Len(p) \in 1..MaxDepth
    /\ \A p, q \in DOMAIN tree : tree[p] = tree[q] => p = q
    /\ files \subseteq Ino \X FileName
    /\ roots \in Configs
    /\ buffer \in Seq(Event) /\ Len(buffer) <= ReadAhead
    /\ loop \in {"scanning", "running"} \cup Cause
    /\ scan \in Seq(Item)
    /\ \A k \in DOMAIN scan : scan[k].entry \in Range(roots)

\* Event k is in front of the first overflow event.
Heard(c, k) == k \in DOMAIN c /\ \A m \in 1..k : c[m] # Overflow

\* The events c that come before an overflow are of known watches, and an
\* IN_IGNORED is the last of its watch, which the kernel has no more.
Coherent(c, w, known) ==
    \A k \in DOMAIN c : Heard(c, k) =>
       /\ c[k].wd \in known
       /\ c[k].kind = "ignored" =>
             /\ \A i \in Ino : w[i] # c[k].wd
             /\ \A m \in DOMAIN c : m > k /\ Heard(c, m) => c[m].wd # c[k].wd

\* If no overflow comes, each known watch is one of the kernel or will end.
Exact(c, w, known) ==
    Overflow \notin Range(c) =>
       \A x \in known : \/ \E i \in Ino : w[i] = x
                        \/ \E k \in DOMAIN c : c[k].wd = x /\ c[k].kind = "ignored"

\* As long as the loop has not died of an overflow, what is known agrees with
\* the kernel, give or take what is coming.
Follows ==
    loop # "overflowed" =>
       Coherent(coming, wdOf, DOMAIN watches) /\ Exact(coming, wdOf, DOMAIN watches)

\* Where the watches are, and what a scan will watch, as long as no directory
\* is renamed.
Located ==
    ~moved =>
       /\ \A i \in Ino : wdOf[i] # 0 =>
             LET path == dir(watches[wdOf[i]])
             IN  IsDirectory(path) /\ tree[path] = i
       /\ \A wd \in DOMAIN watches : IsPrefix(dir(watchToConfig[wd]), dir(watches[wd]))
       /\ \A j \in jobs : IsPrefix(dir(j.entry), j.path)
       /\ \A k \in DOMAIN scan : IsPrefix(dir(scan[k].entry), dir(scan[k].path))

\* What holds in every reachable state.
IInv == Maps /\ Rest /\ Follows /\ OnlyKnownWatches /\ Located

-----------------------------------------------------------------------------
(* Sequences of events                                                     *)

\* What is posted to a queue comes after what is there, except what an overflow
\* event stands for; nothing is dropped without one.
LEMMA PostFacts ==
    ASSUME NEW q \in Seq(Event), NEW es \in Seq(Event), Len(q) <= QueueLimit + 1,
           Len(q) > QueueLimit => Overflow \in Range(q)
    PROVE  /\ Post(q, es) \in Seq(Event)
           /\ Len(q) <= Len(Post(q, es)) /\ Len(Post(q, es)) <= QueueLimit + 1
           /\ Len(Post(q, es)) > QueueLimit => Overflow \in Range(Post(q, es))
           /\ \A k \in 1..Len(q) : Post(q, es)[k] = q[k]
           /\ \A k \in (Len(q) + 1)..Len(Post(q, es)) :
                 \/ Post(q, es)[k] = Overflow
                 \/ k - Len(q) \in 1..Len(es) /\ Post(q, es)[k] = es[k - Len(q)]
           /\ \/ Overflow \in Range(Post(q, es))
              \/ Post(q, es) = q \o es
<1> USE FileSystemAssumption
<1> DEFINE room == QueueLimit - Len(q)
           kept == q \o SubSeq(es, 1, room)
<1>0. Overflow \in Event
  BY DEF Overflow, Event, Kind, AnyName
<1>1. /\ q \o es \in Seq(Event)
      /\ Len(q \o es) = Len(q) + Len(es)
      /\ \A k \in 1..(Len(q) + Len(es)) :
            (q \o es)[k] = IF k <= Len(q) THEN q[k] ELSE es[k - Len(q)]
  BY ConcatProperties
<1>2. CASE Len(q) + Len(es) <= QueueLimit
  <2>1. Post(q, es) = q \o es
    BY <1>2 DEF Post
  <2> QED BY <1>1, <1>2, <2>1
<1>3. CASE ~(Len(q) + Len(es) <= QueueLimit)
  <2>1. /\ kept \in Seq(Event)
        /\ Len(q) <= Len(kept) /\ Len(kept) <= QueueLimit + 1
        /\ Len(kept) > QueueLimit => Overflow \in Range(kept)
        /\ \A k \in 1..Len(q) : kept[k] = q[k]
        /\ \A k \in (Len(q) + 1)..Len(kept) :
              k - Len(q) \in 1..Len(es) /\ kept[k] = es[k - Len(q)]
    <3> DEFINE b == SubSeq(es, 1, room)
    <3>1. CASE room < 0
      <4>1. b = <<>>
        BY <3>1, SubSeqProperties
      <4>2. kept = q
        BY <4>1, ConcatEmptySeq
      <4> HIDE DEF kept
      <4> QED BY <3>1, <4>2
    <3>2. CASE ~(room < 0)
      <4>1. b \in Seq(Event) /\ Len(b) = room /\ \A k \in 1..room : b[k] = es[k]
        BY <1>3, <3>2, SubSeqProperties
      <4> HIDE DEF b
      <4>2. /\ q \o b \in Seq(Event)
            /\ Len(q \o b) = Len(q) + Len(b)
            /\ \A k \in 1..(Len(q) + Len(b)) :
                  (q \o b)[k] = IF k <= Len(q) THEN q[k] ELSE b[k - Len(q)]
        BY <4>1, ConcatProperties
      <4>3. kept = q \o b
        BY DEF b
      <4> HIDE DEF kept
      <4>4. ASSUME NEW k \in (Len(q) + 1)..Len(kept)
            PROVE  k - Len(q) \in 1..Len(es) /\ kept[k] = es[k - Len(q)]
        <5>1. k - Len(q) \in 1..room /\ kept[k] = b[k - Len(q)]
          BY <3>2, <4>1, <4>2, <4>3
        <5> QED BY <1>3, <3>2, <4>1, <5>1
      <4>5. \A k \in 1..Len(q) : kept[k] = q[k]
        BY <3>2, <4>1, <4>2, <4>3
      <4> QED BY <1>3, <3>2, <4>1, <4>2, <4>3, <4>4, <4>5
    <3> QED BY <3>1, <3>2
  <2>2. Post(q, es) = IF Overflow \in Range(kept) THEN kept ELSE Append(kept, Overflow)
    BY <1>3 DEF Post
  <2> HIDE DEF kept
  <2>3. CASE Overflow \in Range(kept)
    BY <2>1, <2>2, <2>3
  <2>4. CASE Overflow \notin Range(kept)
    <3>1. /\ Append(kept, Overflow) \in Seq(Event)
          /\ Len(Append(kept, Overflow)) = Len(kept) + 1
          /\ \A k \in 1..Len(kept) : Append(kept, Overflow)[k] = kept[k]
          /\ Append(kept, Overflow)[Len(kept) + 1] = Overflow
      BY <1>0, <2>1, AppendProperties
    <3>2. Overflow \in Range(Append(kept, Overflow))
      <4>1. Len(kept) + 1 \in DOMAIN Append(kept, Overflow)
        BY <2>1, <3>1
      <4> QED BY <3>1, <4>1 DEF Range
    <3>3. \A k \in 1..Len(q) : Append(kept, Overflow)[k] = q[k]
      BY <2>1, <3>1
    <3>4. \A k \in (Len(q) + 1)..(Len(kept) + 1) :
             \/ Append(kept, Overflow)[k] = Overflow
             \/ /\ k - Len(q) \in 1..Len(es)
                /\ Append(kept, Overflow)[k] = es[k - Len(q)]
      BY <2>1, <3>1
    <3> QED BY <2>1, <2>2, <2>4, <3>1, <3>2, <3>3, <3>4
  <2> QED BY <2>3, <2>4
<1> QED BY <1>2, <1>3

\* The same of what is coming, with what is in the buffer before the queue.
LEMMA ComingFacts ==
    ASSUME NEW b \in Seq(Event), NEW q \in Seq(Event), NEW es \in Seq(Event),
           Len(q) <= QueueLimit + 1, Len(q) > QueueLimit => Overflow \in Range(q)
    PROVE  /\ b \o q \in Seq(Event)
           /\ b \o Post(q, es) \in Seq(Event)
           /\ Len(b \o q) <= Len(b \o Post(q, es))
           /\ \A k \in 1..Len(b \o q) : (b \o Post(q, es))[k] = (b \o q)[k]
           /\ \A k \in (Len(b \o q) + 1)..Len(b \o Post(q, es)) :
                 \/ (b \o Post(q, es))[k] = Overflow
                 \/ /\ k - Len(b \o q) \in 1..Len(es)
                    /\ (b \o Post(q, es))[k] = es[k - Len(b \o q)]
           /\ \/ Overflow \in Range(b \o Post(q, es))
              \/ \A k \in 1..Len(es) : /\ Len(b \o q) + k \in DOMAIN (b \o Post(q, es))
                                      /\ (b \o Post(q, es))[Len(b \o q) + k] = es[k]
<1> DEFINE p == Post(q, es)
           c == b \o q
           d == b \o p
<1> HIDE DEF p
<1>1. /\ p \in Seq(Event)
      /\ Len(q) <= Len(p)
      /\ \A k \in 1..Len(q) : p[k] = q[k]
      /\ \A k \in (Len(q) + 1)..Len(p) :
            \/ p[k] = Overflow
            \/ k - Len(q) \in 1..Len(es) /\ p[k] = es[k - Len(q)]
      /\ Overflow \in Range(p) \/ p = q \o es
  <2>1. /\ Post(q, es) \in Seq(Event)
        /\ Len(q) <= Len(Post(q, es))
        /\ \A k \in 1..Len(q) : Post(q, es)[k] = q[k]
        /\ \A k \in (Len(q) + 1)..Len(Post(q, es)) :
              \/ Post(q, es)[k] = Overflow
              \/ k - Len(q) \in 1..Len(es) /\ Post(q, es)[k] = es[k - Len(q)]
        /\ Overflow \in Range(Post(q, es)) \/ Post(q, es) = q \o es
    BY PostFacts
  <2> QED BY <2>1 DEF p
<1>2. /\ c \in Seq(Event) /\ Len(c) = Len(b) + Len(q)
      /\ \A k \in 1..Len(c) : c[k] = IF k <= Len(b) THEN b[k] ELSE q[k - Len(b)]
  BY ConcatProperties
<1>3. /\ d \in Seq(Event) /\ Len(d) = Len(b) + Len(p)
      /\ \A k \in 1..Len(d) : d[k] = IF k <= Len(b) THEN b[k] ELSE p[k - Len(b)]
  BY <1>1, ConcatProperties
<1> HIDE DEF c, d
<1>4. /\ Len(b) \in Nat /\ Len(q) \in Nat /\ Len(p) \in Nat /\ Len(es) \in Nat
      /\ DOMAIN d = 1..Len(d) /\ DOMAIN p = 1..Len(p)
  BY <1>1, <1>3
<1>10. Len(c) <= Len(d)
  <2>1. Len(c) = Len(b) + Len(q) /\ Len(d) = Len(b) + Len(p) /\ Len(q) <= Len(p)
    BY <1>1, <1>2, <1>3
  <2> QED BY <1>4, <2>1
<1>5. ASSUME NEW k \in 1..Len(c)
      PROVE  d[k] = c[k]
  <2>1. k \in 1..Len(d)
    BY <1>4, <1>10, Len(c) \in Nat, Len(d) \in Nat
  <2>2. CASE k <= Len(b)
    BY <1>2, <1>3, <2>1, <2>2
  <2>3. CASE ~(k <= Len(b))
    <3>1. k - Len(b) \in 1..Len(q)
      BY <1>2, <1>4, <2>3
    <3> QED BY <1>1, <1>2, <1>3, <2>1, <2>3, <3>1
  <2> QED BY <2>2, <2>3
<1>6. ASSUME NEW k \in (Len(c) + 1)..Len(d)
      PROVE  \/ d[k] = Overflow
             \/ k - Len(c) \in 1..Len(es) /\ d[k] = es[k - Len(c)]
  <2>1. /\ k \in 1..Len(d) /\ ~(k <= Len(b))
        /\ k - Len(b) \in (Len(q) + 1)..Len(p)
        /\ (k - Len(b)) - Len(q) = k - Len(c)
    BY <1>2, <1>3, <1>4
  <2>2. d[k] = p[k - Len(b)]
    BY <1>3, <2>1
  <2> QED BY <1>1, <2>1, <2>2
<1> DEFINE all == \/ Overflow \in Range(d)
                  \/ \A k \in 1..Len(es) :
                        Len(c) + k \in DOMAIN d /\ d[Len(c) + k] = es[k]
<1>7. ASSUME Overflow \in Range(p)
      PROVE  all
  <2>1. PICK k \in 1..Len(p) : p[k] = Overflow
    BY <1>4, <1>7 DEF Range
  <2>2. Len(b) + k \in 1..Len(d) /\ ~(Len(b) + k <= Len(b)) /\ (Len(b) + k) - Len(b) = k
    BY <1>3, <1>4
  <2>3. d[Len(b) + k] = Overflow
    BY <1>3, <2>1, <2>2
  <2>4. Overflow \in Range(d)
    BY <1>4, <2>2, <2>3 DEF Range
  <2> QED BY <2>4
<1>8. ASSUME p = q \o es
      PROVE  all
  <2>1. /\ Len(p) = Len(q) + Len(es)
        /\ \A k \in 1..(Len(q) + Len(es)) :
              p[k] = IF k <= Len(q) THEN q[k] ELSE es[k - Len(q)]
    BY <1>8, ConcatProperties
  <2>2. ASSUME NEW k \in 1..Len(es)
        PROVE  Len(c) + k \in DOMAIN d /\ d[Len(c) + k] = es[k]
    <3>1. /\ Len(c) + k \in 1..Len(d) /\ ~(Len(c) + k <= Len(b))
          /\ (Len(c) + k) - Len(b) = Len(q) + k
      BY <1>2, <1>3, <1>4, <2>1
    <3>2. Len(q) + k \in 1..(Len(q) + Len(es)) /\ ~(Len(q) + k <= Len(q))
          /\ (Len(q) + k) - Len(q) = k
      BY <1>4
    <3>3. d[Len(c) + k] = p[Len(q) + k]
      BY <1>3, <3>1
    <3>4. p[Len(q) + k] = es[k]
      BY <2>1, <3>2
    <3> QED BY <1>4, <3>1, <3>3, <3>4
  <2> QED BY <2>2
<1>9. all
  BY <1>1, <1>7, <1>8
<1> QED BY <1>2, <1>3, <1>5, <1>6, <1>9, <1>10 DEF c, d, p

\* What is heard stays coherent when events of watches that the kernel has are
\* added, as long as nothing follows the last event of a watch that ends with it.
LEMMA StaysCoherent ==
    ASSUME NEW c \in Seq(Event), NEW d \in Seq(Event), Len(c) <= Len(d),
           \A k \in 1..Len(c) : d[k] = c[k],
           NEW w, NEW v, NEW known,
           \A i \in Ino : v[i] = w[i] \/ v[i] = 0,
           \A i \in Ino : w[i] # 0 => w[i] \in known,
           0 \notin known,
           \A k \in (Len(c) + 1)..Len(d) :
              \/ d[k] = Overflow
              \/ \E h \in Ino :
                    /\ w[h] # 0 /\ d[k].wd = w[h]
                    /\ d[k].kind = "ignored" =>
                          /\ v[h] = 0
                          /\ \A i \in Ino : w[i] = w[h] => i = h
                          /\ \A m \in (k + 1)..Len(d) :
                                d[m] = Overflow \/ d[m].wd # d[k].wd,
           Coherent(c, w, known)
    PROVE  Coherent(d, v, known)
<1> SUFFICES ASSUME NEW k \in DOMAIN d, Heard(d, k)
             PROVE  /\ d[k].wd \in known
                    /\ d[k].kind = "ignored" =>
                          /\ \A i \in Ino : v[i] # d[k].wd
                          /\ \A m \in DOMAIN d :
                                m > k /\ Heard(d, m) => d[m].wd # d[k].wd
  BY DEF Coherent
<1>1. /\ DOMAIN c = 1..Len(c) /\ DOMAIN d = 1..Len(d)
      /\ Len(c) \in Nat /\ Len(d) \in Nat
  OBVIOUS
<1>2. \A m \in DOMAIN d : Heard(d, m) => d[m] # Overflow
  BY <1>1 DEF Heard
<1>3. \A m \in 1..Len(c) : Heard(d, m) => Heard(c, m)
  BY <1>1 DEF Heard
<1>4. CASE k <= Len(c)
  <2>1. k \in 1..Len(c) /\ d[k] = c[k] /\ Heard(c, k)
    BY <1>1, <1>3, <1>4
  <2>2. /\ c[k].wd \in known
        /\ c[k].kind = "ignored" =>
              /\ \A i \in Ino : w[i] # c[k].wd
              /\ \A m \in DOMAIN c : m > k /\ Heard(c, m) => c[m].wd # c[k].wd
    BY <1>1, <2>1 DEF Coherent
  <2>3. ASSUME d[k].kind = "ignored", NEW m \in DOMAIN d, m > k, Heard(d, m)
        PROVE  d[m].wd # d[k].wd
    <3>1. CASE m <= Len(c)
      BY <1>1, <1>3, <2>1, <2>2, <2>3, <3>1
    <3>2. CASE ~(m <= Len(c))
      <4>1. m \in (Len(c) + 1)..Len(d) /\ d[m] # Overflow
        BY <1>1, <1>2, <2>3, <3>2
      <4>2. PICK h \in Ino : d[m].wd = w[h]
        BY <4>1
      <4> QED BY <2>1, <2>2, <2>3, <4>2
    <3> QED BY <3>1, <3>2
  <2>4. ASSUME d[k].kind = "ignored", NEW i \in Ino
        PROVE  v[i] # d[k].wd
    BY <2>1, <2>2, <2>4
  <2> QED BY <2>1, <2>2, <2>3, <2>4
<1>5. CASE ~(k <= Len(c))
  <2>1. k \in (Len(c) + 1)..Len(d) /\ d[k] # Overflow
    BY <1>1, <1>2, <1>5
  <2>2. PICK h \in Ino :
           /\ w[h] # 0 /\ d[k].wd = w[h]
           /\ d[k].kind = "ignored" =>
                 /\ v[h] = 0
                 /\ \A i \in Ino : w[i] = w[h] => i = h
                 /\ \A m \in (k + 1)..Len(d) : d[m] = Overflow \/ d[m].wd # d[k].wd
    BY <2>1
  <2>3. ASSUME d[k].kind = "ignored", NEW i \in Ino
        PROVE  v[i] # d[k].wd
    BY <2>2, <2>3
  <2>4. ASSUME d[k].kind = "ignored", NEW m \in DOMAIN d, m > k, Heard(d, m)
        PROVE  d[m].wd # d[k].wd
    <3>1. m \in (k + 1)..Len(d) /\ d[m] # Overflow
      BY <1>1, <1>2, <2>1, <2>4
    <3> QED BY <2>2, <2>4, <3>1
  <2> QED BY <2>2, <2>3, <2>4
<1> QED BY <1>4, <1>5

\* Until something is dropped, each known watch is accounted for.
LEMMA StaysExact ==
    ASSUME NEW c \in Seq(Event), NEW d \in Seq(Event), Len(c) <= Len(d),
           \A k \in 1..Len(c) : d[k] = c[k],
           NEW w, NEW v, NEW known, Exact(c, w, known),
           \A i \in Ino : \/ v[i] = w[i]
                        \/ Overflow \in Range(d)
                        \/ \E k \in DOMAIN d : d[k].wd = w[i] /\ d[k].kind = "ignored"
    PROVE  Exact(d, v, known)
<1> SUFFICES ASSUME Overflow \notin Range(d), NEW x \in known
             PROVE  \/ \E i \in Ino : v[i] = x
                    \/ \E k \in DOMAIN d : d[k].wd = x /\ d[k].kind = "ignored"
  BY DEF Exact
<1>1. /\ DOMAIN c = 1..Len(c) /\ DOMAIN d = 1..Len(d)
      /\ Len(c) \in Nat /\ Len(d) \in Nat
  OBVIOUS
<1>2. \A k \in DOMAIN c : k \in DOMAIN d /\ d[k] = c[k]
  BY <1>1
<1>3. Overflow \notin Range(c)
  BY <1>2 DEF Range
<1> QED BY <1>2, <1>3 DEF Exact

-----------------------------------------------------------------------------
(* Paths                                                                   *)

\* A path and its last name.
LEMMA AppendParts ==
    ASSUME NEW S, NEW s \in Seq(S), NEW x \in S
    PROVE  /\ Append(s, x) \in Seq(S) /\ Append(s, x) # <<>>
           /\ Len(Append(s, x)) = Len(s) + 1
           /\ Front(Append(s, x)) = s
           /\ Last(Append(s, x)) = x
<1> DEFINE t == Append(s, x)
<1>1. /\ t \in Seq(S) /\ t # <<>> /\ Len(t) = Len(s) + 1 /\ Len(s) \in Nat
      /\ \A i \in 1..Len(s) : t[i] = s[i]
      /\ t[Len(s) + 1] = x
  BY AppendProperties
<1> HIDE DEF t
<1>2. /\ SubSeq(t, 1, Len(s)) \in Seq(S)
      /\ Len(SubSeq(t, 1, Len(s))) = Len(s)
      /\ \A i \in 1..Len(s) : SubSeq(t, 1, Len(s))[i] = t[i]
  BY <1>1, SubSeqProperties
<1>3. SubSeq(t, 1, Len(s)) = s
  BY <1>1, <1>2, SeqEqual
<1>4. Front(t) = s
  BY <1>1, <1>3 DEF Front
<1>5. Last(t) = x
  BY <1>1 DEF Last
<1> QED BY <1>1, <1>4, <1>5 DEF t

\* The parent of a path, and its last name.
LEMMA FrontFacts ==
    ASSUME NEW S, NEW s \in Seq(S), s # <<>>
    PROVE  /\ Len(s) \in Nat \ {0}
           /\ Front(s) \in Seq(S)
           /\ Len(Front(s)) = Len(s) - 1
           /\ \A i \in 1..(Len(s) - 1) : Front(s)[i] = s[i]
           /\ Front(s) # s
           /\ Last(s) \in S
<1>1. Len(s) \in Nat \ {0}
  BY EmptySeq
<1>2. /\ SubSeq(s, 1, Len(s) - 1) \in Seq(S)
      /\ Len(SubSeq(s, 1, Len(s) - 1)) = Len(s) - 1
      /\ \A i \in 1..(Len(s) - 1) : SubSeq(s, 1, Len(s) - 1)[i] = s[i]
  <2> DEFINE n == Len(s) - 1
  <2>1. n \in Nat /\ n <= Len(s)
    BY <1>1
  <2>2. \A i \in 1..n : i \in 1..Len(s)
    BY <1>1
  <2>3. \A i \in 1..n : s[i] \in S
    BY <2>2, ElementOfSeq
  <2> HIDE DEF n
  <2>4. /\ SubSeq(s, 1, n) \in Seq(S)
        /\ Len(SubSeq(s, 1, n)) = n
        /\ \A i \in 1..n : SubSeq(s, 1, n)[i] = s[i]
    BY <2>1, <2>2, <2>3
  <2> QED BY <2>4 DEF n
<1>3. s[Len(s)] \in S
  BY <1>1, ElementOfSeq
<1>4. Front(s) = SubSeq(s, 1, Len(s) - 1) /\ Last(s) = s[Len(s)]
  BY DEF Front, Last
<1> QED BY <1>1, <1>2, <1>3, <1>4

\* The directory that a path names.
LEMMA dirTyped ==
    ASSUME NEW p \in Path
    PROVE  dir(p) \in Seq(AnyName)
BY FrontFacts DEF dir, Path

\* What other processes name exists, or its parent does.
LEMMA SubPathFacts ==
    ASSUME Maps, Rest, NEW p \in SubPath
    PROVE  /\ p \in Seq(AnyName) /\ p # <<>> /\ Len(p) \in 1..MaxDepth
           /\ Last(p) \in AnyName
<1>1. PICK q \in DOMAIN tree, n \in Name : p = Append(q, n) /\ Len(q) < MaxDepth
  BY DEF SubPath
<1>2. q \in Seq(AnyName) /\ n \in AnyName /\ Len(q) \in 1..MaxDepth
  BY <1>1, FileSystemAssumption DEF Rest, AnyName
<1>3. /\ Append(q, n) \in Seq(AnyName) /\ Append(q, n) # <<>>
      /\ Len(Append(q, n)) = Len(q) + 1 /\ Last(Append(q, n)) = n
  BY <1>2, AppendParts
<1>4. Len(q) + 1 \in 1..MaxDepth
  BY <1>1, <1>2, FileSystemAssumption
<1> QED BY <1>1, <1>2, <1>3, <1>4

\* So does every directory.
LEMMA TreeFacts ==
    ASSUME Maps, Rest, NEW p \in DOMAIN tree
    PROVE  /\ p \in Seq(AnyName) /\ p # <<>> /\ Len(p) \in 1..MaxDepth
           /\ Last(p) \in AnyName
           /\ parent(p) # p
           /\ tree[p] \in Ino
<1>1. p \in Seq(AnyName) /\ Len(p) \in 1..MaxDepth /\ tree[p] \in Ino
  BY DEF Maps, Rest
<1>2. p # <<>>
  BY <1>1
<1> QED BY <1>1, <1>2, FrontFacts DEF parent

-----------------------------------------------------------------------------
(* What the other processes do                                             *)

\* New events are of watches that the kernel has, and the last event of a watch
\* that it loses is among them, and is the only one of that watch.
Fresh(es, v) ==
    /\ es \in Seq(Event)
    /\ \A k \in 1..Len(es) : \E h \in Ino :
          /\ wdOf[h] # 0 /\ es[k].wd = wdOf[h]
          /\ es[k].kind = "ignored" =>
                v[h] = 0 /\ \A m \in 1..Len(es) : m # k => es[m].wd # es[k].wd
    /\ \A i \in Ino : \/ v[i] = wdOf[i]
                     \/ /\ v[i] = 0
                        /\ \E k \in 1..Len(es) : es[k].wd = wdOf[i] /\ es[k].kind = "ignored"

\* Such events keep the kernel and the maps together.
LEMMA PostKernel ==
    ASSUME Maps,
           NEW b \in Seq(Event), NEW es, NEW v, Fresh(es, v)
    PROVE  /\ Coherent(b \o events, wdOf, DOMAIN watches) =>
                 Coherent(b \o Post(events, es), v, DOMAIN watches)
           /\ Exact(b \o events, wdOf, DOMAIN watches) =>
                 Exact(b \o Post(events, es), v, DOMAIN watches)
<1> DEFINE c == b \o events
           d == b \o Post(events, es)
<1>1. /\ events \in Seq(Event) /\ es \in Seq(Event)
      /\ Len(events) <= QueueLimit + 1
      /\ Len(events) > QueueLimit => Overflow \in Range(events)
      /\ 0 \notin DOMAIN watches
      /\ \A i \in Ino : wdOf[i] # 0 => wdOf[i] \in DOMAIN watches
  BY DEF Maps, Fresh
<1>2. /\ c \in Seq(Event) /\ d \in Seq(Event) /\ Len(c) <= Len(d)
      /\ \A k \in 1..Len(c) : d[k] = c[k]
      /\ \A k \in (Len(c) + 1)..Len(d) :
            \/ d[k] = Overflow
            \/ k - Len(c) \in 1..Len(es) /\ d[k] = es[k - Len(c)]
      /\ \/ Overflow \in Range(d)
         \/ \A k \in 1..Len(es) : Len(c) + k \in DOMAIN d /\ d[Len(c) + k] = es[k]
  BY <1>1, ComingFacts
<1> HIDE DEF c, d
<1>3. Len(c) \in Nat /\ Len(d) \in Nat
  BY <1>2
<1>4. ASSUME NEW k \in (Len(c) + 1)..Len(d), d[k] # Overflow
      PROVE  \E h \in Ino :
                /\ wdOf[h] # 0 /\ d[k].wd = wdOf[h]
                /\ d[k].kind = "ignored" =>
                      /\ v[h] = 0
                      /\ \A i \in Ino : wdOf[i] = wdOf[h] => i = h
                      /\ \A m \in (k + 1)..Len(d) : d[m] = Overflow \/ d[m].wd # d[k].wd
  <2>1. k - Len(c) \in 1..Len(es) /\ d[k] = es[k - Len(c)]
    BY <1>2, <1>4
  <2>2. PICK h \in Ino :
           /\ wdOf[h] # 0 /\ es[k - Len(c)].wd = wdOf[h]
           /\ es[k - Len(c)].kind = "ignored" =>
                 /\ v[h] = 0
                 /\ \A m \in 1..Len(es) : m # k - Len(c) => es[m].wd # es[k - Len(c)].wd
    BY <2>1 DEF Fresh
  <2>3. \A i \in Ino : wdOf[i] = wdOf[h] => i = h
    BY <2>2 DEF Distinct, Maps
  <2>4. ASSUME d[k].kind = "ignored", NEW m \in (k + 1)..Len(d), d[m] # Overflow
        PROVE  d[m].wd # d[k].wd
    <3>1. m \in (Len(c) + 1)..Len(d) /\ m - Len(c) # k - Len(c)
      BY <1>3
    <3>2. m - Len(c) \in 1..Len(es) /\ d[m] = es[m - Len(c)]
      BY <1>2, <2>4, <3>1
    <3> QED BY <2>1, <2>2, <2>4, <3>1, <3>2
  <2> QED BY <2>1, <2>2, <2>3, <2>4
<1>5. \A i \in Ino : v[i] = wdOf[i] \/ v[i] = 0
  BY DEF Fresh
<1>6. ASSUME Coherent(c, wdOf, DOMAIN watches)
      PROVE  Coherent(d, v, DOMAIN watches)
  BY <1>1, <1>2, <1>4, <1>5, <1>6, StaysCoherent
<1>7. ASSUME NEW i \in Ino
      PROVE  \/ v[i] = wdOf[i]
             \/ Overflow \in Range(d)
             \/ \E k \in DOMAIN d : d[k].wd = wdOf[i] /\ d[k].kind = "ignored"
  <2>1. CASE v[i] = wdOf[i]
    BY <2>1
  <2>2. CASE v[i] # wdOf[i]
    <3>1. PICK k \in 1..Len(es) : es[k].wd = wdOf[i] /\ es[k].kind = "ignored"
      BY <2>2 DEF Fresh
    <3>2. \/ Overflow \in Range(d)
          \/ Len(c) + k \in DOMAIN d /\ d[Len(c) + k] = es[k]
      BY <1>2
    <3> QED BY <3>1, <3>2
  <2> QED BY <2>1, <2>2
<1>8. ASSUME Exact(c, wdOf, DOMAIN watches)
      PROVE  Exact(d, v, DOMAIN watches)
  BY <1>2, <1>7, <1>8, StaysExact
<1> QED BY <1>6, <1>8 DEF c, d

\* Reports of directories that the kernel watches, none of which is the last of
\* a watch.
Plain(es) ==
    /\ es \in Seq(Event)
    /\ \A k \in 1..Len(es) :
          es[k].kind # "ignored" /\ \E h \in Ino : wdOf[h] # 0 /\ es[k].wd = wdOf[h]

\* The maps of the kernel hold numbers.
LEMMA KernelTyped ==
    ASSUME Maps, Rest
    PROVE  /\ \A i \in Ino : wdOf[i] \in Nat /\ wdOf[i] < nextWd
           /\ nextWd \in Nat \ {0}
           /\ 0 \notin DOMAIN watches
BY DEF Maps, Rest

\* What Report returns.
LEMMA ReportFacts ==
    ASSUME Maps, Rest, NEW p, NEW kind \in Kind \ {"ignored"}, NEW name \in AnyName
    PROVE  /\ Plain(Report(p, kind, name))
           /\ \A k \in 1..Len(Report(p, kind, name)) :
                 p \in DOMAIN tree /\ Report(p, kind, name)[k].wd = wdOf[tree[p]]
<1> DEFINE es == Report(p, kind, name)
<1>1. CASE IsDirectory(p) /\ wdOf[tree[p]] # 0
  <2> DEFINE e == [wd |-> wdOf[tree[p]], kind |-> kind, name |-> name]
  <2>1. p \in DOMAIN tree /\ tree[p] \in Ino /\ wdOf[tree[p]] \in Nat
    BY <1>1, KernelTyped DEF IsDirectory, Rest
  <2>2. es = <<e>>
    BY <1>1 DEF Report
  <2>3. e \in Event /\ e.wd = wdOf[tree[p]] /\ e.kind # "ignored"
    BY <2>1 DEF Event
  <2> HIDE DEF e, es
  <2>4. es \in Seq(Event) /\ \A k \in 1..Len(es) : es[k] = e
    BY <2>2, <2>3
  <2>5. Plain(es)
    BY <1>1, <2>1, <2>3, <2>4 DEF Plain
  <2> QED BY <2>1, <2>3, <2>4, <2>5 DEF es
<1>2. CASE ~(IsDirectory(p) /\ wdOf[tree[p]] # 0)
  <2>1. es = <<>>
    BY <1>2 DEF Report
  <2> QED BY <2>1 DEF Plain
<1> QED BY <1>1, <1>2

\* Two such reports in a row.
LEMMA PlainConcat ==
    ASSUME NEW a, NEW b, Plain(a), Plain(b)
    PROVE  Plain(a \o b)
<1>1. a \in Seq(Event) /\ b \in Seq(Event)
  BY DEF Plain
<1>2. /\ a \o b \in Seq(Event) /\ Len(a \o b) = Len(a) + Len(b)
      /\ \A k \in 1..(Len(a) + Len(b)) :
            (a \o b)[k] = IF k <= Len(a) THEN a[k] ELSE b[k - Len(a)]
  BY <1>1, ConcatProperties
<1>3. Len(a) \in Nat /\ Len(b) \in Nat
  BY <1>1
<1> DEFINE c == a \o b
<1> HIDE DEF c
<1>4. ASSUME NEW k \in 1..Len(c)
      PROVE  c[k].kind # "ignored" /\ \E h \in Ino : wdOf[h] # 0 /\ c[k].wd = wdOf[h]
  <2>1. CASE k <= Len(a)
    <3>1. k \in 1..Len(a) /\ c[k] = a[k]
      BY <1>2, <1>3, <2>1 DEF c
    <3> QED BY <3>1 DEF Plain
  <2>2. CASE ~(k <= Len(a))
    <3>1. k - Len(a) \in 1..Len(b) /\ c[k] = b[k - Len(a)]
      BY <1>2, <1>3, <2>2 DEF c
    <3> QED BY <3>1 DEF Plain
  <2> QED BY <2>1, <2>2
<1> QED BY <1>2, <1>4 DEF Plain, c

\* They take no watch away.
LEMMA PlainFresh ==
    ASSUME NEW es, Plain(es)
    PROVE  Fresh(es, wdOf)
BY DEF Plain, Fresh

\* The report of a removed directory to its parent, with the last event of its
\* own watch before or after it.
LEMMA RemovalFresh ==
    ASSUME Maps, Rest, NEW a, Plain(a),
           NEW i \in Ino, wdOf[i] # 0, \A k \in 1..Len(a) : a[k].wd # wdOf[i],
           NEW v, v = [wdOf EXCEPT ![i] = 0]
    PROVE  /\ Fresh(a \o <<Ignored(wdOf[i])>>, v)
           /\ Fresh(<<Ignored(wdOf[i])>> \o a, v)
<1> DEFINE e == Ignored(wdOf[i])
           s == <<e>>
           x == a \o s
           y == s \o a
<1>1. e \in Event /\ e.wd = wdOf[i] /\ e.kind = "ignored"
  BY KernelTyped DEF Ignored, Event, Kind, AnyName
<1> HIDE DEF e
<1>2. s \in Seq(Event) /\ Len(s) = 1 /\ s[1] = e
  BY <1>1
<1> HIDE DEF s
<1>3. a \in Seq(Event) /\ Len(a) \in Nat
  BY DEF Plain
<1>4. /\ x \in Seq(Event) /\ Len(x) = Len(a) + 1
      /\ \A k \in 1..(Len(a) + 1) : x[k] = IF k <= Len(a) THEN a[k] ELSE s[k - Len(a)]
  <2>1. /\ a \o s \in Seq(Event) /\ Len(a \o s) = Len(a) + Len(s)
        /\ \A k \in 1..(Len(a) + Len(s)) :
              (a \o s)[k] = IF k <= Len(a) THEN a[k] ELSE s[k - Len(a)]
    BY <1>2, <1>3, ConcatProperties
  <2> QED BY <1>2, <2>1
<1>5. /\ y \in Seq(Event) /\ Len(y) = 1 + Len(a)
      /\ \A k \in 1..(1 + Len(a)) : y[k] = IF k <= 1 THEN s[k] ELSE a[k - 1]
  <2>1. /\ s \o a \in Seq(Event) /\ Len(s \o a) = Len(s) + Len(a)
        /\ \A k \in 1..(Len(s) + Len(a)) :
              (s \o a)[k] = IF k <= Len(s) THEN s[k] ELSE a[k - Len(s)]
    BY <1>2, <1>3, ConcatProperties
  <2> QED BY <1>2, <2>1
<1> HIDE DEF x, y
<1>6. \A h \in Ino : v[h] = wdOf[h] \/ (h = i /\ v[h] = 0)
  BY DEF Maps, Rest
<1>7. v[i] = 0
  BY DEF Maps, Rest
<1>8. \A k \in 1..Len(a) : /\ a[k].kind # "ignored" /\ a[k].wd # wdOf[i]
                          /\ \E h \in Ino : wdOf[h] # 0 /\ a[k].wd = wdOf[h]
  BY DEF Plain
<1>9. Fresh(x, v)
  <2>1. /\ x[Len(a) + 1] = e /\ Len(a) + 1 \in 1..Len(x)
        /\ \A k \in 1..Len(x) : k # Len(a) + 1 => k \in 1..Len(a) /\ x[k] = a[k]
    BY <1>2, <1>3, <1>4
  <2>2. ASSUME NEW k \in 1..Len(x)
        PROVE  \E h \in Ino :
                  /\ wdOf[h] # 0 /\ x[k].wd = wdOf[h]
                  /\ x[k].kind = "ignored" =>
                        v[h] = 0 /\ \A m \in 1..Len(x) : m # k => x[m].wd # x[k].wd
    <3>1. CASE k = Len(a) + 1
      BY <1>1, <1>7, <1>8, <2>1, <3>1
    <3>2. CASE k # Len(a) + 1
      BY <1>8, <2>1, <3>2
    <3> QED BY <3>1, <3>2
  <2>3. \A h \in Ino : \/ v[h] = wdOf[h]
                       \/ /\ v[h] = 0
                          /\ \E k \in 1..Len(x) : x[k].wd = wdOf[h] /\ x[k].kind = "ignored"
    BY <1>1, <1>6, <2>1
  <2> QED BY <1>4, <2>2, <2>3 DEF Fresh
<1>10. Fresh(y, v)
  <2>1. /\ y[1] = e /\ 1 \in 1..Len(y)
        /\ \A k \in 1..Len(y) : k # 1 => k - 1 \in 1..Len(a) /\ y[k] = a[k - 1]
    BY <1>2, <1>3, <1>5
  <2>2. ASSUME NEW k \in 1..Len(y)
        PROVE  \E h \in Ino :
                  /\ wdOf[h] # 0 /\ y[k].wd = wdOf[h]
                  /\ y[k].kind = "ignored" =>
                        v[h] = 0 /\ \A m \in 1..Len(y) : m # k => y[m].wd # y[k].wd
    <3>1. CASE k = 1
      <4>1. \A m \in 1..Len(y) : m # 1 => y[m].wd # wdOf[i]
        BY <1>8, <2>1
      <4> QED BY <1>1, <1>7, <2>1, <3>1, <4>1
    <3>2. CASE k # 1
      <4>1. k - 1 \in 1..Len(a) /\ y[k] = a[k - 1]
        BY <2>1, <3>2
      <4> QED BY <1>8, <4>1
    <3> QED BY <3>1, <3>2
  <2>3. \A h \in Ino : \/ v[h] = wdOf[h]
                       \/ /\ v[h] = 0
                          /\ \E k \in 1..Len(y) : y[k].wd = wdOf[h] /\ y[k].kind = "ignored"
    BY <1>1, <1>6, <2>1
  <2> QED BY <1>5, <2>2, <2>3 DEF Fresh
<1> QED BY <1>9, <1>10 DEF x, y, s, e


\* One operation of another process, and what it reports.
LEMMA OpReports ==
    ASSUME Maps, Rest, FsOp \/ FsRename
    PROVE  \E es : Fresh(es, wdOf') /\ events' = Post(events, es)
<1> DEFINE Found == \E es : Fresh(es, wdOf') /\ events' = Post(events, es)
<1>1. ASSUME NEW p \in SubPath, NEW i \in Ino, Mkdir(p, i)
      PROVE  Found
  <2>1. Plain(Report(parent(p), "created", Last(p)))
    BY SubPathFacts, ReportFacts DEF Kind
  <2> QED BY <1>1, <2>1, PlainFresh DEF Mkdir
<1>2. ASSUME NEW p \in DOMAIN tree, Rmdir(p)
      PROVE  Found
  <2> DEFINE removed == Report(parent(p), "deletedDir", Last(p))
             i == tree[p]
  <2>1. /\ Plain(removed) /\ i \in Ino
        /\ \A k \in 1..Len(removed) : parent(p) \in DOMAIN tree
                                   /\ removed[k].wd = wdOf[tree[parent(p)]]
    BY TreeFacts, ReportFacts DEF Kind
  <2>2. wdOf' = [wdOf EXCEPT ![i] = 0]
    BY <1>2 DEF Rmdir
  <2>3. CASE wdOf[i] = 0
    <3>1. events' = Post(events, removed \o <<>>) \/ events' = Post(events, <<>> \o removed)
      BY <1>2, <2>3 DEF Rmdir
    <3>2. removed \o <<>> = removed /\ <<>> \o removed = removed
      BY <2>1, ConcatEmptySeq DEF Plain
    <3>3. wdOf' = wdOf
      BY <2>1, <2>2, <2>3 DEF Maps
    <3> QED BY <2>1, <3>1, <3>2, <3>3, PlainFresh
  <2>4. CASE wdOf[i] # 0
    <3>1. \/ events' = Post(events, removed \o <<Ignored(wdOf[i])>>)
          \/ events' = Post(events, <<Ignored(wdOf[i])>> \o removed)
      BY <1>2, <2>4 DEF Rmdir
    <3>2. ASSUME NEW k \in 1..Len(removed)
          PROVE  removed[k].wd # wdOf[i]
      <4>1. parent(p) \in DOMAIN tree /\ parent(p) # p
        BY <2>1, TreeFacts
      <4>2. tree[parent(p)] # i /\ tree[parent(p)] \in Ino
        BY <4>1, TreeFacts DEF Rest
      <4> QED BY <2>1, <2>4, <4>2 DEF Distinct, Maps
    <3> HIDE DEF removed, i
    <3>3. /\ Fresh(removed \o <<Ignored(wdOf[i])>>, wdOf')
          /\ Fresh(<<Ignored(wdOf[i])>> \o removed, wdOf')
      BY <2>1, <2>2, <2>4, <3>2, RemovalFresh
    <3> QED BY <3>1, <3>3
  <2> QED BY <2>3, <2>4
<1>3. ASSUME NEW p \in DOMAIN tree, NEW f \in FileName, Write(p, f)
      PROVE  Found
  <2>1. Plain(Report(p, "closed", f))
    BY ReportFacts, FileSystemAssumption DEF Kind, AnyName
  <2> QED BY <1>3, <2>1, PlainFresh DEF Write
<1>4. ASSUME NEW p \in DOMAIN tree, NEW f \in FileName, Unlink(p, f)
      PROVE  Found
  <2>1. Plain(Report(p, "deleted", f))
    BY ReportFacts, FileSystemAssumption DEF Kind, AnyName
  <2> QED BY <1>4, <2>1, PlainFresh DEF Unlink
<1>5. ASSUME NEW p \in DOMAIN tree \cap SubPath, NEW q \in SubPath, Rename(p, q)
      PROVE  Found
  <2> DEFINE a == Report(parent(p), "moved", Last(p))
             b == Report(parent(q), "moved", Last(q))
  <2>1. Plain(a) /\ Plain(b)
    BY SubPathFacts, ReportFacts DEF Kind
  <2>2. Plain(a \o b)
    BY <2>1, PlainConcat
  <2>3. events' = Post(events, a \o b) /\ wdOf' = wdOf
    BY <1>5 DEF Rename
  <2> QED BY <2>2, <2>3, PlainFresh
<1> QED BY <1>1, <1>2, <1>3, <1>4, <1>5 DEF FsOp, FsRename

\* It takes at most the watch of the directory that it removes.
LEMMA OpWatches ==
    ASSUME Maps, Rest, FsOp \/ FsRename
    PROVE  /\ nextWd' = nextWd
           /\ wdOf' \in [Ino -> 0..(nextWd - 1)]
           /\ \A i \in Ino : wdOf'[i] = wdOf[i] \/ wdOf'[i] = 0
<1>1. nextWd' = nextWd /\ (wdOf' = wdOf \/ \E p \in DOMAIN tree : wdOf' = [wdOf EXCEPT ![tree[p]] = 0])
  BY DEF FsOp, FsRename, Mkdir, Rmdir, Write, Unlink, Rename
<1>2. wdOf \in [Ino -> 0..(nextWd - 1)]
  BY DEF Maps, Rest
<1>3. CASE wdOf' = wdOf
  BY <1>1, <1>2, <1>3
<1>4. ASSUME NEW p \in DOMAIN tree, wdOf' = [wdOf EXCEPT ![tree[p]] = 0]
      PROVE  /\ wdOf' \in [Ino -> 0..(nextWd - 1)]
             /\ \A i \in Ino : wdOf'[i] = wdOf[i] \/ wdOf'[i] = 0
  <2>1. tree[p] \in Ino
    BY DEF Maps, Rest
  <2>2. 0 \in 0..(nextWd - 1)
    <3>1. nextWd \in Nat \ {0}
      BY DEF Maps
    <3> QED BY <3>1
  <2> QED BY <1>2, <1>4, <2>1, <2>2
<1> QED BY <1>1, <1>3, <1>4

\* Where a renamed directory, or one below it, goes.
LEMMA MovedFacts ==
    ASSUME NEW p \in Seq(AnyName), NEW q \in Seq(AnyName), q # <<>>,
           NEW r \in Seq(AnyName), IsPrefix(p, r)
    PROVE  /\ q \o SubSeq(r, Len(p) + 1, Len(r)) \in Seq(AnyName)
           /\ Len(q \o SubSeq(r, Len(p) + 1, Len(r))) \in Nat \ {0}
<1>1. Len(p) \in Nat /\ Len(q) \in Nat \ {0} /\ Len(r) \in Nat
  BY EmptySeq
<1> DEFINE t == SubSeq(r, Len(p) + 1, Len(r))
<1>2. \A i \in (Len(p) + 1)..Len(r) : r[i] \in AnyName
  BY <1>1, ElementOfSeq
<1>3. t \in Seq(AnyName)
  BY <1>1, <1>2, SubSeqProperties
<1> HIDE DEF t
<1>4. q \o t \in Seq(AnyName) /\ Len(q \o t) = Len(q) + Len(t) /\ Len(t) \in Nat
  BY <1>3, ConcatProperties
<1>5. Len(q \o t) \in Nat \ {0}
  BY <1>1, <1>4
<1> QED BY <1>4, <1>5 DEF t

\* Each directory stays at one path, after a renaming too.
LEMMA OpTree ==
    ASSUME Maps, Rest, FsOp \/ FsRename
    PROVE  /\ DOMAIN tree' \subseteq Seq(AnyName)
           /\ \A p, q \in DOMAIN tree' : tree'[p] = tree'[q] => p = q
           /\ \A p \in DOMAIN tree' : tree'[p] \in Ino /\ Len(p) \in 1..MaxDepth
<1> DEFINE Good == /\ DOMAIN tree' \subseteq Seq(AnyName)
                   /\ \A p, q \in DOMAIN tree' : tree'[p] = tree'[q] => p = q
                   /\ \A p \in DOMAIN tree' : tree'[p] \in Ino /\ Len(p) \in 1..MaxDepth
<1>0. /\ DOMAIN tree \subseteq Seq(AnyName)
      /\ \A p, q \in DOMAIN tree : tree[p] = tree[q] => p = q
      /\ \A p \in DOMAIN tree : tree[p] \in Ino /\ Len(p) \in 1..MaxDepth
  BY DEF Maps, Rest
<1>1. ASSUME NEW p \in SubPath, NEW i \in Ino, Mkdir(p, i)
      PROVE  Good
  <2>1. /\ p \in Seq(AnyName) /\ Len(p) \in 1..MaxDepth
        /\ \A q \in DOMAIN tree : tree[q] # i
        /\ tree' = [q \in DOMAIN tree \cup {p} |-> IF q = p THEN i ELSE tree[q]]
    BY <1>1, SubPathFacts DEF Mkdir, Unused
  <2> QED BY <1>0, <2>1
<1>2. ASSUME NEW p \in DOMAIN tree, Rmdir(p)
      PROVE  Good
  BY <1>0, <1>2 DEF Rmdir
<1>3. ASSUME tree' = tree
      PROVE  Good
  BY <1>0, <1>3
<1>4. ASSUME NEW p \in DOMAIN tree \cap SubPath, NEW q \in SubPath, Rename(p, q)
      PROVE  Good
  <2> DEFINE below == {r \in DOMAIN tree : IsPrefix(p, r)}
             to(r) == q \o SubSeq(r, Len(p) + 1, Len(r))
             from(r) == CHOOSE s \in below : to(s) = r
             new == {to(s) : s \in below}
  <2>1. /\ \A r \in below : Len(to(r)) <= MaxDepth
        /\ tree' = [r \in (DOMAIN tree \ below) \cup new |->
                      IF r \in new THEN tree[from(r)] ELSE tree[r]]
    BY <1>4 DEF Rename
  <2>2. \A r \in below : to(r) \in Seq(AnyName) /\ Len(to(r)) \in 1..MaxDepth
    <3> SUFFICES ASSUME NEW r \in below
                 PROVE  to(r) \in Seq(AnyName) /\ Len(to(r)) \in 1..MaxDepth
      OBVIOUS
    <3>1. p \in Seq(AnyName) /\ q \in Seq(AnyName) /\ q # <<>>
      BY <1>0, SubPathFacts
    <3>2. r \in Seq(AnyName) /\ IsPrefix(p, r)
      BY <1>0
    <3>3. to(r) \in Seq(AnyName) /\ Len(to(r)) \in Nat \ {0}
      BY <3>1, <3>2, MovedFacts
    <3>4. Len(to(r)) <= MaxDepth
      BY <2>1
    <3> HIDE DEF to
    <3> QED BY <3>3, <3>4, FileSystemAssumption
  <2>3. \A r \in new : from(r) \in below /\ to(from(r)) = r
    OBVIOUS
  <2>4. below \subseteq DOMAIN tree
    OBVIOUS
  <2>5. \A r \in new : r \in Seq(AnyName) /\ Len(r) \in 1..MaxDepth
    BY <2>2
  <2> HIDE DEF below, to, from, new
  <2>6. /\ DOMAIN tree' = (DOMAIN tree \ below) \cup new
        /\ \A r \in DOMAIN tree' : tree'[r] = IF r \in new THEN tree[from(r)] ELSE tree[r]
    BY <2>1
  <2>7. \A r \in DOMAIN tree' : tree'[r] \in Ino /\ Len(r) \in 1..MaxDepth
    BY <1>0, <2>3, <2>4, <2>5, <2>6
  <2>8. ASSUME NEW r \in DOMAIN tree', NEW s \in DOMAIN tree', tree'[r] = tree'[s]
        PROVE  r = s
    <3>1. CASE r \in new /\ s \in new
      <4>1. from(r) = from(s)
        BY <1>0, <2>3, <2>4, <2>6, <2>8, <3>1
      <4> QED BY <2>3, <3>1, <4>1
    <3>2. CASE r \in new /\ s \notin new
      <4>1. from(r) = s /\ s \notin below
        BY <1>0, <2>3, <2>4, <2>6, <2>8, <3>2
      <4> QED BY <2>3, <3>2, <4>1
    <3>3. CASE r \notin new /\ s \in new
      <4>1. from(s) = r /\ r \notin below
        BY <1>0, <2>3, <2>4, <2>6, <2>8, <3>3
      <4> QED BY <2>3, <3>3, <4>1
    <3>4. CASE r \notin new /\ s \notin new
      BY <1>0, <2>6, <2>8, <3>4
    <3> QED BY <3>1, <3>2, <3>3, <3>4
  <2>9. DOMAIN tree' \subseteq Seq(AnyName)
    BY <1>0, <2>5, <2>6
  <2> QED BY <2>7, <2>8, <2>9
<1> QED BY <1>1, <1>2, <1>3, <1>4 DEF FsOp, FsRename, Write, Unlink

\* A directory that the kernel still watches stays where it is, unless one is
\* renamed.
LEMMA OpPlaces ==
    ASSUME Maps, Rest, FsOp, NEW p \in DOMAIN tree, wdOf'[tree[p]] # 0
    PROVE  p \in DOMAIN tree' /\ tree'[p] = tree[p]
<1>1. ASSUME NEW q \in SubPath, NEW i \in Ino, Mkdir(q, i)
      PROVE  p \in DOMAIN tree' /\ tree'[p] = tree[p]
  BY <1>1 DEF Mkdir, IsDirectory
<1>2. ASSUME NEW q \in DOMAIN tree, Rmdir(q)
      PROVE  p \in DOMAIN tree' /\ tree'[p] = tree[p]
  <2>1. wdOf'[tree[q]] = 0
    BY <1>2 DEF Rmdir, Maps, Rest
  <2> QED BY <1>2, <2>1 DEF Rmdir
<1> QED BY <1>1, <1>2 DEF FsOp, Write, Unlink


\* The other processes keep the kernel's state and the maps together.
LEMMA OpMaps ==
    ASSUME Maps, Rest, FsOp \/ FsRename, UNCHANGED <<roots, mapVars>>
    PROVE  Maps'
<1>1. PICK es : Fresh(es, wdOf') /\ events' = Post(events, es)
  BY OpReports
<1>2. /\ nextWd' = nextWd
      /\ wdOf' \in [Ino -> 0..(nextWd - 1)]
      /\ \A i \in Ino : wdOf'[i] = wdOf[i] \/ wdOf'[i] = 0
  BY OpWatches
<1>3. /\ events' \in Seq(Event) /\ Len(events') <= QueueLimit + 1
      /\ Len(events') > QueueLimit => Overflow \in Range(events')
  <2>1. /\ events \in Seq(Event) /\ es \in Seq(Event)
        /\ Len(events) <= QueueLimit + 1
        /\ Len(events) > QueueLimit => Overflow \in Range(events)
    BY <1>1 DEF Maps, Fresh
  <2>2. /\ Post(events, es) \in Seq(Event) /\ Len(Post(events, es)) <= QueueLimit + 1
        /\ Len(Post(events, es)) > QueueLimit => Overflow \in Range(Post(events, es))
    BY <2>1, PostFacts
  <2> QED BY <1>1, <2>2
<1>4. MapsAgree'
  BY DEF Maps, MapsAgree, mapVars
<1>5. /\ \A i, h \in Ino : wdOf'[i] # 0 /\ wdOf'[i] = wdOf'[h] => i = h
      /\ \A i \in Ino : wdOf'[i] # 0 => wdOf'[i] \in DOMAIN watches'
  BY <1>2 DEF Maps, Distinct, mapVars
<1>6. Distinct'
  BY <1>5 DEF Distinct
<1>7. /\ nextWd' \in Nat \ {0}
      /\ DOMAIN watches' \subseteq 1..(nextWd' - 1)
      /\ DOMAIN watchToConfig' \subseteq 1..(nextWd' - 1)
      /\ \A wd \in DOMAIN watchToConfig' : watchToConfig'[wd] \in Range(roots')
      /\ \A wd \in DOMAIN watches' : watches'[wd] \in Path
  BY <1>2 DEF Maps, mapVars
<1> QED BY <1>2, <1>3, <1>4, <1>5, <1>6, <1>7 DEF Maps

\* And what is coming.
LEMMA OpFollows ==
    ASSUME Maps, Rest, Follows, FsOp \/ FsRename, UNCHANGED <<mapVars, buffer, loop>>
    PROVE  Follows'
<1>1. PICK es : Fresh(es, wdOf') /\ events' = Post(events, es)
  BY OpReports
<1>2. buffer \in Seq(Event) /\ watches' = watches /\ buffer' = buffer /\ loop' = loop
  BY DEF Rest, mapVars
<1>3. /\ Coherent(buffer \o events, wdOf, DOMAIN watches) =>
            Coherent(buffer \o Post(events, es), wdOf', DOMAIN watches)
      /\ Exact(buffer \o events, wdOf, DOMAIN watches) =>
            Exact(buffer \o Post(events, es), wdOf', DOMAIN watches)
  BY <1>1, <1>2, PostKernel
<1>4. coming' = buffer \o Post(events, es)
  BY <1>1, <1>2 DEF coming
<1>5. SUFFICES ASSUME loop' # "overflowed"
               PROVE  /\ Coherent(coming', wdOf', DOMAIN watches')
                      /\ Exact(coming', wdOf', DOMAIN watches')
  BY DEF Follows
<1>6. /\ Coherent(buffer \o events, wdOf, DOMAIN watches)
      /\ Exact(buffer \o events, wdOf, DOMAIN watches)
  BY <1>2, <1>5 DEF Follows, coming
<1> QED BY <1>2, <1>3, <1>4, <1>6

\* A step of another process keeps the invariant.
LEMMA DisturbStep ==
    ASSUME IInv, Disturb
    PROVE  IInv'
<1>1. /\ Maps /\ Rest /\ Follows /\ OnlyKnownWatches /\ Located
      /\ FsOp \/ FsRename
      /\ UNCHANGED <<roots, mapVars, buffer, scan, loop, jobs>>
  BY DEF IInv, Disturb
<1>2. Maps' /\ Follows'
  BY <1>1, OpMaps, OpFollows
<1>3. Rest'
  <2>1. /\ DOMAIN tree' \subseteq Seq(AnyName)
        /\ \A p, q \in DOMAIN tree' : tree'[p] = tree'[q] => p = q
        /\ \A p \in DOMAIN tree' : tree'[p] \in Ino /\ Len(p) \in 1..MaxDepth
    BY <1>1, OpTree
  <2>2. files' \subseteq Ino \X FileName
    <3>1. ASSUME NEW p \in DOMAIN tree, NEW f \in FileName, Write(p, f) \/ Unlink(p, f)
          PROVE  files' \subseteq Ino \X FileName
      BY <1>1, <3>1 DEF Rest, Write, Unlink
    <3>2. ASSUME files' = files
          PROVE  files' \subseteq Ino \X FileName
      BY <1>1, <3>2 DEF Rest
    <3> QED BY <1>1, <3>1, <3>2 DEF FsOp, FsRename, Mkdir, Rmdir, Rename
  <2> QED BY <1>1, <2>1, <2>2 DEF Rest
<1>4. OnlyKnownWatches'
  BY <1>1 DEF OnlyKnownWatches
<1>5. Located'
  <2>1. CASE moved'
    BY <2>1 DEF Located
  <2>2. CASE ~moved'
    <3>1. FsOp /\ ~moved
      BY <2>2 DEF Disturb
    <3>2. ASSUME NEW i \in Ino, wdOf'[i] # 0
          PROVE  /\ dir(watches[wdOf'[i]]) \in DOMAIN tree'
                 /\ tree'[dir(watches[wdOf'[i]])] = i
      <4>1. wdOf'[i] = wdOf[i]
        BY <1>1, <3>2, OpWatches
      <4>2. dir(watches[wdOf[i]]) \in DOMAIN tree /\ tree[dir(watches[wdOf[i]])] = i
        BY <1>1, <3>1, <3>2, <4>1 DEF Located, IsDirectory
      <4> QED BY <1>1, <3>1, <3>2, <4>1, <4>2, OpPlaces
    <3> QED BY <1>1, <3>1, <3>2 DEF Located, IsDirectory, mapVars
  <2> QED BY <2>1, <2>2
<1> QED BY <1>2, <1>3, <1>4, <1>5 DEF IInv

-----------------------------------------------------------------------------
(* What the daemon does                                                    *)

\* A prefix, name by name.
LEMMA PrefixFacts ==
    ASSUME NEW S, NEW s \in Seq(S), NEW t \in Seq(S)
    PROVE  IsPrefix(s, t) <=> Len(s) <= Len(t) /\ \A i \in 1..Len(s) : s[i] = t[i]
<1>1. Len(s) \in Nat /\ Len(t) \in Nat
  OBVIOUS
<1>2. ASSUME Len(s) <= Len(t)
      PROVE  (SubSeq(s, 1, Len(s)) = SubSeq(t, 1, Len(s))) <=> \A i \in 1..Len(s) : s[i] = t[i]
  <2> DEFINE n == Len(s)
             a == SubSeq(s, 1, n)
             b == SubSeq(t, 1, n)
  <2>1. \A i \in 1..n : s[i] \in S /\ t[i] \in S
    BY <1>1, <1>2, ElementOfSeq
  <2>2. n \in Nat
    BY <1>1
  <2> HIDE DEF n
  <2>3. a \in Seq(S) /\ Len(a) = n /\ \A i \in 1..n : a[i] = s[i]
    BY <2>1, <2>2, SubSeqProperties
  <2>4. b \in Seq(S) /\ Len(b) = n /\ \A i \in 1..n : b[i] = t[i]
    BY <2>1, <2>2, SubSeqProperties
  <2> HIDE DEF a, b
  <2>5. (\A i \in 1..n : s[i] = t[i]) => a = b
    BY <2>3, <2>4, SeqEqual
  <2>6. a = b <=> \A i \in 1..n : s[i] = t[i]
    BY <2>3, <2>4, <2>5
  <2> QED BY <2>6 DEF a, b, n
<1> QED BY <1>2 DEF IsPrefix

\* What is above a path is above what is in it.
LEMMA PrefixBelow ==
    ASSUME NEW S, NEW a \in Seq(S), NEW s \in Seq(S), NEW t \in Seq(S),
           IsPrefix(a, s), IsPrefix(s, t)
    PROVE  IsPrefix(a, t)
<1>1. Len(a) \in Nat /\ Len(s) \in Nat /\ Len(t) \in Nat
  OBVIOUS
<1>2. Len(a) <= Len(s) /\ \A i \in 1..Len(a) : a[i] = s[i]
  BY PrefixFacts
<1>3. Len(s) <= Len(t) /\ \A i \in 1..Len(s) : s[i] = t[i]
  BY PrefixFacts
<1>4. Len(a) <= Len(t) /\ \A i \in 1..Len(a) : a[i] = t[i]
  BY <1>1, <1>2, <1>3
<1> QED BY <1>4, PrefixFacts

\* A directory and an entry of it.
LEMMA InDirectory ==
    ASSUME NEW d \in Seq(AnyName), NEW x \in AnyName
    PROVE  /\ Append(d, x) \in Path
           /\ IsPrefix(d, Append(d, x))
           /\ IsPrefix(d, dir(Append(d, x)))
<1> DEFINE t == Append(d, x)
<1>1. /\ t \in Seq(AnyName) /\ t # <<>> /\ Len(t) = Len(d) + 1 /\ Len(d) \in Nat
      /\ Front(t) = d
      /\ \A i \in 1..Len(d) : t[i] = d[i]
  BY AppendParts, AppendProperties
<1> HIDE DEF t
<1>2. IsPrefix(d, t)
  BY <1>1, PrefixFacts
<1>3. IsPrefix(d, d)
  BY PrefixFacts
<1> QED BY <1>1, <1>2, <1>3 DEF dir, Path, t

\* A path of the next level is an entry of the directory.
LEMMA NextLevel ==
    ASSUME NEW d \in Seq(AnyName), NEW q \in Seq(AnyName),
           Len(q) = Len(d) + 1, IsPrefix(d, q)
    PROVE  q \in Path /\ IsPrefix(d, dir(q))
<1>1. q # <<>> /\ Len(d) \in Nat
  BY EmptySeq
<1>2. \A i \in 1..Len(d) : d[i] = q[i]
  BY PrefixFacts
<1>3. /\ Front(q) \in Seq(AnyName) /\ Len(Front(q)) = Len(q) - 1
      /\ \A i \in 1..(Len(q) - 1) : Front(q)[i] = q[i]
  BY <1>1, FrontFacts
<1>4. Len(Front(q)) = Len(d) /\ \A i \in 1..Len(d) : d[i] = Front(q)[i]
  BY <1>1, <1>2, <1>3
<1>5. IsPrefix(d, Front(q))
  BY <1>1, <1>3, <1>4, PrefixFacts
<1> QED BY <1>1, <1>5 DEF dir, Path

\* Each entry of a configuration is the path of a directory.
LEMMA RootsTyped ==
    ASSUME Rest, NEW entry \in Range(roots)
    PROVE  entry \in Path
<1>1. PICK k \in DOMAIN roots : entry = roots[k]
  BY DEF Range
<1>2. roots \in Seq(Seq(STRING)) /\ roots[k] # <<>>
  BY <1>1, WatchAssumption DEF Rest
<1>3. roots[k] \in Seq(STRING)
  BY <1>2
<1>4. roots[k] \in Seq(AnyName)
  BY <1>3, SeqMonotonic DEF AnyName
<1> QED BY <1>1, <1>2, <1>4 DEF Path

\* Watching a directory: what addWatch may do.
LEMMA WatchCases ==
    ASSUME NEW path, NEW entry, watchNewDirectory(path, entry)
    PROVE  \/ UNCHANGED <<kernelVars, mapVars>> /\ loop' \in {loop, "twice", "missing"}
           \/ /\ path \notin DOMAIN paths /\ dir(path) \in DOMAIN tree /\ loop' = loop
              /\ AddNew(path, entry) \/ AddAlias(path, entry)
BY DEF watchNewDirectory, addWatch, Fails, IsDirectory, AddNew, AddAlias

\* A new descriptor is in no map, and no event is of it.
LEMMA AddNewKeeps ==
    ASSUME Maps, Rest, NEW path \in Path, NEW entry \in Range(roots), roots' = roots,
           path \notin DOMAIN paths, dir(path) \in DOMAIN tree, AddNew(path, entry),
           NEW b
    PROVE  /\ Maps'
           /\ Coherent(b \o events, wdOf, DOMAIN watches) =>
                 Coherent(b \o events', wdOf', DOMAIN watches')
           /\ Exact(b \o events, wdOf, DOMAIN watches) =>
                 Exact(b \o events', wdOf', DOMAIN watches')
<1> DEFINE h == tree[dir(path)]
<1>1. /\ h \in Ino /\ wdOf[h] = 0
      /\ wdOf' = [wdOf EXCEPT ![h] = nextWd]
      /\ nextWd' = nextWd + 1
      /\ watches' = Put(watches, nextWd, path)
      /\ paths' = Put(paths, path, nextWd)
      /\ watchToConfig' = Put(watchToConfig, nextWd, entry)
      /\ events' = events
  BY DEF AddNew, Rest
<1>2. /\ wdOf \in [Ino -> 0..(nextWd - 1)] /\ nextWd \in Nat \ {0}
      /\ DOMAIN watches \subseteq 1..(nextWd - 1)
      /\ DOMAIN watchToConfig \subseteq 1..(nextWd - 1)
      /\ nextWd \notin DOMAIN watches
  BY DEF Maps
<1> HIDE DEF h
<1>3. /\ wdOf' \in [Ino -> 0..(nextWd' - 1)]
      /\ wdOf'[h] = nextWd
      /\ \A i \in Ino : i # h => wdOf'[i] = wdOf[i]
  <2>1. nextWd \in 0..(nextWd' - 1) /\ \A x \in 0..(nextWd - 1) : x \in 0..(nextWd' - 1)
    BY <1>1, <1>2
  <2> QED BY <1>1, <1>2, <2>1
<1>4. /\ DOMAIN watches' = DOMAIN watches \cup {nextWd}
      /\ watches'[nextWd] = path
      /\ \A wd \in DOMAIN watches : watches'[wd] = watches[wd]
      /\ DOMAIN watchToConfig' = DOMAIN watchToConfig \cup {nextWd}
      /\ watchToConfig'[nextWd] = entry
      /\ \A wd \in DOMAIN watchToConfig \ {nextWd} : watchToConfig'[wd] = watchToConfig[wd]
      /\ DOMAIN paths' = DOMAIN paths \cup {path}
      /\ paths'[path] = nextWd
      /\ \A p \in DOMAIN paths : p # path => paths'[p] = paths[p]
  BY <1>1, <1>2 DEF Put
<1>5. Maps'
  <2>1. MapsAgree'
    <3>1. DOMAIN watchToConfig' = DOMAIN watches'
      BY <1>4 DEF Maps, MapsAgree
    <3>2. ASSUME NEW wd \in DOMAIN watches'
          PROVE  watches'[wd] \in DOMAIN paths' /\ paths'[watches'[wd]] = wd
      <4>1. CASE wd = nextWd
        BY <1>4, <4>1
      <4>2. CASE wd # nextWd
        <5>1. wd \in DOMAIN watches /\ watches'[wd] = watches[wd]
          BY <1>4, <4>2
        <5>2. watches[wd] \in DOMAIN paths /\ paths[watches[wd]] = wd
          BY <5>1 DEF Maps, MapsAgree
        <5> QED BY <1>4, <5>1, <5>2
      <4> QED BY <4>1, <4>2
    <3> QED BY <3>1, <3>2 DEF MapsAgree
  <2>2. /\ events' \in Seq(Event) /\ Len(events') <= QueueLimit + 1
        /\ Len(events') > QueueLimit => Overflow \in Range(events')
    BY <1>1 DEF Maps
  <2>3. /\ nextWd' \in Nat \ {0}
        /\ DOMAIN watches' \subseteq 1..(nextWd' - 1)
        /\ DOMAIN watchToConfig' \subseteq 1..(nextWd' - 1)
    BY <1>1, <1>2, <1>4
  <2>4. /\ \A wd \in DOMAIN watchToConfig' : watchToConfig'[wd] \in Range(roots')
        /\ \A wd \in DOMAIN watches' : watches'[wd] \in Path
    BY <1>2, <1>4 DEF Maps
  <2>5. \A i, k \in Ino : wdOf'[i] # 0 /\ wdOf'[i] = wdOf'[k] => i = k
    <3>1. \A i \in Ino : wdOf[i] # nextWd
      BY <1>2
    <3> QED BY <1>3, <3>1 DEF Maps, Distinct
  <2>6. \A i \in Ino : wdOf'[i] # 0 => wdOf'[i] \in DOMAIN watches'
    BY <1>3, <1>4 DEF Maps
  <2>7. Distinct'
    BY <2>5 DEF Distinct
  <2> QED BY <1>3, <2>1, <2>2, <2>3, <2>4, <2>6, <2>7 DEF Maps
<1> DEFINE c == b \o events
<1>6. b \o events' = c
  BY <1>1
<1> HIDE DEF c
<1>7. ASSUME Coherent(c, wdOf, DOMAIN watches)
      PROVE  Coherent(c, wdOf', DOMAIN watches')
  <2> SUFFICES ASSUME NEW k \in DOMAIN c, Heard(c, k)
               PROVE  /\ c[k].wd \in DOMAIN watches'
                      /\ c[k].kind = "ignored" =>
                            /\ \A i \in Ino : wdOf'[i] # c[k].wd
                            /\ \A m \in DOMAIN c :
                                  m > k /\ Heard(c, m) => c[m].wd # c[k].wd
    BY DEF Coherent
  <2>1. /\ c[k].wd \in DOMAIN watches
        /\ c[k].kind = "ignored" =>
              /\ \A i \in Ino : wdOf[i] # c[k].wd
              /\ \A m \in DOMAIN c : m > k /\ Heard(c, m) => c[m].wd # c[k].wd
    BY <1>7 DEF Coherent
  <2>2. c[k].wd # nextWd
    BY <1>2, <2>1
  <2> QED BY <1>3, <1>4, <2>1, <2>2
<1>8. ASSUME Exact(c, wdOf, DOMAIN watches)
      PROVE  Exact(c, wdOf', DOMAIN watches')
  <2> SUFFICES ASSUME Overflow \notin Range(c), NEW x \in DOMAIN watches'
               PROVE  \/ \E i \in Ino : wdOf'[i] = x
                      \/ \E k \in DOMAIN c : c[k].wd = x /\ c[k].kind = "ignored"
    BY DEF Exact
  <2>1. CASE x = nextWd
    BY <1>1, <1>3, <2>1
  <2>2. CASE x # nextWd
    <3>1. x \in DOMAIN watches /\ x # 0
      BY <1>2, <1>4, <2>2
    <3>2. \/ \E i \in Ino : wdOf[i] = x
          \/ \E k \in DOMAIN c : c[k].wd = x /\ c[k].kind = "ignored"
      BY <1>8, <3>1 DEF Exact
    <3> QED BY <1>1, <1>3, <3>1, <3>2
  <2> QED BY <2>1, <2>2
<1> QED BY <1>5, <1>6, <1>7, <1>8 DEF c

\* An alias takes the kernel's watch away, and the event says so.
LEMMA AddAliasKeeps ==
    ASSUME Maps, Rest, NEW path \in Path, NEW entry \in Range(roots), roots' = roots,
           path \notin DOMAIN paths, dir(path) \in DOMAIN tree, AddAlias(path, entry),
           NEW b \in Seq(Event)
    PROVE  /\ Maps'
           /\ Coherent(b \o events, wdOf, DOMAIN watches) =>
                 Coherent(b \o events', wdOf', DOMAIN watches')
           /\ Exact(b \o events, wdOf, DOMAIN watches) =>
                 Exact(b \o events', wdOf', DOMAIN watches')
<1> DEFINE h == tree[dir(path)]
           es == <<Ignored(wdOf[h])>>
<1>1. /\ h \in Ino /\ wdOf[h] # 0
      /\ wdOf' = [wdOf EXCEPT ![h] = 0]
      /\ paths' = Put(paths, path, wdOf[h])
      /\ watchToConfig' = Put(watchToConfig, wdOf[h], entry)
      /\ events' = Post(events, es)
      /\ nextWd' = nextWd /\ watches' = watches
  BY DEF AddAlias, Rest
<1> HIDE DEF h
<1>2. /\ wdOf \in [Ino -> 0..(nextWd - 1)] /\ nextWd \in Nat \ {0}
      /\ wdOf[h] \in DOMAIN watches /\ DOMAIN watchToConfig = DOMAIN watches
      /\ DOMAIN watches \subseteq 1..(nextWd - 1)
      /\ events \in Seq(Event) /\ Len(events) <= QueueLimit + 1
      /\ Len(events) > QueueLimit => Overflow \in Range(events)
  BY <1>1 DEF Maps, MapsAgree
<1>3. Fresh(es, wdOf')
  <2>1. Plain(<<>>)
    BY DEF Plain
  <2>2. Fresh(<<>> \o es, wdOf')
    <3> HIDE DEF es
    <3>1. \A k \in 1..Len(<<>>) : <<>>[k].wd # wdOf[h]
      OBVIOUS
    <3> QED BY <1>1, <2>1, <3>1, RemovalFresh DEF es
  <2>3. <<>> \o es = es
    <3>1. Ignored(wdOf[h]) \in Event
      BY <1>2 DEF Ignored, Event, Kind, AnyName
    <3>2. es \in Seq(Event)
      BY <3>1
    <3> QED BY <3>2, ConcatEmptySeq
  <2> QED BY <2>2, <2>3
<1> HIDE DEF es
<1>4. /\ events' \in Seq(Event) /\ Len(events') <= QueueLimit + 1
      /\ Len(events') > QueueLimit => Overflow \in Range(events')
  <2>1. es \in Seq(Event)
    BY <1>3 DEF Fresh
  <2>2. /\ Post(events, es) \in Seq(Event) /\ Len(Post(events, es)) <= QueueLimit + 1
        /\ Len(Post(events, es)) > QueueLimit => Overflow \in Range(Post(events, es))
    BY <1>2, <2>1, PostFacts
  <2> QED BY <1>1, <2>2
<1>5. /\ wdOf' \in [Ino -> 0..(nextWd - 1)]
      /\ \A i \in Ino : wdOf'[i] = wdOf[i] \/ wdOf'[i] = 0
  <2>1. 0 \in 0..(nextWd - 1)
    BY <1>2
  <2> QED BY <1>1, <1>2, <2>1
<1>6. /\ DOMAIN watchToConfig' = DOMAIN watches
      /\ \A wd \in DOMAIN watches : watchToConfig'[wd] \in {watchToConfig[wd], entry}
      /\ DOMAIN paths' = DOMAIN paths \cup {path}
      /\ \A p \in DOMAIN paths : p # path => paths'[p] = paths[p]
  BY <1>1, <1>2 DEF Put
<1>7. MapsAgree'
  <2>1. \A wd \in DOMAIN watches : /\ watches[wd] \in DOMAIN paths
                                 /\ paths[watches[wd]] = wd
    BY DEF Maps, MapsAgree
  <2>2. \A wd \in DOMAIN watches' : /\ watches'[wd] \in DOMAIN paths'
                                  /\ paths'[watches'[wd]] = wd
    BY <1>1, <1>6, <2>1
  <2> QED BY <1>1, <1>6, <2>2 DEF MapsAgree
<1>8. /\ \A i, k \in Ino : wdOf'[i] # 0 /\ wdOf'[i] = wdOf'[k] => i = k
      /\ \A i \in Ino : wdOf'[i] # 0 => wdOf'[i] \in DOMAIN watches'
  BY <1>1, <1>5 DEF Maps, Distinct
<1>9. Distinct'
  BY <1>8 DEF Distinct
<1>10. /\ nextWd' \in Nat \ {0}
       /\ DOMAIN watches' \subseteq 1..(nextWd' - 1)
       /\ DOMAIN watchToConfig' \subseteq 1..(nextWd' - 1)
       /\ \A wd \in DOMAIN watchToConfig' : watchToConfig'[wd] \in Range(roots')
       /\ \A wd \in DOMAIN watches' : watches'[wd] \in Path
  BY <1>1, <1>2, <1>6 DEF Maps
<1>11. Maps'
  BY <1>1, <1>4, <1>5, <1>7, <1>8, <1>9, <1>10 DEF Maps
<1>12. /\ Coherent(b \o events, wdOf, DOMAIN watches) =>
             Coherent(b \o Post(events, es), wdOf', DOMAIN watches)
       /\ Exact(b \o events, wdOf, DOMAIN watches) =>
             Exact(b \o Post(events, es), wdOf', DOMAIN watches)
  BY <1>3, PostKernel
<1> QED BY <1>1, <1>11, <1>12

\* Either way the kernel and the maps stay together, and when nothing was
\* renamed the new watch is where its path says.
LEMMA WatchKeeps ==
    ASSUME Maps, Rest, NEW path \in Path, NEW entry \in Range(roots),
           watchNewDirectory(path, entry), UNCHANGED <<roots, tree>>,
           NEW b \in Seq(Event),
           Coherent(b \o events, wdOf, DOMAIN watches),
           Exact(b \o events, wdOf, DOMAIN watches)
    PROVE  /\ Maps'
           /\ Coherent(b \o events', wdOf', DOMAIN watches')
           /\ Exact(b \o events', wdOf', DOMAIN watches')
           /\ loop' \in {loop, "twice", "missing"}
<1>1. CASE UNCHANGED <<kernelVars, mapVars>> /\ loop' \in {loop, "twice", "missing"}
  <2>1. /\ wdOf' = wdOf /\ nextWd' = nextWd /\ events' = events
        /\ watches' = watches /\ paths' = paths /\ watchToConfig' = watchToConfig
    BY <1>1 DEF kernelVars, mapVars
  <2>2. Maps'
    BY <2>1 DEF Maps, MapsAgree, Distinct
  <2> QED BY <1>1, <2>1, <2>2
<1>2. CASE /\ path \notin DOMAIN paths /\ dir(path) \in DOMAIN tree /\ loop' = loop
           /\ AddNew(path, entry) \/ AddAlias(path, entry)
  <2>1. CASE AddNew(path, entry)
    BY <1>2, <2>1, AddNewKeeps
  <2>2. CASE AddAlias(path, entry)
    BY <1>2, <2>2, AddAliasKeeps
  <2> QED BY <1>2, <2>1, <2>2
<1> QED BY <1>1, <1>2, WatchCases

\* The places of the watches, when one is made.
LEMMA WatchLocates ==
    ASSUME Maps, Rest, NEW path \in Path, NEW entry \in Range(roots),
           watchNewDirectory(path, entry), UNCHANGED <<roots, tree, moved>>,
           Located, ~moved, IsPrefix(dir(entry), dir(path))
    PROVE  /\ \A i \in Ino : wdOf'[i] # 0 =>
                 /\ dir(watches'[wdOf'[i]]) \in DOMAIN tree'
                 /\ tree'[dir(watches'[wdOf'[i]])] = i
           /\ \A wd \in DOMAIN watches' : IsPrefix(dir(watchToConfig'[wd]), dir(watches'[wd]))
<1>1. /\ \A i \in Ino : wdOf[i] # 0 =>
            dir(watches[wdOf[i]]) \in DOMAIN tree /\ tree[dir(watches[wdOf[i]])] = i
      /\ \A wd \in DOMAIN watches : IsPrefix(dir(watchToConfig[wd]), dir(watches[wd]))
  BY DEF Located, IsDirectory
<1>2. /\ wdOf \in [Ino -> 0..(nextWd - 1)] /\ nextWd \in Nat \ {0}
      /\ DOMAIN watchToConfig = DOMAIN watches
      /\ DOMAIN watches \subseteq 1..(nextWd - 1)
      /\ \A i \in Ino : wdOf[i] # 0 => wdOf[i] \in DOMAIN watches
  BY DEF Maps, MapsAgree
<1>3. CASE UNCHANGED <<kernelVars, mapVars>>
  BY <1>1, <1>3 DEF kernelVars, mapVars
<1>4. CASE dir(path) \in DOMAIN tree /\ AddNew(path, entry)
  <2> DEFINE h == tree[dir(path)]
  <2>1. /\ h \in Ino /\ wdOf' = [wdOf EXCEPT ![h] = nextWd]
        /\ watches' = Put(watches, nextWd, path)
        /\ watchToConfig' = Put(watchToConfig, nextWd, entry)
    BY <1>4 DEF AddNew, Rest
  <2>2. /\ \A i \in Ino : wdOf[i] # nextWd
        /\ nextWd \notin DOMAIN watches
    BY <1>2
  <2>3. ASSUME NEW i \in Ino, wdOf'[i] # 0
        PROVE  /\ dir(watches'[wdOf'[i]]) \in DOMAIN tree'
               /\ tree'[dir(watches'[wdOf'[i]])] = i
    <3>1. CASE i = h
      <4>1. wdOf'[i] = nextWd /\ watches'[nextWd] = path
        BY <1>2, <2>1, <3>1 DEF Put
      <4> QED BY <1>4, <3>1, <4>1
    <3>2. CASE i # h
      <4>1. wdOf'[i] = wdOf[i]
        BY <1>2, <2>1, <3>2
      <4>2. watches'[wdOf[i]] = watches[wdOf[i]]
        BY <1>2, <2>1, <2>2, <2>3, <4>1 DEF Put
      <4> QED BY <1>1, <2>3, <4>1, <4>2
    <3> QED BY <3>1, <3>2
  <2>4. ASSUME NEW wd \in DOMAIN watches'
        PROVE  IsPrefix(dir(watchToConfig'[wd]), dir(watches'[wd]))
    <3>1. CASE wd = nextWd
      BY <2>1, <3>1 DEF Put
    <3>2. CASE wd # nextWd
      BY <1>1, <1>2, <2>1, <3>2 DEF Put
    <3> QED BY <3>1, <3>2
  <2> QED BY <2>3, <2>4
<1>5. CASE dir(path) \in DOMAIN tree /\ AddAlias(path, entry)
  <2> DEFINE h == tree[dir(path)]
  <2>1. /\ h \in Ino /\ wdOf[h] # 0 /\ wdOf' = [wdOf EXCEPT ![h] = 0]
        /\ watches' = watches
        /\ watchToConfig' = Put(watchToConfig, wdOf[h], entry)
    BY <1>5 DEF AddAlias, Rest
  <2>2. dir(watches[wdOf[h]]) = dir(path)
    BY <1>1, <1>5, <2>1 DEF Rest
  <2>3. \A i \in Ino : wdOf'[i] = wdOf[i] \/ wdOf'[i] = 0
    BY <1>2, <2>1
  <2>4. ASSUME NEW wd \in DOMAIN watches'
        PROVE  IsPrefix(dir(watchToConfig'[wd]), dir(watches'[wd]))
    <3>1. CASE wd = wdOf[h]
      BY <2>1, <2>2, <3>1 DEF Put
    <3>2. CASE wd # wdOf[h]
      BY <1>1, <1>2, <2>1, <3>2 DEF Put
    <3> QED BY <3>1, <3>2
  <2> QED BY <1>1, <2>1, <2>3, <2>4
<1> QED BY <1>3, <1>4, <1>5, WatchCases

\* What a scan has still to do when its first item is replaced by others.
LEMMA ScanFacts ==
    ASSUME NEW s \in Seq(Item), s # <<>>, NEW new \in Seq(Item)
    PROVE  /\ Head(s) \in Item /\ Head(s) = s[1] /\ 1 \in DOMAIN s
           /\ new \o Tail(s) \in Seq(Item)
           /\ \A k \in DOMAIN (new \o Tail(s)) :
                 \/ \E m \in DOMAIN new : (new \o Tail(s))[k] = new[m]
                 \/ \E m \in DOMAIN s : (new \o Tail(s))[k] = s[m]
<1>1. Len(s) \in Nat \ {0} /\ DOMAIN s = 1..Len(s) /\ Head(s) = s[1]
  BY EmptySeq
<1> DEFINE t == Tail(s)
<1>2. /\ Head(s) \in Item /\ t \in Seq(Item) /\ Len(t) = Len(s) - 1
      /\ \A k \in 1..Len(t) : t[k] = s[k + 1]
  BY HeadTailProperties
<1> HIDE DEF t
<1>3. /\ new \o t \in Seq(Item) /\ Len(new \o t) = Len(new) + Len(t)
      /\ \A k \in 1..(Len(new) + Len(t)) :
            (new \o t)[k] = IF k <= Len(new) THEN new[k] ELSE t[k - Len(new)]
  BY <1>2, ConcatProperties
<1> DEFINE u == new \o t
<1> HIDE DEF u
<1>4. /\ DOMAIN u = 1..(Len(new) + Len(t)) /\ DOMAIN new = 1..Len(new)
      /\ Len(new) \in Nat /\ Len(t) \in Nat
  BY <1>2, <1>3 DEF u
<1>5. ASSUME NEW k \in DOMAIN u
      PROVE  (\E m \in DOMAIN new : u[k] = new[m]) \/ (\E m \in DOMAIN s : u[k] = s[m])
  <2>1. CASE k <= Len(new)
    <3>1. k \in DOMAIN new /\ u[k] = new[k]
      BY <1>3, <1>4, <2>1 DEF u
    <3> QED BY <3>1
  <2>2. CASE ~(k <= Len(new))
    <3>1. k - Len(new) \in 1..Len(t) /\ u[k] = t[k - Len(new)]
      BY <1>3, <1>4, <2>2 DEF u
    <3>2. u[k] = s[k - Len(new) + 1] /\ k - Len(new) + 1 \in DOMAIN s
      BY <1>1, <1>2, <1>4, <3>1
    <3> QED BY <3>2
  <2> QED BY <2>1, <2>2
<1> QED BY <1>1, <1>2, <1>3, <1>5 DEF u, t

\* The iterator shows a directory, or finds it gone.
LEMMA ScanWatchStep ==
    ASSUME IInv, ScanWatch
    PROVE  IInv'
<1> DEFINE item == Head(scan)
           visited == [item EXCEPT !.step = "list"]
<1>1. /\ Maps /\ Rest /\ Follows /\ OnlyKnownWatches /\ Located
      /\ loop = "scanning" /\ scan # <<>>
      /\ UNCHANGED <<roots, tree, files, buffer, jobs, moved>>
      /\ \/ /\ watchNewDirectory(item.path, item.entry)
            /\ scan' = <<visited>> \o Tail(scan)
         \/ /\ scan' = Tail(scan)
            /\ UNCHANGED <<kernelVars, mapVars, loop>>
  BY DEF IInv, ScanWatch
<1>2. scan \in Seq(Item) /\ buffer \in Seq(Event)
  BY <1>1 DEF Rest
<1>3. item \in Item /\ item = scan[1] /\ 1 \in DOMAIN scan
  <2>1. <<>> \in Seq(Item)
    BY EmptySeq
  <2> QED BY <1>1, <1>2, <2>1, ScanFacts
<1>4. item.path \in Path /\ item.entry \in Range(roots)
  BY <1>1, <1>3 DEF Item, Rest
<1>5. visited \in Item /\ visited.entry = item.entry /\ visited.path = item.path
  BY <1>3 DEF Item
<1> HIDE DEF item, visited
<1>6. /\ scan' \in Seq(Item)
      /\ \A k \in DOMAIN scan' : \/ scan'[k] = visited
                                 \/ \E m \in DOMAIN scan : scan'[k] = scan[m]
  <2>1. CASE scan' = <<visited>> \o Tail(scan)
    <3> DEFINE new == <<visited>>
    <3>1. new \in Seq(Item) /\ \A m \in DOMAIN new : new[m] = visited
      BY <1>5
    <3>2. scan' = new \o Tail(scan)
      BY <2>1
    <3> HIDE DEF new
    <3>3. /\ new \o Tail(scan) \in Seq(Item)
          /\ \A k \in DOMAIN (new \o Tail(scan)) :
                 \/ \E m \in DOMAIN new : (new \o Tail(scan))[k] = new[m]
                 \/ \E m \in DOMAIN scan : (new \o Tail(scan))[k] = scan[m]
      BY <1>1, <1>2, <3>1, ScanFacts
    <3> QED BY <3>1, <3>2, <3>3
  <2>2. CASE scan' = Tail(scan)
    <3> DEFINE t == Tail(scan)
    <3>1. t \in Seq(Item) /\ Len(t) = Len(scan) - 1 /\ \A k \in 1..Len(t) : t[k] = scan[k + 1]
      BY <1>1, <1>2, HeadTailProperties
    <3> HIDE DEF t
    <3>2. DOMAIN t = 1..Len(t) /\ DOMAIN scan = 1..Len(scan)
          /\ Len(t) \in Nat /\ Len(scan) \in Nat
      BY <1>2, <3>1
    <3>3. \A k \in DOMAIN t : k + 1 \in DOMAIN scan /\ t[k] = scan[k + 1]
      BY <3>1, <3>2
    <3> QED BY <2>2, <3>1, <3>3 DEF t
  <2> QED BY <1>1, <2>1, <2>2
<1>7. \A k \in DOMAIN scan' : scan'[k].entry \in Range(roots)
  BY <1>1, <1>4, <1>5, <1>6 DEF Rest
<1>8. Coherent(coming, wdOf, DOMAIN watches) /\ Exact(coming, wdOf, DOMAIN watches)
  BY <1>1 DEF Follows
<1>9. /\ Maps'
      /\ Coherent(coming', wdOf', DOMAIN watches')
      /\ Exact(coming', wdOf', DOMAIN watches')
      /\ loop' \in {loop, "twice", "missing"}
  <2>1. CASE watchNewDirectory(item.path, item.entry)
    <3>1. /\ Maps'
          /\ Coherent(buffer \o events', wdOf', DOMAIN watches')
          /\ Exact(buffer \o events', wdOf', DOMAIN watches')
          /\ loop' \in {loop, "twice", "missing"}
      BY <1>1, <1>2, <1>4, <1>8, <2>1, WatchKeeps DEF coming
    <3> QED BY <1>1, <3>1 DEF coming
  <2>2. CASE UNCHANGED <<kernelVars, mapVars, loop>>
    <3>1. /\ wdOf' = wdOf /\ nextWd' = nextWd /\ events' = events /\ loop' = loop
          /\ watches' = watches /\ paths' = paths /\ watchToConfig' = watchToConfig
      BY <2>2 DEF kernelVars, mapVars
    <3>2. Maps'
      BY <1>1, <3>1 DEF Maps, MapsAgree, Distinct
    <3> QED BY <1>1, <1>8, <3>1, <3>2 DEF coming
  <2> QED BY <1>1, <2>1, <2>2
<1>10. Follows'
  BY <1>9 DEF Follows
<1>11. OnlyKnownWatches'
  BY <1>1, <1>9 DEF OnlyKnownWatches
<1>12. Rest'
  BY <1>1, <1>6, <1>7, <1>9 DEF Rest, Cause
<1>13. Located'
  <2> SUFFICES ASSUME ~moved
               PROVE  /\ \A i \in Ino : wdOf'[i] # 0 =>
                            /\ dir(watches'[wdOf'[i]]) \in DOMAIN tree'
                            /\ tree'[dir(watches'[wdOf'[i]])] = i
                      /\ \A wd \in DOMAIN watches' :
                            IsPrefix(dir(watchToConfig'[wd]), dir(watches'[wd]))
                      /\ \A j \in jobs' : IsPrefix(dir(j.entry), j.path)
                      /\ \A k \in DOMAIN scan' :
                            IsPrefix(dir(scan'[k].entry), dir(scan'[k].path))
    BY <1>1 DEF Located, IsDirectory
  <2>1. \A k \in DOMAIN scan : IsPrefix(dir(scan[k].entry), dir(scan[k].path))
    BY <1>1 DEF Located
  <2>2. IsPrefix(dir(item.entry), dir(item.path))
    BY <1>3, <2>1
  <2>3. \A k \in DOMAIN scan' : IsPrefix(dir(scan'[k].entry), dir(scan'[k].path))
    BY <1>5, <1>6, <2>1, <2>2
  <2>4. CASE watchNewDirectory(item.path, item.entry)
    BY <1>1, <1>4, <2>2, <2>3, <2>4, WatchLocates DEF Located
  <2>5. CASE UNCHANGED <<kernelVars, mapVars, loop>>
    BY <1>1, <2>3, <2>5 DEF Located, IsDirectory, kernelVars, mapVars
  <2> QED BY <1>1, <2>4, <2>5
<1> QED BY <1>9, <1>10, <1>11, <1>12, <1>13 DEF IInv

\* A directory has finitely many entries.
LEMMA FinitelyMany ==
    ASSUME Rest, NEW p
    PROVE  Cardinality(Children(p)) \in Nat
<1>1. IsFiniteSet(DOMAIN tree)
  <2> DEFINE t == [q \in DOMAIN tree |-> tree[q]]
  <2>1. t \in Injection(DOMAIN tree, Ino)
    BY DEF Rest, Injection, IsInjective
  <2> HIDE DEF t
  <2> QED BY <2>1, FS_Injection, FileSystemAssumption
<1>2. Children(p) \subseteq DOMAIN tree
  BY DEF Children
<1> QED BY <1>1, <1>2, FS_Subset, FS_CardinalityType

\* The iterator goes down into a directory.
LEMMA ScanListStep ==
    ASSUME IInv, ScanList
    PROVE  IInv'
<1> DEFINE item == Head(scan)
           visit(p) == [step |-> "watch", path |-> p, entry |-> item.entry]
           S == Children(dir(item.path))
<1>1. /\ Maps /\ Rest /\ Follows /\ OnlyKnownWatches /\ Located
      /\ loop = "scanning" /\ scan # <<>>
      /\ UNCHANGED <<roots, tree, files, buffer, jobs, moved, kernelVars, mapVars>>
      /\ \/ loop' = "missing" /\ scan' = scan
         \/ /\ loop' = loop
            /\ \E order \in SetToSeqs(S) :
                  scan' = [k \in DOMAIN order |-> visit(order[k])] \o Tail(scan)
  BY DEF IInv, ScanList, Fails
<1>2. scan \in Seq(Item)
  BY <1>1 DEF Rest
<1>3. item \in Item /\ item = scan[1] /\ 1 \in DOMAIN scan
  <2>1. <<>> \in Seq(Item)
    BY EmptySeq
  <2> QED BY <1>1, <1>2, <2>1, ScanFacts
<1>4. /\ item.path \in Path /\ item.entry \in Range(roots)
      /\ item.entry \in Path /\ dir(item.path) \in Seq(AnyName)
      /\ dir(item.entry) \in Seq(AnyName)
  BY <1>1, <1>3, dirTyped, RootsTyped DEF Item, Rest
<1>5. \A q \in S : q \in Path /\ IsPrefix(dir(item.path), dir(q)) /\ visit(q) \in Item
  <2> SUFFICES ASSUME NEW q \in S
               PROVE  q \in Path /\ IsPrefix(dir(item.path), dir(q)) /\ visit(q) \in Item
    OBVIOUS
  <2>1. q \in Seq(AnyName) /\ Len(q) = Len(dir(item.path)) + 1 /\ IsPrefix(dir(item.path), q)
    BY <1>1 DEF Children, Rest
  <2>2. q \in Path /\ IsPrefix(dir(item.path), dir(q))
    BY <1>4, <2>1, NextLevel
  <2> QED BY <1>4, <2>2 DEF Item
<1>6. Cardinality(S) \in Nat
  BY <1>1, FinitelyMany
<1> DEFINE Found(x) == \E q \in S : x = visit(q)
<1> HIDE DEF item, S
<1>7. /\ scan' \in Seq(Item)
      /\ \A k \in DOMAIN scan' : Found(scan'[k]) \/ \E m \in DOMAIN scan : scan'[k] = scan[m]
  <2>1. CASE scan' = scan
    BY <1>2, <2>1
  <2>2. ASSUME NEW order \in SetToSeqs(S),
               scan' = [k \in DOMAIN order |-> visit(order[k])] \o Tail(scan)
        PROVE  /\ scan' \in Seq(Item)
               /\ \A k \in DOMAIN scan' :
                     Found(scan'[k]) \/ \E m \in DOMAIN scan : scan'[k] = scan[m]
    <3> DEFINE n == Cardinality(S)
               new == [k \in 1..n |-> visit(order[k])]
    <3>1. DOMAIN order = 1..n /\ \A k \in 1..n : order[k] \in S
      BY DEF SetToSeqs
    <3>2. scan' = new \o Tail(scan)
      BY <2>2, <3>1
    <3>3. \A k \in DOMAIN new : Found(new[k])
      BY <3>1
    <3>4. n \in Nat /\ \A k \in 1..n : visit(order[k]) \in Item
      BY <1>5, <1>6, <3>1
    <3> HIDE DEF n
    <3>5. new \in Seq(Item)
      <4> HIDE DEF visit
      <4> QED BY <3>4
    <3> HIDE DEF new
    <3>6. /\ new \o Tail(scan) \in Seq(Item)
          /\ \A k \in DOMAIN (new \o Tail(scan)) :
                 \/ \E m \in DOMAIN new : (new \o Tail(scan))[k] = new[m]
                 \/ \E m \in DOMAIN scan : (new \o Tail(scan))[k] = scan[m]
      BY <1>1, <1>2, <3>5, ScanFacts
    <3> HIDE DEF Found
    <3> QED BY <3>2, <3>3, <3>6
  <2> QED BY <1>1, <2>1, <2>2
<1>8. /\ wdOf' = wdOf /\ nextWd' = nextWd /\ events' = events
      /\ watches' = watches /\ paths' = paths /\ watchToConfig' = watchToConfig
  BY <1>1 DEF kernelVars, mapVars
<1>9. Maps'
  BY <1>1, <1>8 DEF Maps, MapsAgree, Distinct
<1>10. Follows'
  BY <1>1, <1>8 DEF Follows, coming
<1>11. OnlyKnownWatches'
  BY <1>1 DEF OnlyKnownWatches
<1>12. \A k \in DOMAIN scan' : scan'[k].entry \in Range(roots)
  <2>1. \A x : Found(x) => x.entry = item.entry
    OBVIOUS
  <2>2. \A k \in DOMAIN scan : scan[k].entry \in Range(roots)
    BY <1>1 DEF Rest
  <2> HIDE DEF Found
  <2> QED BY <1>4, <1>7, <2>1, <2>2
<1>13. Rest'
  BY <1>1, <1>7, <1>12 DEF Rest, Cause
<1>14. Located'
  <2>1. ASSUME ~moved
        PROVE  \A k \in DOMAIN scan' : IsPrefix(dir(scan'[k].entry), dir(scan'[k].path))
    <3>1. \A k \in DOMAIN scan : IsPrefix(dir(scan[k].entry), dir(scan[k].path))
      BY <1>1, <2>1 DEF Located
    <3>2. IsPrefix(dir(item.entry), dir(item.path))
      BY <1>3, <3>1
    <3>3. ASSUME NEW x, Found(x)
          PROVE  IsPrefix(dir(x.entry), dir(x.path))
      <4>1. PICK q \in S : x.path = q /\ x.entry = item.entry
        BY <3>3
      <4>2. q \in Path /\ IsPrefix(dir(item.path), dir(q))
        BY <1>5
      <4>3. dir(q) \in Seq(AnyName)
        BY <4>2, dirTyped
      <4>4. IsPrefix(dir(item.entry), dir(q))
        BY <1>4, <3>2, <4>2, <4>3, PrefixBelow
      <4> QED BY <4>1, <4>4
    <3> HIDE DEF Found
    <3> QED BY <1>7, <3>1, <3>3
  <2> QED BY <1>1, <1>8, <2>1 DEF Located, IsDirectory
<1> QED BY <1>9, <1>10, <1>11, <1>13, <1>14 DEF IInv

\* The scan is over.
LEMMA ScanDoneStep ==
    ASSUME IInv, ScanDone
    PROVE  IInv'
<1>1. /\ Maps /\ Rest /\ Follows /\ OnlyKnownWatches /\ Located
      /\ loop = "scanning" /\ loop' = "running"
      /\ UNCHANGED <<roots, fsVars, mapVars, buffer, scan, jobs, moved>>
  BY DEF IInv, ScanDone
<1>2. /\ wdOf' = wdOf /\ nextWd' = nextWd /\ events' = events
      /\ tree' = tree /\ files' = files
      /\ watches' = watches /\ paths' = paths /\ watchToConfig' = watchToConfig
  BY <1>1 DEF kernelVars, mapVars, fsVars
<1>3. Maps'
  BY <1>1, <1>2 DEF Maps, MapsAgree, Distinct
<1>4. Rest' /\ Follows' /\ OnlyKnownWatches'
  BY <1>1, <1>2 DEF Rest, Follows, OnlyKnownWatches, coming
<1>5. Located'
  BY <1>1, <1>2 DEF Located, IsDirectory
<1> QED BY <1>3, <1>4, <1>5 DEF IInv

\* The two parts of a sequence.
LEMMA TwoParts ==
    ASSUME NEW S, NEW s \in Seq(S), NEW n \in 1..Len(s)
    PROVE  SubSeq(s, 1, n) \o SubSeq(s, n + 1, Len(s)) = s
<1> DEFINE m == Len(s)
<1>1. m \in Nat
  OBVIOUS
<1>2. SubSeq(s, 1, n) \o SubSeq(s, n + 1, m) = SubSeq(s, 1, m)
  BY <1>1, ConcatAdjacentSubSeq
<1>3. /\ SubSeq(s, 1, m) \in Seq(S) /\ Len(SubSeq(s, 1, m)) = m
      /\ \A k \in 1..m : SubSeq(s, 1, m)[k] = s[k]
  <2>1. \A k \in 1..m : s[k] \in S
    BY <1>1, ElementOfSeq
  <2> QED BY <1>1, <2>1, SubSeqProperties
<1>4. SubSeq(s, 1, m) = s
  BY <1>3, SeqEqual
<1> QED BY <1>2, <1>4

\* Events go from the queue to the buffer.
LEMMA ReadEventsStep ==
    ASSUME IInv, ReadEvents
    PROVE  IInv'
<1>1. /\ Maps /\ Rest /\ Follows /\ OnlyKnownWatches /\ Located
      /\ loop = "running" /\ buffer = <<>>
      /\ UNCHANGED <<roots, tree, files, wdOf, nextWd, mapVars, scan, loop, jobs, moved>>
  BY DEF IInv, ReadEvents
<1>2. PICK n \in 1..Len(events) :
         /\ n <= ReadAhead
         /\ buffer' = SubSeq(events, 1, n)
         /\ events' = SubSeq(events, n + 1, Len(events))
  BY DEF ReadEvents
<1>3. events \in Seq(Event) /\ Len(events) \in Nat /\ Len(events) <= QueueLimit + 1
  BY <1>1 DEF Maps
<1> DEFINE m == Len(events)
<1>4. /\ \A k \in 1..n : events[k] \in Event
      /\ \A k \in (n + 1)..m : events[k] \in Event
  BY <1>3, ElementOfSeq
<1>5. SubSeq(events, 1, n) \in Seq(Event) /\ Len(SubSeq(events, 1, n)) = n
  BY <1>4, SubSeqProperties
<1>6. /\ SubSeq(events, n + 1, m) \in Seq(Event)
      /\ Len(SubSeq(events, n + 1, m)) = m - n
  <2>1. n + 1 \in Int /\ m \in Int
    BY <1>3
  <2>2. /\ SubSeq(events, n + 1, m) \in Seq(Event)
        /\ Len(SubSeq(events, n + 1, m)) = IF n + 1 <= m THEN m - (n + 1) + 1 ELSE 0
    BY <1>4, <2>1, SubSeqProperties
  <2> HIDE DEF m
  <2> QED BY <2>2, <1>3 DEF m
<1>7. SubSeq(events, 1, n) \o SubSeq(events, n + 1, m) = events
  BY <1>3, TwoParts
<1>8. coming' = coming
  <2>1. coming = events
    BY <1>1, <1>3, ConcatEmptySeq DEF coming
  <2> QED BY <1>2, <1>7, <2>1 DEF coming
<1>9. Len(events') <= QueueLimit
  BY <1>2, <1>3, <1>6, FileSystemAssumption
<1>10. /\ watches' = watches /\ paths' = paths /\ watchToConfig' = watchToConfig
  BY <1>1 DEF mapVars
<1>11. Maps'
  <2>1. /\ events' \in Seq(Event) /\ Len(events') <= QueueLimit + 1
        /\ ~(Len(events') > QueueLimit)
    BY <1>2, <1>6, <1>9, FileSystemAssumption
  <2> QED BY <1>1, <1>10, <2>1 DEF Maps, MapsAgree, Distinct
<1>12. Rest'
  BY <1>1, <1>2, <1>5 DEF Rest
<1>13. Follows' /\ OnlyKnownWatches'
  BY <1>1, <1>8, <1>10 DEF Follows, OnlyKnownWatches
<1>14. Located'
  BY <1>1, <1>10 DEF Located, IsDirectory
<1> QED BY <1>11, <1>12, <1>13, <1>14 DEF IInv

\* What is coming when the event in front is taken.
LEMMA NextComing ==
    ASSUME NEW b \in Seq(Event), b # <<>>, NEW q \in Seq(Event)
    PROVE  /\ Head(b) \in Event /\ Tail(b) \o q \in Seq(Event)
           /\ DOMAIN (Tail(b) \o q) \subseteq Nat
           /\ Len(b \o q) = Len(Tail(b) \o q) + 1 /\ Len(Tail(b) \o q) \in Nat
           /\ 1 \in DOMAIN (b \o q) /\ (b \o q)[1] = Head(b)
           /\ \A k \in DOMAIN (Tail(b) \o q) :
                 k + 1 \in DOMAIN (b \o q) /\ (b \o q)[k + 1] = (Tail(b) \o q)[k]
           /\ \A k \in DOMAIN (b \o q) :
                 k = 1 \/ /\ k - 1 \in DOMAIN (Tail(b) \o q)
                          /\ (Tail(b) \o q)[k - 1] = (b \o q)[k]
<1> DEFINE e == Head(b)
           t == Tail(b)
           c == t \o q
           d == b \o q
<1>1. /\ e \in Event /\ e = b[1] /\ t \in Seq(Event) /\ Len(t) = Len(b) - 1
      /\ \A k \in 1..Len(t) : t[k] = b[k + 1]
      /\ Len(b) \in Nat \ {0} /\ Len(q) \in Nat
  BY HeadTailProperties, EmptySeq
<1> HIDE DEF e, t
<1>2. /\ d \in Seq(Event) /\ Len(d) = Len(b) + Len(q)
      /\ \A k \in 1..(Len(b) + Len(q)) :
            d[k] = IF k <= Len(b) THEN b[k] ELSE q[k - Len(b)]
  BY ConcatProperties
<1>3. /\ c \in Seq(Event) /\ Len(c) = Len(t) + Len(q)
      /\ \A k \in 1..(Len(t) + Len(q)) :
            c[k] = IF k <= Len(t) THEN t[k] ELSE q[k - Len(t)]
  BY <1>1, ConcatProperties
<1> HIDE DEF c, d
<1>4. /\ DOMAIN d = 1..Len(d) /\ DOMAIN c = 1..Len(c)
      /\ Len(c) \in Nat /\ Len(d) = Len(c) + 1 /\ Len(t) \in Nat
  BY <1>1, <1>2, <1>3
<1>5. d[1] = e /\ 1 \in DOMAIN d
  BY <1>1, <1>2, <1>4
<1>6. \A k \in DOMAIN c : k + 1 \in DOMAIN d /\ d[k + 1] = c[k]
  <2> SUFFICES ASSUME NEW k \in DOMAIN c
               PROVE  k + 1 \in DOMAIN d /\ d[k + 1] = c[k]
    OBVIOUS
  <2>1. k \in 1..(Len(t) + Len(q)) /\ k + 1 \in 1..(Len(b) + Len(q))
    BY <1>1, <1>3, <1>4
  <2>2. CASE k <= Len(t)
    <3>1. k \in 1..Len(t) /\ k + 1 <= Len(b)
      BY <1>1, <2>1, <2>2
    <3> QED BY <1>1, <1>2, <1>3, <1>4, <2>1, <2>2, <3>1
  <2>3. CASE ~(k <= Len(t))
    <3>1. ~(k + 1 <= Len(b)) /\ (k + 1) - Len(b) = k - Len(t)
      BY <1>1, <2>1, <2>3
    <3> QED BY <1>2, <1>3, <1>4, <2>1, <2>3, <3>1
  <2> QED BY <2>2, <2>3
<1>7. \A k \in DOMAIN d : k = 1 \/ (k - 1 \in DOMAIN c /\ c[k - 1] = d[k])
  BY <1>4, <1>6
<1> QED BY <1>1, <1>3, <1>4, <1>5, <1>6, <1>7 DEF c, d, e, t

\* The event in front, and those behind it.
LEMMA FrontEvent ==
    ASSUME NEW b \in Seq(Event), b # <<>>, NEW q \in Seq(Event),
           NEW w, NEW known, Coherent(b \o q, w, known), 0 \notin known
    PROVE  LET e == Head(b)
               c == Tail(b) \o q
           IN  /\ e \in Event /\ Tail(b) \in Seq(Event)
               /\ e.wd \notin known => e = Overflow
               /\ e.wd \in known => /\ Coherent(c, w, known)
                                    /\ e.kind = "ignored" =>
                                          /\ Coherent(c, w, known \ {e.wd})
                                          /\ \A i \in Ino : w[i] # e.wd
               /\ Exact(b \o q, w, known) /\ e.wd \in known =>
                     /\ e.kind # "ignored" => Exact(c, w, known)
                     /\ e.kind = "ignored" => Exact(c, w, known \ {e.wd})
<1> DEFINE e == Head(b)
           t == Tail(b)
           c == t \o q
           d == b \o q
<1>1. /\ e \in Event /\ t \in Seq(Event)
      /\ c \in Seq(Event) /\ d[1] = e /\ 1 \in DOMAIN d
  BY HeadTailProperties, EmptySeq, NextComing
<1>2. /\ DOMAIN d = 1..Len(d) /\ DOMAIN c = 1..Len(c)
      /\ Len(c) \in Nat /\ Len(d) = Len(c) + 1
  <2>1. d \in Seq(Event)
    BY ConcatProperties
  <2> QED BY <1>1, <2>1, NextComing
<1>3. \A k \in DOMAIN c : k + 1 \in DOMAIN d /\ d[k + 1] = c[k]
  BY NextComing
<1>4. \A k \in DOMAIN d : k # 1 => k - 1 \in DOMAIN c /\ c[k - 1] = d[k]
  BY NextComing
<1> HIDE DEF e, t, c, d
<1>5. Coherent(d, w, known)
  BY DEF d
<1>6. ASSUME e.wd \notin known
      PROVE  e = Overflow
  <2>1. ~Heard(d, 1)
    BY <1>1, <1>5, <1>6 DEF Coherent
  <2> QED BY <1>1, <2>1 DEF Heard
<1>7. ASSUME e.wd \in known, NEW k \in DOMAIN c, Heard(c, k)
       PROVE  Heard(d, k + 1)
  <2>1. e # Overflow
    BY <1>7 DEF Overflow
  <2>2. k + 1 \in DOMAIN d
    BY <1>3
  <2>3. \A m \in 1..(k + 1) : d[m] # Overflow
    <3> SUFFICES ASSUME NEW m \in 1..(k + 1)
                 PROVE  d[m] # Overflow
      OBVIOUS
    <3>1. CASE m = 1
      BY <1>1, <2>1, <3>1
    <3>2. CASE m # 1
      <4>1. m - 1 \in 1..k /\ m \in DOMAIN d
        BY <1>2, <2>2, <3>2
      <4> QED BY <1>4, <1>7, <3>2, <4>1 DEF Heard
    <3> QED BY <3>1, <3>2
  <2> QED BY <2>2, <2>3 DEF Heard
<1>8. ASSUME e.wd \in known
       PROVE  Coherent(c, w, known)
  <2> SUFFICES ASSUME NEW k \in DOMAIN c, Heard(c, k)
               PROVE  /\ c[k].wd \in known
                      /\ c[k].kind = "ignored" =>
                            /\ \A i \in Ino : w[i] # c[k].wd
                            /\ \A m \in DOMAIN c :
                                  m > k /\ Heard(c, m) => c[m].wd # c[k].wd
    BY DEF Coherent
  <2>1. Heard(d, k + 1) /\ k + 1 \in DOMAIN d /\ d[k + 1] = c[k]
    BY <1>3, <1>7, <1>8
  <2>2. /\ c[k].wd \in known
        /\ c[k].kind = "ignored" =>
              /\ \A i \in Ino : w[i] # c[k].wd
              /\ \A m \in DOMAIN d : m > k + 1 /\ Heard(d, m) => d[m].wd # c[k].wd
    BY <1>5, <2>1 DEF Coherent
  <2>3. ASSUME c[k].kind = "ignored", NEW m \in DOMAIN c, m > k, Heard(c, m)
        PROVE  c[m].wd # c[k].wd
    <3>1. Heard(d, m + 1) /\ m + 1 \in DOMAIN d /\ d[m + 1] = c[m] /\ m + 1 > k + 1
      BY <1>2, <1>3, <1>7, <1>8, <2>3
    <3> QED BY <2>2, <2>3, <3>1
  <2> QED BY <2>2, <2>3
<1>9. ASSUME e.wd \in known, e.kind = "ignored"
       PROVE  Coherent(c, w, known \ {e.wd}) /\ \A i \in Ino : w[i] # e.wd
  <2>1. Heard(d, 1)
    <3>1. e # Overflow
      BY <1>9 DEF Overflow
    <3> QED BY <1>1, <3>1 DEF Heard
  <2>2. /\ \A i \in Ino : w[i] # e.wd
        /\ \A m \in DOMAIN d : m > 1 /\ Heard(d, m) => d[m].wd # e.wd
    BY <1>1, <1>5, <1>9, <2>1 DEF Coherent
  <2>3. ASSUME NEW k \in DOMAIN c, Heard(c, k)
        PROVE  c[k].wd # e.wd
    <3>1. Heard(d, k + 1) /\ k + 1 \in DOMAIN d /\ d[k + 1] = c[k] /\ k + 1 > 1
      BY <1>2, <1>3, <1>7, <1>9, <2>3
    <3> QED BY <2>2, <3>1
  <2> QED BY <1>8, <1>9, <2>2, <2>3 DEF Coherent
<1>10. ASSUME Exact(d, w, known), e.wd \in known
       PROVE  /\ e.kind # "ignored" => Exact(c, w, known)
              /\ e.kind = "ignored" => Exact(c, w, known \ {e.wd})
  <2>1. ASSUME Overflow \notin Range(c), NEW x \in known, e.kind = "ignored" => x # e.wd
        PROVE  \/ \E i \in Ino : w[i] = x
               \/ \E k \in DOMAIN c : c[k].wd = x /\ c[k].kind = "ignored"
    <3>1. Overflow \notin Range(d)
      <4> SUFFICES ASSUME NEW k \in DOMAIN d
                   PROVE  d[k] # Overflow
        BY DEF Range
      <4>1. CASE k = 1
        BY <1>1, <1>10, <4>1 DEF Overflow
      <4>2. CASE k # 1
        BY <1>4, <2>1, <4>2 DEF Range
      <4> QED BY <4>1, <4>2
    <3>2. \/ \E i \in Ino : w[i] = x
          \/ \E k \in DOMAIN d : d[k].wd = x /\ d[k].kind = "ignored"
      BY <1>10, <3>1 DEF Exact
    <3>3. ASSUME NEW k \in DOMAIN d, d[k].wd = x, d[k].kind = "ignored"
          PROVE  \E m \in DOMAIN c : c[m].wd = x /\ c[m].kind = "ignored"
      <4>1. k # 1
        BY <1>1, <2>1, <3>3
      <4> QED BY <1>4, <3>3, <4>1
    <3> QED BY <3>2, <3>3
  <2> QED BY <2>1 DEF Exact
<1> QED BY <1>1, <1>6, <1>8, <1>9, <1>10 DEF c, d, e, t

\* What handling an event does to the maps, the kernel and the jobs.
LEMMA HandleCases ==
    ASSUME NEW e, e.wd \in DOMAIN watches, HandleKnown(e)
    PROVE  LET path == Append(dir(watches[e.wd]), e.name)
               entry == watchToConfig[e.wd]
               job(kind) == [kind |-> kind, path |-> path, entry |-> entry]
           IN  \/ /\ e.kind # "ignored" /\ UNCHANGED <<kernelVars, mapVars>>
                  /\ loop' \in {loop, "vanished"}
                  /\ \A j \in jobs' : j \in jobs \/ j \in {job("upload"), job("delete")}
               \/ e.kind # "ignored" /\ watchNewDirectory(path, entry) /\ jobs' = jobs
               \/ e.kind = "ignored" /\ HandleIgnored(e.wd)
BY DEF HandleKnown, HandleClosed, HandleDeleted, HandleCreated, HandleOther, AddJob, Fails

\* A watch is forgotten after the last event of it.
LEMMA IgnoredKeeps ==
    ASSUME Maps, roots' = roots, NEW wd \in DOMAIN watches, HandleIgnored(wd),
           \A i \in Ino : wdOf[i] # wd
    PROVE  /\ Maps'
           /\ DOMAIN watches' = DOMAIN watches \ {wd}
           /\ wdOf' = wdOf /\ events' = events /\ loop' = loop /\ jobs' = jobs
           /\ \A x \in DOMAIN watches' : /\ watches'[x] = watches[x]
                                       /\ watchToConfig'[x] = watchToConfig[x]
<1>1. /\ wdOf' = wdOf /\ nextWd' = nextWd /\ events' = events /\ loop' = loop /\ jobs' = jobs
      /\ watchToConfig' = Without(watchToConfig, wd)
      /\ paths' = Without(paths, watches[wd])
      /\ watches' = Without(watches, wd)
  BY DEF HandleIgnored, kernelVars
<1>2. /\ DOMAIN watchToConfig = DOMAIN watches
      /\ \A x \in DOMAIN watches : watches[x] \in DOMAIN paths /\ paths[watches[x]] = x
  BY DEF Maps, MapsAgree
<1>3. /\ DOMAIN watches' = DOMAIN watches \ {wd}
      /\ DOMAIN watchToConfig' = DOMAIN watches'
      /\ DOMAIN paths' = DOMAIN paths \ {watches[wd]}
      /\ \A p \in DOMAIN paths' : paths'[p] = paths[p]
      /\ \A x \in DOMAIN watches' : /\ watches'[x] = watches[x]
                                  /\ watchToConfig'[x] = watchToConfig[x]
  BY <1>1, <1>2 DEF Without
<1>4. MapsAgree'
  <2>1. \A x \in DOMAIN watches' : watches[x] # watches[wd]
    BY <1>2, <1>3
  <2> QED BY <1>2, <1>3, <2>1 DEF MapsAgree
<1>5. Distinct' /\ \A i \in Ino : wdOf'[i] # 0 => wdOf'[i] \in DOMAIN watches'
  BY <1>1, <1>3 DEF Maps, Distinct
<1>6. /\ DOMAIN watches' \subseteq 1..(nextWd' - 1)
      /\ DOMAIN watchToConfig' \subseteq 1..(nextWd' - 1)
      /\ \A x \in DOMAIN watchToConfig' : watchToConfig'[x] \in Range(roots')
      /\ \A x \in DOMAIN watches' : watches'[x] \in Path
  BY <1>1, <1>2, <1>3 DEF Maps
<1>7. Maps'
  BY <1>1, <1>4, <1>5, <1>6 DEF Maps
<1> QED BY <1>1, <1>3, <1>7

\* One event is handled.
LEMMA HandleEventStep ==
    ASSUME IInv, HandleEvent
    PROVE  IInv'
<1> DEFINE e == Head(buffer)
           c == Tail(buffer) \o events
<1>1. /\ Maps /\ Rest /\ Follows /\ OnlyKnownWatches /\ Located
      /\ loop = "running" /\ buffer # <<>> /\ buffer' = Tail(buffer)
      /\ UNCHANGED <<roots, tree, files, scan, moved>>
  BY DEF IInv, HandleEvent
<1>2. /\ \/ /\ e.wd \notin DOMAIN watches
            /\ loop' = IF e = Overflow THEN "overflowed" ELSE "unknownWatch"
            /\ UNCHANGED <<kernelVars, mapVars, jobs>>
         \/ e.wd \in DOMAIN watches /\ e.wd \notin DOMAIN watchToConfig
         \/ e.wd \in DOMAIN watches /\ HandleKnown(e)
  BY DEF HandleEvent, Fails
<1>3. /\ buffer \in Seq(Event) /\ Len(buffer) <= ReadAhead /\ events \in Seq(Event)
      /\ 0 \notin DOMAIN watches /\ DOMAIN watchToConfig = DOMAIN watches
      /\ Coherent(buffer \o events, wdOf, DOMAIN watches)
      /\ Exact(buffer \o events, wdOf, DOMAIN watches)
  BY <1>1 DEF Maps, MapsAgree, Rest, Follows, coming
<1>4. /\ e \in Event /\ Tail(buffer) \in Seq(Event)
      /\ e.wd \notin DOMAIN watches => e = Overflow
      /\ e.wd \in DOMAIN watches =>
            /\ Coherent(c, wdOf, DOMAIN watches)
            /\ e.kind # "ignored" => Exact(c, wdOf, DOMAIN watches)
            /\ e.kind = "ignored" =>
                  /\ Coherent(c, wdOf, DOMAIN watches \ {e.wd})
                  /\ Exact(c, wdOf, DOMAIN watches \ {e.wd})
                  /\ \A i \in Ino : wdOf[i] # e.wd
  BY <1>1, <1>3, FrontEvent
<1>5. Tail(buffer) \in Seq(Event) /\ Len(Tail(buffer)) <= ReadAhead
  <2>1. Len(Tail(buffer)) = Len(buffer) - 1 /\ Len(buffer) \in Nat
    BY <1>1, <1>3, HeadTailProperties
  <2> QED BY <1>3, <1>4, <2>1, WatchAssumption
<1>6. ASSUME loop' \in {"scanning", "running"} \cup Cause
      PROVE  Rest'
  BY <1>1, <1>5, <1>6 DEF Rest
<1>7. coming' = Tail(buffer) \o events'
  BY <1>1 DEF coming
<1> DEFINE path == Append(dir(watches[e.wd]), e.name)
           entry == watchToConfig[e.wd]
           job(kind) == [kind |-> kind, path |-> path, entry |-> entry]
<1>8. ASSUME e.wd \in DOMAIN watches
      PROVE  /\ path \in Path /\ entry \in Range(roots)
             /\ ~moved => /\ IsPrefix(dir(entry), dir(path))
                          /\ IsPrefix(dir(entry), path)
  <2> DEFINE d == dir(watches[e.wd])
  <2>1. watches[e.wd] \in Path /\ entry \in Range(roots)
    BY <1>1, <1>3, <1>8 DEF Maps
  <2>2. d \in Seq(AnyName) /\ e.name \in AnyName /\ dir(entry) \in Seq(AnyName)
    BY <1>1, <1>4, <2>1, dirTyped, RootsTyped DEF Event
  <2>3. /\ path \in Path /\ IsPrefix(d, path) /\ IsPrefix(d, dir(path))
    BY <2>2, InDirectory
  <2>4. dir(path) \in Seq(AnyName) /\ path \in Seq(AnyName)
    BY <2>3, dirTyped DEF Path
  <2>5. ~moved => IsPrefix(dir(entry), d)
    BY <1>1, <1>8 DEF Located
  <2> HIDE DEF d, path, entry
  <2> QED BY <2>1, <2>2, <2>3, <2>4, <2>5, PrefixBelow
<1> HIDE DEF e, c
<1>9. CASE /\ e.wd \notin DOMAIN watches
           /\ loop' = IF e = Overflow THEN "overflowed" ELSE "unknownWatch"
           /\ UNCHANGED <<kernelVars, mapVars, jobs>>
  <2>1. loop' = "overflowed"
    BY <1>4, <1>9
  <2>2. /\ wdOf' = wdOf /\ nextWd' = nextWd /\ events' = events /\ jobs' = jobs
        /\ watches' = watches /\ paths' = paths /\ watchToConfig' = watchToConfig
    BY <1>9 DEF kernelVars, mapVars
  <2>3. Maps'
    BY <1>1, <2>2 DEF Maps, MapsAgree, Distinct
  <2>4. Rest' /\ Follows' /\ OnlyKnownWatches'
    BY <1>6, <2>1 DEF Follows, OnlyKnownWatches, Cause
  <2>5. Located'
    BY <1>1, <2>2 DEF Located, IsDirectory
  <2> QED BY <2>3, <2>4, <2>5 DEF IInv
<1>10. CASE /\ e.wd \in DOMAIN watches /\ e.kind # "ignored"
            /\ UNCHANGED <<kernelVars, mapVars>> /\ loop' \in {loop, "vanished"}
            /\ \A j \in jobs' : j \in jobs \/ j \in {job("upload"), job("delete")}
  <2>1. /\ wdOf' = wdOf /\ nextWd' = nextWd /\ events' = events
        /\ watches' = watches /\ paths' = paths /\ watchToConfig' = watchToConfig
    BY <1>10 DEF kernelVars, mapVars
  <2>2. Maps'
    BY <1>1, <2>1 DEF Maps, MapsAgree, Distinct
  <2>3. Rest' /\ OnlyKnownWatches'
    BY <1>1, <1>6, <1>10 DEF OnlyKnownWatches, Cause
  <2>4. Follows'
    BY <1>4, <1>7, <1>10, <2>1 DEF Follows, c
  <2>5. Located'
    <3>1. ~moved => \A j \in jobs' : IsPrefix(dir(j.entry), j.path)
      <4> SUFFICES ASSUME ~moved, NEW j \in jobs'
                   PROVE  IsPrefix(dir(j.entry), j.path)
        OBVIOUS
      <4>1. CASE j \in jobs
        BY <1>1, <4>1 DEF Located
      <4>2. CASE j \in {job("upload"), job("delete")}
        <5>1. j.entry = entry /\ j.path = path
          BY <4>2
        <5> QED BY <1>8, <1>10, <5>1
      <4> QED BY <1>10, <4>1, <4>2
    <3> QED BY <1>1, <2>1, <3>1 DEF Located, IsDirectory
  <2> QED BY <2>2, <2>3, <2>4, <2>5 DEF IInv
<1>11. CASE /\ e.wd \in DOMAIN watches /\ e.kind # "ignored"
            /\ watchNewDirectory(path, entry) /\ jobs' = jobs
  <2> HIDE DEF path, entry
  <2>1. /\ Maps'
        /\ Coherent(Tail(buffer) \o events', wdOf', DOMAIN watches')
        /\ Exact(Tail(buffer) \o events', wdOf', DOMAIN watches')
        /\ loop' \in {loop, "twice", "missing"}
    BY <1>1, <1>4, <1>8, <1>11, WatchKeeps DEF c
  <2>2. Rest' /\ OnlyKnownWatches'
    BY <1>1, <1>6, <2>1 DEF OnlyKnownWatches, Cause
  <2>3. Follows'
    BY <1>7, <2>1 DEF Follows
  <2>4. Located'
    <3> SUFFICES ASSUME ~moved
                 PROVE  /\ \A i \in Ino : wdOf'[i] # 0 =>
                              /\ dir(watches'[wdOf'[i]]) \in DOMAIN tree'
                              /\ tree'[dir(watches'[wdOf'[i]])] = i
                        /\ \A wd \in DOMAIN watches' :
                              IsPrefix(dir(watchToConfig'[wd]), dir(watches'[wd]))
                        /\ \A j \in jobs' : IsPrefix(dir(j.entry), j.path)
                        /\ \A k \in DOMAIN scan' :
                              IsPrefix(dir(scan'[k].entry), dir(scan'[k].path))
      BY <1>1 DEF Located, IsDirectory
    <3>1. /\ \A j \in jobs' : IsPrefix(dir(j.entry), j.path)
          /\ \A k \in DOMAIN scan' : IsPrefix(dir(scan'[k].entry), dir(scan'[k].path))
      BY <1>1, <1>11 DEF Located
    <3> QED BY <1>1, <1>8, <1>11, <3>1, WatchLocates
  <2> QED BY <2>1, <2>2, <2>3, <2>4 DEF IInv
<1>12. CASE e.wd \in DOMAIN watches /\ e.kind = "ignored" /\ HandleIgnored(e.wd)
  <2>1. /\ Maps'
        /\ DOMAIN watches' = DOMAIN watches \ {e.wd}
        /\ wdOf' = wdOf /\ events' = events /\ loop' = loop /\ jobs' = jobs
        /\ \A x \in DOMAIN watches' : /\ watches'[x] = watches[x]
                                    /\ watchToConfig'[x] = watchToConfig[x]
    BY <1>1, <1>4, <1>12, IgnoredKeeps
  <2>2. Rest' /\ OnlyKnownWatches'
    BY <1>1, <1>6, <2>1 DEF OnlyKnownWatches
  <2>3. Follows'
    BY <1>4, <1>7, <1>12, <2>1 DEF Follows, c
  <2>4. Located'
    <3>1. \A i \in Ino : wdOf[i] # 0 => wdOf[i] \in DOMAIN watches'
      BY <2>1 DEF Maps
    <3> QED BY <1>1, <2>1, <3>1 DEF Located, IsDirectory
  <2> QED BY <2>1, <2>2, <2>3, <2>4 DEF IInv
<1>13. ASSUME e.wd \in DOMAIN watches, HandleKnown(e)
       PROVE  IInv'
  <2>1. \/ /\ e.kind # "ignored" /\ UNCHANGED <<kernelVars, mapVars>>
           /\ loop' \in {loop, "vanished"}
           /\ \A j \in jobs' : j \in jobs \/ j \in {job("upload"), job("delete")}
        \/ e.kind # "ignored" /\ watchNewDirectory(path, entry) /\ jobs' = jobs
        \/ e.kind = "ignored" /\ HandleIgnored(e.wd)
    BY <1>13, HandleCases
  <2> HIDE DEF path, entry, job
  <2> QED BY <1>10, <1>11, <1>12, <1>13, <2>1
<1> QED BY <1>2, <1>3, <1>9, <1>13 DEF e

-----------------------------------------------------------------------------
(* The invariant, and what follows from it                                 *)

\* What is below a path, within the bound on its length, is a path.
LEMMA BelowTyped ==
    ASSUME NEW D \in SUBSET Seq(AnyName), \A d \in D : Len(d) \in 1..MaxDepth,
           NEW p \in Below(D)
    PROVE  p \in Seq(AnyName) /\ Len(p) \in 1..MaxDepth
<1> DEFINE tails == UNION {[1..n -> Name] : n \in 0..MaxDepth}
<1>1. p \in {d \o s : d \in D, s \in tails} /\ Len(p) <= MaxDepth
  BY DEF Below
<1>2. PICK d \in D, s \in tails : p = d \o s
  BY <1>1
<1>3. PICK n \in 0..MaxDepth : s \in [1..n -> Name]
  BY <1>2
<1>4. n \in Nat /\ Name \subseteq AnyName
  BY FileSystemAssumption DEF AnyName
<1>5. s \in Seq(AnyName)
  <2>1. s \in [1..n -> AnyName]
    BY <1>3, <1>4
  <2> QED BY <1>4, <2>1, SeqDef
<1>6. d \in Seq(AnyName) /\ Len(d) \in 1..MaxDepth
  OBVIOUS
<1>7. p \in Seq(AnyName) /\ Len(p) = Len(d) + Len(s)
  BY <1>2, <1>5, <1>6
<1> QED BY <1>1, <1>5, <1>6, <1>7, FileSystemAssumption

\* Before anything is watched.
LEMMA InitIInv ==
    ASSUME Init
    PROVE  IInv
<1>1. /\ roots \in Configs
      /\ roots \in Seq(Seq(STRING))
      /\ \A k \in DOMAIN roots : roots[k] # <<>> /\ Len(dir(roots[k])) \in 1..MaxDepth
  BY WatchAssumption DEF Init
<1>2. \A k \in DOMAIN roots : roots[k] \in Path /\ dir(roots[k]) \in Seq(AnyName)
  <2> SUFFICES ASSUME NEW k \in DOMAIN roots
               PROVE  roots[k] \in Path /\ dir(roots[k]) \in Seq(AnyName)
    OBVIOUS
  <2>1. roots[k] \in Seq(STRING)
    BY <1>1
  <2>2. roots[k] \in Seq(AnyName)
    BY <2>1, SeqMonotonic DEF AnyName
  <2> QED BY <1>1, <2>2, dirTyped DEF Path
<1> DEFINE dirs == {dir(root) : root \in Range(roots)}
<1>3. dirs \subseteq Seq(AnyName) /\ \A d \in dirs : Len(d) \in 1..MaxDepth
  BY <1>1, <1>2 DEF Range
<1> HIDE DEF dirs
<1>a. PICK there \in SUBSET Below(dirs) : tree \in [there -> Ino] /\ IsInjective(tree)
  BY DEF Init, FsInit, dirs
<1>b. there \subseteq Seq(AnyName) /\ \A p \in there : Len(p) \in 1..MaxDepth
  BY <1>3, <1>a, BelowTyped
<1>4. /\ tree \in [there -> Ino] /\ IsInjective(tree)
      /\ files = {} /\ wdOf = [i \in Ino |-> 0] /\ nextWd = 1 /\ events = <<>>
  BY <1>a DEF Init, FsInit
<1>5. /\ watches = <<>> /\ paths = <<>> /\ watchToConfig = <<>> /\ buffer = <<>>
      /\ scan = [k \in DOMAIN roots |->
                   [step |-> "watch", path |-> roots[k], entry |-> roots[k]]]
      /\ loop = "scanning" /\ jobs = {}
  BY DEF Init
<1>6. Maps
  <2>1. /\ wdOf \in [Ino -> 0..(nextWd - 1)] /\ nextWd \in Nat \ {0}
        /\ \A i \in Ino : wdOf[i] = 0
    BY <1>4
  <2>2. /\ events \in Seq(Event) /\ Len(events) = 0
    BY <1>4, EmptySeq
  <2>3. DOMAIN watches = {} /\ DOMAIN watchToConfig = {}
    BY <1>5
  <2> QED BY <2>1, <2>2, <2>3, FileSystemAssumption DEF Maps, MapsAgree, Distinct
<1>7. /\ scan \in Seq(Item)
      /\ \A k \in DOMAIN scan : scan[k].entry \in Range(roots) /\ scan[k].path = scan[k].entry
                              /\ scan[k].entry \in Path
  <2>1. DOMAIN roots = 1..Len(roots) /\ Len(roots) \in Nat
    BY <1>1
  <2>2. \A k \in DOMAIN roots :
           [step |-> "watch", path |-> roots[k], entry |-> roots[k]] \in Item
    BY <1>2 DEF Item
  <2> QED BY <1>2, <1>5, <2>1, <2>2 DEF Range
<1>8. Rest
  <2>1. buffer \in Seq(Event) /\ Len(buffer) = 0
    BY <1>5, EmptySeq
  <2> QED BY <1>1, <1>b, <1>4, <1>5, <1>7, <2>1, WatchAssumption DEF Rest, IsInjective
<1>9. Follows
  <2>1. coming = <<>>
    <3>1. <<>> \in Seq(Event)
      BY EmptySeq
    <3> QED BY <1>4, <1>5, <3>1, ConcatEmptySeq DEF coming
  <2>2. DOMAIN watches = {}
    BY <1>5
  <2> QED BY <2>1, <2>2 DEF Follows, Coherent, Exact
<1>10. Located
  <2>1. ASSUME NEW k \in DOMAIN scan
        PROVE  IsPrefix(dir(scan[k].entry), dir(scan[k].path))
    <3>1. dir(scan[k].entry) \in Seq(AnyName)
      BY <1>7, dirTyped
    <3>2. IsPrefix(dir(scan[k].entry), dir(scan[k].entry))
      BY <3>1, PrefixFacts
    <3> QED BY <1>7, <3>2
  <2> QED BY <1>4, <1>5, <2>1 DEF Located
<1> QED BY <1>5, <1>6, <1>8, <1>9, <1>10 DEF IInv, OnlyKnownWatches

\* Every step keeps the invariant.
LEMMA NextIInv ==
    ASSUME IInv, [Next]_vars
    PROVE  IInv'
<1>1. CASE UNCHANGED vars
  <2>1. /\ UNCHANGED <<tree, files, wdOf, nextWd, events>>
        /\ UNCHANGED <<watches, paths, watchToConfig>>
        /\ UNCHANGED <<roots, buffer, scan, loop, jobs, moved>>
    BY <1>1 DEF vars, fsVars, kernelVars, mapVars
  <2>2. Maps'
    BY <2>1 DEF IInv, Maps, MapsAgree, Distinct
  <2>3. Rest' /\ Follows' /\ OnlyKnownWatches'
    BY <2>1 DEF IInv, Rest, Follows, coming, OnlyKnownWatches
  <2>4. Located'
    BY <2>1 DEF IInv, Located, IsDirectory
  <2> QED BY <2>2, <2>3, <2>4 DEF IInv
<1> QED BY <1>1, ScanWatchStep, ScanListStep, ScanDoneStep, ReadEventsStep,
           HandleEventStep, DisturbStep DEF Next, Daemon

\* The invariant that everything else here follows from.
THEOREM WatchInvariant == Spec => []IInv
<1>1. Init => IInv
  BY InitIInv
<1>2. IInv /\ [Next]_vars => IInv'
  BY NextIInv
<1> QED BY <1>1, <1>2, PTL DEF Spec

\* The variables stay in their types: the queue of the kernel never holds more
\* than its limit and one overflow event, and a descriptor is never one that the
\* kernel has not given out (inotify.hpp:184-285).
THEOREM TypesHold == Spec => []TypeOK
<1>1. IInv => TypeOK
  BY DEF IInv, Maps, Rest, TypeOK
<1> QED BY <1>1, WatchInvariant, PTL

\* The three maps that the daemon keeps by hand agree after every step
\* (inotify.hpp:184-210, mainProcess.cpp:40-41, 121-127).
THEOREM MapsStayTogether == Spec => []MapsAgree
<1>1. IInv => MapsAgree
  BY DEF IInv, Maps
<1> QED BY <1>1, WatchInvariant, PTL

\* Until the queue overflows the maps differ from the kernel's watches by the
\* IN_IGNORED events that are still to come, and by nothing else
\* (inotify.hpp:59-62, 184-285).
THEOREM MapsFollowKernel == Spec => []FollowsKernel
<1>1. ASSUME IInv
      PROVE  FollowsKernel
  <2> SUFFICES ASSUME loop # "overflowed", Overflow \notin Range(coming)
               PROVE  /\ DOMAIN watches =
                            {wdOf[i] : i \in {h \in Ino : wdOf[h] # 0}}
                               \cup {e.wd : e \in {d \in Range(coming) : d.kind = "ignored"}}
                      /\ \A k, m \in DOMAIN coming :
                            /\ coming[k].wd \in DOMAIN watches
                            /\ coming[k].kind = "ignored" =>
                                  /\ \A i \in Ino : wdOf[i] # coming[k].wd
                                  /\ m > k => coming[m].wd # coming[k].wd
    BY DEF FollowsKernel, coming
  <2>1. /\ Maps /\ Rest /\ coming \in Seq(Event)
        /\ Coherent(coming, wdOf, DOMAIN watches)
        /\ Exact(coming, wdOf, DOMAIN watches)
    BY <1>1, ConcatProperties DEF IInv, Follows, coming, Maps, Rest
  <2> HIDE DEF coming
  <2>2. \A k \in DOMAIN coming : Heard(coming, k)
    <3>1. DOMAIN coming = 1..Len(coming) /\ Len(coming) \in Nat
      BY <2>1
    <3>2. \A k \in DOMAIN coming : coming[k] # Overflow
      BY DEF Range
    <3> QED BY <3>1, <3>2 DEF Heard
  <2>3. \A k, m \in DOMAIN coming :
           /\ coming[k].wd \in DOMAIN watches
           /\ coming[k].kind = "ignored" =>
                 /\ \A i \in Ino : wdOf[i] # coming[k].wd
                 /\ m > k => coming[m].wd # coming[k].wd
    BY <2>1, <2>2 DEF Coherent
  <2>4. ASSUME NEW x \in DOMAIN watches
        PROVE  \/ \E i \in Ino : wdOf[i] # 0 /\ x = wdOf[i]
               \/ \E d \in Range(coming) : d.kind = "ignored" /\ x = d.wd
    <3>1. x # 0
      BY <2>1 DEF Maps
    <3>2. \/ \E i \in Ino : wdOf[i] = x
          \/ \E k \in DOMAIN coming : coming[k].wd = x /\ coming[k].kind = "ignored"
      BY <2>1 DEF Exact
    <3> QED BY <3>1, <3>2 DEF Range
  <2>5. \A i \in Ino : wdOf[i] # 0 => wdOf[i] \in DOMAIN watches
    BY <2>1 DEF Maps
  <2>6. \A d \in Range(coming) : d.wd \in DOMAIN watches
    BY <2>3 DEF Range
  <2> QED BY <2>3, <2>4, <2>5, <2>6
<1> QED BY <1>1, WatchInvariant, PTL

\* The comment of mainProcess.cpp:124 is right: unless the queue overflowed, the
\* loop never meets an event of a watch that it does not know.
THEOREM NoUnknownWatch == Spec => []OnlyKnownWatches
<1>1. IInv => OnlyKnownWatches
  BY DEF IInv
<1> QED BY <1>1, WatchInvariant, PTL

\* As long as no directory is renamed, each watch is where its path says, and
\* each job is for the entry that its file is under (mainProcess.cpp:33-62,
\* 121-180).
THEOREM PathsStayCurrent == Spec => []PathsCurrent
<1>1. ASSUME IInv
      PROVE  PathsCurrent
  <2>1. \A i \in Ino : wdOf[i] # 0 => wdOf[i] \in DOMAIN watches
    BY <1>1 DEF IInv, Maps
  <2> QED BY <1>1, <2>1 DEF IInv, Located, PathsCurrent
<1> QED BY <1>1, WatchInvariant, PTL

=============================================================================
