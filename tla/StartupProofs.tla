--------------------------- MODULE StartupProofs ---------------------------
(***************************************************************************)
(* Theorems about Startup, for every set of configuration files, every     *)
(* order in which they are read, every number of login coroutines and every*)
(* combination of faults; and that Startup implements Barrier.             *)
(***************************************************************************)
EXTENDS Startup, FiniteSetTheorems, SequenceTheorems, TLAPS

-----------------------------------------------------------------------------
(* Sequences and counting                                                  *)

\* A set of positions that has, with each position, all those before it, is the
\* interval that its cardinality gives.
LEMMA InitialSegment ==
    ASSUME NEW n \in Nat, NEW S \in SUBSET (1..n),
           \A i \in S, j \in 1..n : j < i => j \in S
    PROVE  Cardinality(S) \in 0..n /\ S = 1..Cardinality(S)
<1>1. IsFiniteSet(1..n) /\ Cardinality(1..n) = n
  BY FS_Interval
<1>2. IsFiniteSet(S) /\ Cardinality(S) \in Nat /\ Cardinality(S) <= n
  BY <1>1, FS_Subset, FS_CardinalityType
<1>3. ASSUME NEW i \in S
      PROVE  i \in 1..Cardinality(S)
  <2>1. 1..i \in SUBSET S
    OBVIOUS
  <2>2. Cardinality(1..i) <= Cardinality(S)
    BY <1>2, <2>1, FS_Subset
  <2>3. Cardinality(1..i) = i
    BY FS_Interval
  <2> QED BY <1>2, <2>2, <2>3
<1>4. IsFiniteSet(1..Cardinality(S)) /\ Cardinality(1..Cardinality(S)) = Cardinality(S)
  BY <1>2, FS_Interval
<1>5. S = 1..Cardinality(S)
  BY <1>3, <1>4, FS_Subset
<1> QED BY <1>2, <1>5

\* What a sequence is after something is inserted at position i.
LEMMA InsertAtFacts ==
    ASSUME NEW S, NEW s \in Seq(S), NEW i \in 1..(Len(s) + 1), NEW x \in S
    PROVE  /\ InsertAt(s, i, x) \in Seq(S)
           /\ Len(InsertAt(s, i, x)) = Len(s) + 1
           /\ \A k \in 1..(Len(s) + 1) :
                 InsertAt(s, i, x)[k] =
                    IF k < i THEN s[k] ELSE IF k = i THEN x ELSE s[k - 1]
<1> DEFINE a == SubSeq(s, 1, i - 1)
           b == SubSeq(s, i, Len(s))
<1>1. /\ a \in Seq(S) /\ Len(a) = i - 1
      /\ \A k \in 1..(i - 1) : a[k] = s[k]
  BY SubSeqProperties
<1>2. /\ b \in Seq(S) /\ Len(b) = Len(s) - i + 1
      /\ \A k \in 1..(Len(s) - i + 1) : b[k] = s[i + k - 1]
  BY SubSeqProperties
<1> HIDE DEF a, b
<1>3. /\ a \o <<x>> \in Seq(S)
      /\ Len(a \o <<x>>) = i
      /\ \A k \in 1..i : (a \o <<x>>)[k] = IF k < i THEN s[k] ELSE x
  BY <1>1, ConcatProperties
<1> DEFINE c == a \o <<x>>
<1> HIDE DEF c
<1>4. /\ c \in Seq(S) /\ Len(c) = i
      /\ \A k \in 1..i : c[k] = IF k < i THEN s[k] ELSE x
  BY <1>3 DEF c
<1>5. /\ c \o b \in Seq(S)
      /\ Len(c \o b) = Len(s) + 1
      /\ \A k \in 1..(Len(c) + Len(b)) :
            (c \o b)[k] = IF k <= Len(c) THEN c[k] ELSE b[k - Len(c)]
  BY <1>2, <1>4, ConcatProperties
<1>6. ASSUME NEW k \in 1..(Len(s) + 1)
      PROVE  (c \o b)[k] = IF k < i THEN s[k] ELSE IF k = i THEN x ELSE s[k - 1]
  <2>1. CASE k <= i
    BY <2>1, <1>2, <1>4, <1>5
  <2>2. CASE ~(k <= i)
    <3>1. /\ (c \o b)[k] = b[k - i]
          /\ k - i \in 1..(Len(s) - i + 1)
      BY <2>2, <1>2, <1>4, <1>5
    <3>2. b[k - i] = s[i + (k - i) - 1]
      BY <3>1, <1>2
    <3> QED BY <2>2, <3>1, <3>2
  <2> QED BY <2>1, <2>2
<1>7. InsertAt(s, i, x) = c \o b
  BY DEF InsertAt, a, b, c
<1> QED BY <1>5, <1>6, <1>7

\* A coroutine that is done is one less of those that are not.
LEMMA OneLess ==
    ASSUME NEW S, IsFiniteSet(S), NEW f, DOMAIN f = S, NEW i \in S, f[i] # "done",
           NEW g, g = [f EXCEPT ![i] = "done"]
    PROVE  /\ IsFiniteSet({k \in S : f[k] # "done"})
           /\ Cardinality({k \in S : f[k] # "done"}) \in Nat \ {0}
           /\ Cardinality({k \in S : g[k] # "done"}) =
                 Cardinality({k \in S : f[k] # "done"}) - 1
<1> DEFINE A == {k \in S : f[k] # "done"}
           B == {k \in S : g[k] # "done"}
<1>1. B = A \ {i} /\ i \in A /\ A \in SUBSET S
  OBVIOUS
<1> HIDE DEF A, B
<1>2. IsFiniteSet(A) /\ Cardinality(A) \in Nat
  BY <1>1, FS_Subset, FS_CardinalityType
<1>3. Cardinality(B) = Cardinality(A) - 1
  BY <1>1, <1>2, FS_RemoveElement
<1>4. Cardinality(A) # 0
  BY <1>1, <1>2, FS_EmptySet
<1> QED BY <1>2, <1>3, <1>4 DEF A, B

-----------------------------------------------------------------------------
(* The configuration                                                       *)

\* ConfigInOrder as an induction needs it: a file that is an entry is not read
\* again, and whether a search finds something follows from the order.
InOrder ==
    /\ IsInjective(entries)
    /\ \A i, j \in DOMAIN entries :
          i < j => local_dir[entries[i]] <= local_dir[entries[j]]
    /\ Range(entries) \cap unread = {}

\* In sorted entries, lower_bound is the first that is not less.
LEMMA LowerBound ==
    ASSUME ConfigTypeOK, InOrder, NEW d \in Nat
    PROVE  /\ lower_bound(d) \in 1..(Len(entries) + 1)
           /\ \A i \in 1..Len(entries) :
                 i < lower_bound(d) <=> local_dir[entries[i]] < d
<1> DEFINE S == {i \in DOMAIN entries : local_dir[entries[i]] < d}
<1>1. /\ Len(entries) \in Nat
      /\ DOMAIN entries = 1..Len(entries)
      /\ \A i \in 1..Len(entries) : local_dir[entries[i]] \in Nat
  BY ConfigAssumption DEF ConfigTypeOK
<1>2. S \in SUBSET (1..Len(entries))
  BY <1>1
<1>3. \A i \in S, j \in 1..Len(entries) : j < i => j \in S
  BY <1>1 DEF InOrder
<1>4. \A i \in 1..Len(entries) : i \in S <=> local_dir[entries[i]] < d
  BY <1>1
<1>5. lower_bound(d) = Cardinality(S) + 1
  BY DEF lower_bound
<1> HIDE DEF S
<1>6. Cardinality(S) \in 0..Len(entries) /\ S = 1..Cardinality(S)
  BY <1>1, <1>2, <1>3, InitialSegment
<1>7. \A i \in 1..Len(entries) : i < lower_bound(d) <=> i \in S
  BY <1>1, <1>5, <1>6
<1> QED BY <1>1, <1>4, <1>5, <1>6, <1>7

\* An entry is found by its local_dir, if the entries are in order.
LEMMA SearchFinds ==
    ASSUME ConfigTypeOK, InOrder
    PROVE  ConfigInOrder
<1>1. ASSUME NEW f \in Range(entries)
      PROVE  /\ lower_bound(local_dir[f]) <= Len(entries)
             /\ local_dir[getEntryByPath(local_dir[f])] = local_dir[f]
  <2> DEFINE d == local_dir[f]
             b == lower_bound(d)
  <2>1. PICK k \in 1..Len(entries) : entries[k] = f
    BY DEF Range, ConfigTypeOK
  <2>2. /\ Len(entries) \in Nat
        /\ DOMAIN entries = 1..Len(entries)
        /\ \A i \in 1..Len(entries) : local_dir[entries[i]] \in Nat
    BY ConfigAssumption DEF ConfigTypeOK
  <2>3. d \in Nat
    BY <2>1, <2>2
  <2>4. /\ b \in 1..(Len(entries) + 1)
        /\ \A i \in 1..Len(entries) : i < b <=> local_dir[entries[i]] < d
    BY <2>3, LowerBound
  <2>5. getEntryByPath(d) = entries[b]
    BY DEF getEntryByPath
  <2>6. ~(k < b)
    BY <2>1, <2>2, <2>3, <2>4
  <2> HIDE DEF b
  <2>7. b <= k /\ b \in 1..Len(entries)
    BY <2>2, <2>4, <2>6
  <2>8. ~(local_dir[entries[b]] < d)
    BY <2>4, <2>7
  <2>9. local_dir[entries[b]] <= local_dir[entries[k]]
    BY <2>2, <2>7 DEF InOrder
  <2> QED BY <2>1, <2>2, <2>5, <2>7, <2>8, <2>9 DEF b
<1> QED BY <1>1 DEF ConfigInOrder, InOrder

\* Reading a file keeps the entries in order, whatever is wrong with it.
LEMMA ReadingKeepsOrder ==
    ASSUME ConfigTypeOK, InOrder, NEW f \in unread, readFile(f) \/ readFileFails(f)
    PROVE  /\ ConfigTypeOK' /\ InOrder'
           /\ Range(entries) \subseteq Range(entries')
           /\ Len(entries) <= Len(entries')
<1>1. CASE UNCHANGED entries
  BY <1>1 DEF readFile, readFileFails, ConfigTypeOK, InOrder, Range, IsInjective
<1>2. CASE loads(f) /\ addEntry(f) /\ unread' = unread \ {f} /\ UNCHANGED disk
  <2> DEFINE b == lower_bound(local_dir[f])
             n == Len(entries)
             t == entries'
  <2>1. /\ n \in Nat
        /\ DOMAIN entries = 1..n
        /\ f \in ConfigFile
        /\ local_dir \in [ConfigFile -> Nat]
        /\ entries \in Seq(ConfigFile)
        /\ \A i \in 1..n : entries[i] \in ConfigFile
    BY ConfigAssumption DEF ConfigTypeOK
  <2>2. /\ b \in 1..(n + 1)
        /\ \A i \in 1..n : i < b <=> local_dir[entries[i]] < local_dir[f]
    BY <2>1, LowerBound
  <2>3. t = InsertAt(entries, b, f)
    BY <1>2 DEF addEntry
  <2> HIDE DEF b, n, t
  <2>4. /\ t \in Seq(ConfigFile)
        /\ Len(t) = n + 1
        /\ \A k \in 1..(n + 1) :
              t[k] = IF k < b THEN entries[k] ELSE IF k = b THEN f ELSE entries[k - 1]
    <3>1. b \in 1..(Len(entries) + 1)
      BY <2>2 DEF n
    <3>2. /\ InsertAt(entries, b, f) \in Seq(ConfigFile)
          /\ Len(InsertAt(entries, b, f)) = Len(entries) + 1
          /\ \A k \in 1..(Len(entries) + 1) :
                InsertAt(entries, b, f)[k] =
                   IF k < b THEN entries[k] ELSE IF k = b THEN f ELSE entries[k - 1]
      <4>1. entries \in Seq(ConfigFile) /\ f \in ConfigFile
        BY <2>1
      <4>2. ASSUME NEW i \in 1..(Len(entries) + 1)
            PROVE  /\ InsertAt(entries, i, f) \in Seq(ConfigFile)
                   /\ Len(InsertAt(entries, i, f)) = Len(entries) + 1
                   /\ \A k \in 1..(Len(entries) + 1) :
                         InsertAt(entries, i, f)[k] =
                            IF k < i THEN entries[k] ELSE IF k = i THEN f ELSE entries[k - 1]
        <5>1. InsertAt(entries, i, f) \in Seq(ConfigFile)
          BY <4>1, InsertAtFacts
        <5>2. Len(InsertAt(entries, i, f)) = Len(entries) + 1
          BY <4>1, InsertAtFacts
        <5>3. \A k \in 1..(Len(entries) + 1) :
                 InsertAt(entries, i, f)[k] =
                    IF k < i THEN entries[k] ELSE IF k = i THEN f ELSE entries[k - 1]
          BY <4>1, InsertAtFacts
        <5> QED BY <5>1, <5>2, <5>3
      <4> QED BY <3>1, <4>2
    <3> QED BY <2>3, <3>2 DEF n
  <2>5. /\ DOMAIN t = 1..(n + 1)
        /\ \A k \in 1..(n + 1) : k < b => k \in 1..n /\ t[k] = entries[k]
        /\ \A k \in 1..(n + 1) : k > b => k - 1 \in 1..n /\ t[k] = entries[k - 1]
        /\ t[b] = f
    BY <2>1, <2>2, <2>4
  <2>6. \A i \in 1..n : entries[i] # f
    BY <2>1 DEF InOrder, Range
  <2>7. \A i, j \in 1..n : entries[i] = entries[j] => i = j
    BY <2>1 DEF InOrder, IsInjective
  <2>8. \A i, j \in 1..n : i < j => local_dir[entries[i]] <= local_dir[entries[j]]
    BY <2>1 DEF InOrder
  <2>9. ASSUME NEW i \in 1..(n + 1), NEW j \in 1..(n + 1), t[i] = t[j]
        PROVE  i = j
    <3>1. CASE i < b
      <4>1. i \in 1..n /\ t[i] = entries[i]
        BY <3>1, <2>5
      <4>2. CASE j < b
        BY <4>1, <4>2, <2>5, <2>7, <2>9
      <4>3. CASE j = b
        BY <4>1, <4>3, <2>5, <2>6, <2>9
      <4>4. CASE j > b
        <5>1. i = j - 1
          <6>1. j - 1 \in 1..n /\ t[j] = entries[j - 1]
            BY <4>4, <2>5
          <6>2. entries[i] = entries[j - 1]
            BY <4>1, <6>1, <2>9
          <6> QED BY <4>1, <6>1, <6>2, <2>7
        <5> QED BY <5>1, <4>4, <3>1, <2>1, <2>2
      <4> QED BY <4>2, <4>3, <4>4, <2>2
    <3>2. CASE i = b
      BY <3>2, <2>1, <2>5, <2>6, <2>9
    <3>3. CASE i > b
      <4>1. CASE j > b
        <5>1. i - 1 = j - 1
          <6>1. i - 1 \in 1..n /\ t[i] = entries[i - 1]
            BY <3>3, <2>5
          <6>2. j - 1 \in 1..n /\ t[j] = entries[j - 1]
            BY <4>1, <2>5
          <6>3. entries[i - 1] = entries[j - 1]
            BY <6>1, <6>2, <2>9
          <6> QED BY <6>1, <6>2, <6>3, <2>7
        <5> QED BY <5>1
      <4>2. CASE ~(j > b)
        <5>1. i - 1 \in 1..n /\ t[i] = entries[i - 1]
          BY <3>3, <2>5
        <5>2. CASE j = b
          BY <5>1, <5>2, <2>5, <2>6, <2>9
        <5>3. CASE j < b
          <6>1. i - 1 = j
            <7>1. j \in 1..n /\ t[j] = entries[j]
              BY <5>3, <2>5
            <7>2. entries[i - 1] = entries[j]
              BY <5>1, <7>1, <2>9
            <7> QED BY <5>1, <7>1, <7>2, <2>7
          <6> QED BY <6>1, <5>3, <3>3, <2>1, <2>2
        <5> QED BY <4>2, <5>2, <5>3, <2>2
      <4> QED BY <4>1, <4>2
    <3> QED BY <3>1, <3>2, <3>3, <2>2
  <2>10. ASSUME NEW i \in 1..(n + 1), NEW j \in 1..(n + 1), i < j
         PROVE  local_dir[t[i]] <= local_dir[t[j]]
    <3>1. CASE i < b /\ j < b
      BY <3>1, <2>1, <2>5, <2>8, <2>10
    <3>2. CASE i < b /\ j = b
      BY <3>2, <2>1, <2>2, <2>4
    <3>3. CASE i < b /\ j > b
      <4>1. i \in 1..n /\ j - 1 \in 1..n /\ (i < j - 1 \/ i = j - 1)
        BY <3>3, <2>1, <2>2
      <4> QED BY <3>3, <4>1, <2>1, <2>2, <2>4, <2>8
    <3>4. CASE i = b
      <4>1. j - 1 \in 1..n /\ ~(j - 1 < b) /\ t[i] = f /\ t[j] = entries[j - 1]
        BY <3>4, <2>1, <2>2, <2>4, <2>10
      <4>2. ~(local_dir[entries[j - 1]] < local_dir[f])
        BY <4>1, <2>2
      <4> QED BY <4>1, <4>2, <2>1
    <3>5. CASE i > b
      <4>1. /\ i - 1 \in 1..n /\ t[i] = entries[i - 1]
            /\ j - 1 \in 1..n /\ t[j] = entries[j - 1]
            /\ i - 1 < j - 1
        BY <3>5, <2>1, <2>2, <2>5, <2>10
      <4> QED BY <4>1, <2>8
    <3> QED BY <3>1, <3>2, <3>3, <3>4, <3>5, <2>2, <2>10
  <2>11. \A k \in 1..(n + 1) : t[k] = f \/ \E i \in 1..n : t[k] = entries[i]
    BY <2>2, <2>5
  <2>12. \A i \in 1..n : \E k \in 1..(n + 1) : t[k] = entries[i]
    <3> SUFFICES ASSUME NEW i \in 1..n
                 PROVE  \E k \in 1..(n + 1) : t[k] = entries[i]
      OBVIOUS
    <3>1. i \in 1..(n + 1) /\ i + 1 \in 1..(n + 1)
      BY <2>1
    <3>2. i < b => t[i] = entries[i]
      BY <2>5, <3>1
    <3>3. ~(i < b) => t[i + 1] = entries[i]
      <4>1. ~(i < b) => i + 1 > b /\ (i + 1) - 1 = i
        BY <2>1, <2>2
      <4> QED BY <2>5, <3>1, <4>1
    <3> QED BY <3>1, <3>2, <3>3
  <2>13. ConfigTypeOK'
    BY <1>2, <2>4 DEF ConfigTypeOK, t
  <2>14. Range(t) \cap unread' = {}
    <3> SUFFICES ASSUME NEW k \in 1..(n + 1)
                 PROVE  t[k] \notin unread'
      BY <2>5 DEF Range
    <3>1. unread' = unread \ {f}
      BY <1>2
    <3>2. \A i \in 1..n : entries[i] \notin unread
      BY <2>1 DEF Range, InOrder
    <3> QED BY <2>11, <3>1, <3>2
  <2>15. Range(entries) \subseteq Range(t)
    BY <2>1, <2>5, <2>12 DEF Range
  <2>16. IsInjective(t)
    BY <2>5, <2>9 DEF IsInjective
  <2>17. InOrder'
    BY <2>5, <2>10, <2>14, <2>16 DEF InOrder, t
  <2> QED BY <2>1, <2>4, <2>13, <2>15, <2>17 DEF t, n
<1> QED BY <1>1, <1>2 DEF readFile, readFileFails

-----------------------------------------------------------------------------
(* The inductive invariant                                                 *)

\* What is not there yet before the main coroutine is spawned, and where each
\* group of coroutines may be at each stage of it.
Stage ==
    /\ main = "config" => listed = 0 /\ accounts = {} /\ syncWorkers = 0
    /\ \A i \in Login : loginPc[i] = "none" <=> main \in {"config", "unwatched"}
    /\ main \in {"login", "list", "unwatched"} => \A e \in Entry : syncPc[e] = "none"
    /\ main \in {"config", "login", "list", "unwatched"} => syncTimer = "armed"
    /\ main = "sync" => \A e \in Entry : syncPc[e] # "none"

\* A login coroutine has the accounts of all the entries before its own; one that
\* is done has them all.
Progress ==
    \A i \in Login :
       /\ loginPc[i] \in {"write", "read"} =>
             /\ loginNext[i] \in Entry
             /\ \A e \in 1..(loginNext[i] - 1) : usernameOf(e) \in accounts
       /\ loginPc[i] = "done" => \A e \in Entry : usernameOf(e) \in accounts

\* Nobody waits for the login any more once it is over.
LoginOver == LoggedIn => loginWorkers = 0

\* --create-sample goes no further than its file.
Sampling ==
    command = "create-sample" =>
       /\ main = "config"
       /\ process = "up" => disk = content
       /\ process = "exited" => \E f \in ConfigFile : content[f] = NoFile /\ loads(f)

\* What holds in every reachable state.
IInv ==
    /\ TypeOK /\ InOrder /\ Stage
    /\ WokenByTheLast /\ Progress /\ LoginOver /\ Sampling

-----------------------------------------------------------------------------
(* Steps                                                                   *)

\* Initially there is nothing.
LEMMA InitHolds ==
    ASSUME Init
    PROVE  IInv
<1> USE ConfigAssumption, ConstantsAssumption
<1>1. TypeOK
  <2>1. entries \in Seq(ConfigFile) /\ N = 0
    BY DEF Init, ConfigInit, N
  <2> QED BY <2>1 DEF Init, ConfigInit, TypeOK, ConfigTypeOK, Process, Timer
<1>2. InOrder
  BY DEF Init, ConfigInit, InOrder, IsInjective, Range
<1>3. Stage
  BY DEF Init, Stage
<1>4. WokenByTheLast
  <2>1. {i \in Login : loginPc[i] # "done"} = 1..NLogins
    BY DEF Init, Login
  <2>2. Cardinality(1..NLogins) = NLogins
    BY FS_Interval
  <2> QED BY <2>1, <2>2 DEF Init, WokenByTheLast
<1>5. Progress /\ LoginOver /\ Sampling
  BY DEF Init, ConfigInit, Progress, LoginOver, LoggedIn, Sampling
<1> QED BY <1>1, <1>2, <1>3, <1>4, <1>5 DEF IInv

\* The end of the process changes nothing else.
LEMMA OnlyEnds ==
    ASSUME IInv, process' \in Process \ {"up"}, process' = "exited" => main # "config",
           UNCHANGED <<startVars, main, loginVars, listed, syncVars>>
    PROVE  IInv'
<1> USE DEF startVars, configVars, loginVars, syncVars
<1>1. TypeOK'
  BY DEF IInv, TypeOK, ConfigTypeOK, Entry, N, usernameOf
<1>2. InOrder' /\ Stage' /\ WokenByTheLast' /\ Progress' /\ LoginOver'
  BY DEF IInv, InOrder, Stage, WokenByTheLast, Progress, LoginOver, LoggedIn, Entry, N,
         usernameOf
<1>3. Sampling'
  BY DEF IInv, Sampling, Process
<1> QED BY <1>1, <1>2, <1>3 DEF IInv

\* A sample is written, or refused.
LEMMA CreateSampleStep ==
    ASSUME IInv, process = "up", CreateSample
    PROVE  IInv'
<1> USE ConfigAssumption
<1>1. PICK f \in ConfigFile : \/ SampleWritten(f) /\ process' = "exited"
                              \/ SampleRefused(f) /\ process' = "refused"
  BY DEF CreateSample
<1>2. UNCHANGED <<command, main, loginVars, listed, syncVars, unread, entries>>
  BY <1>1 DEF CreateSample, SampleWritten, SampleRefused
<1>3. sample(f) \in Text
  BY DEF sample, Text, SampleKeys
<1>4. ConfigTypeOK'
  BY <1>1, <1>2, <1>3 DEF IInv, TypeOK, ConfigTypeOK, SampleWritten, SampleRefused
<1>5. TypeOK'
  BY <1>1, <1>2, <1>4 DEF IInv, TypeOK, Entry, N, usernameOf, loginVars, syncVars, Process
<1>6. InOrder' /\ Stage' /\ WokenByTheLast' /\ Progress' /\ LoginOver'
  BY <1>2 DEF IInv, InOrder, Stage, WokenByTheLast, Progress, LoginOver, LoggedIn, Entry, N,
         usernameOf, loginVars, syncVars
<1>7. Sampling'
  <2>1. disk = content /\ main = "config"
    BY DEF IInv, Sampling, CreateSample
  <2>2. CASE SampleWritten(f) /\ process' = "exited"
    <3>1. disk'[f] = sample(f) /\ content[f] = NoFile /\ writes(f)
      BY <2>1, <2>2 DEF SampleWritten
    <3>2. parsed(f)
      BY <3>1 DEF writes, parsed
    <3>3. loads(f)'
      <4>1. sample(f) # NoFile
        BY <1>3
      <4>2. /\ sample(f).wellFormed /\ sample(f).patterns
            /\ Required \subseteq sample(f).keys
        BY <3>2 DEF sample, SampleKeys
      <4> QED BY <3>1, <3>2, <4>1, <4>2 DEF loads, parsed
    <3> QED BY <1>2, <2>1, <2>2, <3>1, <3>3 DEF Sampling
  <2>3. CASE SampleRefused(f) /\ process' = "refused"
    BY <1>2, <2>1, <2>3 DEF Sampling
  <2> QED BY <1>1, <2>2, <2>3
<1> QED BY <1>5, <1>6, <1>7 DEF IInv

\* A configuration file is read, or is not.
LEMMA ReadConfigFileStep ==
    ASSUME IInv, process = "up", ReadConfigFile
    PROVE  IInv'
<1>1. PICK f \in unread : readFile(f) \/ readFileFails(f)
  BY DEF ReadConfigFile
<1>2. /\ UNCHANGED <<command, main, process, loginVars, listed, syncVars>>
      /\ main = "config" /\ command # "create-sample"
  BY DEF ReadConfigFile
<1>3. /\ ConfigTypeOK' /\ InOrder'
      /\ Len(entries) <= Len(entries')
  BY <1>1, ReadingKeepsOrder DEF IInv, TypeOK
<1>4. TypeOK'
  BY <1>2, <1>3 DEF IInv, TypeOK, Stage, Entry, N, loginVars, syncVars, ConfigTypeOK
<1>5. Stage' /\ WokenByTheLast'
  BY <1>2 DEF IInv, Stage, WokenByTheLast, loginVars, syncVars
<1>6. Progress' /\ LoginOver' /\ Sampling'
  BY <1>2 DEF IInv, Stage, Progress, LoginOver, LoggedIn, Sampling, loginVars
<1> QED BY <1>3, <1>4, <1>5, <1>6 DEF IInv

\* The main coroutine is spawned, with its login coroutines or without.
LEMMA SpawnMainStep ==
    ASSUME IInv, process = "up", SpawnMain
    PROVE  IInv'
<1> USE DEF startVars, configVars
<1>1. TypeOK'
  BY DEF IInv, TypeOK, ConfigTypeOK, SpawnMain, Entry, N, usernameOf
<1>2. InOrder' /\ Stage'
  BY DEF IInv, InOrder, Stage, SpawnMain, Entry, N, TypeOK
<1>3. WokenByTheLast'
  <2>1. {i \in Login : loginPc'[i] # "done"} = {i \in Login : loginPc[i] # "done"}
    BY DEF IInv, Stage, SpawnMain, TypeOK
  <2> QED BY <2>1 DEF IInv, WokenByTheLast, SpawnMain
<1>4. Progress' /\ LoginOver' /\ Sampling'
  BY DEF IInv, Stage, Progress, LoginOver, LoggedIn, Sampling, SpawnMain, TypeOK
<1> QED BY <1>1, <1>2, <1>3, <1>4 DEF IInv

\* The types of a login coroutine that has asked for an account, or is done.
LEMMA RequestTyped ==
    ASSUME IInv, NEW i \in Login, loginPc[i] \in {"connect", "read"},
           NEW e \in Nat \ {0}, RequestAccount(i, e)
    PROVE  /\ loginPc' \in [Login -> {"none", "connect", "write", "read", "done"}]
           /\ loginNext' \in [Login -> Nat]
           /\ loginWorkers' \in 0..NLogins
           /\ loginTimer' \in Timer
           /\ loginWorkers # 0
           /\ loginWorkers' = Cardinality({k \in Login : loginPc'[k] # "done"})
           /\ loginTimer' = "cancelled" => loginWorkers' = 0
           /\ loginTimer' = "armed" => loginWorkers' # 0
<1>1. IsFiniteSet(Login) /\ NLogins \in Nat
  BY ConstantsAssumption, FS_Interval DEF Login
<1>2. /\ loginPc \in [Login -> {"none", "connect", "write", "read", "done"}]
      /\ loginNext \in [Login -> Nat]
      /\ loginWorkers \in 0..NLogins
      /\ loginTimer \in Timer
      /\ loginWorkers = Cardinality({k \in Login : loginPc[k] # "done"})
      /\ loginTimer = "cancelled" => loginWorkers = 0
      /\ loginTimer = "armed" => loginWorkers # 0
  BY DEF IInv, TypeOK, WokenByTheLast
<1> DEFINE ended == [loginPc EXCEPT ![i] = "done"]
<1>3. /\ loginWorkers # 0
      /\ Cardinality({k \in Login : ended[k] # "done"}) = loginWorkers - 1
  <2>1. DOMAIN loginPc = Login /\ loginPc[i] # "done"
    BY <1>2
  <2> HIDE DEF ended
  <2>2. ended = [loginPc EXCEPT ![i] = "done"]
    BY DEF ended
  <2> QED BY <1>1, <1>2, <2>1, <2>2, OneLess
<1>4. CASE e <= N /\ loginPc' = [loginPc EXCEPT ![i] = "write"]
           /\ loginNext' = [loginNext EXCEPT ![i] = e]
           /\ UNCHANGED <<loginWorkers, loginTimer>>
  <2>1. {k \in Login : loginPc'[k] # "done"} = {k \in Login : loginPc[k] # "done"}
    BY <1>2, <1>4
  <2> QED BY <1>2, <1>3, <1>4, <2>1
<1>5. CASE onDone(i)
  <2>1. loginWorkers' = Cardinality({k \in Login : loginPc'[k] # "done"})
    BY <1>3, <1>5 DEF onDone
  <2>2. loginWorkers' \in 0..NLogins
    BY <1>1, <1>2, <1>3, <1>5 DEF onDone
  <2> QED BY <1>2, <1>3, <1>5, <2>1, <2>2 DEF onDone, cancel, Timer
<1> QED BY <1>4, <1>5 DEF RequestAccount

\* A login coroutine that is connected, or has read an account, goes on.
LEMMA LoginGoesOn ==
    ASSUME IInv, NEW i \in Login, loginPc[i] \in {"connect", "read"},
           NEW e \in Nat \ {0}, RequestAccount(i, e),
           accounts \subseteq accounts', accounts' \subseteq {usernameOf(d) : d \in Entry},
           \A d \in Entry : d < e => usernameOf(d) \in accounts',
           UNCHANGED <<startVars, main, process, listed, syncVars>>
    PROVE  IInv'
<1> USE DEF startVars, configVars, syncVars
<1>1. /\ loginPc' \in [Login -> {"none", "connect", "write", "read", "done"}]
      /\ loginNext' \in [Login -> Nat]
      /\ loginWorkers' \in 0..NLogins
      /\ loginTimer' \in Timer
      /\ loginWorkers # 0
      /\ loginWorkers' = Cardinality({k \in Login : loginPc'[k] # "done"})
      /\ loginTimer' = "cancelled" => loginWorkers' = 0
      /\ loginTimer' = "armed" => loginWorkers' # 0
  BY RequestTyped
<1>2. /\ N \in Nat /\ N' = N
      /\ loginPc \in [Login -> {"none", "connect", "write", "read", "done"}]
      /\ loginNext \in [Login -> Nat]
  BY DEF IInv, TypeOK, ConfigTypeOK, N
<1>3. main = "login"
  BY <1>1, <1>2 DEF IInv, Stage, LoginOver, LoggedIn
<1>4. TypeOK'
  BY <1>1 DEF IInv, TypeOK, ConfigTypeOK, Entry, N, usernameOf
<1>5. InOrder' /\ Stage'
  BY <1>2, <1>3 DEF IInv, InOrder, Stage, RequestAccount, onDone, Entry, N
<1>6. WokenByTheLast' /\ LoginOver'
  BY <1>1, <1>3 DEF WokenByTheLast, LoginOver, LoggedIn
<1>7. Progress'
  <2>1. \A d \in Entry : usernameOf(d)' = usernameOf(d)
    BY DEF usernameOf
  <2>2. ASSUME NEW k \in Login, k # i
        PROVE  loginPc'[k] = loginPc[k] /\ loginNext'[k] = loginNext[k]
    BY <1>2, <2>2 DEF RequestAccount, onDone
  <2>3. \/ loginPc'[i] = "write" /\ loginNext'[i] = e /\ e <= N
        \/ loginPc'[i] = "done" /\ e > N
    BY <1>2 DEF RequestAccount, onDone
  <2> QED BY <1>2, <2>1, <2>2, <2>3 DEF IInv, Progress, Entry
<1>8. Sampling'
  BY <1>3 DEF IInv, Sampling
<1> QED BY <1>4, <1>5, <1>6, <1>7, <1>8 DEF IInv

\* The steps of a login coroutine.
LEMMA LoginStep ==
    ASSUME IInv, process = "up", NEW i \in Login, login(i)
    PROVE  IInv'
<1>1. CASE LoginConnected(i)
  <2>1. /\ accounts' \subseteq {usernameOf(d) : d \in Entry}
        /\ \A d \in Entry : d < 1 => usernameOf(d) \in accounts'
    BY <1>1 DEF IInv, TypeOK, LoginConnected, Entry
  <2> QED BY <1>1, <2>1, LoginGoesOn DEF LoginConnected
<1>2. CASE LoginWritten(i)
  <2> USE DEF LoginWritten, startVars, configVars, syncVars
  <2>1. TypeOK'
    BY <1>2 DEF IInv, TypeOK, ConfigTypeOK, Entry, N, usernameOf
  <2>2. InOrder' /\ Stage'
    BY <1>2 DEF IInv, InOrder, Stage, Entry, N, TypeOK
  <2>3. WokenByTheLast'
    <3>1. {k \in Login : loginPc'[k] # "done"} = {k \in Login : loginPc[k] # "done"}
      BY <1>2 DEF IInv, TypeOK
    <3> QED BY <1>2, <3>1 DEF IInv, WokenByTheLast, Entry, N
  <2>4. Progress' /\ LoginOver' /\ Sampling'
    BY <1>2 DEF IInv, TypeOK, Progress, LoginOver, LoggedIn, Sampling, Entry, N, usernameOf,
                loads, parsed
  <2> QED BY <2>1, <2>2, <2>3, <2>4 DEF IInv
<1>3. CASE LoginRead(i)
  <2> DEFINE e == loginNext[i] + 1
  <2>1. /\ loginNext[i] \in Entry /\ N \in Nat
        /\ \A d \in 1..(loginNext[i] - 1) : usernameOf(d) \in accounts
    BY <1>3 DEF IInv, TypeOK, ConfigTypeOK, Progress, LoginRead, N
  <2>2. e \in Nat \ {0} /\ RequestAccount(i, e) /\ accounts \subseteq accounts'
    BY <1>3, <2>1 DEF LoginRead, Entry
  <2>3. accounts' \subseteq {usernameOf(d) : d \in Entry}
    BY <1>3, <2>1 DEF IInv, TypeOK, LoginRead
  <2>4. \A d \in Entry : d < e => usernameOf(d) \in accounts'
    BY <1>3, <2>1 DEF LoginRead, Entry
  <2> QED BY <1>3, <2>2, <2>3, <2>4, LoginGoesOn DEF LoginRead
<1>4. CASE LoginFails(i)
  <2>1. main # "config"
    BY <1>4 DEF IInv, Stage, LoginFails
  <2> QED BY <1>4, <2>1, OnlyEnds DEF LoginFails, Exit, Abort, Process
<1> QED BY <1>1, <1>2, <1>3, <1>4 DEF login

\* The timer of login expires.
LEMMA LoginTimerStep ==
    ASSUME IInv, process = "up", LoginTimerExpires
    PROVE  IInv'
<1> USE DEF LoginTimerExpires, startVars, configVars, syncVars
<1>1. TypeOK'
  BY DEF IInv, TypeOK, ConfigTypeOK, Entry, N, usernameOf, Timer
<1>2. InOrder' /\ Stage' /\ WokenByTheLast' /\ Progress' /\ LoginOver' /\ Sampling'
  BY DEF IInv, InOrder, Stage, WokenByTheLast, Progress, LoginOver, LoggedIn, Sampling,
         Entry, N, usernameOf
<1> QED BY <1>1, <1>2 DEF IInv

\* login returns, and the coroutines of the synchronisation are spawned.
LEMMA LoginReturnsStep ==
    ASSUME IInv, process = "up", LoginReturns
    PROVE  IInv'
<1> USE DEF startVars, configVars, loginVars
<1>1. PICK known \in Catalogue :
         LET spawned == {e \in Entry : \A d \in 1..e : CanSpawn(d, known)}
         IN  /\ main' = IF spawned = Entry THEN "sync" ELSE "failed"
             /\ syncPc' = [e \in Entry |-> IF e \in spawned THEN "connect" ELSE "none"]
             /\ syncWorkers' = Cardinality(spawned)
  BY DEF LoginReturns
<1> DEFINE spawned == {e \in Entry : \A d \in 1..e : CanSpawn(d, known)}
<1>2. /\ spawned \in SUBSET Entry
      /\ main' = IF spawned = Entry THEN "sync" ELSE "failed"
      /\ syncPc' = [e \in Entry |-> IF e \in spawned THEN "connect" ELSE "none"]
      /\ syncWorkers' = Cardinality(spawned)
  BY <1>1
<1> HIDE DEF spawned
<1>3. /\ UNCHANGED <<startVars, process, loginVars, listed, syncTimer>>
      /\ command = "go" /\ main = "login" /\ loginWorkers = 0
      /\ N \in Nat /\ N' = N /\ syncTimer = "armed"
  BY DEF LoginReturns, IInv, TypeOK, ConfigTypeOK, N, Stage
<1>4. IsFiniteSet(Entry) /\ Cardinality(Entry) = N
  BY <1>3, FS_Interval DEF Entry
<1>5. syncWorkers' \in 0..N
  BY <1>2, <1>3, <1>4, FS_Subset, FS_CardinalityType
<1>6. TypeOK'
  BY <1>2, <1>3, <1>5 DEF IInv, TypeOK, ConfigTypeOK, Entry, N, usernameOf
<1>7. InOrder' /\ Stage'
  BY <1>2, <1>3 DEF IInv, InOrder, Stage, Entry, N
<1>8. WokenByTheLast'
  <2>1. ASSUME main' = "sync"
        PROVE  /\ syncWorkers' = Cardinality({e \in Entry' : syncPc'[e] # "done"})
               /\ N' > 0 => syncWorkers' # 0
    <3>1. spawned = Entry /\ Entry' = Entry
      BY <1>2, <1>3, <2>1 DEF Entry
    <3>2. {e \in Entry' : syncPc'[e] # "done"} = Entry
      BY <1>2, <3>1
    <3> QED BY <1>2, <1>3, <1>4, <3>1, <3>2
  <2> QED BY <1>3, <2>1 DEF IInv, WokenByTheLast
<1>9. Progress' /\ LoginOver' /\ Sampling'
  BY <1>3 DEF IInv, Progress, LoginOver, LoggedIn, Sampling, Entry, N, usernameOf
<1> QED BY <1>6, <1>7, <1>8, <1>9 DEF IInv

\* The other steps of the main coroutine, and the timer of the synchronisation.
LEMMA MainStep ==
    ASSUME IInv, process = "up",
           StartListing \/ ListEntry \/ AfterSync \/ WatchFails \/ SyncTimerExpires
    PROVE  IInv'
<1> USE DEF startVars, configVars, loginVars, syncVars
<1>1. CASE ListEntry /\ process' # "up"
  BY <1>1, OnlyEnds DEF ListEntry, Exit, Process
<1>2. CASE \/ StartListing \/ AfterSync \/ WatchFails \/ SyncTimerExpires
           \/ ListEntry /\ process' = "up"
  <2> USE <1>2 DEF StartListing, ListEntry, AfterSync, WatchFails, SyncTimerExpires, Exit
  <2>1. /\ UNCHANGED <<startVars, process, loginVars, syncPc, syncWorkers>>
        /\ command # "create-sample"
        /\ N \in Nat /\ N' = N
    BY DEF IInv, TypeOK, ConfigTypeOK, Sampling, N
  <2>2. TypeOK'
    BY <2>1 DEF IInv, TypeOK, ConfigTypeOK, Entry, N, usernameOf, Timer
  <2>3. InOrder' /\ Stage'
    BY <2>1 DEF IInv, InOrder, Stage, Entry, N
  <2>4. WokenByTheLast'
    BY <2>1 DEF IInv, WokenByTheLast, Entry, N
  <2>5. Progress' /\ LoginOver' /\ Sampling'
    BY <2>1 DEF IInv, Progress, LoginOver, LoggedIn, Sampling, Entry, N, usernameOf
  <2> QED BY <2>2, <2>3, <2>4, <2>5 DEF IInv
<1> QED BY <1>1, <1>2 DEF StartListing, ListEntry, AfterSync, WatchFails, SyncTimerExpires,
                          Exit

\* A coroutine of the synchronisation finishes while the main one waits for it.
LEMMA CountDownStep ==
    ASSUME IInv, process = "up", NEW e \in DOMAIN syncPc,
           syncPc[e] \in {"connect", "list"}, CountDown(e)
    PROVE  IInv'
<1> USE DEF CountDown, startVars, configVars, loginVars
<1>1. /\ N \in Nat /\ N' = N /\ Entry' = Entry
      /\ e \in Entry
      /\ syncPc \in [Entry -> {"none", "connect", "list", "done"}]
      /\ syncWorkers \in 0..N
      /\ syncWorkers = Cardinality({d \in Entry : syncPc[d] # "done"})
      /\ syncTimer \in Timer
      /\ syncTimer = "cancelled" => syncWorkers = 0
      /\ command # "create-sample"
  BY DEF IInv, TypeOK, ConfigTypeOK, N, Entry, WokenByTheLast, Sampling
<1> DEFINE ended == [syncPc EXCEPT ![e] = "done"]
<1>2. /\ syncWorkers # 0
      /\ Cardinality({d \in Entry : ended[d] # "done"}) = syncWorkers - 1
  <2>1. IsFiniteSet(Entry)
    BY <1>1, FS_Interval DEF Entry
  <2>2. DOMAIN syncPc = Entry /\ syncPc[e] # "done"
    BY <1>1
  <2> HIDE DEF ended
  <2>3. ended = [syncPc EXCEPT ![e] = "done"]
    BY DEF ended
  <2> QED BY <1>1, <2>1, <2>2, <2>3, OneLess
<1>3. TypeOK'
  BY <1>1, <1>2 DEF IInv, TypeOK, ConfigTypeOK, Entry, N, usernameOf, Timer, cancel
<1>4. InOrder' /\ Stage'
  BY <1>1 DEF IInv, InOrder, Stage
<1>5. WokenByTheLast'
  <2>1. syncWorkers' = Cardinality({d \in Entry : syncPc'[d] # "done"})
    BY <1>2
  <2>2. syncTimer' = "armed" => syncWorkers' # 0
    BY DEF cancel
  <2>3. syncTimer' = "cancelled" => syncWorkers' = 0
    BY <1>1, <1>2 DEF cancel, Timer
  <2> QED BY <1>1, <2>1, <2>2, <2>3 DEF IInv, WokenByTheLast
<1>6. Progress' /\ LoginOver' /\ Sampling'
  BY <1>1 DEF IInv, Progress, LoginOver, LoggedIn, Sampling, usernameOf
<1> QED BY <1>3, <1>4, <1>5, <1>6 DEF IInv

\* The steps of a coroutine of the synchronisation.
LEMMA SyncStep ==
    ASSUME IInv, process = "up", NEW e \in DOMAIN syncPc, syncOneConfigEntry(e)
    PROVE  IInv'
<1>1. /\ main # "config" /\ command # "create-sample"
      /\ syncPc \in [Entry -> {"none", "connect", "list", "done"}] /\ e \in Entry
  BY DEF IInv, TypeOK, Sampling
<1>2. CASE SyncFinishes(e) /\ syncPc[e] \in {"connect", "list"}
  <2>1. CASE CountDownDangling
    BY <1>1, <2>1, OnlyEnds DEF CountDownDangling, Process
  <2> QED BY <1>2, <2>1, CountDownStep DEF SyncFinishes
<1>3. CASE SyncFails(e)
  BY <1>1, <1>3, OnlyEnds DEF SyncFails, Exit, Process
<1>4. CASE /\ syncPc[e] = "connect"
           /\ syncPc' = [syncPc EXCEPT ![e] = "list"]
           /\ UNCHANGED <<startVars, main, process, loginVars, listed, syncWorkers,
                          syncTimer>>
  <2> USE <1>4 DEF startVars, configVars, loginVars
  <2>1. TypeOK'
    BY <1>1 DEF IInv, TypeOK, ConfigTypeOK, Entry, N, usernameOf
  <2>2. InOrder' /\ Stage'
    BY <1>1 DEF IInv, InOrder, Stage, Entry, N
  <2>3. WokenByTheLast'
    <3>1. {d \in Entry : syncPc'[d] # "done"} = {d \in Entry : syncPc[d] # "done"}
      BY <1>1
    <3> QED BY <3>1 DEF IInv, WokenByTheLast, Entry, N
  <2>4. Progress' /\ LoginOver' /\ Sampling'
    BY <1>1 DEF IInv, Progress, LoginOver, LoggedIn, Sampling, Entry, N, usernameOf
  <2> QED BY <2>1, <2>2, <2>3, <2>4 DEF IInv
<1> QED BY <1>2, <1>3, <1>4 DEF syncOneConfigEntry, SyncConnected, SyncListed

\* Every step preserves the invariant.
LEMMA StepHolds ==
    ASSUME IInv, [Next]_vars
    PROVE  IInv'
<1>1. CASE UNCHANGED vars
  <2> USE <1>1 DEF vars, startVars, configVars, loginVars, syncVars
  <2>1. TypeOK'
    BY DEF IInv, TypeOK, ConfigTypeOK, Entry, N, usernameOf
  <2>2. InOrder' /\ Stage' /\ WokenByTheLast'
    BY DEF IInv, InOrder, Stage, WokenByTheLast, Entry, N
  <2>3. Progress' /\ LoginOver' /\ Sampling'
    BY DEF IInv, Progress, LoginOver, LoggedIn, Sampling, Entry, N, usernameOf, loads, parsed
  <2> QED BY <2>1, <2>2, <2>3 DEF IInv
<1>2. CASE Next
  <2> USE <1>2 DEF Next
  <2>1. CASE read_config
    <3>1. CASE ReadConfigFails
      BY <3>1, OnlyEnds DEF ReadConfigFails, Abort, Process
    <3> QED BY <2>1, <3>1, CreateSampleStep, ReadConfigFileStep, SpawnMainStep
            DEF read_config
  <2>2. CASE \E i \in Login : login(i)
    BY <2>2, LoginStep
  <2>3. CASE LoginTimerExpires
    BY <2>3, LoginTimerStep
  <2>4. CASE AfterLogin
    <3>1. CASE LoginTimedOut
      BY <3>1, OnlyEnds DEF LoginTimedOut, Abort, Process
    <3> QED BY <2>4, <3>1, LoginReturnsStep, MainStep DEF AfterLogin
  <2>5. CASE ListEnds \/ RunReturns
    BY <2>5, OnlyEnds DEF ListEnds, RunReturns, Exit, Process
  <2>6. CASE \E e \in DOMAIN syncPc : syncOneConfigEntry(e)
    BY <2>6, SyncStep
  <2>7. CASE ListEntry \/ SyncTimerExpires \/ AfterSync \/ WatchFails
    BY <2>7, MainStep
  <2> QED BY <2>1, <2>2, <2>3, <2>4, <2>5, <2>6, <2>7
<1> QED BY <1>1, <1>2

-----------------------------------------------------------------------------
(* Theorems                                                                *)

\* The invariant holds throughout.
THEOREM StartupInvariant == Spec => []IInv
<1>1. Init => IInv
  BY InitHolds
<1>2. IInv /\ [Next]_vars => IInv'
  BY StepHolds
<1> QED BY <1>1, <1>2, PTL DEF Spec

\* Every variable keeps its type: the counters never go below zero, nor does a
\* coroutine ask for the account of an entry that is not there.
THEOREM TypesHold == Spec => []TypeOK
<1>1. IInv => TypeOK
  BY DEF IInv
<1> QED BY <1>1, StartupInvariant, PTL

\* Entries are sorted and found by binary search, whatever order the directory
\* gives the files in and whichever of them are refused (config.cpp:29-51).
THEOREM ConfigStaysInOrder == Spec => []ConfigInOrder
<1>1. IInv => ConfigInOrder
  BY SearchFinds DEF IInv, TypeOK
<1> QED BY <1>1, StartupInvariant, PTL

\* A counter that is down to zero means that every login coroutine is done.
LEMMA NoneLeft ==
    ASSUME IInv, loginWorkers = 0
    PROVE  \A i \in Login : loginPc[i] = "done"
<1> DEFINE left == {i \in Login : loginPc[i] # "done"}
<1>1. IsFiniteSet(Login)
  BY ConstantsAssumption, FS_Interval DEF Login
<1>2. left \in SUBSET Login /\ Cardinality(left) = 0
  BY DEF IInv, WokenByTheLast
<1>3. left = {}
  <2> HIDE DEF left
  <2> QED BY <1>1, <1>2, FS_Subset, FS_EmptySet
<1> QED BY <1>3

\* Nothing after login misses the account of an entry (mainProcess.cpp:95).
THEOREM AccountsAreReady == Spec => []AccountsReady
<1>1. ASSUME IInv
      PROVE  AccountsReady
  <2>1. 1 \in Login
    BY ConstantsAssumption DEF Login
  <2> QED BY <1>1, <2>1, NoneLeft DEF IInv, AccountsReady, LoginOver, Progress
<1> QED BY <1>1, StartupInvariant, PTL

\* The main coroutine is woken by the last coroutine that it waits for, and by
\* no other (login.cpp:17-26, syncAllDirectories.cpp:145-161).
THEOREM LastOneWakes == Spec => []WokenByTheLast
<1>1. IInv => WokenByTheLast
  BY DEF IInv
<1> QED BY <1>1, StartupInvariant, PTL

\* A sample that is reported as written can be read (config_writer.cpp:22-61).
THEOREM SamplesLoad == Spec => []SampleLoads
<1>1. IInv => SampleLoads
  BY DEF IInv, Sampling, SampleLoads
<1> QED BY <1>1, StartupInvariant, PTL

-----------------------------------------------------------------------------
(* Refinement                                                              *)

\* What a step may do to the login coroutines and to the main one: one of them
\* is done, or login returns when all are, or the barrier does not see it.
LEMMA LoginMoves ==
    ASSUME IInv, [Next]_vars
    PROVE  \/ /\ UNCHANGED LoggedIn
              /\ \A i \in Login : loginPc'[i] = "done" <=> loginPc[i] = "done"
           \/ /\ UNCHANGED main
              /\ \E i \in Login : /\ loginPc[i] # "done"
                                 /\ loginPc' = [loginPc EXCEPT ![i] = "done"]
           \/ UNCHANGED loginPc /\ ~LoggedIn /\ LoggedIn' /\ loginWorkers = 0
<1> USE DEF LoggedIn
<1>1. loginPc \in [Login -> {"none", "connect", "write", "read", "done"}]
  BY DEF IInv, TypeOK
<1>2. CASE UNCHANGED <<main, loginPc>>
  BY <1>2
<1>3. CASE SpawnMain
  BY <1>1, <1>3 DEF SpawnMain, IInv, Stage
<1>4. ASSUME NEW i \in Login, LoginConnected(i) \/ LoginWritten(i) \/ LoginRead(i)
      PROVE  \/ /\ UNCHANGED LoggedIn
                /\ \A k \in Login : loginPc'[k] = "done" <=> loginPc[k] = "done"
             \/ /\ UNCHANGED main
                /\ loginPc[i] # "done"
                /\ loginPc' = [loginPc EXCEPT ![i] = "done"]
  BY <1>1, <1>4 DEF LoginConnected, LoginWritten, LoginRead, RequestAccount, onDone
<1>5. CASE LoginReturns \/ StartListing
  <2>1. main = "login" /\ main' \in {"sync", "failed", "list"} /\ UNCHANGED loginPc
    BY <1>5 DEF LoginReturns, StartListing, loginVars
  <2> QED BY <1>5, <2>1 DEF LoginReturns, StartListing
<1>6. CASE AfterSync \/ WatchFails
  BY <1>6 DEF AfterSync, WatchFails, loginVars
<1>7. CASE \/ CreateSample \/ ReadConfigFile \/ ReadConfigFails
           \/ \E i \in Login : LoginFails(i)
           \/ LoginTimerExpires \/ LoginTimedOut \/ ListEntry \/ ListEnds
           \/ \E e \in DOMAIN syncPc : syncOneConfigEntry(e)
           \/ SyncTimerExpires \/ RunReturns
  <2>1. UNCHANGED <<main, loginPc>>
    BY <1>7 DEF CreateSample, ReadConfigFile, ReadConfigFails, LoginFails,
                LoginTimerExpires, LoginTimedOut, ListEntry, ListEnds, syncOneConfigEntry,
                SyncConnected, SyncListed, SyncFails, SyncFinishes, CountDown,
                CountDownDangling, SyncTimerExpires, RunReturns, Exit, Abort, loginVars
  <2> QED BY <1>2, <2>1
<1>8. CASE UNCHANGED vars
  BY <1>2, <1>8 DEF vars, loginVars
<1> QED BY <1>3, <1>4, <1>5, <1>6, <1>7, <1>8 DEF Next, read_config, AfterLogin, login

\* A step of the start-up is an arrival, the passage, or nothing to the barrier.
LEMMA BarrierStep ==
    ASSUME IInv, [Next]_vars
    PROVE  [LoginBarrier!Next]_<<{i \in Login : loginPc[i] = "done"}, LoggedIn>>
<1>1. loginPc \in [Login -> {"none", "connect", "write", "read", "done"}]
  BY DEF IInv, TypeOK
<1>2. ASSUME UNCHANGED LoggedIn,
             \A i \in Login : loginPc'[i] = "done" <=> loginPc[i] = "done"
      PROVE  UNCHANGED <<{i \in Login : loginPc[i] = "done"}, LoggedIn>>
  BY <1>2
<1>3. ASSUME NEW i \in Login, loginPc[i] # "done",
             loginPc' = [loginPc EXCEPT ![i] = "done"], UNCHANGED main
      PROVE  LoginBarrier!Next
  <2>1. {k \in Login : loginPc'[k] = "done"} = {k \in Login : loginPc[k] = "done"} \cup {i}
    BY <1>1, <1>3
  <2>2. UNCHANGED LoggedIn
    BY <1>3 DEF LoggedIn
  <2> QED BY <1>3, <2>1, <2>2 DEF LoginBarrier!Next, LoginBarrier!Arrive
<1>4. ASSUME UNCHANGED loginPc, ~LoggedIn, LoggedIn', loginWorkers = 0
      PROVE  LoginBarrier!Next
  <2>1. \A i \in Login : loginPc[i] = "done"
    BY <1>4, NoneLeft
  <2>2. LoggedIn' = TRUE
    BY <1>4 DEF LoggedIn
  <2> QED BY <1>4, <2>1, <2>2 DEF LoginBarrier!Next, LoginBarrier!Pass
<1> QED BY <1>2, <1>3, <1>4, LoginMoves

\* login is a barrier for its coroutines: it returns when each of them has asked
\* for every account, and not before (login.cpp:30-40).
THEOREM LoginRefinesBarrier == Spec => LoginIsBarrier
<1>1. Init => LoginBarrier!Init
  BY DEF Init, LoginBarrier!Init, LoggedIn
<1>2. IInv /\ [Next]_vars =>
         [LoginBarrier!Next]_<<{i \in Login : loginPc[i] = "done"}, LoggedIn>>
  BY BarrierStep
<1> QED BY <1>1, <1>2, StartupInvariant, PTL DEF Spec, LoginIsBarrier, LoginBarrier!Spec
=============================================================================
