-------------------------- MODULE SyncEntryProofs --------------------------
(***************************************************************************)
(* Proofs about SyncEntry, for any paths, listing, entries and changes of  *)
(* the files: the merge stays in its two sequences, misses nothing, and    *)
(* uploads nothing needlessly or twice; and each request reaches the       *)
(* object that it is about.                                                *)
(***************************************************************************)
EXTENDS SyncEntry, UrlReadProofs, FiniteSetTheorems

-----------------------------------------------------------------------------
(* Orders                                                                  *)

\* R is a strict and total order on S.
Strict(R, S) ==
    /\ \A x \in S : <<x, x>> \notin R
    /\ \A x, y, z \in S : <<x, y>> \in R /\ <<y, z>> \in R => <<x, z>> \in R
    /\ \A x, y \in S : x = y \/ <<x, y>> \in R \/ <<y, x>> \in R

\* How many items of S come before x.
rank(x, S, R) == Cardinality({y \in S : <<y, x>> \in R})

\* What comes earlier has fewer items before it.
LEMMA RankGrows ==
    ASSUME NEW S, IsFiniteSet(S), NEW R, Strict(R, S), NEW x \in S, NEW y \in S,
           <<x, y>> \in R
    PROVE  rank(x, S, R) < rank(y, S, R)
<1> DEFINE X == {z \in S : <<z, x>> \in R}
           Y == {z \in S : <<z, y>> \in R}
<1>1. X \subseteq Y /\ x \in Y /\ x \notin X
  BY DEF Strict
<1>2. Y \subseteq S
  OBVIOUS
<1>3. rank(x, S, R) = Cardinality(X) /\ rank(y, S, R) = Cardinality(Y)
  BY DEF rank
<1> HIDE DEF X, Y
<1>4. IsFiniteSet(Y)
  BY <1>2, FS_Subset
<1>5. IsFiniteSet(X) /\ Cardinality(X) <= Cardinality(Y)
      /\ (Cardinality(Y) = Cardinality(X) => Y = X)
  BY <1>1, <1>4, FS_Subset
<1>6. Cardinality(X) \in Nat /\ Cardinality(Y) \in Nat
  BY <1>4, <1>5, FS_CardinalityType
<1> QED BY <1>1, <1>3, <1>5, <1>6

\* Each place is that of one item.
LEMMA Ranks ==
    ASSUME NEW S, IsFiniteSet(S), NEW R, Strict(R, S)
    PROVE  /\ \A x \in S : rank(x, S, R) \in 0..(Cardinality(S) - 1)
           /\ \A x, y \in S : rank(x, S, R) = rank(y, S, R) => x = y
           /\ \A n \in 1..Cardinality(S) : \E x \in S : rank(x, S, R) = n - 1
<1> DEFINE c == Cardinality(S)
           f == [x \in S |-> rank(x, S, R) + 1]
<1>1. c \in Nat
  BY FS_CardinalityType
<1>2. ASSUME NEW x \in S
      PROVE  rank(x, S, R) \in 0..(c - 1)
  <2> DEFINE X == {y \in S : <<y, x>> \in R}
  <2>1. X \subseteq S /\ x \notin X
    BY DEF Strict
  <2>2. rank(x, S, R) = Cardinality(X)
    BY DEF rank
  <2> HIDE DEF X
  <2>3. IsFiniteSet(X) /\ Cardinality(X) <= c /\ (c = Cardinality(X) => S = X)
    BY <2>1, FS_Subset
  <2>4. Cardinality(X) \in Nat
    BY <2>3, FS_CardinalityType
  <2> QED BY <1>1, <2>1, <2>2, <2>3, <2>4
<1>3. ASSUME NEW x \in S, NEW y \in S, rank(x, S, R) = rank(y, S, R)
      PROVE  x = y
  <2>1. CASE <<x, y>> \in R
    BY <1>1, <1>2, <1>3, <2>1, RankGrows
  <2>2. CASE <<y, x>> \in R
    BY <1>1, <1>2, <1>3, <2>2, RankGrows
  <2> QED BY <2>1, <2>2 DEF Strict
<1>4. f \in Injection(S, 1..c)
  <2>1. f \in [S -> 1..c]
    BY <1>1, <1>2
  <2>2. \A x, y \in S : f[x] = f[y] => x = y
    BY <1>1, <1>2, <1>3
  <2> HIDE DEF f
  <2> QED BY <2>1, <2>2 DEF Injection, IsInjective
<1>5. IsFiniteSet(1..c) /\ Cardinality(1..c) = c
  BY <1>1, FS_Interval
<1> HIDE DEF f
<1>6. f \in Surjection(S, 1..c)
  BY <1>4, <1>5, FS_Injection
<1>7. ASSUME NEW n \in 1..c
      PROVE  \E x \in S : rank(x, S, R) = n - 1
  <2>1. PICK x \in S : f[x] = n
    BY <1>6 DEF Surjection
  <2>2. rank(x, S, R) + 1 = n
    BY <2>1 DEF f
  <2> QED BY <1>1, <1>2, <2>2
<1> QED BY <1>2, <1>3, <1>7

\* A sequence of the items by their ranks has each of them, in their order.
LEMMA SortedByRank ==
    ASSUME NEW S, IsFiniteSet(S), NEW R, Strict(R, S), NEW s \in [1..Cardinality(S) -> S],
           \A n \in 1..Cardinality(S) : rank(s[n], S, R) = n - 1
    PROVE  /\ s \in Seq(S) /\ Range(s) = S
           /\ \A i, k \in DOMAIN s : i < k => <<s[i], s[k]>> \in R
<1> DEFINE c == Cardinality(S)
<1>1. c \in Nat
  BY FS_CardinalityType
<1>2. \A n \in 1..c : s[n] \in S /\ rank(s[n], S, R) = n - 1
  OBVIOUS
<1>3. DOMAIN s = 1..c /\ s \in Seq(S)
  BY <1>1, SeqDef
<1>4. ASSUME NEW x \in S
      PROVE  x \in Range(s)
  <2> DEFINE n == rank(x, S, R) + 1
  <2>1. n \in 1..c
    BY <1>1, Ranks
  <2>2. rank(s[n], S, R) = rank(x, S, R) /\ s[n] \in S
    BY <1>1, <1>2, <2>1, Ranks
  <2>3. s[n] = x
    BY <2>2, Ranks
  <2> HIDE DEF n
  <2> QED BY <1>3, <2>1, <2>3 DEF Range
<1>5. ASSUME NEW i \in 1..c, NEW k \in 1..c, i < k
      PROVE  <<s[i], s[k]>> \in R
  <2>1. s[i] \in S /\ s[k] \in S /\ rank(s[i], S, R) = i - 1 /\ rank(s[k], S, R) = k - 1
    BY <1>2
  <2>2. s[i] # s[k]
    BY <1>1, <1>5, <2>1
  <2>3. <<s[k], s[i]>> \in R => k - 1 < i - 1
    BY <2>1, RankGrows
  <2> QED BY <1>1, <1>5, <2>1, <2>2, <2>3 DEF Strict
<1>6. Range(s) = S
  BY <1>2, <1>3, <1>4 DEF Range
<1> QED BY <1>3, <1>5, <1>6

\* s comes before t when their items are compared by R.
Lex(s, t, R) ==
    \E n \in 1..Len(t) :
       /\ n <= Len(s) + 1
       /\ \A m \in 1..(n - 1) : s[m] = t[m]
       /\ n <= Len(s) => <<s[n], t[n]>> \in R

\* The pairs of Seq(A) in the order of R.
LexOrder(A, R) == {x \in Seq(A) \X Seq(A) : Lex(x[1], x[2], R)}

\* If the items are totally ordered, so are the sequences.
LEMMA LexStrict ==
    ASSUME NEW A, NEW R, Strict(R, A)
    PROVE  Strict(LexOrder(A, R), Seq(A))
<1>1. ASSUME NEW s \in Seq(A), Lex(s, s, R)
      PROVE  FALSE
  BY <1>1 DEF Lex, Strict
<1>2. ASSUME NEW s \in Seq(A), NEW t \in Seq(A), NEW u \in Seq(A),
             Lex(s, t, R), Lex(t, u, R)
      PROVE  Lex(s, u, R)
  <2>1. PICK n \in 1..Len(t) :
           /\ n <= Len(s) + 1
           /\ \A m \in 1..(n - 1) : s[m] = t[m]
           /\ n <= Len(s) => <<s[n], t[n]>> \in R
    BY <1>2 DEF Lex
  <2>2. PICK k \in 1..Len(u) :
           /\ k <= Len(t) + 1
           /\ \A m \in 1..(k - 1) : t[m] = u[m]
           /\ k <= Len(t) => <<t[k], u[k]>> \in R
    BY <1>2 DEF Lex
  <2>3. CASE n < k
    <3>1. n \in 1..Len(u) /\ t[n] = u[n]
      BY <2>2, <2>3
    <3>2. \A m \in 1..(n - 1) : s[m] = u[m]
      BY <2>1, <2>2, <2>3
    <3> QED BY <2>1, <3>1, <3>2 DEF Lex
  <2>4. CASE n = k
    <3>1. \A m \in 1..(n - 1) : s[m] = u[m]
      BY <2>1, <2>2, <2>4
    <3>2. ASSUME n <= Len(s)
          PROVE  <<s[n], u[n]>> \in R
      <4>1. s[n] \in A /\ t[n] \in A /\ u[n] \in A
        BY <2>1, <2>2, <2>4, <3>2
      <4> QED BY <2>1, <2>2, <2>4, <3>2, <4>1 DEF Strict
    <3> QED BY <2>1, <2>2, <2>4, <3>1, <3>2 DEF Lex
  <2>5. CASE n > k
    <3>1. \A m \in 1..(k - 1) : s[m] = u[m]
      BY <2>1, <2>2, <2>5
    <3>2. k <= Len(s) /\ s[k] = t[k] /\ k <= Len(t)
      BY <2>1, <2>2, <2>5
    <3>3. <<s[k], u[k]>> \in R /\ k <= Len(s) + 1
      BY <2>2, <3>2
    <3> QED BY <3>1, <3>3 DEF Lex
  <2> QED BY <2>3, <2>4, <2>5
<1>3. ASSUME NEW s \in Seq(A), NEW t \in Seq(A), s # t
      PROVE  Lex(s, t, R) \/ Lex(t, s, R)
  <2> DEFINE D == {n \in Nat \ {0} : /\ n <= Len(s) + 1 /\ n <= Len(t) + 1
                                     /\ n <= Len(s) /\ n <= Len(t) => s[n] # t[n]}
  <2>1. D # {}
    <3> SUFFICES ASSUME D = {}
                 PROVE  s = t
      BY <1>3
    <3>1. \A n \in Nat \ {0} : n <= Len(s) + 1 /\ n <= Len(t) + 1 =>
             n <= Len(s) /\ n <= Len(t) /\ s[n] = t[n]
      OBVIOUS
    <3>2. Len(s) \in Nat /\ Len(t) \in Nat
      OBVIOUS
    <3>3. Len(s) = Len(t)
      <4>1. CASE Len(s) < Len(t)
        <5>1. Len(s) + 1 \in Nat \ {0} /\ Len(s) + 1 <= Len(t) + 1
          BY <3>2, <4>1
        <5> QED BY <3>1, <3>2, <5>1
      <4>2. CASE Len(t) < Len(s)
        <5>1. Len(t) + 1 \in Nat \ {0} /\ Len(t) + 1 <= Len(s) + 1
          BY <3>2, <4>2
        <5> QED BY <3>1, <3>2, <5>1
      <4> QED BY <3>2, <4>1, <4>2
    <3>4. \A n \in 1..Len(s) : s[n] = t[n]
      BY <3>1, <3>2, <3>3
    <3> QED BY <3>3, <3>4, SeqEqual
  <2>2. PICK n \in D : \A m \in D : n <= m
    <3>1. D \in SUBSET Nat
      OBVIOUS
    <3> HIDE DEF D
    <3> QED BY <2>1, <3>1, LeastNumber
  <2>3. /\ n \in Nat \ {0} /\ n <= Len(s) + 1 /\ n <= Len(t) + 1
        /\ n <= Len(s) /\ n <= Len(t) => s[n] # t[n]
    OBVIOUS
  <2>4. \A m \in 1..(n - 1) : s[m] = t[m]
    <3> SUFFICES ASSUME NEW m \in 1..(n - 1), s[m] # t[m]
                 PROVE  FALSE
      OBVIOUS
    <3>1. m \in Nat \ {0} /\ m <= Len(s) + 1 /\ m <= Len(t) + 1 /\ m < n
      BY <2>3
    <3> QED BY <2>2, <2>3, <3>1
  <2>5. n <= Len(s) \/ n <= Len(t)
    <3> SUFFICES ASSUME n = Len(s) + 1, n = Len(t) + 1
                 PROVE  FALSE
      BY <2>3
    <3>1. Len(s) = Len(t) /\ \A m \in 1..Len(s) : s[m] = t[m]
      BY <2>3, <2>4
    <3> QED BY <1>3, <3>1, SeqEqual
  <2> HIDE DEF D
  <2>6. CASE n <= Len(s) /\ n <= Len(t)
    <3>1. s[n] \in A /\ t[n] \in A /\ s[n] # t[n]
      BY <2>3, <2>6
    <3>2. <<s[n], t[n]>> \in R \/ <<t[n], s[n]>> \in R
      BY <3>1 DEF Strict
    <3>3. n \in 1..Len(s) /\ n \in 1..Len(t)
      BY <2>3, <2>6
    <3>4. CASE <<s[n], t[n]>> \in R
      BY <2>3, <2>4, <3>3, <3>4 DEF Lex
    <3>5. CASE <<t[n], s[n]>> \in R
      BY <2>3, <2>4, <3>3, <3>5 DEF Lex
    <3> QED BY <3>2, <3>4, <3>5
  <2>7. CASE n <= Len(t) /\ ~(n <= Len(s))
    BY <2>3, <2>4, <2>7 DEF Lex
  <2>8. CASE n <= Len(s) /\ ~(n <= Len(t))
    BY <2>3, <2>4, <2>8 DEF Lex
  <2> QED BY <2>5, <2>6, <2>7, <2>8
<1>4. \A s, t \in Seq(A) : <<s, t>> \in LexOrder(A, R) <=> Lex(s, t, R)
  BY DEF LexOrder
<1> QED BY <1>1, <1>2, <1>3, <1>4 DEF Strict
-----------------------------------------------------------------------------
(* The two orders of the code                                              *)

\* The order of bytes, of strings, and of paths.
ByteOrder == {x \in Byte \X Byte : x[1] < x[2]}
TextOrder == LexOrder(Byte, ByteOrder)
PathOrder == LexOrder(Text, TextOrder)

\* std::string::compare is a total order.
LEMMA TextsOrdered ==
    /\ Strict(TextOrder, Text)
    /\ \A s, t \in Text : ByteBefore(s, t) <=> <<s, t>> \in TextOrder
<1>1. Strict(ByteOrder, Byte)
  <2>1. \A x, y \in Byte : <<x, y>> \in ByteOrder <=> x < y
    BY DEF ByteOrder
  <2>2. Byte \subseteq Nat
    BY DEF Byte
  <2> QED BY <2>1, <2>2 DEF Strict
<1>2. ASSUME NEW s \in Text, NEW t \in Text
      PROVE  ByteBefore(s, t) <=> Lex(s, t, ByteOrder)
  <2>1. \A n \in 1..Len(t) : n <= Len(s) =>
           (s[n] < t[n] <=> <<s[n], t[n]>> \in ByteOrder)
    BY DEF Text, ByteOrder
  <2> QED BY <2>1 DEF ByteBefore, Before, Lex
<1> QED BY <1>1, <1>2, LexStrict DEF TextOrder, Text, LexOrder

\* So is the order of fs::path.
LEMMA PathsOrdered ==
    /\ Strict(PathOrder, Seq(Text))
    /\ \A p, q \in Seq(Text) : PathBefore(p, q) <=> <<p, q>> \in PathOrder
<1>1. ASSUME NEW p \in Seq(Text), NEW q \in Seq(Text)
      PROVE  PathBefore(p, q) <=> Lex(p, q, TextOrder)
  <2>1. \A n \in 1..Len(q) : n <= Len(p) =>
           (ByteBefore(p[n], q[n]) <=> <<p[n], q[n]>> \in TextOrder)
    BY TextsOrdered
  <2> QED BY <2>1 DEF PathBefore, Before, Lex
<1> QED BY <1>1, TextsOrdered, LexStrict DEF PathOrder, LexOrder

\* sort gives each string once, in order.
LEMMA SortedTexts ==
    ASSUME NEW S \in SUBSET Text, IsFiniteSet(S)
    PROVE  /\ sort(S, ByteBefore) \in Seq(S) /\ Range(sort(S, ByteBefore)) = S
           /\ \A i, k \in DOMAIN sort(S, ByteBefore) :
                 i < k => ByteBefore(sort(S, ByteBefore)[i], sort(S, ByteBefore)[k])
<1> DEFINE s == sort(S, ByteBefore)
           before(x) == Cardinality({y \in S : ByteBefore(y, x)})
<1>1. Strict(TextOrder, S)
  BY TextsOrdered DEF Strict
<1>2. \A x \in S : before(x) = rank(x, S, TextOrder)
  <2> SUFFICES ASSUME NEW x \in S
               PROVE  {y \in S : ByteBefore(y, x)} = {y \in S : <<y, x>> \in TextOrder}
    BY DEF rank
  <2> QED BY TextsOrdered
<1>3. s = [n \in 1..Cardinality(S) |-> CHOOSE x \in S : before(x) = n - 1]
  BY DEF sort
<1>4. \A n \in 1..Cardinality(S) : \E x \in S : before(x) = n - 1
  BY <1>1, <1>2, Ranks
<1> HIDE DEF before, s
<1>5. \A n \in 1..Cardinality(S) : s[n] \in S /\ before(s[n]) = n - 1
  BY <1>3, <1>4
<1>6. s \in [1..Cardinality(S) -> S]
  BY <1>3, <1>5
<1>7. \A n \in 1..Cardinality(S) : rank(s[n], S, TextOrder) = n - 1
  BY <1>2, <1>5
<1>8. /\ s \in Seq(S) /\ Range(s) = S
      /\ \A i, k \in DOMAIN s : i < k => <<s[i], s[k]>> \in TextOrder
  BY <1>1, <1>6, <1>7, SortedByRank
<1>9. \A i, k \in DOMAIN s : i < k => ByteBefore(s[i], s[k])
  <2>1. \A i \in DOMAIN s : s[i] \in Text
    BY <1>8 DEF Range
  <2> QED BY <1>8, <2>1, TextsOrdered
<1> QED BY <1>8, <1>9 DEF s

\* sort gives each path once, in order.
LEMMA SortedPaths ==
    ASSUME NEW S \in SUBSET Seq(Text), IsFiniteSet(S)
    PROVE  /\ sort(S, PathBefore) \in Seq(S) /\ Range(sort(S, PathBefore)) = S
           /\ \A i, k \in DOMAIN sort(S, PathBefore) :
                 i < k => PathBefore(sort(S, PathBefore)[i], sort(S, PathBefore)[k])
<1> DEFINE s == sort(S, PathBefore)
           before(x) == Cardinality({y \in S : PathBefore(y, x)})
<1>1. Strict(PathOrder, S)
  BY PathsOrdered DEF Strict
<1>2. \A x \in S : before(x) = rank(x, S, PathOrder)
  <2> SUFFICES ASSUME NEW x \in S
               PROVE  {y \in S : PathBefore(y, x)} = {y \in S : <<y, x>> \in PathOrder}
    BY DEF rank
  <2> QED BY PathsOrdered
<1>3. s = [n \in 1..Cardinality(S) |-> CHOOSE x \in S : before(x) = n - 1]
  BY DEF sort
<1>4. \A n \in 1..Cardinality(S) : \E x \in S : before(x) = n - 1
  BY <1>1, <1>2, Ranks
<1> HIDE DEF before, s
<1>5. \A n \in 1..Cardinality(S) : s[n] \in S /\ before(s[n]) = n - 1
  BY <1>3, <1>4
<1>6. s \in [1..Cardinality(S) -> S]
  BY <1>3, <1>5
<1>7. \A n \in 1..Cardinality(S) : rank(s[n], S, PathOrder) = n - 1
  BY <1>2, <1>5
<1>8. /\ s \in Seq(S) /\ Range(s) = S
      /\ \A i, k \in DOMAIN s : i < k => <<s[i], s[k]>> \in PathOrder
  BY <1>1, <1>6, <1>7, SortedByRank
<1>9. \A i, k \in DOMAIN s : i < k => PathBefore(s[i], s[k])
  <2>1. \A i \in DOMAIN s : s[i] \in Seq(Text)
    BY <1>8 DEF Range
  <2> QED BY <1>8, <2>1, PathsOrdered
<1> QED BY <1>8, <1>9 DEF s

\* Nothing comes before the empty string, and the same string in front of two
\* others does not change their order.
LEMMA AfterPrefix ==
    ASSUME NEW s \in Text, NEW t \in Text
    PROVE  /\ ~ByteBefore(s, <<>>)
           /\ \A d \in Text : ByteBefore(d \o s, d \o t) => ByteBefore(s, t)
<1>1. ~ByteBefore(s, <<>>)
  BY DEF ByteBefore, Before
<1>2. ASSUME NEW d \in Text, ByteBefore(d \o s, d \o t)
      PROVE  ByteBefore(s, t)
  <2> DEFINE a == d \o s
             b == d \o t
  <2>1. /\ a \in Text /\ Len(a) = Len(d) + Len(s)
        /\ b \in Text /\ Len(b) = Len(d) + Len(t)
        /\ \A i \in 1..(Len(d) + Len(s)) : a[i] = IF i <= Len(d) THEN d[i] ELSE s[i - Len(d)]
        /\ \A i \in 1..(Len(d) + Len(t)) : b[i] = IF i <= Len(d) THEN d[i] ELSE t[i - Len(d)]
        /\ Len(d) \in Nat /\ Len(s) \in Nat /\ Len(t) \in Nat
    BY ConcatProperties DEF Text
  <2> HIDE DEF a, b
  <2>2. PICK n \in 1..Len(b) :
           /\ n <= Len(a) + 1
           /\ \A m \in 1..(n - 1) : a[m] = b[m]
           /\ n <= Len(a) => a[n] < b[n]
    BY <1>2 DEF ByteBefore, Before, a, b
  <2>3. ~(n <= Len(d))
    <3> SUFFICES ASSUME n <= Len(d)
                 PROVE  FALSE
      OBVIOUS
    <3>1. n \in 1..(Len(d) + Len(s)) /\ n \in 1..(Len(d) + Len(t)) /\ n <= Len(a)
      BY <2>1, <2>2
    <3>2. a[n] = d[n] /\ b[n] = d[n]
      BY <2>1, <3>1
    <3>3. d[n] \in Nat
      <4>1. n \in 1..Len(d)
        BY <2>2, <3>1
      <4>2. d[n] \in Byte
        BY <4>1 DEF Text
      <4> QED BY <4>2, BytesAreNumbers
    <3> QED BY <2>2, <3>1, <3>2, <3>3
  <2> DEFINE k == n - Len(d)
  <2>4. k \in 1..Len(t) /\ k <= Len(s) + 1 /\ n = Len(d) + k /\ n \in Nat
    BY <2>1, <2>2, <2>3
  <2> HIDE DEF k
  <2>5. \A m \in 1..(k - 1) : s[m] = t[m]
    <3> SUFFICES ASSUME NEW m \in 1..(k - 1)
                 PROVE  s[m] = t[m]
      OBVIOUS
    <3> DEFINE i == Len(d) + m
    <3>1. /\ i \in 1..(n - 1) /\ i \in 1..(Len(d) + Len(s)) /\ i \in 1..(Len(d) + Len(t))
          /\ ~(i <= Len(d)) /\ i - Len(d) = m
      BY <2>1, <2>4
    <3> HIDE DEF i
    <3> QED BY <2>1, <2>2, <3>1
  <2>6. ASSUME k <= Len(s)
        PROVE  s[k] < t[k]
    <3>1. n \in 1..(Len(d) + Len(s)) /\ n \in 1..(Len(d) + Len(t)) /\ n - Len(d) = k
      BY <2>1, <2>4, <2>6
    <3>2. a[n] = s[k] /\ b[n] = t[k] /\ n <= Len(a)
      BY <2>1, <2>3, <3>1
    <3> QED BY <2>2, <3>2
  <2> QED BY <2>4, <2>5, <2>6 DEF ByteBefore, Before
<1> QED BY <1>1, <1>2
-----------------------------------------------------------------------------
(* Names                                                                   *)

\* The string of a local path: a slash in front, none after it, and none at the
\* end.
LEMMA RelativeFacts ==
    ASSUME NEW p \in Path
    PROVE  /\ Relative(p) \in Text /\ Len(Relative(p)) \in Nat /\ Len(Relative(p)) >= 2
           /\ Relative(p)[1] = Slash /\ Relative(p)[2] # Slash
           /\ Relative(p)[Len(Relative(p))] # Slash
<1> DEFINE s == [k \in DOMAIN p |-> <<Slash>> \o p[k]]
<1>1. p \in Seq(Text) /\ p # <<>> /\ \A k \in DOMAIN p : p[k] # <<>> /\ Slash \notin Range(p[k])
  BY SyncAssumption DEF Text
<1>2. DOMAIN p = 1..Len(p) /\ Len(p) \in Nat \ {0}
  BY <1>1, EmptySeq
<1>3. <<Slash>> \in Text /\ Len(<<Slash>>) = 1 /\ <<Slash>>[1] = Slash
  BY DEF Text, Byte, Slash
<1>4. ASSUME NEW k \in 1..Len(p)
      PROVE  /\ s[k] \in Text /\ Len(s[k]) \in Nat /\ Len(s[k]) >= 2
             /\ s[k][1] = Slash /\ s[k][2] # Slash /\ s[k][Len(s[k])] # Slash
  <2> DEFINE n == p[k]
  <2>1. n \in Text /\ Len(n) \in Nat \ {0} /\ Slash \notin Range(n)
    <3>1. n \in Text /\ n # <<>> /\ Slash \notin Range(n)
      BY <1>1, <1>2
    <3> HIDE DEF n
    <3> QED BY <3>1, EmptySeq DEF Text
  <2>2. \A i \in 1..Len(n) : n[i] # Slash
    BY <2>1 DEF Range, Text
  <2>3. s[k] = <<Slash>> \o n
    BY <1>2
  <2> HIDE DEF n, s
  <2>4. /\ s[k] \in Text /\ Len(s[k]) = 1 + Len(n)
        /\ \A i \in 1..(1 + Len(n)) : s[k][i] = IF i <= 1 THEN <<Slash>>[i] ELSE n[i - 1]
    BY <1>3, <2>1, <2>3, ConcatProperties DEF Text
  <2>5. s[k][1] = Slash
    BY <1>3, <2>1, <2>4
  <2>6. s[k][2] = n[1] /\ s[k][1 + Len(n)] = n[Len(n)]
    BY <2>1, <2>4
  <2> QED BY <2>1, <2>2, <2>4, <2>5, <2>6
<1>5. s \in Seq(Text) /\ s # <<>> /\ Len(s) = Len(p)
  <2>1. s \in [1..Len(p) -> Text]
    BY <1>2, <1>4
  <2> HIDE DEF s
  <2>2. s \in Seq(Text)
    BY <1>2, <2>1, SeqDef
  <2>3. Len(s) = Len(p)
    BY <1>2, <2>1, <2>2
  <2> QED BY <1>2, <2>2, <2>3
<1>6. Relative(p) = FlattenSeq(s)
  BY DEF Relative
<1> HIDE DEF s
<1>7. PICK f \in [1..Len(s) -> Text] :
         /\ FlattenSeq(s) = f[Len(s)]
         /\ f[1] = s[1]
         /\ \A k \in 2..Len(s) : f[k] = f[k - 1] \o s[k]
  BY <1>5, FlattenFacts DEF Text
<1> DEFINE Slashed(t) == /\ Len(t) \in Nat /\ Len(t) >= 2
                         /\ t[1] = Slash /\ t[2] # Slash /\ t[Len(t)] # Slash
           P == {k \in 1..Len(s) : Slashed(f[k])}
<1>8. ASSUME NEW k \in 1..Len(s), \A j \in 1..(k - 1) : j \in P
      PROVE  k \in P
  <2>1. CASE k = 1
    BY <1>4, <1>5, <1>7, <2>1
  <2>2. CASE k # 1
    <3>1. k \in 2..Len(s) /\ k - 1 \in 1..(k - 1) /\ k - 1 \in 1..Len(s)
      BY <1>2, <1>5, <2>2
    <3> DEFINE a == f[k - 1]
               b == s[k]
    <3>2. a \in Text /\ Slashed(a)
      BY <1>7, <1>8, <3>1
    <3>3. b \in Text /\ Slashed(b)
      BY <1>4, <1>5
    <3>4. f[k] = a \o b
      BY <1>7, <3>1
    <3> HIDE DEF a, b
    <3>5. /\ Len(a \o b) = Len(a) + Len(b)
          /\ \A i \in 1..(Len(a) + Len(b)) :
                (a \o b)[i] = IF i <= Len(a) THEN a[i] ELSE b[i - Len(a)]
      BY <3>2, <3>3, ConcatProperties DEF Text
    <3>6. (a \o b)[1] = a[1] /\ (a \o b)[2] = a[2]
      BY <3>2, <3>3, <3>5
    <3>7. (a \o b)[Len(a) + Len(b)] = b[Len(b)]
      <4>1. /\ Len(a) + Len(b) \in 1..(Len(a) + Len(b)) /\ ~(Len(a) + Len(b) <= Len(a))
            /\ Len(a) + Len(b) - Len(a) = Len(b)
        BY <3>2, <3>3
      <4> QED BY <3>5, <4>1
    <3>8. Slashed(a \o b)
      BY <3>2, <3>3, <3>5, <3>6, <3>7
    <3> QED BY <3>4, <3>8
  <2> QED BY <2>1, <2>2
<1>9. Len(s) \in 1..Len(s) /\ Len(s) \in Nat
  BY <1>2, <1>5
<1>10. Len(s) \in P
  <2> HIDE DEF P
  <2> QED BY <1>8, <1>9, UpTo
<1> QED BY <1>6, <1>7, <1>9, <1>10

\* Two strings with a slash between them, of which the second is that of a path.
LEMMA JoinFacts ==
    ASSUME NEW d \in Text, d # <<>>, NEW r \in Text, Len(r) \in Nat, Len(r) >= 2,
           r[1] = Slash, r[Len(r)] # Slash
    PROVE  /\ joinSlashes(<<d, r>>) = trim(d) \o r
           /\ joinSlashes(<<d, r>>) \in Text
<1> DEFINE s == [k \in DOMAIN <<d, r>> |-> IF <<d, r>>[k] = <<>> THEN <<>>
                                          ELSE trim(<<d, r>>[k]) \o <<Slash>>]
           m == trim(d)
           t == SubSeq(r, 2, Len(r))
           sl == <<Slash>>
<1>1. sl \in Text /\ Len(sl) = 1 /\ sl[1] = Slash /\ Slash \in Byte
  BY DEF Text, Byte, Slash
<1>2. trim(r) = t
  BY DEF trim, Last
<1>3. /\ t \in Text /\ Len(t) = Len(r) - 1
      /\ \A i \in 1..(Len(r) - 1) : t[i] = r[i + 1]
  <2>1. 2 \in 1..(Len(r) + 1) /\ Len(r) \in (2 - 1)..Len(r)
    OBVIOUS
  <2> QED BY <2>1, PartOfText
<1>4. m \in Text
  BY TrimFacts
<1>5. r # <<>>
  BY EmptySeq
<1>6. DOMAIN <<d, r>> = 1..2 /\ <<d, r>>[1] = d /\ <<d, r>>[2] = r
  OBVIOUS
<1>7. DOMAIN s = 1..2 /\ s[1] = m \o sl /\ s[2] = t \o sl
  BY <1>2, <1>5, <1>6
<1>8. joinSlashes(<<d, r>>) = Front(FlattenSeq(s))
  BY DEF joinSlashes
<1>9. s = [k \in 1..2 |-> s[k]]
  BY <1>6
<1> HIDE DEF s, m, t, sl
<1>10. m \o sl \in Text /\ t \o sl \in Text
  BY <1>1, <1>3, <1>4, ConcatProperties DEF Text
<1>11. s \in Seq(Text) /\ Len(s) = 2 /\ s # <<>>
  <2>1. \A k \in 1..2 : s[k] \in Text
    <3>1. \A k \in 1..2 : k = 1 \/ k = 2
      OBVIOUS
    <3> QED BY <1>7, <1>10, <3>1
  <2>2. s \in [1..2 -> Text]
    BY <1>9, <2>1
  <2>3. s \in Seq(Text)
    BY <2>2, SeqDef
  <2>4. DOMAIN s = 1..Len(s) /\ Len(s) \in Nat
    BY <2>3
  <2>5. Len(s) = 2
    BY <1>7, <2>4
  <2>6. s # <<>>
    <3> SUFFICES ASSUME s = <<>>
                 PROVE  FALSE
      OBVIOUS
    <3>1. Len(s) = 0
      OBVIOUS
    <3> QED BY <2>5, <3>1
  <2> QED BY <2>3, <2>5, <2>6
<1>12. FlattenSeq(s) = (m \o sl) \o (t \o sl)
  <2>1. PICK f \in [1..Len(s) -> Text] :
           /\ FlattenSeq(s) = f[Len(s)]
           /\ f[1] = s[1]
           /\ \A k \in 2..Len(s) : f[k] = f[k - 1] \o s[k]
    BY <1>11, FlattenFacts DEF Text
  <2>2. f[2] = f[1] \o s[2]
    BY <1>11, <2>1
  <2> QED BY <1>7, <1>11, <2>1, <2>2
<1>13. sl \o t = r
  <2>1. /\ sl \o t \in Text /\ Len(sl \o t) = Len(r)
        /\ \A i \in 1..Len(r) : (sl \o t)[i] = IF i <= 1 THEN sl[i] ELSE t[i - 1]
    <3>1. /\ sl \o t \in Text /\ Len(sl \o t) = Len(sl) + Len(t)
          /\ \A i \in 1..(Len(sl) + Len(t)) :
                (sl \o t)[i] = IF i <= Len(sl) THEN sl[i] ELSE t[i - Len(sl)]
      BY <1>1, <1>3, JoinedText
    <3>2. Len(sl) + Len(t) = Len(r)
      BY <1>1, <1>3
    <3> QED BY <1>1, <3>1, <3>2
  <2>2. \A i \in 1..Len(r) : (sl \o t)[i] = r[i]
    <3> SUFFICES ASSUME NEW i \in 1..Len(r)
                 PROVE  (sl \o t)[i] = r[i]
      OBVIOUS
    <3>1. CASE i = 1
      BY <1>1, <2>1, <3>1
    <3>2. CASE i # 1
      <4>1. i - 1 \in 1..(Len(r) - 1) /\ ~(i <= 1)
        BY <3>2
      <4>2. t[i - 1] = r[i]
        BY <1>3, <4>1
      <4> QED BY <2>1, <4>1, <4>2
    <3> QED BY <3>1, <3>2
  <2> QED BY <2>1, <2>2, SeqEqual DEF Text
<1>14. (m \o sl) \o (t \o sl) = (m \o r) \o sl
  <2>1. (m \o sl) \o (t \o sl) = ((m \o sl) \o t) \o sl
    <3> DEFINE x == m \o sl
    <3>1. x \in Text
      BY <1>10
    <3> HIDE DEF x
    <3>2. \A u \in Text : (x \o t) \o u = x \o (t \o u)
      BY <1>3, <3>1, JoinedText
    <3> QED BY <1>1, <3>2 DEF x
  <2>2. (m \o sl) \o t = m \o (sl \o t)
    BY <1>1, <1>3, <1>4, JoinedText
  <2> QED BY <1>13, <2>1, <2>2
<1>15. m \o r \in Text
  BY <1>4, ConcatProperties DEF Text
<1>16. Front((m \o r) \o sl) = m \o r
  BY <1>1, <1>15, FrontOfText DEF sl
<1> QED BY <1>8, <1>12, <1>14, <1>15, <1>16 DEF m

\* What unJoinPaths takes away.
LEMMA UnJoinFacts ==
    ASSUME NEW d \in Text, NEW s \in Text
    PROVE  /\ unJoinPaths(d, s) \in Text
           /\ unJoinPaths(d, s) # <<>> => s = d \o unJoinPaths(d, s)
           /\ unJoinPaths(d, d \o s) = s
<1> DEFINE n == Len(d)
           u == SubSeq(s, n + 1, Len(s))
<1>1. n \in Nat /\ Len(s) \in Nat
  BY DEF Text
<1>2. <<>> \in Text
  BY EmptySeq DEF Text
<1>3. ASSUME IsPrefix(d, s)
      PROVE  u \in Text /\ s = d \o u
  <2>1. n <= Len(s) /\ SubSeq(d, 1, n) = SubSeq(s, 1, n)
    BY <1>3 DEF IsPrefix
  <2>2. n \in 0..Len(s) /\ n \in 0..Len(d)
    BY <1>1, <2>1
  <2>3. /\ u \in Text /\ Len(u) = Len(s) - n
        /\ \A i \in 1..(Len(s) - n) : u[i] = s[n + i]
    <3> HIDE DEF n
    <3> QED BY <2>2, PartsOfText
  <2>4. \A i \in 1..n : d[i] = s[i]
    <3> HIDE DEF n
    <3>1. \A i \in 1..n : SubSeq(d, 1, n)[i] = d[i] /\ SubSeq(s, 1, n)[i] = s[i]
      BY <2>2, PartsOfText
    <3> QED BY <2>1, <3>1
  <2> HIDE DEF u
  <2>5. /\ d \o u \in Text /\ Len(d \o u) = Len(s)
        /\ \A i \in 1..Len(s) : (d \o u)[i] = IF i <= n THEN d[i] ELSE u[i - n]
    <3>1. /\ d \o u \in Text /\ Len(d \o u) = n + Len(u)
          /\ \A i \in 1..(n + Len(u)) : (d \o u)[i] = IF i <= n THEN d[i] ELSE u[i - n]
      BY <2>3, JoinedText
    <3>2. n + Len(u) = Len(s)
      BY <1>1, <2>3
    <3> QED BY <3>1, <3>2
  <2>6. \A i \in 1..Len(s) : s[i] = (d \o u)[i]
    <3> SUFFICES ASSUME NEW i \in 1..Len(s)
                 PROVE  s[i] = (d \o u)[i]
      OBVIOUS
    <3> HIDE DEF n
    <3>1. CASE i <= n
      BY <1>1, <2>4, <2>5, <3>1
    <3>2. CASE ~(i <= n)
      <4>1. i - n \in 1..(Len(s) - n) /\ n + (i - n) = i
        BY <1>1, <3>2
      <4> QED BY <2>3, <2>5, <3>2, <4>1
    <3> QED BY <3>1, <3>2
  <2>7. s = d \o u
    BY <2>5, <2>6, SeqEqual DEF Text
  <2> QED BY <2>3, <2>7
<1>4. unJoinPaths(d, s) = IF IsPrefix(d, s) THEN u ELSE <<>>
  BY DEF unJoinPaths
<1> HIDE DEF u
<1>5. /\ unJoinPaths(d, s) \in Text
      /\ unJoinPaths(d, s) # <<>> => s = d \o unJoinPaths(d, s)
  BY <1>2, <1>3, <1>4
<1>6. unJoinPaths(d, d \o s) = s
  <2> DEFINE t == d \o s
  <2>1. /\ t \in Text /\ Len(t) = n + Len(s)
        /\ \A i \in 1..(n + Len(s)) : t[i] = IF i <= n THEN d[i] ELSE s[i - n]
    BY JoinedText
  <2> HIDE DEF t
  <2>2. n \in 0..Len(t) /\ n \in 0..Len(d)
    BY <1>1, <2>1
  <2>3. SubSeq(d, 1, n) = SubSeq(t, 1, n)
    <3> HIDE DEF n
    <3>1. /\ SubSeq(t, 1, n) \in Text /\ Len(SubSeq(t, 1, n)) = n
          /\ \A i \in 1..n : SubSeq(t, 1, n)[i] = t[i]
      BY <2>1, <2>2, PartsOfText
    <3>2. /\ SubSeq(d, 1, n) \in Text /\ Len(SubSeq(d, 1, n)) = n
          /\ \A i \in 1..n : SubSeq(d, 1, n)[i] = d[i]
      BY <2>2, PartsOfText
    <3>3. \A i \in 1..n : t[i] = d[i]
      BY <1>1, <2>1
    <3> QED BY <3>1, <3>2, <3>3, SeqEqual DEF Text
  <2>4. IsPrefix(d, t)
    BY <1>1, <2>1, <2>3 DEF IsPrefix
  <2>5. SubSeq(t, n + 1, Len(t)) = s
    <3> DEFINE v == SubSeq(t, n + 1, Len(t))
    <3>1. /\ v \in Text /\ Len(v) = Len(t) - n
          /\ \A i \in 1..(Len(t) - n) : v[i] = t[n + i]
      <4> HIDE DEF n
      <4> QED BY <2>1, <2>2, PartsOfText
    <3> HIDE DEF v
    <3>2. Len(t) - n = Len(s)
      BY <1>1, <2>1
    <3>3. \A i \in 1..Len(s) : t[n + i] = s[i]
      <4> SUFFICES ASSUME NEW i \in 1..Len(s)
                   PROVE  t[n + i] = s[i]
        OBVIOUS
      <4>1. n + i \in 1..(n + Len(s)) /\ ~(n + i <= n) /\ (n + i) - n = i
        BY <1>1
      <4> QED BY <2>1, <4>1
    <3>4. v = s
      BY <3>1, <3>2, <3>3, SeqEqual DEF Text
    <3> QED BY <3>4 DEF v
  <2> QED BY <2>4, <2>5 DEF unJoinPaths, t
<1> QED BY <1>5, <1>6
\* The name of an object is remote_dir between its slashes, and the string of the path.
LEMMA ObjectNames ==
    ASSUME NEW e \in Entries, NEW p \in Path
    PROVE  /\ e.remote_dir \in Text /\ e.remote_dir # <<>> /\ trim(e.remote_dir) \in Text
           /\ objectName[e][p] = trim(e.remote_dir) \o Relative(p)
           /\ objectName[e][p] \in Text
<1>1. e.remote_dir \in Text /\ e.remote_dir # <<>>
  BY SyncAssumption DEF Text
<1>2. objectName[e][p] = joinSlashes(<<e.remote_dir, Relative(p)>>)
  BY DEF objectName
<1> QED BY <1>1, <1>2, RelativeFacts, TrimFacts, JoinFacts

\* A name is that of the object of a path, or a foreign one; only the first kind
\* is taken for the name of a local path, and then it is the object of that path.
LEMMA NamesNotConfused ==
    ASSUME NEW e \in Entries, NEW p \in Path, NEW q \in Path,
           unJoinPaths(e.remote_dir, objectName[e][q]) = Relative(p)
    PROVE  objectName[e][q] = objectName[e][p]
<1> DEFINE d == e.remote_dir
           m == trim(e.remote_dir)
           u == Relative(q)
           v == Relative(p)
           s == objectName[e][q]
<1>1. /\ d \in Text /\ m \in Text /\ d # <<>> /\ s \in Text
      /\ s = m \o u /\ objectName[e][p] = m \o v
  BY ObjectNames
<1>2. /\ u \in Text /\ Len(u) \in Nat /\ Len(u) >= 2 /\ u[2] # Slash
      /\ v \in Text /\ Len(v) \in Nat /\ Len(v) >= 2 /\ v[1] = Slash
  BY RelativeFacts
<1>3. unJoinPaths(d, s) = v
  OBVIOUS
<1>4. \/ m = d
      \/ Len(d) = Len(m) + 1
      \/ (Len(d) = Len(m) + 2 /\ d[Len(d)] = Slash)
  BY <1>1, TrimFacts
<1> HIDE DEF d, m, u, v, s
<1>5. v # <<>>
  BY <1>2, EmptySeq
<1>6. s = d \o v
  BY <1>1, <1>3, <1>5, UnJoinFacts
<1>7. /\ Len(m) \in Nat /\ Len(d) \in Nat
      /\ \A i \in 1..(Len(m) + Len(u)) : s[i] = IF i <= Len(m) THEN m[i] ELSE u[i - Len(m)]
      /\ \A i \in 1..(Len(d) + Len(v)) : s[i] = IF i <= Len(d) THEN d[i] ELSE v[i - Len(d)]
  <2>1. /\ Len(m) \in Nat
        /\ \A i \in 1..(Len(m) + Len(u)) :
              (m \o u)[i] = IF i <= Len(m) THEN m[i] ELSE u[i - Len(m)]
    BY <1>1, <1>2, JoinedText
  <2>2. /\ Len(d) \in Nat
        /\ \A i \in 1..(Len(d) + Len(v)) :
              (d \o v)[i] = IF i <= Len(d) THEN d[i] ELSE v[i - Len(d)]
    BY <1>1, <1>2, JoinedText
  <2> QED BY <1>1, <1>6, <2>1, <2>2
<1> DEFINE k == Len(m) + 2
<1>8. s[k] = u[2]
  <2>1. k \in 1..(Len(m) + Len(u)) /\ ~(k <= Len(m)) /\ k - Len(m) = 2
    BY <1>2, <1>7
  <2> HIDE DEF k
  <2> QED BY <1>7, <2>1
<1>9. CASE Len(d) = Len(m) + 1
  <2>1. k \in 1..(Len(d) + Len(v)) /\ ~(k <= Len(d)) /\ k - Len(d) = 1
    BY <1>2, <1>7, <1>9
  <2> HIDE DEF k
  <2>2. s[k] = v[1]
    BY <1>7, <2>1
  <2> QED BY <1>2, <1>8, <2>2
<1>10. CASE Len(d) = Len(m) + 2 /\ d[Len(d)] = Slash
  <2>1. k \in 1..(Len(d) + Len(v)) /\ k <= Len(d) /\ k = Len(d)
    BY <1>2, <1>7, <1>10
  <2> HIDE DEF k
  <2>2. s[k] = d[Len(d)]
    BY <1>7, <2>1
  <2> QED BY <1>2, <1>8, <1>10, <2>2
<1>11. CASE m = d
  BY <1>1, <1>6, <1>11 DEF s
<1> QED BY <1>4, <1>9, <1>10, <1>11 DEF s

\* There are finitely many names, and each is a string.
LEMMA NamesAreTexts ==
    ASSUME NEW e \in Entries, e = entry
    PROVE  Names \subseteq Text /\ IsFiniteSet(Names)
<1> DEFINE f == [p \in Path |-> objectName[e][p]]
           T == {objectName[e][p] : p \in Path}
<1>1. T \subseteq Text
  BY ObjectNames
<1>2. f \in Surjection(Path, T)
  BY DEF Surjection
<1>3. IsFiniteSet(Path) /\ IsFiniteSet(Foreign) /\ Foreign \subseteq Text
  BY SyncAssumption DEF Text
<1>4. Names = Foreign \cup T
  BY DEF Names
<1> HIDE DEF f, T
<1>5. IsFiniteSet(T)
  BY <1>2, <1>3, FS_Surjection
<1>6. IsFiniteSet(Foreign \cup T)
  BY <1>3, <1>5, FS_Union
<1> QED BY <1>1, <1>3, <1>4, <1>6
-----------------------------------------------------------------------------
(* The inductive invariant                                                 *)

\* A file that has to be uploaded.
Needs(p) == kind[p] = "file" /\ p \notin Ignored /\ ~UpToDate(p)

\* A file that has not.
Current(p) == kind[p] = "file" /\ UpToDate(p)

\* The local files and the page are in their orders, and nothing is taken from
\* either before the page has arrived.
Sorted ==
    /\ localFiles \in Seq(Path) /\ page \in Seq(Names) /\ jobs \in Seq(Path)
    /\ \A i, k \in DOMAIN localFiles : i < k => PathBefore(localFiles[i], localFiles[k])
    /\ \A i, k \in DOMAIN page : i < k => ByteBefore(page[i], page[k])
    /\ pc \in {"connect", "listing"} =>
          local = 1 /\ remote = 1 /\ page = <<>> /\ jobs = <<>>
    /\ pc = "connect" => localFiles = <<>>
    /\ pc = "done" => local = Len(localFiles) + 1

\* Of the files that the iterator has passed none is missing among the jobs.
PassedHaveJobs ==
    \A i \in 1..(local - 1) : Needs(localFiles[i]) => HasJob(localFiles[i])

\* The jobs are about files that it has passed, in their order.
JobsInOrder ==
    /\ \A i, k \in DOMAIN jobs : i < k => PathBefore(jobs[i], jobs[k])
    /\ \A i \in DOMAIN jobs, k \in local..Len(localFiles) : PathBefore(jobs[i], localFiles[k])

\* The object of a file that is current and not passed yet is found on the rest
\* of the page; when the merge is over there is no such file.
CurrentAhead ==
    Plain /\ SameOrder =>
       \A k \in local..Len(localFiles) : Current(localFiles[k]) =>
          /\ pc # "leftover"
          /\ pc = "merge" => \E m \in remote..Len(page) : page[m] = objectName[entry][localFiles[k]]

\* Any reachable state, and enough for each step to lead to such a state again.
IInv ==
    /\ TypeOK
    /\ Sorted
    /\ PassedHaveJobs
    /\ JobsInOrder
    /\ CurrentAhead
    /\ NoneNeedless
\* Nothing but the two iterators, the jobs and the place in the code changes.
Stays == UNCHANGED <<kind, newer, entry, localFiles, page>>

\* While these variables stay, so does what is told from them.
LEMMA Kept ==
    ASSUME Stays
    PROVE  /\ Plain' = Plain /\ SameOrder' = SameOrder /\ Names' = Names
           /\ \A p \in Path : /\ UpToDate(p)' = UpToDate(p)
                              /\ Needs(p)' = Needs(p) /\ Current(p)' = Current(p)
  BY DEF Stays, Plain, SameOrder, Names, UpToDate, Needs, Current

\* The order of strings cannot be both ways.
LEMMA NotBothWays ==
    ASSUME NEW s \in Text, NEW t \in Text, ByteBefore(s, t)
    PROVE  s # t /\ ~ByteBefore(t, s)
  BY TextsOrdered DEF Strict

\* The items of a sequence.
LEMMA Items ==
    ASSUME NEW S, NEW s \in Seq(S)
    PROVE  /\ DOMAIN s = 1..Len(s) /\ Len(s) \in Nat
           /\ \A n \in 1..Len(s) : s[n] \in S /\ s[n] \in Range(s)
           /\ Range(s) \subseteq S
           /\ \A x \in Range(s) : \E n \in 1..Len(s) : s[n] = x
  BY DEF Range

\* What a job is added to.
LEMMA OneMore ==
    ASSUME NEW S, NEW s \in Seq(S), NEW x \in S
    PROVE  /\ Append(s, x) \in Seq(S) /\ Len(Append(s, x)) = Len(s) + 1
           /\ \A i \in 1..Len(s) : Append(s, x)[i] = s[i]
           /\ Append(s, x)[Len(s) + 1] = x
           /\ Range(Append(s, x)) = Range(s) \cup {x}
<1> DEFINE t == Append(s, x)
<1>1. /\ t \in Seq(S) /\ Len(t) = Len(s) + 1 /\ Len(s) \in Nat
      /\ \A i \in 1..Len(s) : t[i] = s[i]
      /\ t[Len(s) + 1] = x
  BY AppendProperties
<1> HIDE DEF t
<1>2. DOMAIN t = 1..(Len(s) + 1) /\ DOMAIN s = 1..Len(s)
  BY <1>1
<1>3. Range(t) = Range(s) \cup {x}
  BY <1>1, <1>2 DEF Range
<1> QED BY <1>1, <1>3 DEF t

\* What the invariant says of the file at the iterator.
LEMMA AtHere ==
    ASSUME TypeOK, Sorted, local <= Len(localFiles)
    PROVE  /\ here \in Path /\ local \in 1..Len(localFiles) /\ Len(localFiles) \in Nat
           /\ Relative(here) \in Text
           /\ \A k \in (local + 1)..Len(localFiles) : PathBefore(here, localFiles[k])
<1>1. /\ DOMAIN localFiles = 1..Len(localFiles) /\ Len(localFiles) \in Nat
      /\ \A n \in 1..Len(localFiles) : localFiles[n] \in Path
  BY Items DEF Sorted
<1>2. local \in 1..Len(localFiles)
  BY <1>1 DEF TypeOK
<1>3. ASSUME NEW k \in (local + 1)..Len(localFiles)
      PROVE  PathBefore(here, localFiles[k])
  <2>1. k \in 1..Len(localFiles) /\ local < k
    BY <1>1, <1>2
  <2> QED BY <1>1, <1>2, <2>1 DEF Sorted, here
<1> QED BY <1>1, <1>2, <1>3, RelativeFacts DEF here

\* The iterator goes on past a file that needs no upload, or has its job now.
LEMMA GoingOn ==
    ASSUME TypeOK, Sorted, PassedHaveJobs, JobsInOrder, NoneNeedless,
           Stays, UNCHANGED pc, pc \in {"merge", "leftover"},
           local <= Len(localFiles), local' = local + 1, remote' \in 1..(Len(page) + 1),
           \/ (jobs' = jobs /\ ~Needs(here))
           \/ (jobs' = Append(jobs, here) /\ (Plain /\ SameOrder => ~Current(here)))
    PROVE  TypeOK' /\ Sorted' /\ PassedHaveJobs' /\ JobsInOrder' /\ NoneNeedless'
<1>1. /\ here \in Path /\ local \in 1..Len(localFiles) /\ Len(localFiles) \in Nat
      /\ \A k \in (local + 1)..Len(localFiles) : PathBefore(here, localFiles[k])
  BY AtHere
<1>2. /\ Plain' = Plain /\ SameOrder' = SameOrder /\ Names' = Names
      /\ \A p \in Path : /\ UpToDate(p)' = UpToDate(p)
                         /\ Needs(p)' = Needs(p) /\ Current(p)' = Current(p)
  BY Kept
<1>3. localFiles' = localFiles /\ page' = page /\ kind' = kind
  BY DEF Stays
<1>4. /\ jobs \in Seq(Path) /\ Len(jobs) \in Nat /\ DOMAIN jobs = 1..Len(jobs)
      /\ Range(jobs) \subseteq Path
      /\ \A n \in 1..Len(jobs) : jobs[n] \in Path
      /\ \A n \in 1..Len(localFiles) : localFiles[n] \in Path
  <2>1. jobs \in Seq(Path) /\ localFiles \in Seq(Path)
    BY DEF Sorted
  <2> QED BY <2>1, Items
<1>5. /\ jobs' \in Seq(Path)
      /\ Range(jobs) \subseteq Range(jobs') /\ Range(jobs') \subseteq Range(jobs) \cup {here}
      /\ jobs' = jobs => Range(jobs') = Range(jobs)
      /\ Needs(here) => here \in Range(jobs')
  <2> DEFINE more == Append(jobs, here)
  <2>1. more \in Seq(Path) /\ Range(more) = Range(jobs) \cup {here}
    BY <1>1, <1>4, OneMore
  <2>2. (jobs' = jobs /\ ~Needs(here)) \/ jobs' = more
    OBVIOUS
  <2> HIDE DEF more
  <2> QED BY <1>4, <2>1, <2>2
<1>6. TypeOK'
  <2>1. local + 1 \in 1..(Len(localFiles) + 1)
    BY <1>1
  <2>2. Range(jobs') \subseteq Path
    BY <1>1, <1>4, <1>5
  <2> QED BY <1>2, <2>1, <2>2 DEF TypeOK, Stays
<1>7. Sorted'
  BY <1>2, <1>3, <1>5 DEF Sorted
<1>8. PassedHaveJobs'
  <2> SUFFICES ASSUME NEW i \in 1..local, Needs(localFiles[i])
               PROVE  localFiles[i] \in Range(jobs')
    <3>1. \A i \in 1..local : localFiles[i] \in Path
      BY <1>1, <1>4
    <3>2. local' - 1 = local
      BY <1>1
    <3> QED BY <1>2, <1>3, <3>1, <3>2 DEF PassedHaveJobs, HasJob
  <2>1. CASE i = local
    BY <1>5, <2>1 DEF here
  <2>2. CASE i # local
    <3>1. i \in 1..(local - 1)
      BY <1>1, <2>2
    <3> QED BY <1>5, <3>1 DEF PassedHaveJobs, HasJob
  <2> QED BY <2>1, <2>2
<1>9. JobsInOrder'
  <2>1. /\ \A i, k \in 1..Len(jobs) : i < k => PathBefore(jobs[i], jobs[k])
        /\ \A i \in 1..Len(jobs), k \in local..Len(localFiles) : PathBefore(jobs[i], localFiles[k])
    BY <1>4 DEF JobsInOrder
  <2>2. \A k \in (local + 1)..Len(localFiles) : k \in local..Len(localFiles)
    BY <1>1
  <2>3. CASE jobs' = jobs
    BY <1>3, <1>4, <2>1, <2>2, <2>3 DEF JobsInOrder
  <2>4. CASE jobs' = Append(jobs, here)
    <3>1. /\ Len(jobs') = Len(jobs) + 1 /\ DOMAIN jobs' = 1..(Len(jobs) + 1)
          /\ \A i \in 1..Len(jobs) : jobs'[i] = jobs[i]
          /\ jobs'[Len(jobs) + 1] = here
      <4> DEFINE more == Append(jobs, here)
      <4>1. /\ more \in Seq(Path) /\ Len(more) = Len(jobs) + 1
            /\ \A i \in 1..Len(jobs) : more[i] = jobs[i]
            /\ more[Len(jobs) + 1] = here
        BY <1>1, <1>4, OneMore
      <4> HIDE DEF more
      <4>2. DOMAIN more = 1..(Len(jobs) + 1)
        BY <4>1
      <4>3. jobs' = more
        BY <2>4 DEF more
      <4> QED BY <4>1, <4>2, <4>3
    <3>2. \A i \in 1..Len(jobs) : PathBefore(jobs[i], here)
      <4>1. local \in local..Len(localFiles)
        BY <1>1
      <4> QED BY <2>1, <4>1 DEF here
    <3>3. ASSUME NEW i \in 1..(Len(jobs) + 1), NEW k \in 1..(Len(jobs) + 1), i < k
          PROVE  PathBefore(jobs'[i], jobs'[k])
      <4>1. i \in 1..Len(jobs) /\ (k \in 1..Len(jobs) \/ k = Len(jobs) + 1)
        BY <1>4, <3>3
      <4> QED BY <2>1, <3>1, <3>2, <3>3, <4>1
    <3>4. ASSUME NEW i \in 1..(Len(jobs) + 1), NEW k \in (local + 1)..Len(localFiles)
          PROVE  PathBefore(jobs'[i], localFiles[k])
      <4>1. i \in 1..Len(jobs) \/ i = Len(jobs) + 1
        BY <1>4
      <4> QED BY <1>1, <2>1, <2>2, <3>1, <4>1
    <3> QED BY <1>3, <3>1, <3>3, <3>4 DEF JobsInOrder
  <2> QED BY <2>3, <2>4
<1>10. NoneNeedless'
  <2> SUFFICES ASSUME Plain, SameOrder, NEW p \in Path, Current(p), p \in Range(jobs')
               PROVE  FALSE
    BY <1>2 DEF NoneNeedless, Current, HasJob
  <2>1. p \notin Range(jobs)
    BY DEF NoneNeedless, Current, HasJob
  <2>2. p = here /\ jobs' # jobs
    BY <1>5, <2>1
  <2> QED BY <2>2
<1> QED BY <1>6, <1>7, <1>8, <1>9, <1>10

\* Neither the file at the iterator nor the jobs change.
LEMMA OthersStay ==
    ASSUME IInv, Stays, UNCHANGED <<local, jobs>>, remote' \in 1..(Len(page) + 1),
           \/ pc' \in {"merge", "leftover", "failed", "vanished", "badURL"}
           \/ (pc' = "done" /\ local > Len(localFiles))
    PROVE  TypeOK' /\ Sorted' /\ PassedHaveJobs' /\ JobsInOrder' /\ NoneNeedless'
<1>1. /\ Plain' = Plain /\ SameOrder' = SameOrder /\ Names' = Names
      /\ \A p \in Path : /\ UpToDate(p)' = UpToDate(p)
                         /\ Needs(p)' = Needs(p) /\ Current(p)' = Current(p)
  BY Kept
<1>2. localFiles \in Seq(Path) /\ Len(localFiles) \in Nat /\ local \in 1..(Len(localFiles) + 1)
  BY Items DEF IInv, Sorted, TypeOK
<1>3. TypeOK'
  BY <1>1 DEF IInv, TypeOK, Stays
<1>4. Sorted'
  BY <1>1, <1>2 DEF IInv, Sorted, Stays
<1>5. PassedHaveJobs'
  <2>1. \A i \in 1..(local - 1) : localFiles[i] \in Path
    BY <1>2, Items
  <2> QED BY <1>1, <2>1 DEF IInv, PassedHaveJobs, HasJob, Stays
<1>6. JobsInOrder'
  BY DEF IInv, JobsInOrder, Stays
<1>7. NoneNeedless'
  <2>1. \A p \in Path : /\ (kind[p] = "file")' = (kind[p] = "file")
                        /\ HasJob(p)' = HasJob(p)
    BY DEF Stays, HasJob
  <2> QED BY <1>1, <2>1 DEF IInv, NoneNeedless
<1> QED BY <1>3, <1>4, <1>5, <1>6, <1>7

\* A file that is current and still ahead: as long as the rest of the page stays
\* the same, its object is there.
LEMMA StaysAhead ==
    ASSUME TypeOK, Sorted, CurrentAhead, Stays, UNCHANGED remote,
           local' = local \/ local' = local + 1,
           pc' = pc \/ pc' \in {"failed", "vanished", "badURL"}
    PROVE  CurrentAhead'
<1>1. localFiles \in Seq(Path) /\ Len(localFiles) \in Nat /\ local \in 1..(Len(localFiles) + 1)
  BY Items DEF Sorted, TypeOK
<1>2. CASE pc' \in {"failed", "vanished", "badURL"}
  BY <1>2 DEF CurrentAhead
<1>3. CASE pc' = pc
  <2>1. \A k \in local'..Len(localFiles) : k \in local..Len(localFiles) /\ localFiles[k] \in Path
    <3>1. \A k \in local'..Len(localFiles) : k \in local..Len(localFiles) /\ k \in 1..Len(localFiles)
      BY <1>1
    <3> QED BY <1>1, <3>1, Items
  <2>2. /\ Plain' = Plain /\ SameOrder' = SameOrder
        /\ \A p \in Path : Current(p)' = Current(p)
    BY Kept
  <2>3. localFiles' = localFiles /\ page' = page /\ entry' = entry
    BY DEF Stays
  <2> QED BY <1>3, <2>1, <2>2, <2>3 DEF CurrentAhead
<1> QED BY <1>2, <1>3

\* The job of a file that is not current, if it is to have one.
LEMMA Uploading ==
    ASSUME IInv, Stays, pc \in {"merge", "leftover"}, local <= Len(localFiles),
           remote' \in 1..(Len(page) + 1),
           \/ (Upload(here) /\ (Plain /\ SameOrder => ~Current(here)))
           \/ (Pass /\ ~Needs(here))
    PROVE  /\ TypeOK' /\ Sorted' /\ PassedHaveJobs' /\ JobsInOrder' /\ NoneNeedless'
           /\ \/ (pc' = pc /\ local' = local + 1)
              \/ (pc' = "badURL" /\ local' = local)
<1>1. CASE Pass /\ ~Needs(here)
  BY <1>1, GoingOn DEF IInv, Pass
<1>2. CASE here \in Ignored /\ Pass
  <2>1. ~Needs(here)
    BY <1>2 DEF Needs
  <2> QED BY <1>2, <2>1, GoingOn DEF IInv, Pass
<1>3. CASE jobs' = Append(jobs, here) /\ local' = local + 1 /\ UNCHANGED pc
  <2>1. Plain /\ SameOrder => ~Current(here)
    <3>1. jobs # Append(jobs, here)
      <4>1. jobs \in Seq(Path) /\ here \in Path
        BY AtHere DEF IInv, Sorted
      <4>2. Len(Append(jobs, here)) = Len(jobs) + 1 /\ Len(jobs) \in Nat
        BY <4>1, OneMore, Items
      <4> QED BY <4>2
    <3> QED BY <1>3, <3>1 DEF Pass
  <2> QED BY <1>3, <2>1, GoingOn DEF IInv
<1>4. CASE pc' = "badURL" /\ UNCHANGED <<jobs, local>>
  BY <1>4, OthersStay
<1> QED BY <1>1, <1>2, <1>3, <1>4 DEF Upload

\* The name on the page at the iterator, if it is that of a local file not passed
\* yet: what is left of it is the string of that file, which is the one at the
\* iterator or comes after it.
LEMMA NameOfLater ==
    ASSUME TypeOK, Sorted, Plain, SameOrder, NEW n \in 1..Len(page),
           NEW k \in local..Len(localFiles), page[n] = objectName[entry][localFiles[k]]
    PROVE  /\ unJoinPaths(entry.remote_dir, page[n]) = Relative(localFiles[k])
           /\ k # local => ByteBefore(Relative(here), Relative(localFiles[k]))
<1>1. /\ localFiles \in Seq(Path) /\ Len(localFiles) \in Nat
      /\ local \in 1..(Len(localFiles) + 1)
  BY Items DEF Sorted, TypeOK
<1>2. /\ k \in 1..Len(localFiles) /\ local <= Len(localFiles)
      /\ localFiles[k] \in Path /\ localFiles[k] \in Range(localFiles)
  <2>1. k \in 1..Len(localFiles) /\ local <= Len(localFiles)
    BY <1>1
  <2> QED BY <1>1, <2>1, Items
<1>3. /\ here \in Path /\ local \in 1..Len(localFiles) /\ here \in Range(localFiles)
      /\ \A i \in (local + 1)..Len(localFiles) : PathBefore(here, localFiles[i])
  <2>1. local \in 1..Len(localFiles)
    BY <1>1, <1>2
  <2> QED BY <1>1, <1>2, <2>1, AtHere, Items DEF here
<1>4. entry \in Entries
  BY DEF TypeOK
<1>5. /\ entry.remote_dir \in Text
      /\ page[n] = entry.remote_dir \o Relative(localFiles[k])
      /\ Relative(localFiles[k]) \in Text
  BY <1>2, <1>4, ObjectNames, RelativeFacts DEF Plain
<1>6. unJoinPaths(entry.remote_dir, page[n]) = Relative(localFiles[k])
  BY <1>5, UnJoinFacts
<1>7. ASSUME k # local
      PROVE  ByteBefore(Relative(here), Relative(localFiles[k]))
  <2>1. k \in (local + 1)..Len(localFiles)
    BY <1>1, <1>7
  <2> QED BY <1>2, <1>3, <2>1 DEF SameOrder
<1> QED BY <1>6, <1>7

\* In the merge, a file whose string comes before the name at the iterator is not
\* current: its object would have been before that name.
LEMMA FirstNotCurrent ==
    ASSUME IInv, Plain, SameOrder, Comparing, ByteBefore(Relative(here), remoteRelativePath)
    PROVE  ~Current(here)
<1> SUFFICES ASSUME Current(here)
             PROVE  FALSE
  OBVIOUS
<1>1. /\ local <= Len(localFiles) /\ remote <= Len(page) /\ pc = "merge"
      /\ TypeOK /\ Sorted /\ CurrentAhead
  BY DEF Comparing, IInv
<1>2. here \in Path /\ local \in 1..Len(localFiles) /\ Len(localFiles) \in Nat
  BY <1>1, AtHere
<1>3. /\ page \in Seq(Names) /\ Len(page) \in Nat /\ remote \in 1..Len(page)
      /\ DOMAIN page = 1..Len(page) /\ \A n \in 1..Len(page) : page[n] \in Names
  <2>1. page \in Seq(Names)
    BY <1>1 DEF Sorted
  <2>2. remote \in 1..(Len(page) + 1)
    BY <1>1 DEF TypeOK
  <2> QED BY <1>1, <2>1, <2>2, Items
<1>4. PICK m \in remote..Len(page) : page[m] = objectName[entry][here]
  <2>1. local \in local..Len(localFiles)
    BY <1>2
  <2> QED BY <1>1, <2>1 DEF CurrentAhead, here
<1>5. m \in 1..Len(page) /\ (m = remote \/ remote < m)
  BY <1>3
<1>6. entry \in Entries /\ Names \subseteq Text
  <2>1. entry \in Entries
    BY <1>1 DEF TypeOK
  <2> QED BY <2>1, NamesAreTexts
<1> DEFINE d == entry.remote_dir
           u == Relative(here)
           v == unJoinPaths(d, page[remote])
<1>7. /\ d \in Text /\ u \in Text /\ page[m] = d \o u
      /\ unJoinPaths(d, d \o u) = u
  <2>1. d \in Text /\ page[m] = d \o u
    BY <1>2, <1>4, <1>6, ObjectNames DEF Plain
  <2>2. u \in Text
    BY <1>2, RelativeFacts
  <2> HIDE DEF d, u
  <2> QED BY <2>1, <2>2, UnJoinFacts
<1>8. page[remote] \in Text /\ page[m] \in Text
  BY <1>3, <1>5, <1>6
<1>9. ByteBefore(u, v)
  BY DEF remoteRelativePath
<1>10. v \in Text /\ (v # <<>> => page[remote] = d \o v)
  <2> HIDE DEF d
  <2> QED BY <1>7, <1>8, UnJoinFacts
<1> HIDE DEF d, u, v
<1>11. v # <<>>
  BY <1>7, <1>9, AfterPrefix
<1>12. CASE m = remote
  <2>1. v = u
    BY <1>7, <1>12 DEF v
  <2> QED BY <1>7, <1>9, <2>1, NotBothWays
<1>13. CASE remote < m
  <2>1. ByteBefore(page[remote], page[m])
    BY <1>1, <1>3, <1>5, <1>13 DEF Sorted
  <2>2. ByteBefore(v, u)
    BY <1>7, <1>10, <1>11, <2>1, AfterPrefix
  <2> QED BY <1>7, <1>9, <1>10, <2>2, NotBothWays
<1> QED BY <1>5, <1>12, <1>13
-----------------------------------------------------------------------------
(* It holds at the start, and each action keeps it                         *)

\* Nothing is in the empty sequence.
LEMMA Nothing ==
    /\ Len(<<>>) = 0 /\ DOMAIN <<>> = {} /\ Range(<<>>) = {}
    /\ \A S : <<>> \in Seq(S)
<1>1. DOMAIN <<>> = {} /\ Len(<<>>) = 0
  OBVIOUS
<1>2. Range(<<>>) = {}
  BY <1>1 DEF Range
<1>3. \A S : <<>> \in Seq(S)
  BY EmptySeq
<1> QED BY <1>1, <1>2, <1>3

\* At the start nothing has been looked at.
LEMMA StartsRight == Init => IInv
<1> SUFFICES ASSUME Init
             PROVE  IInv
  OBVIOUS
<1>1. /\ pc = "connect" /\ kind \in [Path -> Kind] /\ newer \in [Path -> BOOLEAN]
      /\ entry \in Entries /\ localFiles = <<>> /\ local = 1 /\ page = <<>>
      /\ remote = 1 /\ jobs = <<>>
  BY DEF Init, Tree
<1>2. TypeOK
  BY <1>1, Nothing DEF TypeOK
<1>3. Sorted
  BY <1>1, Nothing DEF Sorted
<1>4. PassedHaveJobs
  BY <1>1 DEF PassedHaveJobs
<1>5. JobsInOrder
  BY <1>1, Nothing DEF JobsInOrder
<1>6. CurrentAhead
  BY <1>1 DEF CurrentAhead
<1>7. NoneNeedless
  BY <1>1, Nothing DEF NoneNeedless, HasJob
<1> QED BY <1>2, <1>3, <1>4, <1>5, <1>6, <1>7 DEF IInv

\* Files change while nothing has been looked at.
LEMMA ChangeKeeps ==
    ASSUME IInv, NEW p \in Path, Change(p)
    PROVE  IInv'
<1>1. /\ pc = "listing" /\ local = 1 /\ remote = 1 /\ page = <<>> /\ jobs = <<>>
      /\ UNCHANGED <<pc, entry, localFiles, local, page, remote, jobs>>
  BY DEF Change, IInv, Sorted
<1>2. kind' \in [Path -> Kind] /\ newer' \in [Path -> BOOLEAN]
  BY DEF Change, Kind, IInv, TypeOK
<1>3. Names' = Names
  BY <1>1 DEF Names
<1>4. TypeOK'
  BY <1>1, <1>2, <1>3 DEF IInv, TypeOK
<1>5. Sorted'
  BY <1>1, <1>3 DEF IInv, Sorted
<1>6. PassedHaveJobs'
  BY <1>1 DEF PassedHaveJobs
<1>7. JobsInOrder'
  BY <1>1, Nothing DEF JobsInOrder
<1>8. CurrentAhead'
  BY <1>1 DEF CurrentAhead
<1>9. NoneNeedless'
  BY <1>1, Nothing DEF NoneNeedless, HasJob
<1> QED BY <1>4, <1>5, <1>6, <1>7, <1>8, <1>9 DEF IInv

\* The local files are listed and sorted.
LEMMA ListLocalKeeps ==
    ASSUME IInv, ListLocal
    PROVE  IInv'
<1> DEFINE S == {p \in Path : kind[p] # "absent"}
<1>1. /\ pc = "connect" /\ local = 1 /\ remote = 1 /\ page = <<>> /\ jobs = <<>>
      /\ UNCHANGED <<kind, newer, entry, local, page, remote, jobs>>
      /\ localFiles' = sort(S, PathBefore)
      /\ pc' = IF localFiles' = <<>> THEN "done" ELSE "listing"
  BY DEF ListLocal, IInv, Sorted
<1>2. S \in SUBSET Seq(Text) /\ S \subseteq Path /\ IsFiniteSet(S)
  <2>1. Path \subseteq Seq(Text) /\ IsFiniteSet(Path)
    BY SyncAssumption DEF Text
  <2>2. S \in SUBSET Path
    OBVIOUS
  <2> HIDE DEF S
  <2> QED BY <2>1, <2>2, FS_Subset
<1> HIDE DEF S
<1>3. /\ localFiles' \in Seq(S) /\ Range(localFiles') = S
      /\ \A i, k \in DOMAIN localFiles' : i < k => PathBefore(localFiles'[i], localFiles'[k])
  BY <1>1, <1>2, SortedPaths
<1>4. localFiles' \in Seq(Path) /\ Len(localFiles') \in Nat
  BY <1>2, <1>3
<1>5. Names' = Names
  BY <1>1 DEF Names
<1>6. TypeOK'
  <2>1. 1 \in 1..(Len(localFiles') + 1)
    BY <1>4
  <2> QED BY <1>1, <1>2, <1>3, <1>5, <2>1 DEF IInv, TypeOK
<1>7. Sorted'
  <2>1. pc' = "done" => Len(localFiles') = 0
    BY <1>1, Nothing
  <2>2. pc' # "connect" /\ (pc' = "done" => local' = Len(localFiles') + 1)
    BY <1>1, <2>1
  <2>3. \A i, k \in DOMAIN page : i < k => ByteBefore(page[i], page[k])
    BY DEF IInv, Sorted
  <2>4. page \in Seq(Names) /\ jobs \in Seq(Path)
    BY DEF IInv, Sorted
  <2> QED BY <1>1, <1>3, <1>4, <1>5, <2>2, <2>3, <2>4 DEF Sorted
<1>8. PassedHaveJobs'
  BY <1>1 DEF PassedHaveJobs
<1>9. JobsInOrder'
  BY <1>1, Nothing DEF JobsInOrder
<1>10. CurrentAhead'
  BY <1>1 DEF CurrentAhead
<1>11. NoneNeedless'
  BY <1>1, Nothing DEF NoneNeedless, HasJob
<1> QED BY <1>6, <1>7, <1>8, <1>9, <1>10, <1>11 DEF IInv

\* The listing arrives, or does not.
LEMMA doGetPagesKeeps ==
    ASSUME IInv, doGetPages
    PROVE  IInv'
<1>1. /\ pc = "listing" /\ local = 1 /\ remote = 1 /\ page = <<>> /\ jobs = <<>>
      /\ UNCHANGED <<kind, newer, entry, localFiles, local, remote, jobs>>
  BY DEF doGetPages, IInv, Sorted
<1>2. \/ pc' = "merge" /\ \E names \in SUBSET Names : page' = sort(names, ByteBefore)
      \/ pc' = "leftover" /\ UNCHANGED page
      \/ pc' = "failed" /\ UNCHANGED page
  BY DEF doGetPages
<1>3. Names' = Names /\ Names \subseteq Text /\ IsFiniteSet(Names)
  <2>1. entry \in Entries
    BY DEF IInv, TypeOK
  <2> QED BY <1>1, <2>1, NamesAreTexts DEF Names
<1>4. /\ page' \in Seq(Names)
      /\ \A i, k \in DOMAIN page' : i < k => ByteBefore(page'[i], page'[k])
  <2>1. CASE page' = page
    BY <1>1, <2>1, Nothing
  <2>2. ASSUME NEW names \in SUBSET Names, page' = sort(names, ByteBefore)
        PROVE  /\ page' \in Seq(Names)
               /\ \A i, k \in DOMAIN page' : i < k => ByteBefore(page'[i], page'[k])
    <3>1. names \in SUBSET Text /\ IsFiniteSet(names)
      BY <1>3, FS_Subset
    <3>2. /\ page' \in Seq(names)
          /\ \A i, k \in DOMAIN page' : i < k => ByteBefore(page'[i], page'[k])
      BY <2>2, <3>1, SortedTexts
    <3>3. page' \in Seq(Names)
      BY <3>2
    <3> QED BY <3>2, <3>3
  <2> QED BY <1>2, <2>1, <2>2
<1>5. localFiles \in Seq(Path)
  BY DEF IInv, Sorted
<1>6. TypeOK'
  <2>1. Range(page') \subseteq Names /\ Len(page') \in Nat
    BY <1>4, Items
  <2>2. 1 \in 1..(Len(page') + 1)
    BY <2>1
  <2> QED BY <1>1, <1>2, <1>3, <2>1, <2>2 DEF IInv, TypeOK
<1>7. Sorted'
  BY <1>1, <1>2, <1>3, <1>4 DEF IInv, Sorted
<1>8. PassedHaveJobs'
  BY <1>1 DEF PassedHaveJobs
<1>9. JobsInOrder'
  BY <1>1, Nothing DEF JobsInOrder
<1>10. CurrentAhead'
  <2> SUFFICES ASSUME NEW k \in 1..Len(localFiles), Current(localFiles[k])'
               PROVE  /\ pc' # "leftover"
                      /\ pc' = "merge" => \E m \in 1..Len(page') :
                            page'[m] = objectName[entry][localFiles[k]]
    BY <1>1 DEF CurrentAhead
  <2>1. objectName[entry][localFiles[k]] \in Range(page')
    BY <1>1 DEF Current, UpToDate
  <2>2. \A x \in Range(page') : \E m \in 1..Len(page') : page'[m] = x
    BY <1>4, Items
  <2>3. page' = <<>> => FALSE
    BY <2>1, Nothing
  <2> QED BY <1>1, <1>2, <2>1, <2>2, <2>3
<1>11. NoneNeedless'
  BY <1>1, Nothing DEF NoneNeedless, HasJob
<1> QED BY <1>6, <1>7, <1>8, <1>9, <1>10, <1>11 DEF IInv

\* What the iterator of the page is, and the next one.
LEMMA AtRemote ==
    ASSUME TypeOK, Sorted
    PROVE  /\ Len(page) \in Nat /\ remote \in 1..(Len(page) + 1)
           /\ remote <= Len(page) => /\ remote \in 1..Len(page)
                                     /\ remote + 1 \in 1..(Len(page) + 1)
                                     /\ page[remote] \in Names
                                     /\ remoteRelativePath \in Text
<1>1. Len(page) \in Nat /\ \A n \in 1..Len(page) : page[n] \in Names
  BY Items DEF Sorted
<1>2. remote \in 1..(Len(page) + 1)
  BY DEF TypeOK
<1>3. ASSUME remote <= Len(page)
      PROVE  /\ remote \in 1..Len(page) /\ remote + 1 \in 1..(Len(page) + 1)
             /\ page[remote] \in Names
             /\ remoteRelativePath \in Text
  <2>1. remote \in 1..Len(page) /\ remote + 1 \in 1..(Len(page) + 1)
    BY <1>1, <1>2, <1>3
  <2>2. entry \in Entries
    BY DEF TypeOK
  <2>3. page[remote] \in Text /\ page[remote] \in Names
    BY <1>1, <2>1, <2>2, NamesAreTexts
  <2>4. entry.remote_dir \in Text
    BY <2>2, SyncAssumption DEF Text
  <2> QED BY <2>1, <2>3, <2>4, UnJoinFacts DEF remoteRelativePath
<1> QED BY <1>1, <1>2, <1>3
\* A directory is passed.
LEMMA SkipDirectoryKeeps ==
    ASSUME IInv, SkipDirectory
    PROVE  IInv'
<1>1. /\ pc = "merge" /\ local <= Len(localFiles) /\ kind[here] = "directory"
      /\ local' = local + 1 /\ Stays /\ UNCHANGED <<pc, remote, jobs>>
  BY DEF SkipDirectory, Stays
<1>2. ~Needs(here)
  BY <1>1 DEF Needs
<1>3. remote' \in 1..(Len(page) + 1)
  BY <1>1 DEF IInv, TypeOK
<1>4. TypeOK' /\ Sorted' /\ PassedHaveJobs' /\ JobsInOrder' /\ NoneNeedless'
  BY <1>1, <1>2, <1>3, GoingOn DEF IInv
<1>5. CurrentAhead'
  BY <1>1, StaysAhead DEF IInv
<1> QED BY <1>4, <1>5 DEF IInv

\* The file at the iterator has gone.
LEMMA VanishedKeeps ==
    ASSUME IInv, Vanished
    PROVE  IInv'
<1>1. pc' = "vanished" /\ Stays /\ UNCHANGED <<local, remote, jobs>>
  BY DEF Vanished, Stays
<1>2. remote' \in 1..(Len(page) + 1)
  BY <1>1 DEF IInv, TypeOK
<1>3. TypeOK' /\ Sorted' /\ PassedHaveJobs' /\ JobsInOrder' /\ NoneNeedless'
  BY <1>1, <1>2, OthersStay
<1>4. CurrentAhead'
  BY <1>1 DEF CurrentAhead
<1> QED BY <1>3, <1>4 DEF IInv

\* What the page tells of the name that is the same: it is the object of the file.
LEMMA SameNameFacts ==
    ASSUME IInv, Comparing, Relative(here) = remoteRelativePath
    PROVE  objectName[entry][here] \in Range(page)
<1>1. /\ local <= Len(localFiles) /\ remote <= Len(page) /\ TypeOK /\ Sorted /\ entry \in Entries
  BY DEF Comparing, IInv, TypeOK
<1>2. here \in Path
  BY <1>1, AtHere
<1>3. remote \in 1..Len(page) /\ page[remote] \in Names
  BY <1>1, AtRemote
<1>4. page[remote] \in Range(page)
  BY <1>1, <1>3, Items DEF Sorted
<1>5. page[remote] \notin Foreign
  BY <1>1, <1>2, SyncAssumption DEF remoteRelativePath
<1>6. PICK q \in Path : page[remote] = objectName[entry][q]
  BY <1>3, <1>5 DEF Names
<1>7. page[remote] = objectName[entry][here]
  <2>1. unJoinPaths(entry.remote_dir, objectName[entry][q]) = Relative(here)
    BY <1>6 DEF remoteRelativePath
  <2> QED BY <1>1, <1>2, <1>6, <2>1, NamesNotConfused
<1> QED BY <1>4, <1>7

\* The file has a copy, which is older or not.
LEMMA SameNameKeeps ==
    ASSUME IInv, SameName
    PROVE  IInv'
<1>1. /\ pc = "merge" /\ local <= Len(localFiles) /\ remote <= Len(page) /\ Comparing
      /\ Relative(here) = remoteRelativePath
      /\ IF newer[here] /\ kind[here] = "file" THEN Upload(here) ELSE Pass
      /\ remote' = remote + 1 /\ Stays
  BY DEF SameName, Comparing, Upload, Pass, Stays
<1>2. /\ TypeOK /\ Sorted /\ CurrentAhead
  BY DEF IInv
<1>3. objectName[entry][here] \in Range(page)
  BY <1>1, SameNameFacts
<1>4. \/ (Upload(here) /\ (Plain /\ SameOrder => ~Current(here)))
      \/ (Pass /\ ~Needs(here))
  <2>1. newer[here] => ~UpToDate(here)
    BY DEF UpToDate
  <2>2. ~newer[here] => UpToDate(here)
    BY <1>3 DEF UpToDate
  <2> QED BY <1>1, <2>1, <2>2 DEF Needs, Current
<1>5. remote' \in 1..(Len(page) + 1)
  BY <1>1, <1>2, AtRemote
<1>6. /\ TypeOK' /\ Sorted' /\ PassedHaveJobs' /\ JobsInOrder' /\ NoneNeedless'
      /\ \/ (pc' = pc /\ local' = local + 1)
         \/ (pc' = "badURL" /\ local' = local)
  BY <1>1, <1>4, <1>5, Uploading
<1>7. CASE pc' = "badURL"
  <2>1. CurrentAhead'
    BY <1>7 DEF CurrentAhead
  <2> QED BY <1>6, <2>1 DEF IInv
<1>8. CASE pc' = pc /\ local' = local + 1
  <2>1. /\ Plain' = Plain /\ SameOrder' = SameOrder
        /\ \A p \in Path : Current(p)' = Current(p)
    BY <1>1, Kept
  <2>2. localFiles' = localFiles /\ page' = page /\ entry' = entry
    BY <1>1 DEF Stays
  <2>3. ASSUME Plain, SameOrder, NEW k \in (local + 1)..Len(localFiles), Current(localFiles[k])
        PROVE  \E m \in (remote + 1)..Len(page) : page[m] = objectName[entry][localFiles[k]]
    <3>1. /\ local \in 1..Len(localFiles) /\ Len(localFiles) \in Nat /\ Relative(here) \in Text
      BY <1>1, <1>2, AtHere
    <3>2. k \in local..Len(localFiles) /\ k # local /\ k \in 1..Len(localFiles)
      BY <3>1
    <3>3. localFiles[k] \in Path
      BY <1>2, <3>2, Items DEF Sorted
    <3>4. PICK m \in remote..Len(page) : page[m] = objectName[entry][localFiles[k]]
      BY <1>1, <1>2, <2>3, <3>2 DEF CurrentAhead
    <3>5. Len(page) \in Nat /\ remote \in 1..Len(page)
      BY <1>1, <1>2, AtRemote
    <3>6. m # remote
      <4> SUFFICES ASSUME m = remote
                   PROVE  FALSE
        OBVIOUS
      <4>1. page[remote] = objectName[entry][localFiles[k]]
        BY <3>4
      <4>2. /\ unJoinPaths(entry.remote_dir, page[remote]) = Relative(localFiles[k])
            /\ ByteBefore(Relative(here), Relative(localFiles[k]))
        BY <1>2, <2>3, <3>2, <3>5, <4>1, NameOfLater
      <4>3. Relative(localFiles[k]) = Relative(here)
        BY <1>1, <4>2 DEF remoteRelativePath
      <4> QED BY <3>1, <4>2, <4>3, NotBothWays
    <3>7. m \in (remote + 1)..Len(page)
      BY <3>5, <3>6
    <3> QED BY <3>4, <3>7
  <2>4. \A k \in (local + 1)..Len(localFiles) : localFiles[k] \in Path
    <3>1. /\ local \in 1..Len(localFiles) /\ Len(localFiles) \in Nat
      BY <1>1, <1>2, AtHere
    <3>2. \A k \in (local + 1)..Len(localFiles) : k \in 1..Len(localFiles)
      BY <3>1
    <3> QED BY <1>2, <3>2, Items DEF Sorted
  <2>5. CurrentAhead'
    BY <1>1, <1>8, <2>1, <2>2, <2>3, <2>4 DEF CurrentAhead
  <2> QED BY <1>6, <2>5 DEF IInv
<1> QED BY <1>6, <1>7, <1>8
\* The page has no such name.
LEMMA LocalFirstKeeps ==
    ASSUME IInv, LocalFirst
    PROVE  IInv'
<1>1. /\ pc = "merge" /\ local <= Len(localFiles) /\ Comparing
      /\ ByteBefore(Relative(here), remoteRelativePath)
      /\ IF kind[here] = "file" THEN Upload(here) ELSE Pass
      /\ Stays /\ UNCHANGED remote
  BY DEF LocalFirst, Comparing, Upload, Pass, Stays
<1>2. Plain /\ SameOrder => ~Current(here)
  BY <1>1, FirstNotCurrent
<1>3. \/ (Upload(here) /\ (Plain /\ SameOrder => ~Current(here)))
      \/ (Pass /\ ~Needs(here))
  BY <1>1, <1>2 DEF Needs
<1>4. remote' \in 1..(Len(page) + 1)
  BY <1>1 DEF IInv, TypeOK
<1>5. /\ TypeOK' /\ Sorted' /\ PassedHaveJobs' /\ JobsInOrder' /\ NoneNeedless'
      /\ \/ (pc' = pc /\ local' = local + 1)
         \/ (pc' = "badURL" /\ local' = local)
  BY <1>1, <1>3, <1>4, Uploading
<1>6. CurrentAhead'
  BY <1>1, <1>5, StaysAhead DEF IInv
<1> QED BY <1>5, <1>6 DEF IInv

\* The page has a name that is that of no local file from the iterator on.
LEMMA RemoteFirstKeeps ==
    ASSUME IInv, RemoteFirst
    PROVE  IInv'
<1>1. /\ pc = "merge" /\ local <= Len(localFiles) /\ remote <= Len(page)
      /\ ByteBefore(remoteRelativePath, Relative(here))
      /\ remote' = remote + 1 /\ Stays /\ UNCHANGED <<pc, local, jobs>>
  BY DEF RemoteFirst, Comparing, Stays
<1>2. /\ TypeOK /\ Sorted /\ CurrentAhead
  BY DEF IInv
<1>3. /\ Len(page) \in Nat /\ remote \in 1..Len(page) /\ remote' \in 1..(Len(page) + 1)
      /\ remoteRelativePath \in Text
  BY <1>1, <1>2, AtRemote
<1>4. TypeOK' /\ Sorted' /\ PassedHaveJobs' /\ JobsInOrder' /\ NoneNeedless'
  BY <1>1, <1>3, OthersStay
<1>5. /\ local \in 1..Len(localFiles) /\ Len(localFiles) \in Nat /\ Relative(here) \in Text
  BY <1>1, <1>2, AtHere
<1>6. /\ Plain' = Plain /\ SameOrder' = SameOrder
      /\ \A p \in Path : Current(p)' = Current(p)
  BY <1>1, Kept
<1>7. localFiles' = localFiles /\ page' = page /\ entry' = entry
  BY <1>1 DEF Stays
<1>8. \A k \in local..Len(localFiles) : localFiles[k] \in Path
  <2>1. \A k \in local..Len(localFiles) : k \in 1..Len(localFiles)
    BY <1>5
  <2> QED BY <1>2, <2>1, Items DEF Sorted
<1>9. ASSUME Plain, SameOrder, NEW k \in local..Len(localFiles), Current(localFiles[k])
      PROVE  \E m \in (remote + 1)..Len(page) : page[m] = objectName[entry][localFiles[k]]
  <2>1. PICK m \in remote..Len(page) : page[m] = objectName[entry][localFiles[k]]
    BY <1>1, <1>2, <1>9 DEF CurrentAhead
  <2>2. m # remote
    <3> SUFFICES ASSUME m = remote
                 PROVE  FALSE
      OBVIOUS
    <3>1. page[remote] = objectName[entry][localFiles[k]]
      BY <2>1
    <3>2. /\ unJoinPaths(entry.remote_dir, page[remote]) = Relative(localFiles[k])
          /\ k # local => ByteBefore(Relative(here), Relative(localFiles[k]))
      BY <1>2, <1>3, <1>9, <3>1, NameOfLater
    <3>3. remoteRelativePath = Relative(localFiles[k])
      BY <3>2 DEF remoteRelativePath
    <3>4. CASE k = local
      <4>1. remoteRelativePath = Relative(here)
        BY <3>3, <3>4 DEF here
      <4> QED BY <1>1, <1>3, <1>5, <4>1, NotBothWays
    <3>5. CASE k # local
      <4>1. ByteBefore(Relative(here), remoteRelativePath)
        BY <3>2, <3>3, <3>5
      <4> QED BY <1>1, <1>3, <1>5, <4>1, NotBothWays
    <3> QED BY <3>4, <3>5
  <2>3. m \in (remote + 1)..Len(page)
    BY <1>3, <2>2
  <2> QED BY <2>1, <2>3
<1>10. CurrentAhead'
  BY <1>1, <1>6, <1>7, <1>8, <1>9 DEF CurrentAhead
<1> QED BY <1>4, <1>10 DEF IInv

\* The merge ends with one of its two sequences.
LEMMA PageEndsKeeps ==
    ASSUME IInv, PageEnds
    PROVE  IInv'
<1>1. /\ pc = "merge" /\ (local > Len(localFiles) \/ remote > Len(page)) /\ pc' = "leftover"
      /\ Stays /\ UNCHANGED <<local, remote, jobs>>
  BY DEF PageEnds, Stays
<1>2. Len(page) \in Nat /\ remote \in 1..(Len(page) + 1)
  BY AtRemote DEF IInv
<1>3. TypeOK' /\ Sorted' /\ PassedHaveJobs' /\ JobsInOrder' /\ NoneNeedless'
  BY <1>1, <1>2, OthersStay
<1>4. /\ Plain' = Plain /\ SameOrder' = SameOrder
      /\ \A p \in Path : Current(p)' = Current(p)
  BY <1>1, Kept
<1>5. localFiles' = localFiles
  BY <1>1 DEF Stays
<1>6. /\ Len(localFiles) \in Nat /\ local \in 1..(Len(localFiles) + 1)
      /\ \A k \in 1..Len(localFiles) : localFiles[k] \in Path
  BY Items DEF IInv, Sorted, TypeOK
<1>7. \A k \in local..Len(localFiles) : k \in 1..Len(localFiles) /\ ~(local > Len(localFiles))
  BY <1>6
<1>8. ASSUME Plain, SameOrder, NEW k \in local..Len(localFiles), Current(localFiles[k])
      PROVE  FALSE
  <2>1. PICK m \in remote..Len(page) : page[m] = objectName[entry][localFiles[k]]
    BY <1>1, <1>8 DEF IInv, CurrentAhead
  <2>2. remote > Len(page)
    BY <1>1, <1>7
  <2> QED BY <1>2, <2>1, <2>2
<1>9. CurrentAhead'
  BY <1>1, <1>4, <1>5, <1>6, <1>7, <1>8 DEF CurrentAhead
<1> QED BY <1>3, <1>9 DEF IInv

\* What is left over is uploaded.
LEMMA UploadLeftoverKeeps ==
    ASSUME IInv, UploadLeftover
    PROVE  IInv'
<1>1. /\ pc = "leftover" /\ local <= Len(localFiles) /\ Upload(here)
      /\ Stays /\ UNCHANGED remote
  BY DEF UploadLeftover, Stays
<1>2. Plain /\ SameOrder => ~Current(here)
  <2>1. local \in 1..Len(localFiles) /\ Len(localFiles) \in Nat
    BY <1>1, AtHere DEF IInv
  <2>2. local \in local..Len(localFiles)
    BY <2>1
  <2> QED BY <1>1, <2>2 DEF IInv, CurrentAhead, here
<1>3. remote' \in 1..(Len(page) + 1)
  BY <1>1 DEF IInv, TypeOK
<1>4. /\ TypeOK' /\ Sorted' /\ PassedHaveJobs' /\ JobsInOrder' /\ NoneNeedless'
      /\ \/ (pc' = pc /\ local' = local + 1)
         \/ (pc' = "badURL" /\ local' = local)
  BY <1>1, <1>2, <1>3, Uploading
<1>5. CurrentAhead'
  BY <1>1, <1>4, StaysAhead DEF IInv
<1> QED BY <1>4, <1>5 DEF IInv

\* Nothing is left over.
LEMMA FinishKeeps ==
    ASSUME IInv, Finish
    PROVE  IInv'
<1>1. /\ local > Len(localFiles) /\ pc' = "done" /\ Stays /\ UNCHANGED <<local, remote, jobs>>
  BY DEF Finish, Stays
<1>2. remote' \in 1..(Len(page) + 1)
  BY <1>1 DEF IInv, TypeOK
<1>3. TypeOK' /\ Sorted' /\ PassedHaveJobs' /\ JobsInOrder' /\ NoneNeedless'
  BY <1>1, <1>2, OthersStay
<1>4. CurrentAhead'
  BY <1>1 DEF CurrentAhead
<1> QED BY <1>3, <1>4 DEF IInv

\* Nothing happens.
LEMMA StutterKeeps ==
    ASSUME IInv, UNCHANGED vars
    PROVE  IInv'
<1>1. Stays /\ UNCHANGED <<pc, local, remote, jobs>>
  BY DEF vars, Stays
<1>2. /\ Plain' = Plain /\ SameOrder' = SameOrder /\ Names' = Names
      /\ \A p \in Path : /\ UpToDate(p)' = UpToDate(p)
                         /\ Needs(p)' = Needs(p) /\ Current(p)' = Current(p)
  BY <1>1, Kept
<1>3. localFiles \in Seq(Path) /\ Len(localFiles) \in Nat /\ local \in 1..(Len(localFiles) + 1)
  BY Items DEF IInv, Sorted, TypeOK
<1>4. TypeOK'
  BY <1>1, <1>2 DEF IInv, TypeOK, Stays
<1>5. Sorted'
  BY <1>1, <1>2 DEF IInv, Sorted, Stays
<1>6. PassedHaveJobs'
  <2>1. \A i \in 1..(local - 1) : localFiles[i] \in Path
    BY <1>3, Items
  <2> QED BY <1>1, <1>2, <2>1 DEF IInv, PassedHaveJobs, HasJob, Stays
<1>7. JobsInOrder'
  BY <1>1 DEF IInv, JobsInOrder, Stays
<1>8. CurrentAhead'
  BY <1>1, StaysAhead DEF IInv
<1>9. NoneNeedless'
  <2>1. \A p \in Path : /\ (kind[p] = "file")' = (kind[p] = "file")
                        /\ HasJob(p)' = HasJob(p)
    BY <1>1 DEF Stays, HasJob
  <2> QED BY <1>2, <2>1 DEF IInv, NoneNeedless
<1> QED BY <1>4, <1>5, <1>6, <1>7, <1>8, <1>9 DEF IInv
-----------------------------------------------------------------------------
(* What it is for                                                          *)

\* The inductive invariant holds: while a page is merged, both sequences are
\* sorted, the files passed that needed a job have one, and the objects of the
\* others that are current are still ahead (syncAllDirectories.cpp:36-147).
THEOREM Invariant == Spec => []IInv
<1>1. IInv /\ [Next]_vars => IInv'
  <2> SUFFICES ASSUME IInv, [Next]_vars
               PROVE  IInv'
    OBVIOUS
  <2>1. ASSUME NEW p \in Path, Change(p)
        PROVE  IInv'
    BY <2>1, ChangeKeeps
  <2>2. CASE ListLocal
    BY <2>2, ListLocalKeeps
  <2>3. CASE doGetPages
    BY <2>3, doGetPagesKeeps
  <2>4. CASE SkipDirectory
    BY <2>4, SkipDirectoryKeeps
  <2>5. CASE Vanished
    BY <2>5, VanishedKeeps
  <2>6. CASE SameName
    BY <2>6, SameNameKeeps
  <2>7. CASE LocalFirst
    BY <2>7, LocalFirstKeeps
  <2>8. CASE RemoteFirst
    BY <2>8, RemoteFirstKeeps
  <2>9. CASE PageEnds
    BY <2>9, PageEndsKeeps
  <2>10. CASE UploadLeftover
    BY <2>10, UploadLeftoverKeeps
  <2>11. CASE Finish
    BY <2>11, FinishKeeps
  <2>12. CASE UNCHANGED vars
    BY <2>12, StutterKeeps
  <2> QED BY <2>1, <2>2, <2>3, <2>4, <2>5, <2>6, <2>7, <2>8, <2>9, <2>10, <2>11, <2>12
          DEF Next
<1> QED BY StartsRight, <1>1, PTL DEF Spec

\* The iterators stay in the range of what they iterate over
\* (syncAllDirectories.cpp:63-64, 108, 122).
THEOREM TypesHold == Spec => []TypeOK
<1>1. IInv => TypeOK
  BY DEF IInv
<1> QED BY Invariant, <1>1, PTL

\* A file with content whose copy is missing or older is uploaded, whatever the
\* listing holds and in whatever order it and the local files are
\* (syncAllDirectories.cpp:63-142).
THEOREM NothingMissed == Spec => []NoneMissed
<1>1. IInv => NoneMissed
  <2> SUFFICES ASSUME IInv, pc = "done", NEW p \in Range(localFiles), Needs(p)
               PROVE  HasJob(p)
    BY DEF NoneMissed, Needs
  <2>1. /\ localFiles \in Seq(Path) /\ Len(localFiles) \in Nat
        /\ local = Len(localFiles) + 1
    BY Items DEF IInv, Sorted
  <2>2. PICK n \in 1..Len(localFiles) : localFiles[n] = p
    BY <2>1, Items
  <2>3. n \in 1..(local - 1)
    BY <2>1
  <2> QED BY <2>2, <2>3 DEF IInv, PassedHaveJobs
<1> QED BY Invariant, <1>1, PTL

\* A file whose copy the listing shows to be up to date is not uploaded again,
\* where remote_dir has no slash at its ends and the two orders agree
\* (syncAllDirectories.cpp:39-41, 63-142).
THEOREM NothingNeedless == Spec => []NoneNeedless
<1>1. IInv => NoneNeedless
  BY DEF IInv
<1> QED BY Invariant, <1>1, PTL
\* The jobs are in the order of the local files, and no two about the same path.
JobsOnce ==
    /\ \A i, k \in DOMAIN jobs : jobs[i] = jobs[k] => i = k
    /\ \A i, k \in DOMAIN jobs : i < k => PathBefore(jobs[i], jobs[k])

\* Whatever the listing holds, no path gets a second job, and the jobs are added in
\* the order of the local files (syncAllDirectories.cpp:56, 73-142).
THEOREM NoPathTwice == Spec => []JobsOnce
<1>1. IInv => JobsOnce
  <2> SUFFICES ASSUME IInv
               PROVE  JobsOnce
    OBVIOUS
  <2>1. /\ DOMAIN jobs = 1..Len(jobs) /\ Len(jobs) \in Nat
        /\ \A n \in 1..Len(jobs) : jobs[n] \in Seq(Text)
    <3>1. jobs \in Seq(Path) /\ Path \subseteq Seq(Text)
      BY SyncAssumption DEF IInv, Sorted, Text
    <3> QED BY <3>1, Items
  <2>2. \A i, k \in DOMAIN jobs : i < k => PathBefore(jobs[i], jobs[k])
    BY DEF IInv, JobsInOrder
  <2>3. ASSUME NEW i \in 1..Len(jobs), NEW k \in 1..Len(jobs), jobs[i] = jobs[k], i # k
        PROVE  FALSE
    <3>1. PathBefore(jobs[i], jobs[i])
      <4>1. i < k \/ k < i
        BY <2>1, <2>3
      <4> QED BY <2>1, <2>2, <2>3, <4>1
    <3> QED BY <2>1, <3>1, PathsOrdered DEF Strict
  <2> QED BY <2>1, <2>2, <2>3 DEF JobsOnce
<1> QED BY Invariant, <1>1, PTL

-----------------------------------------------------------------------------
(* The string of a path says which path it is                              *)

\* Where each element of p begins and ends in s: l[k - 1] bytes come before the
\* slash of the k-th, l[k] have been read after it.
Marks(p, l, s) ==
    /\ l \in [0..Len(p) -> 0..Len(s)]
    /\ l[0] = 0 /\ l[Len(p)] = Len(s)
    /\ \A k \in 1..Len(p) :
          /\ Len(p[k]) \in Nat /\ l[k] = l[k - 1] + 1 + Len(p[k])
          /\ s[l[k - 1] + 1] = Slash
          /\ \A i \in 1..Len(p[k]) : /\ s[l[k - 1] + 1 + i] = p[k][i]
                                     /\ p[k][i] # Slash

\* t is how s starts.
StartOf(t, s) == Len(t) <= Len(s) /\ \A i \in 1..Len(t) : s[i] = t[i]

\* Each path has such marks.
LEMMA MarksFound ==
    ASSUME NEW p \in Path
    PROVE  \E l : Marks(p, l, Relative(p))
<1> DEFINE s == [k \in DOMAIN p |-> <<Slash>> \o p[k]]
           r == Relative(p)
           n == Len(p)
<1>1. p \in Seq(Text) /\ p # <<>> /\ \A k \in DOMAIN p : p[k] # <<>> /\ Slash \notin Range(p[k])
  BY SyncAssumption DEF Text
<1>2. DOMAIN p = 1..n /\ n \in Nat \ {0}
  BY <1>1, EmptySeq
<1>3. ASSUME NEW k \in 1..n
      PROVE  /\ p[k] \in Text /\ Len(p[k]) \in Nat
             /\ \A i \in 1..Len(p[k]) : p[k][i] # Slash
             /\ s[k] \in Text /\ Len(s[k]) = 1 + Len(p[k]) /\ s[k][1] = Slash
             /\ \A i \in 1..Len(p[k]) : s[k][1 + i] = p[k][i]
  <2> DEFINE m == p[k]
  <2>1. m \in Text /\ Slash \notin Range(m)
    BY <1>1, <1>2
  <2>2. s[k] = <<Slash>> \o m
    BY <1>2
  <2> HIDE DEF m, s
  <2>3. Len(m) \in Nat /\ \A i \in 1..Len(m) : m[i] # Slash
    BY <2>1 DEF Range, Text
  <2>4. /\ s[k] \in Text /\ Len(s[k]) = Len(<<Slash>>) + Len(m)
        /\ \A i \in 1..Len(<<Slash>>) : s[k][i] = <<Slash>>[i]
        /\ \A i \in 1..Len(m) : s[k][Len(<<Slash>>) + i] = m[i]
    <3>1. /\ <<Slash>> \o m \in Text /\ Len(<<Slash>> \o m) = Len(<<Slash>>) + Len(m)
          /\ \A i \in 1..Len(<<Slash>>) : (<<Slash>> \o m)[i] = <<Slash>>[i]
          /\ \A i \in 1..Len(m) : (<<Slash>> \o m)[Len(<<Slash>>) + i] = m[i]
      BY <2>1, SlashText, StartOfJoined
    <3> QED BY <2>2, <3>1
  <2>5. 1 \in 1..Len(<<Slash>>)
    BY SlashText
  <2>6. s[k][1] = Slash
    BY <2>4, <2>5, SlashText
  <2>7. Len(<<Slash>>) = 1
    BY SlashText
  <2>8. Len(s[k]) = 1 + Len(m) /\ \A i \in 1..Len(m) : s[k][1 + i] = m[i]
    BY <2>4, <2>7
  <2> QED BY <2>1, <2>3, <2>4, <2>6, <2>8 DEF m
<1>4. s \in Seq(Text) /\ s # <<>> /\ Len(s) = n
  <2>1. s \in [1..n -> Text]
    BY <1>2, <1>3
  <2> HIDE DEF s
  <2>2. s \in Seq(Text)
    BY <1>2, <2>1, SeqDef
  <2>3. Len(s) = n
    BY <1>2, <2>1, <2>2
  <2> QED BY <1>2, <2>2, <2>3
<1>5. r = FlattenSeq(s)
  BY DEF Relative
<1> HIDE DEF s, r
<1>6. PICK f \in [1..n -> Text] :
         /\ r = f[n]
         /\ f[1] = s[1]
         /\ \A k \in 2..n : f[k] = f[k - 1] \o s[k]
  <2> HIDE DEF n
  <2>1. \E f \in [1..Len(s) -> Text] :
           /\ FlattenSeq(s) = f[Len(s)]
           /\ f[1] = s[1]
           /\ \A k \in 2..Len(s) : f[k] = f[k - 1] \o s[k]
    BY <1>4, FlattenFacts DEF Text
  <2> QED BY <1>4, <1>5, <2>1
<1> DEFINE g == [k \in 0..n |-> IF k = 0 THEN <<>> ELSE f[k]]
<1>7. /\ \A k \in 0..n : g[k] \in Text
      /\ g[0] = <<>> /\ g[n] = r
  <2>1. \A k \in 0..n : k # 0 => k \in 1..n
    BY <1>2
  <2> QED BY <1>2, <1>6, <2>1, NoText
<1>8. \A k \in 1..n : g[k] = g[k - 1] \o s[k]
  <2> SUFFICES ASSUME NEW k \in 1..n
               PROVE  g[k] = g[k - 1] \o s[k]
    OBVIOUS
  <2>1. k \in 0..n /\ k - 1 \in 0..n /\ g[k] = f[k]
    BY <1>2
  <2>2. CASE k = 1
    <3>1. s[k] \in Text /\ g[k - 1] = <<>>
      BY <1>3, <1>7, <2>2
    <3>2. <<>> \o s[k] = s[k]
      <4> DEFINE z == s[k]
      <4>1. z \in Text
        BY <3>1
      <4> HIDE DEF z
      <4>2. <<>> \o z = z
        BY <4>1, NoText
      <4> QED BY <4>2 DEF z
    <3>3. g[k - 1] \o s[k] = s[k]
      BY <3>1, <3>2
    <3> QED BY <1>6, <2>1, <2>2, <3>3
  <2>3. CASE k # 1
    <3>1. k \in 2..n /\ k - 1 # 0
      BY <1>2, <2>3
    <3> QED BY <1>6, <2>1, <3>1
  <2> QED BY <2>2, <2>3
<1> HIDE DEF g
<1>9. ASSUME NEW k \in 1..n
      PROVE  /\ Len(g[k - 1]) \in Nat /\ Len(g[k]) = Len(g[k - 1]) + 1 + Len(p[k])
             /\ StartOf(g[k - 1], g[k])
             /\ g[k][Len(g[k - 1]) + 1] = Slash
             /\ \A i \in 1..Len(p[k]) : g[k][Len(g[k - 1]) + 1 + i] = p[k][i]
  <2> DEFINE x == g[k - 1]
             z == s[k]
             m == Len(p[k])
  <2>1. x \in Text
    <3>1. k - 1 \in 0..n
      BY <1>2
    <3> QED BY <1>7, <3>1
  <2>2. /\ z \in Text /\ Len(z) = 1 + m /\ z[1] = Slash /\ m \in Nat
        /\ \A i \in 1..m : z[1 + i] = p[k][i]
    BY <1>3
  <2>3. g[k] = x \o z
    BY <1>8
  <2> HIDE DEF x, z, m
  <2>4. /\ Len(x) \in Nat /\ Len(g[k]) = Len(x) + Len(z)
        /\ \A i \in 1..Len(x) : g[k][i] = x[i]
        /\ \A i \in 1..Len(z) : g[k][Len(x) + i] = z[i]
    <3>1. /\ Len(x) \in Nat /\ Len(x \o z) = Len(x) + Len(z)
          /\ \A i \in 1..Len(x) : (x \o z)[i] = x[i]
          /\ \A i \in 1..Len(z) : (x \o z)[Len(x) + i] = z[i]
      BY <2>1, <2>2, StartOfJoined
    <3> QED BY <2>3, <3>1
  <2>5. StartOf(x, g[k]) /\ Len(g[k]) = Len(x) + 1 + m
    BY <2>2, <2>4 DEF StartOf
  <2>6. g[k][Len(x) + 1] = Slash
    <3>1. 1 \in 1..Len(z)
      BY <2>2
    <3> QED BY <2>2, <2>4, <3>1
  <2>7. \A i \in 1..m : g[k][Len(x) + 1 + i] = p[k][i]
    <3> SUFFICES ASSUME NEW i \in 1..m
                 PROVE  g[k][Len(x) + 1 + i] = p[k][i]
      OBVIOUS
    <3>1. 1 + i \in 1..Len(z) /\ Len(x) + (1 + i) = Len(x) + 1 + i
      BY <2>2, <2>4
    <3>2. g[k][Len(x) + (1 + i)] = z[1 + i]
      BY <2>4, <3>1
    <3> QED BY <2>2, <3>1, <3>2
  <2> QED BY <2>4, <2>5, <2>6, <2>7 DEF x, m
<1>10. \A k \in 0..n : Len(g[k]) \in Nat
  BY <1>7, NoText
<1>11. ASSUME NEW b \in 0..n
       PROVE  StartOf(g[b], r)
  <2> DEFINE P == {k \in b..n : StartOf(g[b], g[k])}
  <2>1. b \in P
    BY <1>2 DEF StartOf
  <2>2. ASSUME NEW k \in (b + 1)..n, k - 1 \in P
        PROVE  k \in P
    <3>1. k \in 1..n /\ k \in b..n /\ k \in 0..n /\ k - 1 \in 0..n
      BY <1>2
    <3>2. StartOf(g[b], g[k - 1]) /\ StartOf(g[k - 1], g[k])
      BY <1>9, <2>2, <3>1
    <3>3. Len(g[b]) \in Nat /\ Len(g[k - 1]) \in Nat /\ Len(g[k]) \in Nat
      BY <1>10, <3>1
    <3>4. StartOf(g[b], g[k])
      <4> DEFINE x == g[b]
                 y == g[k - 1]
                 z == g[k]
      <4>1. /\ Len(x) \in Nat /\ Len(y) \in Nat /\ Len(z) \in Nat
            /\ Len(x) <= Len(y) /\ \A i \in 1..Len(x) : y[i] = x[i]
            /\ Len(y) <= Len(z) /\ \A i \in 1..Len(y) : z[i] = y[i]
        BY <3>2, <3>3 DEF StartOf
      <4> HIDE DEF x, y, z
      <4>2. Len(x) <= Len(z) /\ \A i \in 1..Len(x) : i \in 1..Len(y)
        BY <4>1
      <4>3. \A i \in 1..Len(x) : z[i] = x[i]
        BY <4>1, <4>2
      <4> QED BY <4>2, <4>3 DEF StartOf, x, z
    <3> QED BY <3>1, <3>4
  <2> HIDE DEF P
  <2>3. n \in P
    <3>1. b \in Nat /\ n \in Nat /\ n \in b..n
      BY <1>2
    <3> QED BY <2>1, <2>2, <3>1, StepByStep
  <2> QED BY <1>7, <2>3 DEF P
<1> DEFINE l == [k \in 0..n |-> Len(g[k])]
<1>12. \A k \in 0..n : l[k] = Len(g[k])
  OBVIOUS
<1>13. Len(r) \in Nat
  BY <1>2, <1>7, <1>10
<1>14. l \in [0..n -> 0..Len(r)]
  <2>1. \A k \in 0..n : Len(g[k]) \in 0..Len(r)
    BY <1>10, <1>11, <1>13 DEF StartOf
  <2> QED BY <2>1
<1> HIDE DEF l
<1>15. l[0] = 0 /\ l[n] = Len(r)
  BY <1>2, <1>7, <1>12, NoText
<1>16. ASSUME NEW k \in 1..n
       PROVE  /\ Len(p[k]) \in Nat /\ l[k] = l[k - 1] + 1 + Len(p[k])
              /\ r[l[k - 1] + 1] = Slash
              /\ \A i \in 1..Len(p[k]) : /\ r[l[k - 1] + 1 + i] = p[k][i]
                                         /\ p[k][i] # Slash
  <2>1. k \in 0..n /\ k - 1 \in 0..n /\ Len(p[k]) \in Nat
    BY <1>2, <1>3
  <2>2. l[k] = Len(g[k]) /\ l[k - 1] = Len(g[k - 1]) /\ Len(g[k - 1]) \in Nat
    BY <1>10, <1>12, <2>1
  <2>3. l[k] = l[k - 1] + 1 + Len(p[k]) /\ l[k - 1] \in Nat
    BY <1>9, <2>2
  <2>4. \A i \in 1..l[k] : r[i] = g[k][i]
    BY <1>11, <2>1, <2>2 DEF StartOf
  <2>5. l[k - 1] + 1 \in 1..l[k] /\ \A i \in 1..Len(p[k]) : l[k - 1] + 1 + i \in 1..l[k]
    BY <2>1, <2>3
  <2>6. r[l[k - 1] + 1] = Slash
    BY <1>9, <2>2, <2>4, <2>5
  <2>7. \A i \in 1..Len(p[k]) : r[l[k - 1] + 1 + i] = p[k][i]
    BY <1>9, <2>2, <2>4, <2>5
  <2> QED BY <1>3, <2>1, <2>3, <2>6, <2>7
<1>17. Marks(p, l, r)
  BY <1>14, <1>15, <1>16 DEF Marks
<1> QED BY <1>17 DEF r


\* Where the same bytes have come before, an element is not shorter than the other.
LEMMA NotShorter ==
    ASSUME NEW p, NEW l, NEW q, NEW h, NEW s, Marks(p, l, s), Marks(q, h, s),
           Len(p) \in Nat, Len(q) \in Nat, Len(s) \in Nat,
           NEW k \in 1..Len(p), k \in 1..Len(q), l[k - 1] = h[k - 1]
    PROVE  Len(p[k]) >= Len(q[k])
<1> SUFFICES ASSUME Len(p[k]) < Len(q[k])
             PROVE  FALSE
  BY DEF Marks
<1> DEFINE n == Len(p)
           a == Len(p[k])
           b == Len(q[k])
           x == l[k - 1]
<1>1. /\ k \in 0..n /\ k - 1 \in 0..n /\ k \in 0..Len(q) /\ n \in Nat
  OBVIOUS
<1>2. /\ x \in 0..Len(s) /\ h[k] \in 0..Len(s) /\ l[k] \in 0..Len(s)
      /\ a \in Nat /\ b \in Nat /\ l[k] = x + 1 + a /\ h[k] = x + 1 + b
      /\ \A i \in 1..b : s[x + 1 + i] # Slash
  <2>1. x \in 0..Len(s) /\ l[k] \in 0..Len(s) /\ a \in Nat /\ l[k] = x + 1 + a
    BY <1>1 DEF Marks
  <2>2. /\ h[k] \in 0..Len(s) /\ b \in Nat /\ h[k] = h[k - 1] + 1 + b
        /\ \A i \in 1..b : s[h[k - 1] + 1 + i] = q[k][i] /\ q[k][i] # Slash
    BY <1>1 DEF Marks
  <2>3. x = h[k - 1]
    OBVIOUS
  <2> HIDE DEF x, a, b
  <2>4. h[k] = x + 1 + b /\ \A i \in 1..b : s[x + 1 + i] # Slash
    BY <2>2, <2>3
  <2> QED BY <2>1, <2>2, <2>4
<1>3. l[n] = Len(s)
  BY DEF Marks
<1> HIDE DEF n, a, b, x
<1>4. a < b
  BY DEF a, b
<1>5. k # n
  BY <1>2, <1>3, <1>4
<1>6. k + 1 \in 1..n /\ (k + 1) - 1 = k
  BY <1>1, <1>5 DEF n
<1>7. s[l[(k + 1) - 1] + 1] = Slash
  BY <1>6 DEF Marks, n
<1>8. s[l[k] + 1] = Slash
  BY <1>6, <1>7
<1>9. a + 1 \in 1..b /\ x + 1 + (a + 1) = l[k] + 1
  BY <1>2, <1>4
<1>10. s[x + 1 + (a + 1)] # Slash
  BY <1>2, <1>9
<1> QED BY <1>8, <1>9, <1>10

\* Two paths whose strings are the same are the same.
LEMMA PathsApart ==
    ASSUME NEW p \in Path, NEW q \in Path, Relative(p) = Relative(q)
    PROVE  p = q
<1> DEFINE s == Relative(p)
           n == Len(p)
           m == Len(q)
<1>1. PICK l : Marks(p, l, s)
  BY MarksFound
<1>2. PICK h : Marks(q, h, s)
  BY MarksFound
<1>3. Len(s) \in Nat
  BY RelativeFacts
<1>4. /\ p \in Seq(Text) /\ q \in Seq(Text)
      /\ n \in Nat /\ m \in Nat
      /\ \A k \in 1..n : p[k] \in Text
      /\ \A k \in 1..m : q[k] \in Text
  <2>1. p \in Seq(Text) /\ q \in Seq(Text)
    BY SyncAssumption DEF Text
  <2> QED BY <2>1
<1> DEFINE c == IF n <= m THEN n ELSE m
           P == {k \in 0..c : l[k] = h[k]}
<1>5. c \in Nat /\ \A k \in 1..c : k \in 1..n /\ k \in 1..m
  BY <1>4
<1> HIDE DEF s
<1>6. ASSUME NEW k \in 1..c, l[k - 1] = h[k - 1]
      PROVE  Len(p[k]) = Len(q[k]) /\ Len(p[k]) \in Nat
  <2>1. k \in 1..Len(p) /\ k \in 1..Len(q)
    BY <1>5
  <2>2. Len(p[k]) >= Len(q[k])
    BY <1>1, <1>2, <1>3, <1>4, <1>6, <2>1, NotShorter
  <2>3. Len(q[k]) >= Len(p[k])
    BY <1>1, <1>2, <1>3, <1>4, <1>6, <2>1, NotShorter
  <2>4. Len(p[k]) \in Nat /\ Len(q[k]) \in Nat
    BY <1>1, <1>2, <2>1 DEF Marks
  <2> QED BY <2>2, <2>3, <2>4
<1>7. \A k \in 0..c : l[k] = h[k]
  <2>1. 0 \in P
    BY <1>1, <1>2, <1>5 DEF Marks
  <2>2. ASSUME NEW k \in (0 + 1)..c, k - 1 \in P
        PROVE  k \in P
    <3>1. k \in 1..c /\ k \in 0..c /\ l[k - 1] = h[k - 1]
      BY <1>5, <2>2
    <3>2. Len(p[k]) = Len(q[k])
      BY <1>6, <3>1
    <3>3. l[k] = l[k - 1] + 1 + Len(p[k]) /\ h[k] = h[k - 1] + 1 + Len(q[k])
      BY <1>1, <1>2, <1>5, <3>1 DEF Marks
    <3> QED BY <3>1, <3>2, <3>3
  <2> HIDE DEF P, c
  <2>3. \A k \in 0..c : k \in P
    BY <1>5, <2>1, <2>2, StepByStep
  <2> QED BY <2>3 DEF P
<1>8. \A k \in 1..c : p[k] = q[k]
  <2> SUFFICES ASSUME NEW k \in 1..c
               PROVE  p[k] = q[k]
    OBVIOUS
  <2> HIDE DEF c
  <2>1. k - 1 \in 0..c /\ k \in 1..n /\ k \in 1..m
    BY <1>5
  <2>2. l[k - 1] = h[k - 1]
    BY <1>7, <2>1
  <2>3. Len(p[k]) = Len(q[k])
    BY <1>6, <2>2
  <2>4. \A i \in 1..Len(p[k]) : p[k][i] = q[k][i]
    <3>1. \A i \in 1..Len(p[k]) : s[l[k - 1] + 1 + i] = p[k][i]
      BY <1>1, <2>1 DEF Marks
    <3>2. \A i \in 1..Len(q[k]) : s[h[k - 1] + 1 + i] = q[k][i]
      BY <1>2, <2>1 DEF Marks
    <3> QED BY <2>2, <2>3, <3>1, <3>2
  <2> DEFINE x == p[k]
             y == q[k]
  <2>5. x \in Text /\ y \in Text /\ Len(x) = Len(y) /\ \A i \in 1..Len(x) : x[i] = y[i]
    BY <1>4, <2>1, <2>3, <2>4
  <2> HIDE DEF x, y
  <2>6. x = y
    BY <2>5, SeqEqual DEF Text
  <2> QED BY <2>6 DEF x, y
<1>9. n = m
  <2>1. ASSUME n < m
        PROVE  FALSE
    <3>1. c = n /\ n \in 0..c /\ n + 1 \in 1..m /\ (n + 1) - 1 = n /\ n + 1 \in 0..m
      BY <1>4, <2>1
    <3> HIDE DEF c
    <3>2. l[n] = Len(s) /\ l[n] = h[n]
      BY <1>1, <1>7, <3>1 DEF Marks
    <3>3. h[n + 1] = h[(n + 1) - 1] + 1 + Len(q[n + 1]) /\ Len(q[n + 1]) \in Nat
      BY <1>2, <3>1 DEF Marks
    <3>4. h[n + 1] \in 0..Len(s)
      BY <1>2, <3>1 DEF Marks
    <3> QED BY <1>3, <3>1, <3>2, <3>3, <3>4
  <2>2. ASSUME m < n
        PROVE  FALSE
    <3>1. c = m /\ m \in 0..c /\ m + 1 \in 1..n /\ (m + 1) - 1 = m /\ m + 1 \in 0..n
      BY <1>4, <2>2
    <3> HIDE DEF c
    <3>2. h[m] = Len(s) /\ l[m] = h[m]
      BY <1>2, <1>7, <3>1 DEF Marks
    <3>3. l[m + 1] = l[(m + 1) - 1] + 1 + Len(p[m + 1]) /\ Len(p[m + 1]) \in Nat
      BY <1>1, <3>1 DEF Marks
    <3>4. l[m + 1] \in 0..Len(s)
      BY <1>1, <3>1 DEF Marks
    <3> QED BY <1>3, <3>1, <3>2, <3>3, <3>4
  <2> QED BY <1>4, <2>1, <2>2
<1>10. c = n
  BY <1>9
<1> QED BY <1>4, <1>8, <1>9, <1>10, SeqEqual


-----------------------------------------------------------------------------
(* The requests of the jobs                                                *)

\* The bytes of two strings one after the other, and of what trim leaves.
LEMMA BytesOf ==
    /\ \A s, t \in Text : Range(s \o t) = Range(s) \cup Range(t)
    /\ \A s \in Text : s # <<>> => Range(trim(s)) \subseteq Range(s)
<1>1. ASSUME NEW s \in Text, NEW t \in Text
      PROVE  Range(s \o t) = Range(s) \cup Range(t)
  <2> DEFINE u == s \o t
  <2>1. /\ u \in Text /\ Len(u) = Len(s) + Len(t) /\ Len(s) \in Nat /\ Len(t) \in Nat
        /\ \A k \in 1..Len(s) : u[k] = s[k]
        /\ \A k \in 1..Len(t) : u[Len(s) + k] = t[k]
    BY StartOfJoined
  <2> HIDE DEF u
  <2>2. DOMAIN u = 1..Len(u) /\ DOMAIN s = 1..Len(s) /\ DOMAIN t = 1..Len(t)
    BY <2>1 DEF Text
  <2>3. \A k \in 1..Len(s) : k \in 1..Len(u)
    BY <2>1
  <2>4. \A k \in 1..Len(t) : Len(s) + k \in 1..Len(u)
    BY <2>1
  <2>5. \A k \in 1..Len(u) : k \in 1..Len(s) \/ \E j \in 1..Len(t) : k = Len(s) + j
    <3> SUFFICES ASSUME NEW k \in 1..Len(u), ~(k \in 1..Len(s))
                 PROVE  \E j \in 1..Len(t) : k = Len(s) + j
      OBVIOUS
    <3>1. k - Len(s) \in 1..Len(t) /\ k = Len(s) + (k - Len(s))
      BY <2>1
    <3> QED BY <3>1
  <2>6. Range(s) \subseteq Range(u)
    BY <2>1, <2>2, <2>3 DEF Range
  <2>7. Range(t) \subseteq Range(u)
    BY <2>1, <2>2, <2>4 DEF Range
  <2>8. Range(u) \subseteq Range(s) \cup Range(t)
    <3> SUFFICES ASSUME NEW k \in 1..Len(u)
                 PROVE  u[k] \in Range(s) \cup Range(t)
      BY <2>2 DEF Range
    <3>1. CASE k \in 1..Len(s)
      BY <2>1, <2>2, <3>1 DEF Range
    <3>2. CASE \E j \in 1..Len(t) : k = Len(s) + j
      BY <2>1, <2>2, <3>2 DEF Range
    <3> QED BY <2>5, <3>1, <3>2
  <2> QED BY <2>6, <2>7, <2>8 DEF u
<1>2. ASSUME NEW s \in Text, s # <<>>
      PROVE  Range(trim(s)) \subseteq Range(s)
  <2>1. CASE trim(s) = <<>>
    <3>1. Range(<<>>) = {}
      BY DEF Range
    <3> QED BY <2>1, <3>1
  <2>2. CASE trim(s) \in Text /\ Trimmed(s, trim(s))
    <3> DEFINE m == trim(s)
    <3>1. m \in Text
      BY <2>2
    <3>2. PICK a \in Edge, b \in Edge : s = (a \o m) \o b
      BY <2>2 DEF Trimmed
    <3>3. a \in Text /\ b \in Text
      BY SlashText
    <3> HIDE DEF m
    <3>4. a \o m \in Text
      BY <3>1, <3>3, Joined
    <3>5. Range(a \o m) = Range(a) \cup Range(m)
      BY <1>1, <3>1, <3>3
    <3>6. Range((a \o m) \o b) = Range(a \o m) \cup Range(b)
      BY <1>1, <3>3, <3>4
    <3> QED BY <3>2, <3>5, <3>6 DEF m
  <2> QED BY <1>2, <2>1, <2>2, TrimCases
<1> QED BY <1>1, <1>2

\* What comes after the same string is the same.
LEMMA SameBehind ==
    ASSUME NEW x \in Text, NEW s \in Text, NEW t \in Text, x \o s = x \o t
    PROVE  s = t
<1>1. SubSeq(x \o s, Len(x) + 1, Len(x \o s)) = s
  BY TailOfJoined
<1>2. SubSeq(x \o t, Len(x) + 1, Len(x \o t)) = t
  BY TailOfJoined
<1> QED BY <1>1, <1>2

\* The URL of an account can be followed by a path.
LEMMA Accounts ==
    ASSUME NEW e \in Entries
    PROVE  Open(e.base)
<1>1. e.base \in Text /\ parses(e.base)
  BY SyncAssumption DEF Text
<1>2. run(e.base).state \in DOMAIN AtEnd /\ run(e.base).state \notin {"afterPath", "search"}
  BY <1>1, AccountAssumption DEF parses
<1>3. run(e.base).state \in OpenStates
  BY <1>2 DEF AtEnd, OpenStates
<1> QED BY <1>1, <1>3 DEF Open

\* A URL of an object is put together from what AddressIs is about.
LEMMA ObjectParts ==
    ASSUME NEW e \in Entries, NEW p \in Path
    PROVE  Parts(e.base, e.container, e.remote_dir, Relative(p))
<1>1. e.base \in Text /\ e.base # <<>>
  BY Accounts, OpenTrim
<1>2. e.container \in Text /\ e.container # <<>> /\ e.remote_dir \in Text /\ e.remote_dir # <<>>
  BY SyncAssumption DEF Text
<1> QED BY <1>1, <1>2, RelativeFacts DEF Parts

\* The text in front of the name of an object.
inFront(e) ==
    urldecode(parse(trim(e.base)).path) \o <<Slash>> \o trim(e.container) \o <<Slash>>

\* One slash after the other.
LEMMA OneAfterOther ==
    ASSUME NEW x \in Text, NEW c \in Text, NEW s \in Text
    PROVE  /\ ((x \o <<Slash>>) \o c) \o <<Slash>> \in Text
           /\ x \o (<<Slash>> \o (c \o (<<Slash>> \o s)))
                 = (((x \o <<Slash>>) \o c) \o <<Slash>>) \o s
<1> DEFINE sl == <<Slash>>
           a == x \o sl
           b == a \o c
           d == sl \o s
           f == c \o d
<1>1. sl \in Text
  BY SlashText
<1> HIDE DEF sl
<1>2. a \in Text /\ d \in Text
  BY <1>1, Joined
<1> HIDE DEF a, d
<1>3. b \in Text /\ f \in Text
  BY <1>2, Joined
<1> HIDE DEF b, f
<1>4. b \o sl \in Text
  BY <1>1, <1>3, Joined
<1>5. leftFirst(x, sl, f) = rightFirst(x, sl, f)
  BY <1>1, <1>3, Associative
<1>6. leftFirst(a, c, d) = rightFirst(a, c, d)
  BY <1>2, Associative
<1>7. leftFirst(b, sl, s) = rightFirst(b, sl, s)
  BY <1>1, <1>3, Associative
<1>8. x \o (sl \o f) = a \o f
  BY <1>5 DEF leftFirst, rightFirst, a
<1>9. a \o f = b \o d
  BY <1>6 DEF leftFirst, rightFirst, b, f
<1>10. b \o d = (b \o sl) \o s
  BY <1>7 DEF leftFirst, rightFirst, d
<1>11. x \o (sl \o f) = (b \o sl) \o s
  BY <1>8, <1>9, <1>10
<1> QED BY <1>4, <1>11 DEF a, b, d, f, sl

\* What becomes of the URL of an object: if it is accepted it is read as it was put
\* together, and its target names the object; only a tilde keeps it from being accepted.
LEMMA ObjectRequested ==
    ASSUME NEW e \in Entries, NEW p \in Path
    PROVE  /\ inFront(e) \in Text
           /\ accepted[e][p] => /\ asWritten[e][p] /\ reaches[e][p]
                                /\ target[e][p] = inFront(e) \o objectName[e][p]
           /\ ~accepted[e][p] =>
                 Tilde \in Range(e.container \o e.remote_dir \o Relative(p))
<1> DEFINE raw == urlOf(e, p)
           c == e.container
           d == e.remote_dir
           r == Relative(p)
           base == e.base
           s == objectOf(c, d, r)
           g == parse(raw)
           account == parse(trim(base))
           x == urldecode(account.path)
           C == trim(c)
           o == objectName[e][p]
<1>1. Open(base) /\ Parts(base, c, d, r)
  BY Accounts, ObjectParts
<1>2. raw = address(base, <<c, d, r>>)
  BY DEF urlOf
<1>3. /\ accepted[e][p] = parses(raw) /\ dest[e][p] = g
      /\ asWritten[e][p] = Made(raw, dest[e][p])
      /\ target[e][p] = urldecode(pathAndSearch(dest[e][p]))
  BY DEF accepted, dest, asWritten, target
<1>4. /\ c \in Text /\ c # <<>> /\ C \in Text /\ d \in Text /\ d # <<>> /\ r \in Text
  BY <1>1, TrimFacts DEF Parts
<1>5. o \in Text /\ o = trim(d) \o r
  BY ObjectNames
<1>6. s = C \o (<<Slash>> \o o)
  BY <1>5 DEF objectOf
<1>7. x \in Text
  <2>1. account.path \in Text
    <3> HIDE DEF base
    <3>1. Open(trim(base))
      BY <1>1, OpenTrim
    <3> QED BY <3>1, OpenFacts, FieldsAreTexts
  <2> HIDE DEF account
  <2>2. PICK f : IsDecoding(account.path, f) /\ urldecode(account.path) = f[1]
    BY <2>1, DecodeFacts
  <2>3. 1 \in 1..(Len(account.path) + 1)
    BY <2>1, NoText
  <2> QED BY <2>2, <2>3 DEF IsDecoding
<1>8. reaches[e][p] = (/\ dest[e][p].host = account.host
                       /\ dest[e][p].search = <<>>
                       /\ target[e][p] = (((x \o <<Slash>>) \o C) \o <<Slash>>) \o o)
  BY DEF reaches
<1>9. inFront(e) = ((x \o <<Slash>>) \o C) \o <<Slash>>
  BY DEF inFront
<1>10. s = objectOf(c, d, r)
  OBVIOUS
<1>11. account = parse(trim(base))
  OBVIOUS
<1>12. x = urldecode(account.path)
  OBVIOUS
<1>13. g = parse(raw)
  OBVIOUS
<1> HIDE DEF raw, c, d, r, base, s, g, account, x, C, o
<1>14. /\ ((x \o <<Slash>>) \o C) \o <<Slash>> \in Text
       /\ x \o (<<Slash>> \o (C \o (<<Slash>> \o o)))
             = (((x \o <<Slash>>) \o C) \o <<Slash>>) \o o
  BY <1>4, <1>5, <1>7, OneAfterOther
<1>15. /\ parses(raw) => /\ g.host = account.host
                         /\ g.search = <<>>
                         /\ urldecode(pathAndSearch(g)) = x \o (<<Slash>> \o s)
       /\ without(s, 126) => parses(raw)
  <2>1. /\ parses(raw) =>
              /\ parse(raw).host = parse(trim(base)).host
              /\ parse(raw).search = <<>>
              /\ urldecode(pathAndSearch(parse(raw)))
                    = urldecode(parse(trim(base)).path) \o (<<Slash>> \o s)
        /\ without(s, 126) => parses(raw)
    <3>1. IsUrl(raw, base, c, d, r, s)
      BY <1>1, <1>2, <1>10 DEF IsUrl
    <3> QED BY <3>1, ObjectReached
  <2> QED BY <1>11, <1>12, <1>13, <2>1
<1>16. parses(raw) => Made(raw, g)
  BY <1>1, <1>2, <1>13, ObjectMade
<1>17. ASSUME ~parses(raw)
       PROVE  Tilde \in Range((c \o d) \o r)
  <2>1. PICK k \in 1..Len(s) : s[k] = Tilde
    BY <1>15, <1>17 DEF without, Tilde
  <2> DEFINE y == <<Slash>> \o o
             m == trim(d)
  <2>2. m \in Text /\ <<Slash>> \in Text
    BY <1>4, TrimFacts, SlashText
  <2> HIDE DEF m
  <2>3. o = m \o r
    BY <1>5 DEF m
  <2>4. y \in Text
    BY <1>5, <2>2, Joined
  <2>5. Range(y) = Range(<<Slash>>) \cup Range(o)
    BY <1>5, <2>2, BytesOf
  <2> HIDE DEF y
  <2>6. s = C \o y
    BY <1>6 DEF y
  <2>7. Range(s) = Range(C) \cup Range(y) /\ s \in Text
    BY <1>4, <2>4, <2>6, BytesOf, Joined
  <2>8. Range(o) = Range(m) \cup Range(r)
    BY <1>4, <2>2, <2>3, BytesOf
  <2>9. Range(C) \subseteq Range(c) /\ Range(m) \subseteq Range(d)
    BY <1>4, BytesOf DEF C, m
  <2>10. c \o d \in Text /\ Range(c \o d) = Range(c) \cup Range(d)
    BY <1>4, BytesOf, Joined
  <2>11. Range((c \o d) \o r) = Range(c \o d) \cup Range(r)
    BY <1>4, <2>10, BytesOf
  <2>12. Tilde \in Range(s)
    <3>1. s \in Seq(Byte)
      BY <2>7 DEF Text
    <3> QED BY <2>1, <3>1, Items
  <2>13. Tilde \notin Range(<<Slash>>)
    <3>1. \A a \in Range(<<Slash>>) : a = Slash
      BY DEF Range
    <3> QED BY <3>1 DEF Tilde, Slash
  <2> QED BY <2>5, <2>7, <2>8, <2>9, <2>10, <2>11, <2>12, <2>13
<1>18. ASSUME parses(raw)
       PROVE  asWritten[e][p] /\ reaches[e][p] /\ target[e][p] = inFront(e) \o o
  <2>1. x \o (<<Slash>> \o s) = (((x \o <<Slash>>) \o C) \o <<Slash>>) \o o
    BY <1>6, <1>14
  <2>2. target[e][p] = (((x \o <<Slash>>) \o C) \o <<Slash>>) \o o
    BY <1>3, <1>15, <1>18, <2>1
  <2>3. reaches[e][p]
    BY <1>3, <1>8, <1>15, <1>18, <2>2
  <2>4. asWritten[e][p]
    BY <1>3, <1>16, <1>18
  <2> QED BY <1>9, <2>2, <2>3, <2>4
<1> QED BY <1>3, <1>9, <1>14, <1>17, <1>18 DEF c, d, r, o


-----------------------------------------------------------------------------
(* Which URLs have been accepted                                           *)

\* Each job is about a URL that was accepted; the coroutine ends in badURL for one
\* that was not, that of the file at the iterator.
URLsTried ==
    /\ \A p \in Range(jobs) : accepted[entry][p]
    /\ pc = "badURL" => local <= Len(localFiles) /\ ~accepted[entry][here]

\* An action that adds no job and accepts every URL so far.
LEMMA NoneTried ==
    ASSUME URLsTried, UNCHANGED <<entry, jobs>>, pc' # "badURL"
    PROVE  URLsTried'
  BY DEF URLsTried

\* A file is passed, or its URL tried.
LEMMA UploadTries ==
    ASSUME IInv, URLsTried, Upload(here) \/ Pass, local <= Len(localFiles),
           pc # "badURL", UNCHANGED <<entry, localFiles>>
    PROVE  URLsTried'
<1>1. here \in Path /\ jobs \in Seq(Path)
  BY AtHere DEF IInv, Sorted
<1>2. \A p \in Range(jobs) : accepted[entry][p]
  BY DEF URLsTried
<1>3. CASE UNCHANGED <<jobs, pc>>
  BY <1>2, <1>3 DEF URLsTried
<1>4. CASE accepted[entry][here] /\ jobs' = Append(jobs, here) /\ UNCHANGED pc
  <2>1. Range(Append(jobs, here)) = Range(jobs) \cup {here}
    BY <1>1, OneMore
  <2>2. \A p \in Range(jobs') : accepted[entry][p]
    BY <1>2, <1>4, <2>1
  <2> QED BY <1>4, <2>2 DEF URLsTried
<1>5. CASE ~accepted[entry][here] /\ pc' = "badURL" /\ UNCHANGED <<jobs, local>>
  <2>1. here' = here
    BY <1>5 DEF here
  <2> QED BY <1>2, <1>5, <2>1 DEF URLsTried
<1> QED BY <1>3, <1>4, <1>5 DEF Upload, Pass

\* Every URL of a job has been accepted, and in badURL the one at the iterator has not
\* (syncAllDirectories.cpp:82-85, 136-139).
THEOREM Tried == Spec => []URLsTried
<1>1. Init => URLsTried
  <2> SUFFICES ASSUME Init
               PROVE  URLsTried
    OBVIOUS
  <2>1. jobs = <<>> /\ pc = "connect"
    BY DEF Init
  <2> QED BY <2>1, Nothing DEF URLsTried
<1>2. IInv /\ URLsTried /\ [Next]_vars => URLsTried'
  <2> SUFFICES ASSUME IInv, URLsTried, [Next]_vars
               PROVE  URLsTried'
    OBVIOUS
  <2>1. ASSUME NEW p \in Path, Change(p)
        PROVE  URLsTried'
    BY <2>1, NoneTried DEF Change
  <2>2. CASE ListLocal
    BY <2>2, NoneTried DEF ListLocal
  <2>3. CASE doGetPages
    BY <2>3, NoneTried DEF doGetPages
  <2>4. CASE SkipDirectory
    BY <2>4, NoneTried DEF SkipDirectory
  <2>5. CASE Vanished
    BY <2>5, NoneTried DEF Vanished
  <2>6. CASE SameName
    <3>1. /\ pc = "merge" /\ local <= Len(localFiles)
          /\ Upload(here) \/ Pass
          /\ UNCHANGED <<entry, localFiles>>
      BY <2>6 DEF SameName, Comparing
    <3> QED BY <3>1, UploadTries
  <2>7. CASE LocalFirst
    <3>1. /\ pc = "merge" /\ local <= Len(localFiles)
          /\ Upload(here) \/ Pass
          /\ UNCHANGED <<entry, localFiles>>
      BY <2>7 DEF LocalFirst, Comparing
    <3> QED BY <3>1, UploadTries
  <2>8. CASE RemoteFirst
    BY <2>8, NoneTried DEF RemoteFirst, Comparing
  <2>9. CASE PageEnds
    BY <2>9, NoneTried DEF PageEnds
  <2>10. CASE UploadLeftover
    <3>1. /\ pc = "leftover" /\ local <= Len(localFiles) /\ Upload(here)
          /\ UNCHANGED <<entry, localFiles>>
      BY <2>10 DEF UploadLeftover
    <3> QED BY <3>1, UploadTries
  <2>11. CASE Finish
    BY <2>11, NoneTried DEF Finish
  <2>12. CASE UNCHANGED vars
    <3>1. UNCHANGED <<pc, entry, localFiles, local, jobs>>
      BY <2>12 DEF vars
    <3>2. here' = here
      BY <3>1 DEF here
    <3> QED BY <3>1, <3>2 DEF URLsTried
  <2> QED BY <2>1, <2>2, <2>3, <2>4, <2>5, <2>6, <2>7, <2>8, <2>9, <2>10, <2>11, <2>12
          DEF Next
<1> QED BY Invariant, <1>1, <1>2, PTL DEF Spec

\* What is known of a job.
LEMMA OfJob ==
    ASSUME IInv, URLsTried, NEW p \in Range(jobs)
    PROVE  /\ entry \in Entries /\ p \in Path /\ asWritten[entry][p] /\ reaches[entry][p]
           /\ target[entry][p] = inFront(entry) \o objectName[entry][p]
<1>1. entry \in Entries /\ p \in Path
  BY DEF IInv, TypeOK
<1>2. accepted[entry][p]
  BY DEF URLsTried
<1> QED BY <1>1, <1>2, ObjectRequested

\* The URL of a job is read in the way url.rl puts a URL together
\* (url_parser.hpp:119-343).
THEOREM EachReadAsWritten == Spec => []ReadAsWritten
<1>1. IInv /\ URLsTried => ReadAsWritten
  BY OfJob DEF ReadAsWritten
<1> QED BY Invariant, Tried, <1>1, PTL

\* The request of a job goes to the server of the account and is about the object that
\* its path stands for, and so it does without the search
\* (url.cpp:37-97, upload.cpp:80, 170).
THEOREM EachReachesItsObject == Spec => []JobsReachTheirObjects
<1>1. IInv /\ URLsTried => JobsReachTheirObjects
  BY OfJob DEF JobsReachTheirObjects
<1> QED BY Invariant, Tried, <1>1, PTL

\* Only a tilde in the container, in remote_dir or in the path ends the coroutine with
\* the exception of the URL parser (url.cpp:37-97, syncAllDirectories.cpp:82-85, 136-139).
THEOREM RefusedForTilde == Spec => []OnlyTildeRefused
<1>1. IInv /\ URLsTried => OnlyTildeRefused
  <2> SUFFICES ASSUME IInv, URLsTried, pc = "badURL"
               PROVE  Tilde \in Range(entry.container \o entry.remote_dir \o Relative(here))
    BY DEF OnlyTildeRefused
  <2>1. local <= Len(localFiles) /\ ~accepted[entry][here]
    BY DEF URLsTried
  <2>2. entry \in Entries /\ here \in Path
    BY <2>1, AtHere DEF IInv, TypeOK
  <2> QED BY <2>1, <2>2, ObjectRequested
<1> QED BY Invariant, Tried, <1>1, PTL

\* No two jobs are about the same object: their targets differ once they are decoded
\* (syncAllDirectories.cpp:82-85, 136-139).
THEOREM NoObjectTwice == Spec => []NoneTwice
<1>1. IInv /\ URLsTried /\ JobsOnce => NoneTwice
  <2> SUFFICES ASSUME IInv, URLsTried, JobsOnce, NEW i \in DOMAIN jobs, NEW k \in DOMAIN jobs,
                      target[entry][jobs[i]] = target[entry][jobs[k]]
               PROVE  i = k
    BY DEF NoneTwice
  <2> DEFINE p == jobs[i]
             q == jobs[k]
             a == objectName[entry][p]
             b == objectName[entry][q]
             m == trim(entry.remote_dir)
             u == Relative(p)
             v == Relative(q)
  <2>1. p \in Range(jobs) /\ q \in Range(jobs)
    BY DEF Range
  <2>2. /\ entry \in Entries /\ p \in Path /\ q \in Path
        /\ target[entry][p] = inFront(entry) \o a
        /\ target[entry][q] = inFront(entry) \o b
    BY <2>1, OfJob
  <2>3. inFront(entry) \in Text
    BY <2>2, ObjectRequested
  <2>4. m \in Text /\ a \in Text /\ a = m \o u
    BY <2>2, ObjectNames
  <2>5. b \in Text /\ b = m \o v
    BY <2>2, ObjectNames
  <2>6. u \in Text /\ v \in Text
    BY <2>2, RelativeFacts
  <2>7. inFront(entry) \o a = inFront(entry) \o b
    BY <2>2
  <2> HIDE DEF a, b
  <2>8. a = b
    BY <2>3, <2>4, <2>5, <2>7, SameBehind
  <2> HIDE DEF m, u, v
  <2>9. u = v
    BY <2>4, <2>5, <2>6, <2>8, SameBehind
  <2>10. p = q
    BY <2>2, <2>9, PathsApart DEF u, v
  <2> QED BY <2>10 DEF JobsOnce
<1> QED BY Invariant, Tried, NoPathTwice, <1>1, PTL
=============================================================================
