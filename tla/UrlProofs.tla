------------------------------ MODULE UrlProofs ------------------------------
(***************************************************************************)
(* Proofs about Url, for texts of any length: what urlencode makes of a    *)
(* name stands in a URL and is read back by urldecode, and the automaton   *)
(* reads a URL as url.rl says it is made up.                               *)
(***************************************************************************)
EXTENDS Url, SequenceTheorems, WellFoundedInduction, TLAPS

-----------------------------------------------------------------------------
(* Natural numbers                                                         *)

\* A set of natural numbers that is not empty has a least element.
LEMMA LeastNumber ==
    ASSUME NEW T \in SUBSET Nat, T # {}
    PROVE  \E m \in T : \A n \in T : m <= n
<1> DEFINE R == {x \in Nat \X Nat : x[1] < x[2]}
<1>1. OpToRel(<, Nat) = R
  BY Zenon DEF OpToRel
<1>2. IsWellFoundedOn(R, Nat)
  BY <1>1, NatLessThanWellFounded, Zenon
<1> HIDE DEF R
<1>3. PICK m \in T : \A n \in T : <<n, m>> \notin R
  BY <1>2, WFMin
<1>4. ASSUME NEW n \in T
      PROVE  m <= n
  <2>1. n \in Nat /\ m \in Nat
    OBVIOUS
  <2>2. n < m => <<n, m>> \in R
    BY <2>1 DEF R
  <2> QED BY <1>3, <2>1, <2>2
<1> QED BY <1>4

\* What passes from the smaller ones to each number up to n holds of all of them.
LEMMA UpTo ==
    ASSUME NEW n \in Nat, NEW P,
           \A k \in 1..n : (\A j \in 1..(k - 1) : j \in P) => k \in P
    PROVE  \A k \in 1..n : k \in P
<1> DEFINE T == {k \in 1..n : k \notin P}
<1> SUFFICES ASSUME T # {}
             PROVE  FALSE
  OBVIOUS
<1>1. PICK m \in T : \A k \in T : m <= k
  <2>1. T \in SUBSET Nat
    OBVIOUS
  <2> HIDE DEF T
  <2> QED BY <2>1, LeastNumber
<1>2. \A j \in 1..(m - 1) : j \in P
  BY <1>1
<1> QED BY <1>1, <1>2

-----------------------------------------------------------------------------
(* FlattenSeq                                                              *)

\* FlattenSeq adds one sequence after the other.
LEMMA FlattenFacts ==
    ASSUME NEW T, NEW s \in Seq(Seq(T)), s # <<>>
    PROVE  \E f \in [1..Len(s) -> Seq(T)] :
              /\ FlattenSeq(s) = f[Len(s)]
              /\ f[1] = s[1]
              /\ \A k \in 2..Len(s) : f[k] = f[k - 1] \o s[k]
<1> DEFINE step(f, i) == IF i = 1 THEN s[i] ELSE f[i - 1] \o s[i]
           n == Len(s)
           Ok(f) == f = [i \in 1..n |-> step(f, i)]
<1>1. n \in Nat \ {0} /\ \A i \in 1..n : s[i] \in Seq(T)
  BY EmptySeq
<1>2. FlattenSeq(s) = (CHOOSE f : Ok(f))[n]
  BY <1>1 DEF FlattenSeq
<1> HIDE DEF n
<1> DEFINE Part(k) == \E f : f = [i \in 1..k |-> step(f, i)]
           P == {k \in 1..n : Part(k)}
<1>3. \A k \in 1..n : k \in P
  <2> SUFFICES ASSUME NEW k \in 1..n, \A j \in 1..(k - 1) : j \in P
               PROVE  Part(k)
    BY <1>1, UpTo
  <2>1. CASE k = 1
    <3> DEFINE f == [i \in 1..1 |-> s[i]]
    <3>1. f = [i \in 1..1 |-> step(f, i)]
      OBVIOUS
    <3> QED BY <2>1, <3>1
  <2>2. CASE k # 1
    <3>1. k - 1 \in 1..(k - 1) /\ k \in Nat
      BY <1>1, <2>2
    <3>2. PICK g : g = [i \in 1..(k - 1) |-> step(g, i)]
      BY <3>1
    <3> DEFINE f == [i \in 1..k |-> IF i = k THEN g[k - 1] \o s[k] ELSE g[i]]
    <3>3. /\ f[k] = g[k - 1] \o s[k]
          /\ \A i \in 1..(k - 1) : f[i] = g[i]
      <4>1. k \in 1..k /\ \A i \in 1..(k - 1) : i \in 1..k /\ i # k
        BY <3>1
      <4> QED BY <4>1
    <3>4. \A i \in 1..(k - 1) : g[i] = step(g, i)
      <4> DEFINE G == [i \in 1..(k - 1) |-> step(g, i)]
      <4>1. \A i \in 1..(k - 1) : G[i] = step(g, i)
        OBVIOUS
      <4>2. g = G
        BY <3>2
      <4> HIDE DEF G
      <4> QED BY <4>1, <4>2
    <3>5. f = [i \in 1..k |-> f[i]]
      OBVIOUS
    <3> HIDE DEF f
    <3>6. \A i \in 1..k : f[i] = step(f, i)
      <4> SUFFICES ASSUME NEW i \in 1..k
                   PROVE  f[i] = step(f, i)
        OBVIOUS
      <4>1. CASE i = k
        <5>1. f[k - 1] = g[k - 1]
          BY <3>1, <3>3
        <5> QED BY <2>2, <3>3, <4>1, <5>1
      <4>2. CASE i # k
        <5>1. i \in 1..(k - 1) /\ f[i] = g[i] /\ g[i] = step(g, i)
          BY <3>1, <3>3, <3>4, <4>2
        <5>2. i # 1 => i - 1 \in 1..(k - 1) /\ f[i - 1] = g[i - 1]
          BY <3>1, <3>3, <5>1
        <5> QED BY <5>1, <5>2
      <4> QED BY <4>1, <4>2
    <3>7. f = [i \in 1..k |-> step(f, i)]
      BY <3>6, <3>5
    <3> QED BY <3>7
  <2> QED BY <2>1, <2>2
<1>4. \E f : Ok(f)
  <2>1. n \in 1..n
    BY <1>1
  <2>2. n \in P
    <3> HIDE DEF P
    <3> QED BY <1>3, <2>1
  <2> QED BY <2>2
<1>5. PICK f : f = (CHOOSE g : Ok(g))
  OBVIOUS
<1>6. Ok(f)
  BY <1>4, <1>5
<1>7. \A i \in 1..n : f[i] = step(f, i)
  BY <1>6
<1>8. \A i \in 1..n : f[i] \in Seq(T)
  <2> DEFINE Q == {i \in 1..n : f[i] \in Seq(T)}
  <2> SUFFICES \A k \in 1..n : k \in Q
    OBVIOUS
  <2>1. ASSUME NEW k \in 1..n, \A j \in 1..(k - 1) : j \in Q
        PROVE  k \in Q
    <3>1. k # 1 => f[k - 1] \in Seq(T)
      BY <1>1, <2>1
    <3>2. k # 1 => f[k - 1] \o s[k] \in Seq(T)
      BY <1>1, <3>1, ConcatProperties
    <3> QED BY <1>1, <1>7, <3>2
  <2> HIDE DEF Q
  <2> QED BY <1>1, <2>1, UpTo
<1>9. /\ DOMAIN f = 1..n /\ f \in [1..n -> Seq(T)]
  BY <1>6, <1>8
<1>10. f[1] = s[1] /\ \A k \in 2..n : f[k] = f[k - 1] \o s[k]
  <2>1. 1 \in 1..n /\ \A k \in 2..n : k \in 1..n /\ k # 1
    BY <1>1
  <2> QED BY <1>7, <2>1
<1> QED BY <1>2, <1>5, <1>9, <1>10 DEF n

-----------------------------------------------------------------------------
(* Texts                                                                   *)

\* Strings.
Text == Seq(Byte)

\* A byte is a number.
LEMMA BytesAreNumbers == \A c \in Byte : c \in Nat
  BY DEF Byte

\* A part of a string.
LEMMA PartOfText ==
    ASSUME NEW s \in Text, NEW a \in 1..(Len(s) + 1), NEW b \in (a - 1)..Len(s)
    PROVE  /\ SubSeq(s, a, b) \in Text /\ Len(SubSeq(s, a, b)) = b - a + 1
           /\ \A i \in 1..(b - a + 1) : SubSeq(s, a, b)[i] = s[a + i - 1]
<1>1. Len(s) \in Nat /\ a \in Int /\ b \in Int
  BY DEF Text
<1>2. \A i \in a..b : i \in 1..Len(s)
  BY <1>1
<1>3. \A i \in a..b : s[i] \in Byte
  BY <1>2 DEF Text
<1> QED BY <1>1, <1>3, SubSeqProperties DEF Text

\* What is in front of a place, and what comes after it.
LEMMA PartsOfText ==
    ASSUME NEW s \in Text, NEW n \in 0..Len(s)
    PROVE  /\ SubSeq(s, 1, n) \in Text /\ Len(SubSeq(s, 1, n)) = n
           /\ \A i \in 1..n : SubSeq(s, 1, n)[i] = s[i]
           /\ SubSeq(s, n + 1, Len(s)) \in Text /\ Len(SubSeq(s, n + 1, Len(s))) = Len(s) - n
           /\ \A i \in 1..(Len(s) - n) : SubSeq(s, n + 1, Len(s))[i] = s[n + i]
<1>1. Len(s) \in Nat
  BY DEF Text
<1>2. /\ 1 \in 1..(Len(s) + 1) /\ n \in (1 - 1)..Len(s)
      /\ n + 1 \in 1..(Len(s) + 1) /\ Len(s) \in ((n + 1) - 1)..Len(s)
  BY <1>1
<1>3. /\ n - 1 + 1 = n /\ Len(s) - (n + 1) + 1 = Len(s) - n
      /\ \A i \in Int : 1 + i - 1 = i /\ (n + 1) + i - 1 = n + i
  BY <1>1
<1>4. /\ SubSeq(s, 1, n) \in Text /\ Len(SubSeq(s, 1, n)) = n
      /\ \A i \in 1..n : SubSeq(s, 1, n)[i] = s[i]
  <2>1. /\ SubSeq(s, 1, n) \in Text /\ Len(SubSeq(s, 1, n)) = n - 1 + 1
        /\ \A i \in 1..(n - 1 + 1) : SubSeq(s, 1, n)[i] = s[1 + i - 1]
    BY <1>2, PartOfText
  <2> QED BY <1>3, <2>1
<1>5. /\ SubSeq(s, n + 1, Len(s)) \in Text /\ Len(SubSeq(s, n + 1, Len(s))) = Len(s) - n
      /\ \A i \in 1..(Len(s) - n) : SubSeq(s, n + 1, Len(s))[i] = s[n + i]
  <2> DEFINE k == n + 1
  <2>1. k \in 1..(Len(s) + 1) /\ Len(s) \in (k - 1)..Len(s)
    BY <1>2
  <2>2. Len(s) - k + 1 = Len(s) - n /\ \A i \in Int : k + i - 1 = n + i
    BY <1>3
  <2> HIDE DEF k
  <2>3. /\ SubSeq(s, k, Len(s)) \in Text /\ Len(SubSeq(s, k, Len(s))) = Len(s) - k + 1
        /\ \A i \in 1..(Len(s) - k + 1) : SubSeq(s, k, Len(s))[i] = s[k + i - 1]
    BY <2>1, PartOfText
  <2> DEFINE u == SubSeq(s, k, Len(s))
  <2>4. u \in Text /\ Len(u) = Len(s) - n
    BY <2>2, <2>3
  <2>5. \A i \in 1..(Len(s) - n) : u[i] = s[k + i - 1]
    BY <2>2, <2>3
  <2> HIDE DEF u
  <2>6. \A i \in 1..(Len(s) - n) : u[i] = s[n + i]
    BY <1>1, <2>2, <2>5
  <2> QED BY <2>4, <2>6 DEF k, u
<1> QED BY <1>4, <1>5

\* Strings one after another.
LEMMA JoinedText ==
    ASSUME NEW s \in Text, NEW t \in Text
    PROVE  /\ Len(s) \in Nat /\ Len(t) \in Nat
           /\ s \o t \in Text /\ Len(s \o t) = Len(s) + Len(t)
           /\ \A i \in 1..(Len(s) + Len(t)) :
                 (s \o t)[i] = IF i <= Len(s) THEN s[i] ELSE t[i - Len(s)]
           /\ \A u \in Text : (s \o t) \o u = s \o (t \o u)
<1>1. \A u \in Text : (s \o t) \o u = s \o (t \o u)
  BY ConcatAssociative DEF Text
<1>2. /\ s \o t \in Text /\ Len(s \o t) = Len(s) + Len(t)
      /\ \A i \in 1..(Len(s) + Len(t)) :
            (s \o t)[i] = IF i <= Len(s) THEN s[i] ELSE t[i - Len(s)]
  BY ConcatProperties DEF Text
<1> QED BY <1>1, <1>2 DEF Text

\* Front takes away what was added last.
LEMMA FrontOfText ==
    ASSUME NEW s \in Text, NEW c \in Byte
    PROVE  Front(s \o <<c>>) = s
<1> DEFINE t == s \o <<c>>
<1>1. <<c>> \in Text /\ Len(<<c>>) = 1 /\ Len(s) \in Nat
  BY DEF Text
<1>2. /\ t \in Text /\ Len(t) = Len(s) + 1
      /\ \A i \in 1..Len(s) : t[i] = s[i]
  BY <1>1, ConcatProperties DEF Text
<1> HIDE DEF t
<1>3. /\ SubSeq(t, 1, Len(s)) \in Text /\ Len(SubSeq(t, 1, Len(s))) = Len(s)
      /\ \A i \in 1..Len(s) : SubSeq(t, 1, Len(s))[i] = t[i]
  <2>1. 1 \in 1..(Len(t) + 1) /\ Len(s) \in (1 - 1)..Len(t)
    BY <1>1, <1>2
  <2> QED BY <1>1, <1>2, <2>1, PartOfText
<1>4. SubSeq(t, 1, Len(s)) = s
  BY <1>2, <1>3, SeqEqual DEF Text
<1>5. Front(t) = SubSeq(t, 1, Len(s))
  BY <1>1, <1>2 DEF Front
<1> QED BY <1>4, <1>5 DEF t

\* What is left of a string between its slashes.
LEMMA TrimFacts ==
    ASSUME NEW s \in Text, s # <<>>
    PROVE  /\ trim(s) \in Text
           /\ \/ trim(s) = s
              \/ Len(s) = Len(trim(s)) + 1
              \/ Len(s) = Len(trim(s)) + 2 /\ s[Len(s)] = Slash
<1> DEFINE a == IF s[1] = Slash THEN 2 ELSE 1
           b == IF s[Len(s)] = Slash THEN Len(s) - 1 ELSE Len(s)
<1>1. Len(s) \in Nat \ {0}
  BY EmptySeq DEF Text
<1>2. trim(s) = SubSeq(s, a, b)
  BY <1>1 DEF trim, Last
<1>3. /\ a \in {1, 2} /\ b \in {Len(s) - 1, Len(s)}
      /\ b = Len(s) - 1 => s[Len(s)] = Slash
  BY <1>1
<1>4. (a = 2 /\ b = 0) \/ a - 1 <= b
  <2>1. Len(s) = 1 => (a = 2 <=> b = 0)
    BY <1>1
  <2> HIDE DEF a, b
  <2> QED BY <1>1, <1>3, <2>1
<1>5. a = 2 /\ b = 0 => Len(s) = 1
  <2> HIDE DEF a, b
  <2> QED BY <1>1, <1>3
<1> HIDE DEF a, b
<1>6. CASE a = 2 /\ b = 0
  <2>1. trim(s) = <<>> /\ Len(s) = 1
    <3>1. SubSeq(s, 2, 0) = <<>>
      BY SubSeqEmpty
    <3> QED BY <1>2, <1>6, <1>5, <3>1
  <2>2. <<>> \in Text
    BY EmptySeq DEF Text
  <2> QED BY <2>1, <2>2, EmptySeq
<1>7. CASE ~(a = 2 /\ b = 0)
  <2>1. a \in 1..(Len(s) + 1) /\ b \in (a - 1)..Len(s)
    BY <1>1, <1>7, <1>3, <1>4
  <2>2. trim(s) \in Text /\ Len(trim(s)) = b - a + 1
    BY <1>2, <2>1, PartOfText
  <2>3. CASE a = 1 /\ b = Len(s)
    <3>1. \A i \in 1..Len(s) : trim(s)[i] = s[i]
      <4>1. \A i \in 1..(b - a + 1) : SubSeq(s, a, b)[i] = s[a + i - 1]
        BY <2>1, PartOfText
      <4> QED BY <1>1, <1>2, <2>3, <4>1
    <3>2. trim(s) = s
      BY <1>1, <2>2, <2>3, <3>1, SeqEqual DEF Text
    <3> QED BY <2>2, <3>2
  <2>4. CASE ~(a = 1 /\ b = Len(s))
    BY <1>1, <1>3, <2>2, <2>4
  <2> QED BY <2>3, <2>4
<1> QED BY <1>6, <1>7

\* It does not matter in which order three texts are joined.
leftFirst(s, t, u) == (s \o t) \o u
rightFirst(s, t, u) == s \o (t \o u)

\* Texts may be joined in either order.
LEMMA Associative ==
    ASSUME NEW s \in Text, NEW t \in Text, NEW u \in Text
    PROVE  leftFirst(s, t, u) = rightFirst(s, t, u)
  BY JoinedText DEF leftFirst, rightFirst

\* Two texts joined are a text.
LEMMA Joined ==
    ASSUME NEW s \in Text, NEW t \in Text
    PROVE  s \o t \in Text
  BY JoinedText

\* The empty text.
LEMMA NoText ==
    /\ <<>> \in Text /\ Len(<<>>) = 0
    /\ \A s \in Text : /\ Len(s) \in Nat /\ s \o <<>> = s /\ <<>> \o s = s
                       /\ s # <<>> <=> Len(s) > 0
<1>1. <<>> \in Text /\ Len(<<>>) = 0 /\ \A s \in Text : s # <<>> => Len(s) \in Nat \ {0}
  BY EmptySeq DEF Text
<1>2. \A s \in Text : s \o <<>> = s /\ <<>> \o s = s
  BY ConcatEmptySeq DEF Text
<1>3. \A s \in Text : Len(s) \in Nat
  BY DEF Text
<1> QED BY <1>1, <1>2, <1>3

\* A text of one byte.
LEMMA OneByte ==
    ASSUME NEW c \in Byte
    PROVE  <<c>> \in Text /\ Len(<<c>>) = 1 /\ <<c>>[1] = c
  BY DEF Text

\* What is true of a text, if it is true of those that are shorter, is true of any.
LEMMA ByLength ==
    ASSUME NEW P, \A s \in Text : (\A t \in Text : Len(t) < Len(s) => t \in P) => s \in P
    PROVE  Text \subseteq P
<1> DEFINE Q == {s \in Text : s \notin P}
           T == {Len(s) : s \in Q}
<1> SUFFICES ASSUME Q # {}
             PROVE  FALSE
  OBVIOUS
<1>1. T \in SUBSET Nat /\ T # {}
  <2>1. \A s \in Q : Len(s) \in Nat
    BY NoText
  <2> HIDE DEF Q
  <2> QED BY <2>1
<1>2. PICK m \in T : \A k \in T : m <= k
  <2> HIDE DEF T
  <2> QED BY <1>1, LeastNumber
<1>3. PICK s \in Q : m = Len(s)
  BY <1>2
<1>4. ASSUME NEW t \in Text, Len(t) < Len(s)
      PROVE  t \in P
  <2> SUFFICES ASSUME t \notin P
               PROVE  FALSE
    OBVIOUS
  <2>1. Len(t) \in T
    OBVIOUS
  <2>2. Len(s) <= Len(t) /\ Len(s) \in Nat /\ Len(t) \in Nat
    BY <1>2, <1>3, <2>1, NoText
  <2> QED BY <1>4, <2>2
<1> QED BY <1>3, <1>4

\* A text falls into two, and two texts are found again in the one they make up.
LEMMA TwoParts ==
    ASSUME NEW s \in Text, NEW n \in 0..Len(s)
    PROVE  s = SubSeq(s, 1, n) \o SubSeq(s, n + 1, Len(s))
<1>1. Len(s) \in Nat
  BY NoText
<1>2. /\ 1 \in 1..(Len(s) + 1) /\ n \in (1 - 1)..Len(s) /\ Len(s) \in n..Len(s)
  BY <1>1
<1>3. SubSeq(s, 1, n) \o SubSeq(s, n + 1, Len(s)) = SubSeq(s, 1, Len(s))
  BY <1>2, ConcatAdjacentSubSeq DEF Text
<1>4. SubSeq(s, 1, Len(s)) = s
  BY SubSeqFull DEF Text
<1> QED BY <1>3, <1>4

\* Cut where it was joined, a text gives both parts back.
LEMMA PartsFound ==
    ASSUME NEW s \in Text, NEW t \in Text
    PROVE  /\ SubSeq(s \o t, 1, Len(s)) = s
           /\ SubSeq(s \o t, Len(s) + 1, Len(s \o t)) = t
<1> DEFINE u == s \o t
<1>1. /\ Len(s) \in Nat /\ Len(t) \in Nat /\ u \in Text /\ Len(u) = Len(s) + Len(t)
      /\ \A i \in 1..(Len(s) + Len(t)) : u[i] = IF i <= Len(s) THEN s[i] ELSE t[i - Len(s)]
  BY JoinedText
<1> DEFINE n == Len(s)
<1>2. n \in 0..Len(u)
  BY <1>1
<1> HIDE DEF u, n
<1>3. /\ SubSeq(u, 1, n) \in Text /\ Len(SubSeq(u, 1, n)) = n
      /\ \A i \in 1..n : SubSeq(u, 1, n)[i] = u[i]
      /\ SubSeq(u, n + 1, Len(u)) \in Text /\ Len(SubSeq(u, n + 1, Len(u))) = Len(u) - n
      /\ \A i \in 1..(Len(u) - n) : SubSeq(u, n + 1, Len(u))[i] = u[n + i]
  BY <1>1, <1>2, PartsOfText
<1>4. SubSeq(u, 1, n) = s
  <2>1. \A i \in 1..n : SubSeq(u, 1, n)[i] = s[i]
    BY <1>1, <1>3 DEF n
  <2> QED BY <1>3, <2>1, SeqEqual DEF Text, n
<1>5. SubSeq(u, n + 1, Len(u)) = t
  <2> DEFINE v == SubSeq(u, n + 1, Len(u))
  <2>1. v \in Text /\ Len(v) = Len(t) /\ \A i \in 1..Len(t) : v[i] = u[n + i]
    BY <1>1, <1>3 DEF n
  <2> HIDE DEF v
  <2>2. \A i \in 1..Len(t) : u[n + i] = t[i]
    <3> SUFFICES ASSUME NEW i \in 1..Len(t)
                 PROVE  u[n + i] = t[i]
      OBVIOUS
    <3>1. n + i \in 1..(n + Len(t)) /\ ~(n + i <= n) /\ (n + i) - n = i
      BY <1>1 DEF n
    <3> QED BY <1>1, <3>1 DEF n
  <2>3. v = t
    BY <2>1, <2>2, SeqEqual DEF Text
  <2> QED BY <2>3 DEF v
<1> QED BY <1>4, <1>5 DEF u, n

\* A text that is not empty has a first byte and a last one.
LEMMA FirstAndLast ==
    ASSUME NEW s \in Text, s # <<>>
    PROVE  /\ s[1] \in Byte /\ s[Len(s)] \in Byte
           /\ \E t \in Text : s = <<s[1]>> \o t /\ Len(s) = Len(t) + 1
           /\ \E t \in Text : s = t \o <<s[Len(s)]>> /\ Len(s) = Len(t) + 1
<1>1. Len(s) \in Nat /\ Len(s) > 0
  BY NoText
<1>2. /\ 1 \in 1..Len(s) /\ Len(s) \in 1..Len(s) /\ 1 \in 0..Len(s) /\ Len(s) - 1 \in 0..Len(s)
      /\ Len(s) - 1 + 1 = Len(s)
  BY <1>1
<1>3. \A i \in 1..Len(s) : s[i] \in Byte /\ SubSeq(s, i, i) = <<s[i]>>
  <2> SUFFICES ASSUME NEW i \in 1..Len(s)
               PROVE  s[i] \in Byte /\ SubSeq(s, i, i) = <<s[i]>>
    OBVIOUS
  <2>1. s[i] \in Byte
    BY DEF Text
  <2>2. /\ SubSeq(s, i, i) \in Text /\ Len(SubSeq(s, i, i)) = 1
        /\ SubSeq(s, i, i)[1] = s[i]
    <3>1. i \in 1..(Len(s) + 1) /\ i \in (i - 1)..Len(s) /\ i - i + 1 = 1 /\ i + 1 - 1 = i
      BY <1>1
    <3>2. /\ SubSeq(s, i, i) \in Text /\ Len(SubSeq(s, i, i)) = i - i + 1
          /\ \A k \in 1..(i - i + 1) : SubSeq(s, i, i)[k] = s[i + k - 1]
      BY <3>1, PartOfText
    <3> QED BY <3>1, <3>2
  <2>3. <<s[i]>> \in Text /\ Len(<<s[i]>>) = 1 /\ <<s[i]>>[1] = s[i]
    BY <2>1, OneByte
  <2>4. \A k \in 1..1 : SubSeq(s, i, i)[k] = <<s[i]>>[k]
    BY <2>2, <2>3
  <2> QED BY <2>1, <2>2, <2>3, <2>4, SeqEqual DEF Text
<1>4. s = SubSeq(s, 1, 1) \o SubSeq(s, 1 + 1, Len(s))
  BY <1>2, TwoParts
<1>5. SubSeq(s, 1 + 1, Len(s)) \in Text /\ Len(SubSeq(s, 1 + 1, Len(s))) = Len(s) - 1
  BY <1>2, PartsOfText
<1>6. s = SubSeq(s, 1, Len(s) - 1) \o SubSeq(s, Len(s), Len(s))
  BY <1>2, TwoParts
<1>7. SubSeq(s, 1, Len(s) - 1) \in Text /\ Len(SubSeq(s, 1, Len(s) - 1)) = Len(s) - 1
  BY <1>2, PartsOfText
<1>8. SubSeq(s, 1, 1) = <<s[1]>> /\ SubSeq(s, Len(s), Len(s)) = <<s[Len(s)]>>
  BY <1>2, <1>3
<1> QED BY <1>1, <1>2, <1>3, <1>4, <1>5, <1>6, <1>7, <1>8

\* FlattenSeq adds the last sequence behind the others.
LEMMA FlattenMore ==
    ASSUME NEW T, NEW s \in Seq(Seq(T)), NEW x \in Seq(T)
    PROVE  /\ FlattenSeq(<<>>) = <<>>
           /\ FlattenSeq(s) \in Seq(T)
           /\ FlattenSeq(Append(s, x)) = FlattenSeq(s) \o x
<1>1. FlattenSeq(<<>>) = <<>> /\ <<>> \in Seq(T)
  BY EmptySeq DEF FlattenSeq
<1> DEFINE u == Append(s, x)
           n == Len(s)
<1>2. /\ u \in Seq(Seq(T)) /\ u # <<>> /\ Len(u) = n + 1 /\ n \in Nat
      /\ \A i \in 1..n : u[i] = s[i]
      /\ u[n + 1] = x
  BY AppendProperties
<1> HIDE DEF u
<1>3. PICK g \in [1..Len(u) -> Seq(T)] :
         /\ FlattenSeq(u) = g[Len(u)]
         /\ g[1] = u[1]
         /\ \A k \in 2..Len(u) : g[k] = g[k - 1] \o u[k]
  <2>1. u \in Seq(Seq(T)) /\ u # <<>>
    BY <1>2
  <2> QED BY <2>1, FlattenFacts
<1>4. CASE s = <<>>
  <2>1. n = 0
    BY <1>4
  <2>2. FlattenSeq(u) = x
    BY <1>2, <1>3, <2>1
  <2>3. <<>> \o x = x
    BY ConcatEmptySeq
  <2> QED BY <1>1, <1>4, <2>2, <2>3 DEF u
<1>5. CASE s # <<>>
  <2>1. PICK f \in [1..Len(s) -> Seq(T)] :
           /\ FlattenSeq(s) = f[Len(s)]
           /\ f[1] = s[1]
           /\ \A k \in 2..Len(s) : f[k] = f[k - 1] \o s[k]
    BY <1>5, FlattenFacts
  <2>2. n \in Nat \ {0} /\ n \in 1..n
    BY <1>5, EmptySeq
  <2> DEFINE P == {k \in 1..n : f[k] = g[k]}
  <2>3. ASSUME NEW k \in 1..n, \A j \in 1..(k - 1) : j \in P
        PROVE  k \in P
    <3>1. CASE k = 1
      BY <1>2, <1>3, <2>1, <2>2, <3>1
    <3>2. CASE k # 1
      <4>1. k \in 2..Len(s) /\ k \in 2..Len(u) /\ k - 1 \in 1..(k - 1)
        BY <1>2, <3>2
      <4>2. f[k - 1] = g[k - 1]
        BY <2>3, <4>1
      <4>3. f[k] = f[k - 1] \o s[k] /\ g[k] = g[k - 1] \o u[k] /\ u[k] = s[k]
        BY <1>2, <1>3, <2>1, <4>1
      <4> QED BY <4>2, <4>3
    <3> QED BY <3>1, <3>2
  <2>4. n \in P
    <3> HIDE DEF P
    <3> QED BY <2>2, <2>3, UpTo
  <2>5. f[n] = g[n] /\ f[n] \in Seq(T)
    BY <2>1, <2>2, <2>4
  <2>6. n + 1 \in 2..Len(u) /\ (n + 1) - 1 = n
    BY <1>2, <2>2
  <2>7. g[n + 1] = g[n] \o x
    BY <1>2, <1>3, <2>6
  <2> QED BY <1>1, <1>2, <1>3, <2>1, <2>5, <2>7 DEF u
<1> QED BY <1>4, <1>5

-----------------------------------------------------------------------------
(* urlencode                                                               *)

HexByte == Digit \cup (65..70)

\* The bytes that urlencode lets through, but for the tilde that no path may have.
PlainByte == (Legal \cup {Percent}) \ {126}

\* A hexadecimal digit is a legal byte, no sign of a URL, and gives its value back.
LEMMA HexDigits ==
    ASSUME NEW n \in 0..15
    PROVE  /\ hexDigit(n) \in HexByte /\ hexDigit(n) \in Byte
           /\ hexDigit(n) \in Legal /\ hexDigit(n) \notin {Slash, Percent, 63, 126}
           /\ hexValue(hexDigit(n)) = n
  BY DEF hexDigit, hexValue, HexByte, Digit, Legal, Letter, Byte, Slash, Percent

\* A byte is its two hexadecimal digits.
LEMMA Halves ==
    ASSUME NEW c \in Byte
    PROVE  /\ c \div 16 \in 0..15 /\ c % 16 \in 0..15
           /\ 16 * (c \div 16) + (c % 16) = c
  BY DEF Byte

\* A byte is written as itself, or as a percent sign and two digits.
LEMMA EncodedFacts ==
    ASSUME NEW c \in Byte
    PROVE  /\ encoded(c) \in Text /\ Len(encoded(c)) \in {1, 3}
           /\ \A i \in 1..Len(encoded(c)) :
                 /\ encoded(c)[i] \in PlainByte \cup {126} /\ encoded(c)[i] # 63
                 /\ encoded(c)[i] = 126 => c = 126
           /\ \/ c \in Legal /\ c # Percent /\ encoded(c) = <<c>>
              \/ /\ c \notin Legal /\ Len(encoded(c)) = 3 /\ c # Slash
                 /\ encoded(c)[1] = Percent
                 /\ encoded(c)[2] \in HexByte /\ encoded(c)[3] \in HexByte
                 /\ 16 * hexValue(encoded(c)[2]) + hexValue(encoded(c)[3]) = c
<1>1. CASE c \in Legal
  <2>1. encoded(c) = <<c>> /\ c # Percent /\ c # 63
    BY <1>1 DEF encoded, Legal, Digit, Letter, Percent
  <2> QED BY <1>1, <2>1, OneByte DEF PlainByte
<1>2. CASE c \notin Legal
  <2> DEFINE h == hexDigit(c \div 16)
             l == hexDigit(c % 16)
  <2>1. encoded(c) = <<Percent, h, l>> /\ c # Slash
    BY <1>2 DEF encoded, Legal, Slash, Percent
  <2>2. /\ h \in HexByte /\ h \in Byte /\ h \in Legal /\ h \notin {63, 126}
        /\ l \in HexByte /\ l \in Byte /\ l \in Legal /\ l \notin {63, 126}
        /\ 16 * hexValue(h) + hexValue(l) = c
    BY Halves, HexDigits
  <2> HIDE DEF h, l
  <2>3. Percent \in Byte /\ Percent \notin {63, 126}
    BY DEF Percent, Byte
  <2> DEFINE x == <<Percent, h, l>>
  <2>4. x \in Text /\ Len(x) = 3 /\ x[1] = Percent /\ x[2] = h /\ x[3] = l
    BY <2>2, <2>3 DEF Text
  <2>5. \A i \in 1..3 : x[i] \in PlainByte /\ x[i] \notin {63, 126}
    <3>1. \A i \in 1..3 : i = 1 \/ i = 2 \/ i = 3
      OBVIOUS
    <3> QED BY <2>2, <2>3, <2>4, <3>1 DEF PlainByte
  <2> HIDE DEF x
  <2> QED BY <1>2, <2>1, <2>2, <2>4, <2>5 DEF x
<1> QED BY <1>1, <1>2

\* urlencode adds what a byte is written as.
LEMMA UrlencodeByByte ==
    /\ urlencode(<<>>) = <<>>
    /\ \A s \in Text, c \in Byte : urlencode(s \o <<c>>) = urlencode(s) \o encoded(c)
    /\ \A s \in Text : urlencode(s) \in Text
<1> DEFINE each(s) == [k \in DOMAIN s |-> encoded(s[k])]
<1>1. \A s \in Text : each(s) \in Seq(Text) /\ DOMAIN each(s) = 1..Len(s) /\ Len(each(s)) = Len(s)
  <2> SUFFICES ASSUME NEW s \in Text
               PROVE  each(s) \in Seq(Text) /\ DOMAIN each(s) = 1..Len(s) /\ Len(each(s)) = Len(s)
    OBVIOUS
  <2>1. DOMAIN s = 1..Len(s) /\ Len(s) \in Nat /\ \A k \in 1..Len(s) : s[k] \in Byte
    BY DEF Text
  <2>2. each(s) \in [1..Len(s) -> Text]
    BY <2>1, EncodedFacts
  <2> HIDE DEF each
  <2> QED BY <2>1, <2>2, SeqDef
<1>2. \A s : urlencode(s) = FlattenSeq(each(s))
  BY DEF urlencode
<1>3. each(<<>>) = <<>>
  OBVIOUS
<1>4. ASSUME NEW s \in Text, NEW c \in Byte
      PROVE  each(s \o <<c>>) = Append(each(s), encoded(c))
  <2> DEFINE t == s \o <<c>>
             n == Len(s)
  <2>1. /\ t \in Text /\ Len(t) = n + 1 /\ n \in Nat
        /\ \A i \in 1..n : t[i] = s[i]
        /\ t[n + 1] = c
    <3>1. /\ t \in Text /\ Len(t) = n + 1 /\ n \in Nat
          /\ \A i \in 1..(n + 1) : t[i] = IF i <= n THEN s[i] ELSE <<c>>[i - n]
      BY OneByte, JoinedText
    <3>2. n + 1 \in 1..(n + 1) /\ ~(n + 1 <= n) /\ (n + 1) - n = 1
      BY <3>1
    <3> HIDE DEF t
    <3> QED BY <3>1, <3>2, OneByte
  <2>2. encoded(c) \in Text
    BY EncodedFacts
  <2> HIDE DEF t
  <2>3. /\ \A i \in 1..n : each(t)[i] = each(s)[i]
        /\ each(t)[n + 1] = encoded(c)
    <3>1. DOMAIN t = 1..(n + 1) /\ DOMAIN s = 1..n
      BY <2>1 DEF Text
    <3> QED BY <2>1, <3>1
  <2>4. /\ each(s) \in Seq(Text) /\ Len(each(s)) = n
        /\ each(t) \in Seq(Text) /\ Len(each(t)) = n + 1
    BY <1>1, <2>1
  <2> DEFINE a == each(s)
             b == each(t)
             d == Append(a, encoded(c))
  <2>5. /\ a \in Seq(Text) /\ Len(a) = n /\ b \in Seq(Text) /\ Len(b) = n + 1
        /\ \A i \in 1..n : b[i] = a[i]
        /\ b[n + 1] = encoded(c)
    BY <2>3, <2>4
  <2> HIDE DEF a, b
  <2>6. /\ d \in Seq(Text) /\ Len(d) = n + 1
        /\ \A i \in 1..n : d[i] = a[i]
        /\ d[n + 1] = encoded(c)
    BY <2>2, <2>5, AppendProperties
  <2> HIDE DEF d
  <2>7. \A i \in 1..(n + 1) : b[i] = d[i]
    <3>1. \A i \in 1..(n + 1) : i \in 1..n \/ i = n + 1
      BY <2>1
    <3> QED BY <2>5, <2>6, <3>1
  <2>8. b = d
    BY <2>5, <2>6, <2>7, SeqEqual
  <2> QED BY <2>8 DEF a, b, d, t
<1> HIDE DEF each
<1>5. urlencode(<<>>) = <<>>
  BY <1>2, <1>3, FlattenMore, NoText DEF FlattenSeq
<1>6. \A s \in Text : urlencode(s) \in Text
  BY <1>1, <1>2, FlattenMore, NoText DEF Text
<1>7. ASSUME NEW s \in Text, NEW c \in Byte
      PROVE  urlencode(s \o <<c>>) = urlencode(s) \o encoded(c)
  <2>1. each(s) \in Seq(Text) /\ encoded(c) \in Text
    BY <1>1, EncodedFacts
  <2>2. FlattenSeq(Append(each(s), encoded(c))) = FlattenSeq(each(s)) \o encoded(c)
    BY <2>1, FlattenMore DEF Text
  <2> QED BY <1>2, <1>4, <2>2
<1> QED BY <1>5, <1>6, <1>7

\* What two texts are written as, one after the other.
LEMMA UrlencodeJoined ==
    ASSUME NEW s \in Text, NEW t \in Text
    PROVE  urlencode(s \o t) = urlencode(s) \o urlencode(t)
<1> DEFINE P == {u \in Text : urlencode(s \o u) = urlencode(s) \o urlencode(u)}
<1>1. ASSUME NEW u \in Text, \A v \in Text : Len(v) < Len(u) => v \in P
      PROVE  u \in P
  <2>1. CASE u = <<>>
    <3>1. s \o u = s /\ urlencode(s) \o urlencode(u) = urlencode(s)
      BY <2>1, NoText, UrlencodeByByte
    <3> QED BY <3>1
  <2>2. CASE u # <<>>
    <3>1. PICK v \in Text : u = v \o <<u[Len(u)]>> /\ Len(u) = Len(v) + 1
      BY <2>2, FirstAndLast
    <3> DEFINE c == u[Len(u)]
    <3>2. c \in Byte /\ <<c>> \in Text
      BY <2>2, FirstAndLast, OneByte
    <3>3. u = v \o <<c>>
      BY <3>1
    <3> HIDE DEF c
    <3>4. v \in P
      BY <1>1, <3>1, NoText
    <3>5. s \o u = (s \o v) \o <<c>> /\ s \o v \in Text
      <4>1. leftFirst(s, v, <<c>>) = rightFirst(s, v, <<c>>)
        BY <3>1, <3>2, Associative
      <4>2. s \o v \in Text
        BY <3>1, Joined
      <4> QED BY <3>3, <4>1, <4>2 DEF leftFirst, rightFirst
    <3>6. urlencode((s \o v) \o <<c>>) = urlencode(s \o v) \o encoded(c)
      BY <3>2, <3>5, UrlencodeByByte
    <3>7. urlencode(u) = urlencode(v) \o encoded(c)
      BY <3>2, <3>3, UrlencodeByByte
    <3>8. (urlencode(s) \o urlencode(v)) \o encoded(c) = urlencode(s) \o (urlencode(v) \o encoded(c))
      <4>1. urlencode(s) \in Text /\ urlencode(v) \in Text /\ encoded(c) \in Text
        BY <3>1, <3>2, EncodedFacts, UrlencodeByByte
      <4>2. leftFirst(urlencode(s), urlencode(v), encoded(c))
               = rightFirst(urlencode(s), urlencode(v), encoded(c))
        BY <4>1, Associative
      <4> QED BY <4>2 DEF leftFirst, rightFirst
    <3> QED BY <3>4, <3>5, <3>6, <3>7, <3>8
  <2> QED BY <2>1, <2>2
<1>2. Text \subseteq P
  <2> HIDE DEF P
  <2> QED BY <1>1, ByLength
<1> QED BY <1>2

\* A text of one byte is encoded as that byte is.
LEMMA UrlencodeOne ==
    ASSUME NEW c \in Byte
    PROVE  urlencode(<<c>>) = encoded(c)
<1>1. <<>> \o <<c>> = <<c>> /\ <<>> \o encoded(c) = encoded(c) /\ <<>> \in Text
  BY OneByte, EncodedFacts, NoText
<1>2. urlencode(<<>> \o <<c>>) = urlencode(<<>>) \o encoded(c)
  BY <1>1, UrlencodeByByte
<1> QED BY <1>1, <1>2, UrlencodeByByte

\* No question mark is left, and a tilde only if there was one.
LEMMA UrlencodeBytes ==
    ASSUME NEW s \in Text
    PROVE  \A i \in 1..Len(urlencode(s)) :
              /\ urlencode(s)[i] \in PlainByte \cup {126} /\ urlencode(s)[i] # 63
              /\ urlencode(s)[i] = 126 => \E k \in 1..Len(s) : s[k] = 126
<1> DEFINE Fine(u) == \A i \in 1..Len(urlencode(u)) :
              /\ urlencode(u)[i] \in PlainByte \cup {126} /\ urlencode(u)[i] # 63
              /\ urlencode(u)[i] = 126 => \E k \in 1..Len(u) : u[k] = 126
           P == {u \in Text : Fine(u)}
<1>1. ASSUME NEW u \in Text, \A v \in Text : Len(v) < Len(u) => v \in P
      PROVE  Fine(u)
  <2>1. CASE u = <<>>
    <3>1. Len(urlencode(u)) = 0
      BY <2>1, NoText, UrlencodeByByte
    <3> QED BY <3>1
  <2>2. CASE u # <<>>
    <3>1. PICK v \in Text : u = v \o <<u[Len(u)]>> /\ Len(u) = Len(v) + 1
      BY <2>2, FirstAndLast
    <3> DEFINE c == u[Len(u)]
               x == urlencode(v)
               y == encoded(c)
               z == urlencode(u)
    <3>2. c \in Byte /\ <<c>> \in Text /\ c = u[Len(u)] /\ Len(u) \in 1..Len(u) /\ Len(v) \in Nat
      <4>1. c \in Byte
        BY <2>2, FirstAndLast
      <4>2. Len(u) \in 1..Len(u) /\ Len(v) \in Nat
        BY <2>2, NoText
      <4>3. <<c>> \in Text
        BY <4>1, OneByte
      <4> QED BY <4>1, <4>2, <4>3
    <3>3. u = v \o <<c>>
      BY <3>1
    <3>4. v \in P
      BY <1>1, <3>1, NoText
    <3>5. Fine(v)
      BY <3>4
    <3> HIDE DEF c, Fine, P
    <3>6. x \in Text /\ y \in Text /\ z = x \o y
      <4>1. x \in Text /\ urlencode(v \o <<c>>) = x \o y
        BY <3>2, UrlencodeByByte
      <4>2. y \in Text
        BY <3>2, EncodedFacts
      <4> QED BY <3>3, <4>1, <4>2
    <3>7. \A i \in 1..Len(v) : u[i] = v[i] /\ i \in 1..Len(u)
      BY <3>1, <3>2, <3>3, JoinedText
    <3>8. \A i \in 1..Len(x) : /\ x[i] \in PlainByte \cup {126} /\ x[i] # 63
                               /\ x[i] = 126 => \E k \in 1..Len(u) : u[k] = 126
      <4>1. \A i \in 1..Len(x) : /\ x[i] \in PlainByte \cup {126} /\ x[i] # 63
                                 /\ x[i] = 126 => \E k \in 1..Len(v) : v[k] = 126
        BY <3>5 DEF Fine
      <4> HIDE DEF x
      <4> QED BY <3>7, <4>1
    <3>9. \A i \in 1..Len(y) : /\ y[i] \in PlainByte \cup {126} /\ y[i] # 63
                               /\ y[i] = 126 => \E k \in 1..Len(u) : u[k] = 126
      <4>1. \A i \in 1..Len(y) : /\ y[i] \in PlainByte \cup {126} /\ y[i] # 63
                                 /\ y[i] = 126 => c = 126
        BY <3>2, EncodedFacts
      <4> HIDE DEF y
      <4> QED BY <3>2, <4>1
    <3> HIDE DEF x, y, z
    <3>10. ASSUME NEW i \in 1..Len(z)
           PROVE  /\ z[i] \in PlainByte \cup {126} /\ z[i] # 63
                  /\ z[i] = 126 => \E k \in 1..Len(u) : u[k] = 126
      <4>1. /\ Len(x) \in Nat /\ Len(y) \in Nat /\ Len(z) = Len(x) + Len(y)
            /\ z[i] = IF i <= Len(x) THEN x[i] ELSE y[i - Len(x)]
        BY <3>6, JoinedText
      <4>2. CASE i <= Len(x)
        <5>1. i \in 1..Len(x) /\ z[i] = x[i]
          BY <4>1, <4>2
        <5>2. /\ x[i] \in PlainByte \cup {126} /\ x[i] # 63
              /\ x[i] = 126 => \E k \in 1..Len(u) : u[k] = 126
          BY <3>8, <5>1
        <5> QED BY <5>1, <5>2
      <4>3. CASE ~(i <= Len(x))
        <5>1. i - Len(x) \in 1..Len(y) /\ z[i] = y[i - Len(x)]
          BY <4>1, <4>3
        <5> DEFINE k == i - Len(x)
        <5>2. k \in 1..Len(y) /\ z[i] = y[k]
          BY <5>1
        <5> HIDE DEF k
        <5>3. /\ y[k] \in PlainByte \cup {126} /\ y[k] # 63
              /\ y[k] = 126 => \E j \in 1..Len(u) : u[j] = 126
          BY <3>9, <5>2
        <5> QED BY <5>2, <5>3
      <4> QED BY <4>2, <4>3
    <3> QED BY <3>10 DEF Fine, z
  <2> QED BY <2>1, <2>2
<1>2. Text \subseteq P
  <2>1. \A u \in Text : (\A v \in Text : Len(v) < Len(u) => v \in P) => u \in P
    BY <1>1
  <2> HIDE DEF P
  <2> QED BY <2>1, ByLength
<1>3. Fine(s)
  <2>1. s \in P
    BY <1>2
  <2> QED BY <2>1
<1> QED BY <1>3

\* A slash stays what it is, at the beginning and at the end as well, and nothing
\* else becomes one there.
LEMMA UrlencodeEnds ==
    ASSUME NEW s \in Text, s # <<>>
    PROVE  /\ urlencode(s) \in Text /\ urlencode(s) # <<>>
           /\ urlencode(s)[1] = Slash <=> s[1] = Slash
           /\ urlencode(s)[Len(urlencode(s))] = Slash <=> s[Len(s)] = Slash
<1> DEFINE c == s[1]
           d == s[Len(s)]
           x == urlencode(s)
<1>1. c \in Byte /\ d \in Byte
  BY FirstAndLast
<1>2. PICK t \in Text : s = <<c>> \o t
  BY FirstAndLast
<1>3. PICK u \in Text : s = u \o <<d>>
  BY FirstAndLast
<1> HIDE DEF c, d
<1>4. x = encoded(c) \o urlencode(t) /\ urlencode(t) \in Text
  <2>1. <<c>> \in Text /\ urlencode(<<c>>) = encoded(c)
    BY <1>1, OneByte, UrlencodeOne
  <2>2. urlencode(<<c>> \o t) = urlencode(<<c>>) \o urlencode(t)
    BY <2>1, UrlencodeJoined
  <2>3. urlencode(t) \in Text
    BY UrlencodeByByte
  <2> QED BY <1>2, <2>1, <2>2, <2>3
<1>5. x = urlencode(u) \o encoded(d) /\ urlencode(u) \in Text
  BY <1>1, <1>3, UrlencodeByByte
<1> HIDE DEF x
<1>6. ASSUME NEW b \in Byte
      PROVE  /\ encoded(b) \in Text /\ Len(encoded(b)) \in {1, 3}
             /\ encoded(b)[1] = Slash <=> b = Slash
             /\ encoded(b)[Len(encoded(b))] = Slash <=> b = Slash
  <2>1. CASE encoded(b) = <<b>>
    BY <2>1, EncodedFacts, OneByte
  <2>2. CASE encoded(b) # <<b>>
    <3>1. /\ encoded(b) \in Text /\ Len(encoded(b)) = 3 /\ b # Slash
          /\ encoded(b)[1] = Percent /\ encoded(b)[3] \in HexByte
      BY <2>2, EncodedFacts
    <3>2. Slash \notin HexByte /\ Percent # Slash
      BY DEF Slash, HexByte, Digit, Percent
    <3> QED BY <3>1, <3>2
  <2> QED BY <2>1, <2>2
<1>7. x \in Text /\ x # <<>> /\ x[1] = encoded(c)[1]
  <2> DEFINE e == encoded(c)
             f == urlencode(t)
  <2>1. e \in Text /\ Len(e) \in {1, 3} /\ f \in Text /\ x = e \o f
    BY <1>1, <1>4, <1>6
  <2> HIDE DEF e, f
  <2>2. /\ x \in Text /\ Len(x) = Len(e) + Len(f) /\ Len(f) \in Nat
        /\ \A i \in 1..(Len(e) + Len(f)) : x[i] = IF i <= Len(e) THEN e[i] ELSE f[i - Len(e)]
    BY <2>1, JoinedText
  <2>3. x[1] = e[1] /\ Len(x) > 0
    BY <2>1, <2>2
  <2> QED BY <2>2, <2>3, NoText DEF e
<1>8. x[Len(x)] = encoded(d)[Len(encoded(d))]
  <2> DEFINE e == encoded(d)
             f == urlencode(u)
  <2>1. e \in Text /\ Len(e) \in {1, 3} /\ f \in Text /\ x = f \o e
    BY <1>1, <1>5, <1>6
  <2> HIDE DEF e, f
  <2>2. /\ Len(x) = Len(f) + Len(e) /\ Len(f) \in Nat
        /\ \A i \in 1..(Len(f) + Len(e)) : x[i] = IF i <= Len(f) THEN f[i] ELSE e[i - Len(f)]
    BY <2>1, JoinedText
  <2>3. /\ Len(f) + Len(e) \in 1..(Len(f) + Len(e)) /\ ~(Len(f) + Len(e) <= Len(f))
        /\ (Len(f) + Len(e)) - Len(f) = Len(e)
    BY <2>1, <2>2
  <2>4. x[Len(f) + Len(e)] = e[Len(e)]
    BY <2>2, <2>3
  <2> QED BY <2>2, <2>4 DEF e
<1>9. /\ x[1] = Slash <=> c = Slash
      /\ x[Len(x)] = Slash <=> d = Slash
  BY <1>1, <1>6, <1>7, <1>8
<1> QED BY <1>7, <1>9 DEF c, d, x

-----------------------------------------------------------------------------
(* trim and joinSlashes                                                    *)

\* A slash or nothing.
Edge == {<<>>, <<Slash>>}

\* A slash is a legal text of one byte, which urlencode leaves as it is.
LEMMA SlashText ==
    /\ Slash \in Byte /\ Slash \in Legal
    /\ <<Slash>> \in Text /\ Len(<<Slash>>) = 1 /\ <<Slash>>[1] = Slash
    /\ urlencode(<<Slash>>) = <<Slash>>
    /\ \A a \in Edge : a \in Text /\ urlencode(a) = a /\ Len(a) \in {0, 1}
<1>1. Slash \in Byte /\ Slash \in Legal
  BY DEF Slash, Byte, Legal, Percent
<1>2. <<Slash>> \in Text /\ Len(<<Slash>>) = 1 /\ <<Slash>>[1] = Slash
  BY <1>1, OneByte
<1>3. urlencode(<<Slash>>) = <<Slash>>
  BY <1>1, UrlencodeOne DEF encoded
<1>4. \A a \in Edge : a \in Text /\ urlencode(a) = a /\ Len(a) \in {0, 1}
  BY <1>2, <1>3, NoText, UrlencodeByByte DEF Edge
<1> QED BY <1>1, <1>2, <1>3, <1>4

\* m is what trim makes of s.
Trimmed(s, m) ==
    \E a \in Edge, b \in Edge :
       /\ s = (a \o m) \o b
       /\ m # <<>>
       /\ a = <<>> => m[1] # Slash
       /\ b = <<>> => m[Len(m)] # Slash

\* A text that is m, with at most one slash on either side, is trimmed to m.
LEMMA TrimParts ==
    ASSUME NEW s \in Text, NEW m \in Text, Trimmed(s, m)
    PROVE  trim(s) = m
<1>1. PICK a \in Edge, b \in Edge :
         /\ s = (a \o m) \o b
         /\ m # <<>>
         /\ a = <<>> => m[1] # Slash
         /\ b = <<>> => m[Len(m)] # Slash
  BY DEF Trimmed
<1> DEFINE n == Len(a)
           k == Len(m)
           l == Len(b)
           x == a \o m
<1>2. /\ a \in Text /\ b \in Text /\ x \in Text
      /\ n \in {0, 1} /\ l \in {0, 1} /\ k \in Nat /\ k > 0 /\ Len(x) = n + k
      /\ n = 0 <=> a = <<>>
      /\ l = 0 <=> b = <<>>
      /\ n = 1 => a[1] = Slash
      /\ l = 1 => b[1] = Slash
  <2>1. \A e \in Edge : /\ e \in Text /\ Len(e) \in {0, 1}
                        /\ Len(e) = 0 <=> e = <<>>
                        /\ Len(e) = 1 => e[1] = Slash
    BY SlashText, NoText DEF Edge
  <2>2. x \in Text /\ Len(x) = n + k
    <3>1. a \in Text
      BY <1>1, <2>1
    <3> QED BY <3>1, JoinedText
  <2>3. k \in Nat /\ k > 0
    BY <1>1, NoText
  <2> HIDE DEF x
  <2> QED BY <2>1, <2>2, <2>3
<1>3. /\ \A i \in 1..(n + k) : x[i] = IF i <= n THEN a[i] ELSE m[i - n]
      /\ \A i \in 1..((n + k) + l) : s[i] = IF i <= n + k THEN x[i] ELSE b[i - (n + k)]
      /\ Len(s) = (n + k) + l
  <2>1. \A i \in 1..(n + k) : x[i] = IF i <= n THEN a[i] ELSE m[i - n]
    BY <1>2, JoinedText
  <2>2. s = x \o b
    BY <1>1
  <2> HIDE DEF x, n, k, l
  <2>3. /\ Len(x \o b) = Len(x) + Len(b)
        /\ \A i \in 1..(Len(x) + Len(b)) :
              (x \o b)[i] = IF i <= Len(x) THEN x[i] ELSE b[i - Len(x)]
    BY <1>2, JoinedText
  <2>4. Len(x) = n + k /\ Len(b) = l
    BY <1>2 DEF l
  <2> QED BY <2>1, <2>2, <2>3, <2>4
<1> HIDE DEF n, k, l, x
<1>4. \A i \in 1..k : s[n + i] = m[i]
  <2> SUFFICES ASSUME NEW i \in 1..k
               PROVE  s[n + i] = m[i]
    OBVIOUS
  <2>1. /\ n + i \in 1..(n + k) /\ n + i \in 1..((n + k) + l)
        /\ ~(n + i <= n) /\ n + i <= n + k /\ (n + i) - n = i
    BY <1>2
  <2>2. s[n + i] = x[n + i] /\ x[n + i] = m[(n + i) - n]
    BY <1>3, <2>1
  <2> QED BY <2>1, <2>2
<1>5. s[1] = Slash <=> n = 1
  <2>1. CASE n = 0
    BY <1>1, <1>2, <1>4, <2>1
  <2>2. CASE n = 1
    <3>1. 1 \in 1..(n + k) /\ 1 \in 1..((n + k) + l) /\ 1 <= n /\ 1 <= n + k
      BY <1>2, <2>2
    <3>2. s[1] = x[1] /\ x[1] = a[1]
      BY <1>3, <3>1
    <3> QED BY <1>2, <2>2, <3>2
  <2> QED BY <1>2, <2>1, <2>2
<1>6. s[Len(s)] = Slash <=> l = 1
  <2>1. CASE l = 0
    <3>1. k \in 1..k /\ Len(s) = n + k
      BY <1>2, <1>3, <2>1
    <3>2. s[Len(s)] = m[k]
      BY <1>4, <3>1
    <3> QED BY <1>1, <1>2, <2>1, <3>2 DEF k
  <2>2. CASE l = 1
    <3>1. /\ Len(s) \in 1..((n + k) + l) /\ ~(Len(s) <= n + k) /\ Len(s) - (n + k) = 1
      BY <1>2, <1>3, <2>2
    <3>2. s[Len(s)] = b[1]
      BY <1>3, <3>1
    <3> QED BY <1>2, <2>2, <3>2
  <2> QED BY <1>2, <2>1, <2>2
<1>7. trim(s) = SubSeq(s, n + 1, n + k)
  <2>1. Head(s) = s[1] /\ Last(s) = s[Len(s)]
    BY <1>2, <1>3 DEF Last
  <2>2. n = 0 \/ n = 1
    BY <1>2
  <2>4. (IF Last(s) = Slash THEN Len(s) - 1 ELSE Len(s)) = n + k
    BY <1>2, <1>3, <1>6, <2>1
  <2>5. (IF Head(s) = Slash THEN 2 ELSE 1) = n + 1
    BY <1>5, <2>1, <2>2
  <2> QED BY <2>4, <2>5 DEF trim
<1>8. /\ SubSeq(s, n + 1, n + k) \in Text /\ Len(SubSeq(s, n + 1, n + k)) = k
      /\ \A i \in 1..k : SubSeq(s, n + 1, n + k)[i] = s[n + i]
  <2> DEFINE f == n + 1
             g == n + k
  <2>1. /\ f \in 1..(Len(s) + 1) /\ g \in (f - 1)..Len(s) /\ g - f + 1 = k
        /\ \A i \in 1..k : f + i - 1 = n + i
    BY <1>2, <1>3
  <2> HIDE DEF f, g
  <2>2. /\ SubSeq(s, f, g) \in Text /\ Len(SubSeq(s, f, g)) = g - f + 1
        /\ \A i \in 1..(g - f + 1) : SubSeq(s, f, g)[i] = s[f + i - 1]
    BY <2>1, PartOfText
  <2>3. /\ SubSeq(s, f, g) \in Text /\ Len(SubSeq(s, f, g)) = k
        /\ \A i \in 1..k : SubSeq(s, f, g)[i] = s[n + i]
    BY <2>1, <2>2
  <2> QED BY <2>3 DEF f, g
<1>9. SubSeq(s, n + 1, n + k) = m
  <2> DEFINE v == SubSeq(s, n + 1, n + k)
  <2>1. v \in Text /\ Len(v) = Len(m) /\ \A i \in 1..Len(m) : v[i] = m[i]
    BY <1>4, <1>8 DEF k
  <2> HIDE DEF v
  <2>2. v = m
    BY <2>1, SeqEqual DEF Text
  <2> QED BY <2>2 DEF v
<1> QED BY <1>7, <1>9

\* A text is one or two slashes, of which nothing is left, or is trimmed to what stands between
\* at most one slash on either side.
LEMMA TrimCases ==
    ASSUME NEW s \in Text, s # <<>>
    PROVE  \/ s \in {<<Slash>>, <<Slash>> \o <<Slash>>} /\ trim(s) = <<>>
           \/ trim(s) \in Text /\ Trimmed(s, trim(s))
<1> DEFINE n == Len(s)
           lo == IF s[1] = Slash THEN 1 ELSE 0
           hi == IF s[n] = Slash THEN n - 1 ELSE n
<1>1. n \in Nat /\ n > 0
  BY NoText
<1>2. /\ lo \in {0, 1} /\ (lo = 1 <=> s[1] = Slash)
      /\ hi \in {n - 1, n} /\ (hi = n - 1 <=> s[n] = Slash)
  BY <1>1
<1>3. /\ n \in Nat \ {0} /\ n = Len(s)
  BY <1>1
<1> HIDE DEF n, lo, hi
<1>4. CASE ~(lo < hi)
  <2>1. s[1] = Slash /\ s[n] = Slash /\ n \in {1, 2}
    BY <1>1, <1>2, <1>4
  <2>2. trim(s) = SubSeq(s, 2, n - 1)
    BY <1>3, <2>1 DEF trim, Last
  <2>3. SubSeq(s, 2, n - 1) = <<>>
    BY <1>1, <2>1, SubSeqEmpty
  <2>4. s \in {<<Slash>>, <<Slash>> \o <<Slash>>}
    <3>1. CASE n = 1
      <4>1. \A i \in 1..1 : s[i] = <<Slash>>[i]
        BY <2>1, SlashText
      <4>2. s = <<Slash>>
        BY <1>3, <3>1, <4>1, SlashText, SeqEqual DEF Text
      <4> QED BY <4>2
    <3>2. CASE n = 2
      <4> DEFINE t == <<Slash>> \o <<Slash>>
      <4>1. t \in Text /\ Len(t) = 2 /\ t[1] = Slash /\ t[2] = Slash
        BY SlashText DEF Text
      <4> HIDE DEF t
      <4>2. \A i \in 1..2 : s[i] = t[i]
        <5>1. \A i \in 1..2 : i = 1 \/ i = 2
          OBVIOUS
        <5> QED BY <2>1, <3>2, <4>1, <5>1
      <4>3. s = t
        BY <1>3, <3>2, <4>1, <4>2, SeqEqual DEF Text
      <4> QED BY <4>3 DEF t
    <3> QED BY <2>1, <3>1, <3>2
  <2> QED BY <2>2, <2>3, <2>4
<1>5. CASE lo < hi
  <2> DEFINE a == SubSeq(s, 1, lo)
             m == SubSeq(s, lo + 1, hi)
             b == SubSeq(s, hi + 1, n)
             x == SubSeq(s, 1, hi)
  <2>1. lo \in 0..n /\ hi \in 0..n /\ lo \in 0..hi /\ n = Len(s)
    BY <1>2, <1>3, <1>5
  <2>2. /\ x \in Text /\ Len(x) = hi /\ b \in Text /\ Len(b) = n - hi
        /\ \A i \in 1..hi : x[i] = s[i]
        /\ \A i \in 1..(n - hi) : b[i] = s[hi + i]
    BY <2>1, PartsOfText
  <2>3. s = x \o b
    BY <2>1, TwoParts
  <2>4. a \in Text /\ Len(a) = lo /\ \A i \in 1..lo : a[i] = s[i]
    BY <2>1, PartsOfText
  <2>5. /\ m \in Text /\ Len(m) = hi - lo
        /\ \A i \in 1..(hi - lo) : m[i] = s[lo + i]
    <3> DEFINE f == lo + 1
    <3>1. /\ f \in 1..(Len(s) + 1) /\ hi \in (f - 1)..Len(s) /\ hi - f + 1 = hi - lo
          /\ \A i \in 1..(hi - lo) : f + i - 1 = lo + i
      BY <1>2, <1>3, <1>5
    <3> HIDE DEF f
    <3>2. /\ SubSeq(s, f, hi) \in Text /\ Len(SubSeq(s, f, hi)) = hi - f + 1
          /\ \A i \in 1..(hi - f + 1) : SubSeq(s, f, hi)[i] = s[f + i - 1]
      BY <3>1, PartOfText
    <3>3. /\ SubSeq(s, f, hi) \in Text /\ Len(SubSeq(s, f, hi)) = hi - lo
          /\ \A i \in 1..(hi - lo) : SubSeq(s, f, hi)[i] = s[lo + i]
      BY <3>1, <3>2
    <3> QED BY <3>3 DEF f
  <2>6. x = a \o m
    <3>1. SubSeq(s, 1, lo) \o SubSeq(s, lo + 1, hi) = SubSeq(s, 1, hi)
      <4>1. 1 \in 1..(Len(s) + 1) /\ lo \in (1 - 1)..Len(s) /\ hi \in lo..Len(s)
        BY <1>2, <1>3, <1>5
      <4> QED BY <4>1, ConcatAdjacentSubSeq DEF Text
    <3> QED BY <3>1
  <2> HIDE DEF a, m, b, x
  <2>7. a \in Edge
    <3>1. CASE lo = 0
      <4>1. a = <<>>
        BY <2>4, <3>1, NoText
      <4> QED BY <4>1 DEF Edge
    <3>2. CASE lo = 1
      <4>1. \A i \in 1..1 : a[i] = <<Slash>>[i]
        BY <1>2, <2>4, <3>2, SlashText
      <4>2. a = <<Slash>>
        BY <2>4, <3>2, <4>1, SlashText, SeqEqual DEF Text
      <4> QED BY <4>2 DEF Edge
    <3> QED BY <1>2, <3>1, <3>2
  <2>8. b \in Edge
    <3>1. CASE hi = n
      <4>1. b = <<>>
        BY <1>3, <2>2, <3>1, NoText
      <4> QED BY <4>1 DEF Edge
    <3>2. CASE hi = n - 1
      <4>1. Len(b) = 1 /\ b[1] = s[n]
        <5>1. n - hi = 1 /\ hi + 1 = n
          BY <1>3, <3>2
        <5> QED BY <2>2, <5>1
      <4>2. \A i \in 1..1 : b[i] = <<Slash>>[i]
        BY <1>2, <3>2, <4>1, SlashText
      <4>3. b \in Text
        BY <2>2
      <4>4. b = <<Slash>>
        BY <4>1, <4>2, <4>3, SlashText, SeqEqual DEF Text
      <4> QED BY <4>4 DEF Edge
    <3> QED BY <1>2, <3>1, <3>2
  <2>9. m # <<>>
    BY <1>2, <1>3, <1>5, <2>5, NoText
  <2>10. ASSUME a = <<>>
         PROVE  m[1] # Slash
    <3>1. lo = 0
      BY <2>4, <2>10, NoText
    <3>2. 1 \in 1..(hi - lo) /\ lo + 1 = 1
      BY <1>2, <1>3, <1>5, <3>1
    <3> QED BY <1>2, <2>5, <3>1, <3>2
  <2>11. ASSUME b = <<>>
         PROVE  m[Len(m)] # Slash
    <3>1. hi = n
      BY <1>2, <1>3, <2>2, <2>11, NoText
    <3>2. Len(m) \in 1..(hi - lo) /\ lo + Len(m) = n
      BY <1>2, <1>3, <1>5, <2>5, <3>1
    <3>3. m[Len(m)] = s[n]
      BY <2>5, <3>2
    <3>4. n # n - 1
      BY <1>3
    <3> QED BY <1>2, <3>1, <3>3, <3>4
  <2>12. Trimmed(s, m)
    BY <2>3, <2>6, <2>7, <2>8, <2>9, <2>10, <2>11 DEF Trimmed
  <2>13. trim(s) = m
    BY <2>5, <2>12, TrimParts
  <2> QED BY <2>5, <2>12, <2>13
<1> QED BY <1>4, <1>5

\* urlencode and trim can change their places.
LEMMA TrimUrlencode ==
    ASSUME NEW s \in Text, s # <<>>
    PROVE  /\ trim(s) \in Text /\ urlencode(s) \in Text /\ urlencode(s) # <<>>
           /\ trim(urlencode(s)) = urlencode(trim(s))
<1> DEFINE m == trim(s)
           x == urlencode(s)
           y == urlencode(m)
<1>1. m \in Text /\ x \in Text /\ x # <<>> /\ y \in Text
  BY TrimFacts, UrlencodeByByte, UrlencodeEnds
<1>2. CASE s \in {<<Slash>>, <<Slash>> \o <<Slash>>} /\ m = <<>>
  <2>1. x = s
    <3>1. <<Slash>> \in Text /\ urlencode(<<Slash>>) = <<Slash>>
      BY SlashText
    <3>2. urlencode(<<Slash>> \o <<Slash>>) = urlencode(<<Slash>>) \o urlencode(<<Slash>>)
      BY <3>1, UrlencodeJoined
    <3> QED BY <1>2, <3>1, <3>2
  <2>2. y = <<>>
    BY <1>2, UrlencodeByByte
  <2> QED BY <1>1, <1>2, <2>1, <2>2
<1>3. CASE Trimmed(s, m)
  <2>1. PICK a \in Edge, b \in Edge :
           /\ s = (a \o m) \o b
           /\ m # <<>>
           /\ a = <<>> => m[1] # Slash
           /\ b = <<>> => m[Len(m)] # Slash
    BY <1>3 DEF Trimmed
  <2>2. /\ a \in Text /\ b \in Text /\ urlencode(a) = a /\ urlencode(b) = b
    BY SlashText
  <2> HIDE DEF m
  <2>3. a \o m \in Text
    BY <1>1, <2>2, Joined
  <2>4. urlencode((a \o m) \o b) = urlencode(a \o m) \o b
    BY <2>2, <2>3, UrlencodeJoined
  <2>5. urlencode(a \o m) = a \o y
    BY <1>1, <2>2, UrlencodeJoined
  <2>6. x = (a \o y) \o b
    BY <2>1, <2>4, <2>5
  <2>7. /\ y # <<>>
        /\ a = <<>> => y[1] # Slash
        /\ b = <<>> => y[Len(y)] # Slash
    BY <1>1, <2>1, UrlencodeEnds
  <2> HIDE DEF x, y
  <2>8. Trimmed(x, y)
    BY <2>6, <2>7 DEF Trimmed
  <2>9. trim(x) = y
    BY <1>1, <2>8, TrimParts
  <2> QED BY <1>1, <2>9 DEF m, x, y
<1> QED BY <1>1, <1>2, <1>3, TrimCases

\* A text that begins with one slash and does not end with one.
LEMMA TrimRelative ==
    ASSUME NEW r \in Text, Len(r) >= 2, r[1] = Slash, r[Len(r)] # Slash
    PROVE  trim(r) \in Text /\ r = <<Slash>> \o trim(r)
<1> DEFINE m == trim(r)
<1>1. r # <<>> /\ r # <<Slash>> /\ r # <<Slash>> \o <<Slash>>
  <2>1. r # <<>> /\ r # <<Slash>>
    BY NoText, SlashText
  <2>2. /\ Len(<<Slash>> \o <<Slash>>) = 2
        /\ (<<Slash>> \o <<Slash>>)[2] = Slash
    BY SlashText DEF Text
  <2> QED BY <2>1, <2>2
<1>2. m \in Text /\ Trimmed(r, m)
  BY <1>1, TrimCases
<1> HIDE DEF m
<1>3. PICK a \in Edge, b \in Edge :
         /\ r = (a \o m) \o b
         /\ m # <<>>
         /\ a = <<>> => m[1] # Slash
         /\ b = <<>> => m[Len(m)] # Slash
  BY <1>2 DEF Trimmed
<1>4. a \in Text /\ b \in Text /\ a \o m \in Text /\ Len(m) \in Nat /\ Len(m) > 0
  <2>1. a \in Text /\ b \in Text
    BY SlashText
  <2>2. Len(m) \in Nat /\ Len(m) > 0
    BY <1>2, <1>3, NoText
  <2> QED BY <1>2, <2>1, <2>2, Joined
<1> DEFINE x == a \o m
<1>5. a = <<Slash>>
  <2> SUFFICES ASSUME a = <<>>
               PROVE  FALSE
    BY DEF Edge
  <2>1. r = m \o b
    BY <1>2, <1>3, NoText
  <2>2. 1 \in 1..(Len(m) + Len(b)) /\ 1 <= Len(m)
    BY <1>4, NoText
  <2>3. r[1] = m[1]
    BY <1>2, <1>4, <2>1, <2>2, JoinedText
  <2> QED BY <1>3, <2>3
<1>6. b = <<>>
  <2> SUFFICES ASSUME b = <<Slash>>
               PROVE  FALSE
    BY DEF Edge
  <2>1. r = x \o b /\ x \in Text
    BY <1>3, <1>4
  <2> HIDE DEF x
  <2>2. /\ Len(r) = Len(x) + Len(b) /\ Len(x) \in Nat /\ Len(b) = 1
        /\ \A i \in 1..(Len(x) + Len(b)) : r[i] = IF i <= Len(x) THEN x[i] ELSE b[i - Len(x)]
    BY <1>4, <2>1, JoinedText, SlashText
  <2>3. Len(r) \in 1..(Len(x) + Len(b)) /\ ~(Len(r) <= Len(x)) /\ Len(r) - Len(x) = 1
    BY <2>2
  <2>4. r[Len(r)] = b[1]
    BY <2>2, <2>3
  <2> QED BY <2>4, SlashText
<1> QED BY <1>2, <1>3, <1>4, <1>5, <1>6, NoText DEF m

\* What joinSlashes has before it drops the last slash.
glued(strings) ==
    FlattenSeq([k \in DOMAIN strings |->
        IF strings[k] = <<>> THEN <<>> ELSE trim(strings[k]) \o <<Slash>>])

\* One more string comes behind a slash.
LEMMA JoinMore ==
    ASSUME NEW s \in Seq(Text), NEW x \in Text, x # <<>>
    PROVE  /\ glued(<<>>) = <<>>
           /\ glued(s) \in Text
           /\ glued(Append(s, x)) = glued(s) \o (trim(x) \o <<Slash>>)
           /\ joinSlashes(Append(s, x)) = glued(s) \o trim(x)
<1> DEFINE piece(y) == IF y = <<>> THEN <<>> ELSE trim(y) \o <<Slash>>
           each(z) == [k \in DOMAIN z |-> piece(z[k])]
           n == Len(s)
           t == Append(s, x)
<1>1. \A y \in Text : piece(y) \in Text
  <2>1. <<>> \in Text
    BY NoText
  <2>2. ASSUME NEW y \in Text, y # <<>>
        PROVE  trim(y) \o <<Slash>> \in Text
    BY <2>2, TrimFacts, SlashText, Joined
  <2> QED BY <2>1, <2>2
<1>2. /\ t \in Seq(Text) /\ Len(t) = n + 1 /\ n \in Nat
      /\ \A i \in 1..n : t[i] = s[i]
      /\ t[n + 1] = x
  BY AppendProperties
<1>3. \A z : glued(z) = FlattenSeq(each(z)) /\ joinSlashes(z) = Front(FlattenSeq(each(z)))
  BY DEF glued, joinSlashes
<1>4. each(<<>>) = <<>>
  OBVIOUS
<1>5. \A z \in Seq(Text) : /\ each(z) \in Seq(Text) /\ Len(each(z)) = Len(z)
                           /\ \A i \in 1..Len(z) : each(z)[i] = piece(z[i])
  <2> SUFFICES ASSUME NEW z \in Seq(Text)
               PROVE  /\ each(z) \in Seq(Text) /\ Len(each(z)) = Len(z)
                      /\ \A i \in 1..Len(z) : each(z)[i] = piece(z[i])
    OBVIOUS
  <2>1. DOMAIN z = 1..Len(z) /\ Len(z) \in Nat /\ \A i \in 1..Len(z) : z[i] \in Text
    OBVIOUS
  <2>2. \A i \in 1..Len(z) : each(z)[i] = piece(z[i])
    BY <2>1
  <2> HIDE DEF piece
  <2>3. each(z) \in [1..Len(z) -> Text]
    BY <1>1, <2>1
  <2> HIDE DEF each
  <2> QED BY <2>1, <2>2, <2>3, SeqDef
<1>6. piece(x) = trim(x) \o <<Slash>>
  OBVIOUS
<1> HIDE DEF each, piece, t
<1>7. each(t) = Append(each(s), piece(x))
  <2> DEFINE a == each(s)
             b == each(t)
             d == Append(a, piece(x))
  <2>1. /\ a \in Seq(Text) /\ Len(a) = n /\ b \in Seq(Text) /\ Len(b) = n + 1
        /\ \A i \in 1..n : b[i] = a[i]
        /\ b[n + 1] = piece(x)
    <3>1. /\ a \in Seq(Text) /\ Len(a) = n
          /\ \A i \in 1..n : a[i] = piece(s[i])
      BY <1>5
    <3>2. /\ b \in Seq(Text) /\ Len(b) = n + 1
          /\ \A i \in 1..(n + 1) : b[i] = piece(t[i])
      BY <1>2, <1>5
    <3> HIDE DEF a, b
    <3> QED BY <1>2, <3>1, <3>2
  <2> HIDE DEF a, b
  <2>2. /\ d \in Seq(Text) /\ Len(d) = n + 1
        /\ \A i \in 1..n : d[i] = a[i]
        /\ d[n + 1] = piece(x)
    BY <1>1, <2>1, AppendProperties
  <2> HIDE DEF d
  <2>3. \A i \in 1..(n + 1) : b[i] = d[i]
    <3>1. \A i \in 1..(n + 1) : i \in 1..n \/ i = n + 1
      BY <1>2
    <3> QED BY <2>1, <2>2, <3>1
  <2>4. b = d
    BY <2>1, <2>2, <2>3, SeqEqual
  <2> QED BY <2>4 DEF a, b, d
<1>8. each(s) \in Seq(Text) /\ piece(x) \in Text
  BY <1>1, <1>5
<1>9. /\ FlattenSeq(<<>>) = <<>>
      /\ FlattenSeq(each(s)) \in Text
      /\ FlattenSeq(Append(each(s), piece(x))) = FlattenSeq(each(s)) \o piece(x)
  BY <1>8, FlattenMore DEF Text
<1>10. glued(s) \in Text /\ glued(<<>>) = <<>> /\ glued(t) = glued(s) \o (trim(x) \o <<Slash>>)
  BY <1>3, <1>4, <1>6, <1>7, <1>9
<1>11. joinSlashes(t) = glued(s) \o trim(x)
  <2> DEFINE g == glued(s)
             m == trim(x)
  <2>1. g \in Text /\ m \in Text
    BY <1>10, TrimFacts
  <2>2. joinSlashes(t) = Front(g \o (m \o <<Slash>>))
    BY <1>3, <1>10
  <2> HIDE DEF g, m
  <2>3. leftFirst(g, m, <<Slash>>) = rightFirst(g, m, <<Slash>>)
    BY <2>1, SlashText, Associative
  <2>4. (g \o m) \o <<Slash>> = g \o (m \o <<Slash>>)
    BY <2>3 DEF leftFirst, rightFirst
  <2>5. Front((g \o m) \o <<Slash>>) = g \o m
    <3>1. g \o m \in Text
      BY <2>1, Joined
    <3> QED BY <3>1, SlashText, FrontOfText
  <2> QED BY <2>2, <2>4, <2>5 DEF g, m
<1> QED BY <1>10, <1>11 DEF t

\* Three texts with slashes between them, joined in two ways.
pairsFirst(a, b, c) == ((a \o <<Slash>>) \o (b \o <<Slash>>)) \o c
oneByOne(a, b, c) == a \o (<<Slash>> \o (b \o (<<Slash>> \o c)))

\* Three texts joined with slashes are the same however the joins are grouped.
LEMMA Rearranged ==
    ASSUME NEW a \in Text, NEW b \in Text, NEW c \in Text
    PROVE  pairsFirst(a, b, c) = oneByOne(a, b, c)
<1> DEFINE sl == <<Slash>>
           x == a \o sl
           y == b \o sl
           z == b \o (sl \o c)
<1>1. sl \in Text
  BY SlashText
<1> HIDE DEF sl
<1>2. x \in Text /\ y \in Text /\ z \in Text
  <2>1. sl \o c \in Text
    BY <1>1, Joined
  <2> QED BY <1>1, <2>1, Joined
<1>3. leftFirst(b, sl, c) = rightFirst(b, sl, c) /\ leftFirst(a, sl, z) = rightFirst(a, sl, z)
  BY <1>1, <1>2, Associative
<1>4. y \o c = z /\ x \o z = a \o (sl \o z)
  BY <1>3 DEF leftFirst, rightFirst
<1> HIDE DEF x, y, z
<1>5. leftFirst(x, y, c) = rightFirst(x, y, c)
  BY <1>2, Associative
<1>6. (x \o y) \o c = a \o (sl \o z)
  BY <1>4, <1>5 DEF leftFirst, rightFirst
<1> QED BY <1>6 DEF pairsFirst, oneByOne, x, y, z, sl

\* Four strings between slashes.
joinFour(a, b, c, d) == joinSlashes(<<a>> \o <<b, c, d>>)
trimFour(a, b, c, d) ==
    (((trim(a) \o <<Slash>>) \o (trim(b) \o <<Slash>>)) \o (trim(c) \o <<Slash>>)) \o trim(d)

\* join(join(join(a, b), c), d) trims each text once and puts one slash between them.
LEMMA JoinFour ==
    ASSUME NEW a \in Text, NEW b \in Text, NEW c \in Text, NEW d \in Text,
           a # <<>>, b # <<>>, c # <<>>, d # <<>>
    PROVE  joinFour(a, b, c, d) = trimFour(a, b, c, d)
<1> DEFINE w == trim(a) \o <<Slash>>
           x == trim(b) \o <<Slash>>
           y == trim(c) \o <<Slash>>
<1>1. /\ <<>> \in Seq(Text) /\ <<a>> \in Seq(Text) /\ <<a, b>> \in Seq(Text)
      /\ <<a, b, c>> \in Seq(Text)
  OBVIOUS
<1>2. /\ Append(<<>>, a) = <<a>> /\ Append(<<a>>, b) = <<a, b>>
      /\ Append(<<a, b>>, c) = <<a, b, c>> /\ Append(<<a, b, c>>, d) = <<a, b, c, d>>
      /\ <<a>> \o <<b, c, d>> = <<a, b, c, d>>
  <2>11. Append(<<>>, a) = <<a>>
    OBVIOUS
  <2>12. Append(<<a>>, b) = <<a, b>>
    <3> DEFINE s == Append(<<a>>, b)
               t == <<a, b>>
    <3>1. s \in Seq(Text) /\ Len(s) = 2 /\ t \in Seq(Text) /\ Len(t) = 2
      OBVIOUS
    <3>2. \A i \in 1..2 : s[i] = t[i]
      <4>1. \A i \in 1..2 : i = 1 \/ i = 2
        OBVIOUS
      <4> QED BY <4>1
    <3> HIDE DEF s, t
    <3>3. s = t
      BY <3>1, <3>2, SeqEqual
    <3> QED BY <3>3 DEF s, t
  <2>13. Append(<<a, b>>, c) = <<a, b, c>>
    <3> DEFINE s == Append(<<a, b>>, c)
               t == <<a, b, c>>
    <3>1. s \in Seq(Text) /\ Len(s) = 3 /\ t \in Seq(Text) /\ Len(t) = 3
      OBVIOUS
    <3>2. \A i \in 1..3 : s[i] = t[i]
      <4>1. \A i \in 1..3 : i = 1 \/ i = 2 \/ i = 3
        OBVIOUS
      <4> QED BY <4>1
    <3> HIDE DEF s, t
    <3>3. s = t
      BY <3>1, <3>2, SeqEqual
    <3> QED BY <3>3 DEF s, t
  <2>14. Append(<<a, b, c>>, d) = <<a, b, c, d>>
    <3> DEFINE s == Append(<<a, b, c>>, d)
               t == <<a, b, c, d>>
    <3>1. s \in Seq(Text) /\ Len(s) = 4 /\ t \in Seq(Text) /\ Len(t) = 4
      OBVIOUS
    <3>2. \A i \in 1..4 : s[i] = t[i]
      <4>1. \A i \in 1..4 : i = 1 \/ i = 2 \/ i = 3 \/ i = 4
        OBVIOUS
      <4> QED BY <4>1
    <3> HIDE DEF s, t
    <3>3. s = t
      BY <3>1, <3>2, SeqEqual
    <3> QED BY <3>3 DEF s, t
  <2>15. <<a>> \o <<b, c, d>> = <<a, b, c, d>>
    <3> DEFINE s == <<a>> \o <<b, c, d>>
               t == <<a, b, c, d>>
    <3>1. s \in Seq(Text) /\ Len(s) = 4 /\ t \in Seq(Text) /\ Len(t) = 4
      OBVIOUS
    <3>2. \A i \in 1..4 : s[i] = t[i]
      <4>1. \A i \in 1..4 : i = 1 \/ i = 2 \/ i = 3 \/ i = 4
        OBVIOUS
      <4> QED BY <4>1
    <3> HIDE DEF s, t
    <3>3. s = t
      BY <3>1, <3>2, SeqEqual
    <3> QED BY <3>3 DEF s, t
  <2> QED BY <2>11, <2>12, <2>13, <2>14, <2>15
<1>3. w \in Text
  BY TrimFacts, SlashText, Joined
<1>4. glued(<<>>) = <<>> /\ glued(Append(<<>>, a)) = glued(<<>>) \o w
  BY <1>1, JoinMore
<1>5. glued(Append(<<a>>, b)) = glued(<<a>>) \o x
  BY <1>1, JoinMore
<1>6. glued(Append(<<a, b>>, c)) = glued(<<a, b>>) \o y
  BY <1>1, JoinMore
<1>7. joinSlashes(Append(<<a, b, c>>, d)) = glued(<<a, b, c>>) \o trim(d)
  BY <1>1, JoinMore
<1> HIDE DEF w, x, y
<1>8. glued(<<a>>) = w
  BY <1>2, <1>3, <1>4, NoText
<1> QED BY <1>2, <1>5, <1>6, <1>7, <1>8 DEF w, x, y, joinFour, trimFour

\* The URL of an account, a container, a remote_dir, and a path with a slash in front.
Parts(base, c, d, r) ==
    /\ base \in Text /\ base # <<>> /\ c \in Text /\ c # <<>> /\ d \in Text /\ d # <<>>
    /\ r \in Text /\ Len(r) >= 2 /\ r[1] = Slash /\ r[Len(r)] # Slash

\* The container and the object.
objectOf(c, d, r) == trim(c) \o (<<Slash>> \o (trim(d) \o r))

\* The URL of an object is that of the account, a slash, and the name of the
\* container and the object, encoded.
LEMMA AddressIs ==
    ASSUME NEW base, NEW c, NEW d, NEW r, Parts(base, c, d, r)
    PROVE  /\ trim(base) \in Text /\ trim(c) \in Text /\ trim(d) \in Text
           /\ objectOf(c, d, r) \in Text
           /\ address(base, <<c, d, r>>)
                 = trim(base) \o (<<Slash>> \o urlencode(objectOf(c, d, r)))
<1>0. /\ base \in Text /\ base # <<>> /\ c \in Text /\ c # <<>> /\ d \in Text /\ d # <<>>
      /\ r \in Text /\ Len(r) >= 2 /\ r[1] = Slash /\ r[Len(r)] # Slash
  BY DEF Parts
<1> USE <1>0
<1> DEFINE sl == <<Slash>>
           B == trim(base)
           C == trim(c)
           D == trim(d)
           R == trim(r)
           uC == urlencode(C)
           uD == urlencode(D)
           uR == urlencode(R)
           N == C \o (sl \o (D \o r))
<1>1. r # <<>>
  BY NoText
<1>2. /\ B \in Text /\ C \in Text /\ D \in Text /\ R \in Text
      /\ uC \in Text /\ uD \in Text /\ uR \in Text /\ sl \in Text
  BY <1>1, TrimFacts, UrlencodeByByte, SlashText
<1>3. r = sl \o R
  BY TrimRelative
<1>4. /\ urlencode(c) \in Text /\ urlencode(c) # <<>> /\ trim(urlencode(c)) = uC
      /\ urlencode(d) \in Text /\ urlencode(d) # <<>> /\ trim(urlencode(d)) = uD
      /\ urlencode(r) \in Text /\ urlencode(r) # <<>> /\ trim(urlencode(r)) = uR
  BY <1>1, TrimUrlencode
<1>5. address(base, <<c, d, r>>) = joinFour(base, urlencode(c), urlencode(d), urlencode(r))
  <2> DEFINE q == <<c, d, r>>
             v == [k \in DOMAIN q |-> urlencode(q[k])]
             z == <<urlencode(c), urlencode(d), urlencode(r)>>
  <2>1. v = z
    <3>1. v = [k \in 1..3 |-> urlencode(q[k])]
      OBVIOUS
    <3>2. v[1] = urlencode(c) /\ v[2] = urlencode(d) /\ v[3] = urlencode(r)
      BY <3>1
    <3>3. z = [k \in 1..3 |-> z[k]]
      OBVIOUS
    <3>4. \A k \in 1..3 : k = 1 \/ k = 2 \/ k = 3
      OBVIOUS
    <3> QED BY <3>1, <3>2, <3>3, <3>4
  <2> QED BY <2>1 DEF address, joinFour
<1>6. address(base, <<c, d, r>>) = (((B \o sl) \o (uC \o sl)) \o (uD \o sl)) \o uR
  <2> DEFINE x == urlencode(c)
             y == urlencode(d)
             z == urlencode(r)
  <2>1. /\ x \in Text /\ x # <<>> /\ trim(x) = uC
        /\ y \in Text /\ y # <<>> /\ trim(y) = uD
        /\ z \in Text /\ z # <<>> /\ trim(z) = uR
        /\ address(base, <<c, d, r>>) = joinFour(base, x, y, z)
    BY <1>4, <1>5
  <2> HIDE DEF x, y, z
  <2>2. joinFour(base, x, y, z) = trimFour(base, x, y, z)
    BY <2>1, JoinFour
  <2>3. trimFour(base, x, y, z)
           = (((B \o sl) \o (trim(x) \o sl)) \o (trim(y) \o sl)) \o trim(z)
    BY DEF trimFour
  <2> HIDE DEF B, C, D, R, uC, uD, uR, sl
  <2> QED BY <2>1, <2>2, <2>3
<1> HIDE DEF B, C, D, R, uC, uD, uR, sl
<1>7. urlencode(N) = uC \o (sl \o (uD \o (sl \o uR))) /\ N \in Text
  <2>1. D \o r \in Text
    BY <1>2, Joined
  <2>2. sl \o (D \o r) \in Text
    BY <1>2, <2>1, Joined
  <2>3. N \in Text
    BY <1>2, <2>2, Joined
  <2>4. urlencode(N) = uC \o urlencode(sl \o (D \o r))
    BY <1>2, <2>2, UrlencodeJoined DEF uC
  <2>5. urlencode(sl \o (D \o r)) = urlencode(sl) \o urlencode(D \o r)
    BY <1>2, <2>1, UrlencodeJoined
  <2>6. urlencode(D \o r) = uD \o urlencode(r)
    BY <1>2, UrlencodeJoined DEF uD
  <2>7. urlencode(sl \o R) = urlencode(sl) \o uR
    BY <1>2, UrlencodeJoined DEF uR
  <2>8. urlencode(sl) = sl
    BY SlashText DEF sl
  <2> QED BY <1>3, <2>3, <2>4, <2>5, <2>6, <2>7, <2>8
<1> HIDE DEF N
<1>8. (((B \o sl) \o (uC \o sl)) \o (uD \o sl)) \o uR = B \o (sl \o (uC \o (sl \o (uD \o (sl \o uR)))))
  <2> DEFINE e == (uD \o sl) \o uR
             f == (B \o sl) \o (uC \o sl)
  <2>1. (f \o (uD \o sl)) \o uR = f \o e
    <3>1. f \in Text /\ uD \o sl \in Text
      <4>1. B \o sl \in Text /\ uC \o sl \in Text /\ uD \o sl \in Text
        BY <1>2, Joined
      <4> QED BY <4>1, Joined
    <3> DEFINE g == uD \o sl
    <3> HIDE DEF f, g
    <3>2. f \in Text /\ g \in Text
      BY <3>1 DEF g
    <3>3. leftFirst(f, g, uR) = rightFirst(f, g, uR)
      BY <1>2, <3>2, Associative
    <3> QED BY <3>3 DEF leftFirst, rightFirst, g
  <2>2. e = uD \o (sl \o uR) /\ e \in Text
    <3>1. leftFirst(uD, sl, uR) = rightFirst(uD, sl, uR)
      BY <1>2, Associative
    <3>2. sl \o uR \in Text
      BY <1>2, Joined
    <3>3. uD \o (sl \o uR) \in Text
      BY <1>2, <3>2, Joined
    <3> QED BY <3>1, <3>3 DEF leftFirst, rightFirst
  <2> HIDE DEF e
  <2>3. f \o e = B \o (sl \o (uC \o (sl \o e)))
    <3>1. e \in Text
      BY <2>2
    <3>2. pairsFirst(B, uC, e) = oneByOne(B, uC, e)
      BY <1>2, <3>1, Rearranged
    <3> QED BY <3>2 DEF pairsFirst, oneByOne, sl
  <2> QED BY <2>1, <2>2, <2>3
<1>9. address(base, <<c, d, r>>) = B \o (sl \o urlencode(N))
  BY <1>6, <1>7, <1>8
<1> QED BY <1>2, <1>7, <1>9 DEF B, C, D, N, sl, objectOf

-----------------------------------------------------------------------------
(* urldecode                                                               *)

\* At k a percent sign and two digits stand for a byte.
hexPair(s, k) ==
    s[k] = Percent /\ k + 2 <= Len(s) /\ {s[k + 1], s[k + 2]} \subseteq HexByte

pairByte(s, k) == 16 * hexValue(s[k + 1]) + hexValue(s[k + 2])

\* f tells of each place of s what the text from there on stands for.
IsDecoding(s, f) ==
    /\ f \in [1..(Len(s) + 1) -> Text]
    /\ f[Len(s) + 1] = <<>>
    /\ \A k \in 1..Len(s) :
          f[k] = IF hexPair(s, k) THEN <<pairByte(s, k)>> \o f[k + 3] ELSE <<s[k]>> \o f[k + 1]

\* Two hexadecimal digits, and the byte they stand for, are bytes.
LEMMA PairBytes ==
    ASSUME NEW h \in HexByte, NEW l \in HexByte
    PROVE  h \in Byte /\ l \in Byte /\ 16 * hexValue(h) + hexValue(l) \in Byte
<1>1. ASSUME NEW d \in HexByte
      PROVE  d \in Byte /\ hexValue(d) \in 0..15
  BY DEF HexByte, hexValue, Digit, Byte
<1>2. h \in Byte /\ l \in Byte /\ hexValue(h) \in 0..15 /\ hexValue(l) \in 0..15
  BY <1>1
<1> QED BY <1>2 DEF Byte

\* urldecode reads a text from its end.
LEMMA DecodeFacts ==
    ASSUME NEW s \in Text
    PROVE  \E f : IsDecoding(s, f) /\ urldecode(s) = f[1]
<1> DEFINE n == Len(s)
           N == n + 1
           step(f, i) == IF i > n THEN <<>>
                         ELSE IF hexPair(s, i) THEN <<pairByte(s, i)>> \o f[i + 3]
                              ELSE <<s[i]>> \o f[i + 1]
           Ok(f) == f = [i \in 1..N |-> step(f, i)]
<1>1. n \in Nat /\ N \in Nat /\ N \in 1..N
  BY NoText
<1>2. urldecode(s) = (CHOOSE f : Ok(f))[1]
  BY DEF urldecode, hexPair, pairByte, HexByte
<1>3. \A i \in 1..n : s[i] \in Byte /\ <<s[i]>> \in Text /\ (hexPair(s, i) => <<pairByte(s, i)>> \in Text)
  <2> SUFFICES ASSUME NEW i \in 1..n
               PROVE  s[i] \in Byte /\ <<s[i]>> \in Text /\ (hexPair(s, i) => <<pairByte(s, i)>> \in Text)
    OBVIOUS
  <2>1. s[i] \in Byte
    BY DEF Text
  <2>2. hexPair(s, i) => pairByte(s, i) \in Byte
    BY PairBytes DEF hexPair, pairByte
  <2> QED BY <2>1, <2>2, OneByte
<1>4. \A i \in 1..n : hexPair(s, i) => i + 3 <= N
  BY <1>1 DEF hexPair
<1> HIDE DEF n
<1> DEFINE Part(k) == \E f : f = [i \in k..N |-> step(f, i)]
           P == {j \in 1..N : Part((N + 1) - j)}
<1>5. \A j \in 1..N : j \in P
  <2> SUFFICES ASSUME NEW j \in 1..N, \A m \in 1..(j - 1) : m \in P
               PROVE  Part((N + 1) - j)
    BY <1>1, UpTo
  <2> DEFINE k == (N + 1) - j
  <2>1. k \in 1..N /\ k \in Nat
    BY <1>1
  <2>2. CASE j = 1
    <3>1. k = N
      BY <1>1, <2>2
    <3> HIDE DEF k
    <3> DEFINE f == [i \in k..N |-> <<>>]
    <3>2. \A i \in k..N : i > n
      BY <1>1, <3>1
    <3>3. f = [i \in k..N |-> step(f, i)]
      BY <3>2
    <3> QED BY <3>3 DEF k
  <2>3. CASE j # 1
    <3>1. j - 1 \in 1..(j - 1) /\ (N + 1) - (j - 1) = k + 1 /\ k <= n
      BY <1>1, <2>3
    <3>2. j - 1 \in P
      BY <2>1, <3>1
    <3> HIDE DEF k
    <3>3. PICK g : g = [i \in (k + 1)..N |-> step(g, i)]
      BY <3>1, <3>2
    <3> DEFINE f == [i \in k..N |-> IF i = k THEN step(g, k) ELSE g[i]]
    <3>4. /\ f[k] = step(g, k)
          /\ \A i \in (k + 1)..N : f[i] = g[i]
      <4>1. k \in k..N /\ \A i \in (k + 1)..N : i \in k..N /\ i # k
        BY <1>1, <2>1
      <4> HIDE DEF step
      <4> QED BY <4>1
    <3>5. \A i \in (k + 1)..N : g[i] = step(g, i)
      <4> DEFINE G == [i \in (k + 1)..N |-> step(g, i)]
      <4>1. \A i \in (k + 1)..N : G[i] = step(g, i)
        OBVIOUS
      <4>2. g = G
        BY <3>3
      <4> HIDE DEF G
      <4> QED BY <4>1, <4>2
    <3>6. f = [i \in k..N |-> f[i]]
      OBVIOUS
    <3> HIDE DEF f
    <3>7. \A i \in k..N : step(f, i) = step(g, i)
      <4> SUFFICES ASSUME NEW i \in k..N, i <= n
                   PROVE  step(f, i) = step(g, i)
        BY <1>1, <2>1
      <4>1. i + 1 \in (k + 1)..N /\ i \in 1..n
        BY <1>1, <2>1
      <4>2. f[i + 1] = g[i + 1]
        BY <3>4, <4>1
      <4>3. hexPair(s, i) => i + 3 \in (k + 1)..N
        BY <1>1, <1>4, <2>1, <4>1
      <4>4. hexPair(s, i) => f[i + 3] = g[i + 3]
        BY <3>4, <4>3
      <4> QED BY <4>2, <4>4
    <3>8. \A i \in k..N : f[i] = step(f, i)
      <4> SUFFICES ASSUME NEW i \in k..N
                   PROVE  f[i] = step(g, i)
        BY <3>7
      <4>1. i = k \/ i \in (k + 1)..N
        BY <1>1, <2>1
      <4> HIDE DEF step
      <4> QED BY <3>4, <3>5, <4>1
    <3>9. f = [i \in k..N |-> step(f, i)]
      <4> HIDE DEF step
      <4> QED BY <3>6, <3>8
    <3> QED BY <3>9 DEF k
  <2> QED BY <2>2, <2>3
<1>6. \E f : Ok(f)
  <2>1. N \in P
    <3> HIDE DEF P
    <3> QED BY <1>1, <1>5
  <2>2. (N + 1) - N = 1
    BY <1>1
  <2> HIDE DEF step
  <2> QED BY <2>1, <2>2
<1>7. PICK f : f = (CHOOSE g : Ok(g))
  OBVIOUS
<1>8. Ok(f)
  <2> HIDE DEF step
  <2> QED BY <1>6, <1>7
<1>9. DOMAIN f = 1..N /\ f = [i \in 1..N |-> f[i]] /\ \A i \in 1..N : f[i] = step(f, i)
  <2> HIDE DEF step
  <2> QED BY <1>8
<1>10. \A j \in 1..N : f[(N + 1) - j] \in Text
  <2> DEFINE Q == {j \in 1..N : f[(N + 1) - j] \in Text}
  <2> SUFFICES \A j \in 1..N : j \in Q
    OBVIOUS
  <2>1. ASSUME NEW j \in 1..N, \A m \in 1..(j - 1) : m \in Q
        PROVE  j \in Q
    <3> DEFINE k == (N + 1) - j
    <3>1. k \in 1..N
      BY <1>1
    <3>2. CASE k > n
      BY <1>9, <3>1, <3>2, NoText
    <3>3. CASE ~(k > n)
      <4>1. k \in 1..n /\ j - 1 \in 1..(j - 1) /\ (N + 1) - (j - 1) = k + 1
        BY <1>1, <3>1, <3>3
      <4>2. f[k + 1] \in Text
        BY <2>1, <4>1
      <4>3. ASSUME hexPair(s, k)
            PROVE  f[k + 3] \in Text
        <5>1. k + 3 <= N
          BY <1>4, <4>1, <4>3
        <5>2. j - 3 \in 1..(j - 1) /\ (N + 1) - (j - 3) = k + 3
          BY <1>1, <3>1, <5>1
        <5> QED BY <2>1, <5>2
      <4>4. f[k] = IF hexPair(s, k) THEN <<pairByte(s, k)>> \o f[k + 3] ELSE <<s[k]>> \o f[k + 1]
        BY <1>9, <3>1, <3>3
      <4> HIDE DEF k
      <4>5. <<s[k]>> \o f[k + 1] \in Text
        BY <1>3, <4>1, <4>2, Joined
      <4>6. hexPair(s, k) => <<pairByte(s, k)>> \o f[k + 3] \in Text
        BY <1>3, <4>1, <4>3, Joined
      <4>7. f[k] \in Text
        BY <4>4, <4>5, <4>6
      <4> QED BY <4>7 DEF k
    <3> QED BY <3>2, <3>3
  <2> HIDE DEF Q
  <2> QED BY <1>1, <2>1, UpTo
<1>11. \A i \in 1..N : f[i] \in Text
  <2> SUFFICES ASSUME NEW i \in 1..N
               PROVE  f[i] \in Text
    OBVIOUS
  <2>1. (N + 1) - i \in 1..N /\ (N + 1) - ((N + 1) - i) = i
    BY <1>1
  <2> DEFINE j == (N + 1) - i
  <2>2. f[(N + 1) - j] \in Text
    BY <1>10, <2>1
  <2> QED BY <2>1, <2>2
<1>12. f \in [1..N -> Text]
  BY <1>9, <1>11
<1>13. f[N] = <<>>
  <2>1. N \in 1..N /\ N > n
    BY <1>1
  <2>2. \A i \in 1..N : i > n => f[i] = <<>>
    BY <1>9
  <2> QED BY <2>1, <2>2
<1>14. \A k \in 1..n : f[k] = IF hexPair(s, k) THEN <<pairByte(s, k)>> \o f[k + 3]
                              ELSE <<s[k]>> \o f[k + 1]
  <2>1. \A k \in 1..n : k \in 1..N /\ ~(k > n)
    BY <1>1
  <2> QED BY <1>9, <2>1
<1>15. IsDecoding(s, f)
  BY <1>12, <1>13, <1>14 DEF IsDecoding, n
<1> QED BY <1>2, <1>7, <1>15

\* What a text stands for from a place on does not depend on what is before it.
LEMMA DecodeRest ==
    ASSUME NEW x \in Text, NEW t \in Text, NEW f, IsDecoding(x \o t, f)
    PROVE  f[Len(x) + 1] = urldecode(t)
<1> DEFINE s == x \o t
           m == Len(x)
           n == Len(t)
           N == n + 1
<1>1. /\ m \in Nat /\ n \in Nat /\ N \in Nat /\ s \in Text /\ Len(s) = m + n
      /\ \A i \in 1..(m + n) : s[i] = IF i <= m THEN x[i] ELSE t[i - m]
  <2>1. /\ Len(x) \in Nat /\ Len(t) \in Nat
        /\ x \o t \in Text /\ Len(x \o t) = Len(x) + Len(t)
        /\ \A i \in 1..(Len(x) + Len(t)) :
              (x \o t)[i] = IF i <= Len(x) THEN x[i] ELSE t[i - Len(x)]
    BY JoinedText
  <2> HIDE DEF s, m, n
  <2> QED BY <2>1 DEF s, m, n
<1>2. PICK g : IsDecoding(t, g) /\ urldecode(t) = g[1]
  BY DecodeFacts
<1>3. IsDecoding(s, f)
  OBVIOUS
<1> HIDE DEF s, m, n
<1>4. \A k \in 1..n : s[m + k] = t[k]
  <2> SUFFICES ASSUME NEW k \in 1..n
               PROVE  s[m + k] = t[k]
    OBVIOUS
  <2>1. m + k \in 1..(m + n) /\ ~(m + k <= m) /\ (m + k) - m = k
    BY <1>1
  <2> QED BY <1>1, <2>1
<1>5. \A k \in 1..n : /\ hexPair(s, m + k) <=> hexPair(t, k)
                      /\ hexPair(t, k) => pairByte(s, m + k) = pairByte(t, k) /\ k + 2 \in 1..n
  <2> SUFFICES ASSUME NEW k \in 1..n
               PROVE  /\ hexPair(s, m + k) <=> hexPair(t, k)
                      /\ hexPair(t, k) => pairByte(s, m + k) = pairByte(t, k) /\ k + 2 \in 1..n
    OBVIOUS
  <2>1. /\ (m + k) + 2 <= Len(s) <=> k + 2 <= n
        /\ (m + k) + 1 = m + (k + 1) /\ (m + k) + 2 = m + (k + 2)
    BY <1>1
  <2>2. s[m + k] = t[k]
    BY <1>4
  <2>3. ASSUME k + 2 <= n
        PROVE  s[(m + k) + 1] = t[k + 1] /\ s[(m + k) + 2] = t[k + 2] /\ k + 2 \in 1..n
    <3>1. k + 1 \in 1..n /\ k + 2 \in 1..n
      BY <1>1, <2>3
    <3> QED BY <1>4, <2>1, <3>1
  <2>4. Len(t) = n
    BY DEF n
  <2>5. CASE k + 2 <= n
    BY <2>1, <2>2, <2>3, <2>4, <2>5 DEF hexPair, pairByte
  <2>6. CASE ~(k + 2 <= n)
    BY <2>1, <2>4, <2>6 DEF hexPair
  <2> QED BY <2>5, <2>6
<1> DEFINE P == {j \in 1..N : f[m + ((N + 1) - j)] = g[(N + 1) - j]}
<1>6. ASSUME NEW j \in 1..N, \A i \in 1..(j - 1) : i \in P
      PROVE  j \in P
  <2> DEFINE k == (N + 1) - j
  <2>1. k \in 1..N
    BY <1>1
  <2>2. CASE k = N
    <3>1. m + k = Len(s) + 1 /\ k = Len(t) + 1
      BY <1>1, <2>2 DEF n
    <3>2. f[Len(s) + 1] = <<>> /\ g[Len(t) + 1] = <<>>
      BY <1>2, <1>3 DEF IsDecoding
    <3> QED BY <2>1, <3>1, <3>2
  <2>3. CASE k # N
    <3>1. k \in 1..n /\ m + k \in 1..Len(s)
      BY <1>1, <2>1, <2>3
    <3>2. j - 1 \in 1..(j - 1) /\ (N + 1) - (j - 1) = k + 1 /\ m + (k + 1) = (m + k) + 1
      BY <1>1, <2>1, <2>3
    <3>3. f[(m + k) + 1] = g[k + 1]
      BY <1>6, <3>2
    <3>4. ASSUME hexPair(t, k)
          PROVE  f[(m + k) + 3] = g[k + 3]
      <4>1. k + 2 \in 1..n
        BY <1>5, <3>1, <3>4
      <4>2. j - 3 \in 1..(j - 1) /\ (N + 1) - (j - 3) = k + 3 /\ m + (k + 3) = (m + k) + 3
        BY <1>1, <2>1, <4>1
      <4> QED BY <1>6, <4>2
    <3> HIDE DEF k, P
    <3>5. f[m + k] = IF hexPair(s, m + k) THEN <<pairByte(s, m + k)>> \o f[(m + k) + 3]
                     ELSE <<s[m + k]>> \o f[(m + k) + 1]
      BY <1>3, <3>1 DEF IsDecoding
    <3>6. g[k] = IF hexPair(t, k) THEN <<pairByte(t, k)>> \o g[k + 3] ELSE <<t[k]>> \o g[k + 1]
      BY <1>2, <3>1 DEF IsDecoding, n
    <3>7. f[m + k] = g[k]
      <4>1. CASE hexPair(t, k)
        <5>1. hexPair(s, m + k) /\ pairByte(s, m + k) = pairByte(t, k) /\ f[(m + k) + 3] = g[k + 3]
          BY <1>5, <3>1, <3>4, <4>1
        <5> QED BY <3>5, <3>6, <4>1, <5>1
      <4>2. CASE ~hexPair(t, k)
        <5>1. ~hexPair(s, m + k) /\ s[m + k] = t[k]
          BY <1>4, <1>5, <3>1, <4>2
        <5> QED BY <3>3, <3>5, <3>6, <4>2, <5>1
      <4> QED BY <4>1, <4>2
    <3> QED BY <3>7 DEF k, P
  <2> QED BY <2>2, <2>3
<1>7. N \in P
  <2>1. N \in 1..N
    BY <1>1
  <2> HIDE DEF P
  <2> QED BY <1>1, <1>6, <2>1, UpTo
<1>8. (N + 1) - N = 1
  BY <1>1
<1> QED BY <1>2, <1>7, <1>8 DEF m

\* The first byte of a text stands for itself, or is a percent sign with two digits.
LEMMA DecodeFirst ==
    /\ urldecode(<<>>) = <<>>
    /\ \A c \in Byte, t \in Text :
          ~hexPair(<<c>> \o t, 1) => urldecode(<<c>> \o t) = <<c>> \o urldecode(t)
    /\ \A h \in HexByte, l \in HexByte, t \in Text :
          urldecode(<<Percent, h, l>> \o t) = <<16 * hexValue(h) + hexValue(l)>> \o urldecode(t)
    /\ \A s \in Text : urldecode(s) \in Text
<1>1. urldecode(<<>>) = <<>>
  <2>1. PICK f : IsDecoding(<<>>, f) /\ urldecode(<<>>) = f[1]
    BY DecodeFacts, NoText
  <2>2. f[Len(<<>>) + 1] = <<>>
    BY <2>1 DEF IsDecoding
  <2> QED BY <2>1, <2>2
<1>2. ASSUME NEW c \in Byte, NEW t \in Text, ~hexPair(<<c>> \o t, 1)
      PROVE  urldecode(<<c>> \o t) = <<c>> \o urldecode(t)
  <2> DEFINE x == <<c>>
             s == x \o t
  <2>1. x \in Text /\ Len(x) = 1 /\ x[1] = c
    BY OneByte
  <2> HIDE DEF x
  <2>2. s \in Text /\ Len(s) = 1 + Len(t) /\ Len(t) \in Nat /\ s[1] = c
    <3>1. /\ s \in Text /\ Len(s) = Len(x) + Len(t) /\ Len(t) \in Nat
          /\ \A i \in 1..(Len(x) + Len(t)) : s[i] = IF i <= Len(x) THEN x[i] ELSE t[i - Len(x)]
      BY <2>1, JoinedText
    <3> HIDE DEF s
    <3>2. 1 \in 1..(Len(x) + Len(t)) /\ 1 <= Len(x)
      BY <2>1, <3>1
    <3> QED BY <2>1, <3>1, <3>2
  <2>3. PICK f : IsDecoding(s, f) /\ urldecode(s) = f[1]
    BY <2>2, DecodeFacts
  <2>4. f[Len(x) + 1] = urldecode(t)
    BY <2>1, <2>3, DecodeRest
  <2>5. ~hexPair(s, 1)
    BY <1>2 DEF x
  <2> HIDE DEF s
  <2>6. 1 \in 1..Len(s)
    BY <2>2
  <2>7. f[1] = <<s[1]>> \o f[1 + 1]
    BY <2>3, <2>5, <2>6 DEF IsDecoding
  <2> QED BY <2>1, <2>2, <2>3, <2>4, <2>7 DEF s, x
<1>3. ASSUME NEW h \in HexByte, NEW l \in HexByte, NEW t \in Text
      PROVE  urldecode(<<Percent, h, l>> \o t) = <<16 * hexValue(h) + hexValue(l)>> \o urldecode(t)
  <2> DEFINE x == <<Percent, h, l>>
             s == x \o t
  <2>1. x \in Text /\ Len(x) = 3 /\ x[1] = Percent /\ x[2] = h /\ x[3] = l
    <3>1. Percent \in Byte /\ h \in Byte /\ l \in Byte
      BY PairBytes DEF Percent, Byte
    <3> QED BY <3>1 DEF Text
  <2> HIDE DEF x
  <2>2. /\ s \in Text /\ Len(s) = 3 + Len(t) /\ Len(t) \in Nat
        /\ \A i \in 1..(3 + Len(t)) : s[i] = IF i <= 3 THEN x[i] ELSE t[i - 3]
    <3>1. /\ s \in Text /\ Len(s) = Len(x) + Len(t) /\ Len(t) \in Nat
          /\ \A i \in 1..(Len(x) + Len(t)) : s[i] = IF i <= Len(x) THEN x[i] ELSE t[i - Len(x)]
      BY <2>1, JoinedText
    <3> HIDE DEF s
    <3> QED BY <2>1, <3>1
  <2>3. PICK f : IsDecoding(s, f) /\ urldecode(s) = f[1]
    BY <2>2, DecodeFacts
  <2>4. f[Len(x) + 1] = urldecode(t)
    BY <2>1, <2>3, DecodeRest
  <2> HIDE DEF s
  <2>5. s[1] = Percent /\ s[1 + 1] = h /\ s[1 + 2] = l /\ 1 \in 1..Len(s) /\ 1 + 2 <= Len(s)
    BY <2>1, <2>2
  <2>6. hexPair(s, 1) /\ pairByte(s, 1) = 16 * hexValue(h) + hexValue(l)
    BY <2>5 DEF hexPair, pairByte
  <2>7. f[1] = <<pairByte(s, 1)>> \o f[1 + 3]
    BY <2>3, <2>5, <2>6 DEF IsDecoding
  <2>8. Len(x) + 1 = 1 + 3
    BY <2>1
  <2> QED BY <2>3, <2>4, <2>6, <2>7, <2>8 DEF s, x
<1>4. \A s \in Text : urldecode(s) \in Text
  <2> SUFFICES ASSUME NEW s \in Text
               PROVE  urldecode(s) \in Text
    OBVIOUS
  <2>1. PICK f : IsDecoding(s, f) /\ urldecode(s) = f[1]
    BY DecodeFacts
  <2>2. 1 \in 1..(Len(s) + 1)
    BY NoText
  <2> QED BY <2>1, <2>2 DEF IsDecoding
<1> QED BY <1>1, <1>2, <1>3, <1>4

\* A text may be read in two parts, where the second begins with a slash.
LEMMA DecodeJoined ==
    ASSUME NEW x \in Text, NEW y \in Text, y # <<>>, y[1] = Slash
    PROVE  urldecode(x \o y) = urldecode(x) \o urldecode(y)
<1> DEFINE P == {u \in Text : urldecode(u \o y) = urldecode(u) \o urldecode(y)}
           z == urldecode(y)
<1>1. z \in Text /\ Len(y) \in Nat /\ Len(y) > 0 /\ Slash \notin HexByte
  <2>1. z \in Text
    BY DecodeFirst
  <2>2. Slash \notin HexByte
    BY DEF Slash, HexByte, Digit
  <2> QED BY <2>1, <2>2, NoText
<1> HIDE DEF z
<1>2. ASSUME NEW u \in Text, \A v \in Text : Len(v) < Len(u) => v \in P
      PROVE  urldecode(u \o y) = urldecode(u) \o z
  <2>1. CASE u = <<>>
    <3>1. u \o y = y /\ <<>> \o z = z
      BY <1>1, <2>1, NoText
    <3> QED BY <2>1, <3>1, DecodeFirst DEF z
  <2>2. CASE u # <<>>
    <3>1. PICK t \in Text : u = <<u[1]>> \o t /\ Len(u) = Len(t) + 1
      BY <2>2, FirstAndLast
    <3> DEFINE c == u[1]
               s == u \o y
    <3>2. c \in Byte /\ <<c>> \in Text
      BY <2>2, FirstAndLast, OneByte
    <3>3. /\ s \in Text /\ Len(s) = Len(u) + Len(y) /\ Len(u) \in Nat /\ Len(u) > 0
          /\ \A i \in 1..(Len(u) + Len(y)) : s[i] = IF i <= Len(u) THEN u[i] ELSE y[i - Len(u)]
      BY <2>2, JoinedText, NoText
    <3> HIDE DEF s
    <3>4. CASE hexPair(u, 1)
      <4>1. /\ u[1] = Percent /\ Len(u) >= 3 /\ u[2] \in HexByte /\ u[3] \in HexByte
        BY <3>3, <3>4 DEF hexPair
      <4> DEFINE h == u[2]
                 l == u[3]
                 w == SubSeq(u, 3 + 1, Len(u))
                 a == SubSeq(u, 1, 3)
                 b == <<Percent, h, l>>
      <4>2. 3 \in 0..Len(u)
        BY <3>3, <4>1
      <4>3. /\ a \in Text /\ Len(a) = 3 /\ \A i \in 1..3 : a[i] = u[i]
            /\ w \in Text /\ Len(w) = Len(u) - 3
        BY <4>2, PartsOfText
      <4>4. u = a \o w
        BY <4>2, TwoParts
      <4>5. b \in Text /\ Len(b) = 3 /\ b[1] = Percent /\ b[2] = h /\ b[3] = l
        <5>1. Percent \in Byte /\ h \in Byte /\ l \in Byte
          BY <4>1, PairBytes DEF Percent, Byte
        <5> QED BY <5>1 DEF Text
      <4> HIDE DEF a, w
      <4>6. a = b
        <5>1. \A i \in 1..3 : i = 1 \/ i = 2 \/ i = 3
          OBVIOUS
        <5> HIDE DEF b
        <5>2. \A i \in 1..3 : a[i] = b[i]
          BY <4>1, <4>3, <4>5, <5>1
        <5> QED BY <4>3, <4>5, <5>2, SeqEqual DEF Text
      <4>7. w \in P
        BY <1>2, <3>3, <4>3
      <4>8. urldecode(w \o y) = urldecode(w) \o z
        BY <4>7 DEF z
      <4> DEFINE d == <<16 * hexValue(h) + hexValue(l)>>
      <4>9. /\ urldecode(b \o w) = d \o urldecode(w)
            /\ urldecode(b \o (w \o y)) = d \o urldecode(w \o y)
            /\ d \in Text /\ urldecode(w) \in Text
        <5>1. w \o y \in Text
          BY <4>3, Joined
        <5>2. d \in Text
          BY <4>1, PairBytes, OneByte
        <5>3. h \in HexByte /\ l \in HexByte
          BY <4>1
        <5> HIDE DEF h, l
        <5>4. urldecode(b \o w) = d \o urldecode(w) /\ urldecode(w) \in Text
          BY <4>3, <5>3, DecodeFirst
        <5>5. urldecode(b \o (w \o y)) = d \o urldecode(w \o y)
          BY <5>1, <5>3, DecodeFirst
        <5> QED BY <5>2, <5>4, <5>5
      <4> HIDE DEF b, d, h, l
      <4>10. leftFirst(b, w, y) = rightFirst(b, w, y)
        BY <4>3, <4>5, Associative
      <4>11. leftFirst(d, urldecode(w), z) = rightFirst(d, urldecode(w), z)
        BY <1>1, <4>9, Associative
      <4>12. s = b \o (w \o y)
        BY <4>4, <4>6, <4>10 DEF leftFirst, rightFirst, s
      <4>13. (d \o urldecode(w)) \o z = d \o (urldecode(w) \o z)
        BY <4>11 DEF leftFirst, rightFirst
      <4>14. urldecode(s) = d \o (urldecode(w) \o z)
        BY <4>8, <4>9, <4>12
      <4>15. urldecode(u) = d \o urldecode(w)
        BY <4>4, <4>6, <4>9
      <4> QED BY <4>13, <4>14, <4>15 DEF s
    <3>5. CASE ~hexPair(u, 1)
      <4>1. ~hexPair(s, 1)
        <5> SUFFICES ASSUME hexPair(s, 1)
                     PROVE  FALSE
          OBVIOUS
        <5>1. /\ s[1] = Percent /\ Len(s) >= 3 /\ s[2] \in HexByte /\ s[3] \in HexByte
          BY <3>3 DEF hexPair
        <5>2. CASE Len(u) = 1
          <6>1. 2 \in 1..(Len(u) + Len(y)) /\ ~(2 <= Len(u)) /\ 2 - Len(u) = 1
            BY <1>1, <5>2
          <6>2. s[2] = y[1]
            BY <3>3, <6>1
          <6> QED BY <1>1, <5>1, <6>2
        <5>3. CASE Len(u) = 2
          <6>1. 3 \in 1..(Len(u) + Len(y)) /\ ~(3 <= Len(u)) /\ 3 - Len(u) = 1
            BY <1>1, <5>3
          <6>2. s[3] = y[1]
            BY <3>3, <6>1
          <6> QED BY <1>1, <5>1, <6>2
        <5>4. CASE Len(u) >= 3
          <6>1. \A i \in 1..3 : i \in 1..(Len(u) + Len(y)) /\ i <= Len(u)
            BY <1>1, <3>3, <5>4
          <6>2. s[1] = u[1] /\ s[2] = u[2] /\ s[3] = u[3]
            BY <3>3, <6>1
          <6>3. hexPair(u, 1)
            <7>1. u[1] = Percent /\ u[1 + 1] \in HexByte /\ u[1 + 2] \in HexByte
              BY <5>1, <6>2
            <7>2. 1 + 2 <= Len(u)
              BY <3>3, <5>4
            <7> QED BY <7>1, <7>2 DEF hexPair
          <6> QED BY <3>5, <6>3
        <5>5. Len(u) \in Nat /\ Len(u) > 0
          BY <3>3
        <5>6. \A n \in Nat : n > 0 => n \in {1, 2} \/ n >= 3
          OBVIOUS
        <5> QED BY <5>2, <5>3, <5>4, <5>5, <5>6
      <4>2. u = <<c>> \o t
        BY <3>1
      <4> HIDE DEF c
      <4>3. t \in P
        BY <1>2, <3>1, <3>3, NoText
      <4>4. urldecode(t \o y) = urldecode(t) \o z
        BY <4>3 DEF z
      <4>5. s = <<c>> \o (t \o y)
        <5>1. leftFirst(<<c>>, t, y) = rightFirst(<<c>>, t, y)
          BY <3>1, <3>2, Associative
        <5> QED BY <4>2, <5>1 DEF leftFirst, rightFirst, s
      <4>6. urldecode(u) = <<c>> \o urldecode(t) /\ urldecode(t) \in Text
        BY <3>1, <3>2, <3>5, <4>2, DecodeFirst
      <4>7. urldecode(s) = <<c>> \o urldecode(t \o y)
        <5>1. t \o y \in Text
          BY <3>1, Joined
        <5>2. ~hexPair(<<c>> \o (t \o y), 1)
          BY <4>1, <4>5
        <5> QED BY <3>2, <4>5, <5>1, <5>2, DecodeFirst
      <4>8. (<<c>> \o urldecode(t)) \o z = <<c>> \o (urldecode(t) \o z)
        <5>1. leftFirst(<<c>>, urldecode(t), z) = rightFirst(<<c>>, urldecode(t), z)
          BY <1>1, <3>2, <4>6, Associative
        <5> QED BY <5>1 DEF leftFirst, rightFirst
      <4> QED BY <4>4, <4>6, <4>7, <4>8 DEF s
    <3> QED BY <3>4, <3>5
  <2> QED BY <2>1, <2>2
<1>3. Text \subseteq P
  <2>1. \A u \in Text : (\A v \in Text : Len(v) < Len(u) => v \in P) => u \in P
    BY <1>2 DEF z
  <2> HIDE DEF P
  <2> QED BY <2>1, ByLength
<1> QED BY <1>3

\* Whatever bytes a name has, a server reads back what urlencode has written
\* (url.cpp:37-60).
THEOREM EncodedReadBack ==
    ASSUME NEW s \in Text
    PROVE  urldecode(urlencode(s)) = s
<1> DEFINE P == {u \in Text : urldecode(urlencode(u)) = u}
<1>1. ASSUME NEW u \in Text, \A v \in Text : Len(v) < Len(u) => v \in P
      PROVE  urldecode(urlencode(u)) = u
  <2>1. CASE u = <<>>
    BY <2>1, DecodeFirst, UrlencodeByByte
  <2>2. CASE u # <<>>
    <3>1. PICK t \in Text : u = <<u[1]>> \o t /\ Len(u) = Len(t) + 1
      BY <2>2, FirstAndLast
    <3> DEFINE c == u[1]
               e == encoded(c)
               x == urlencode(t)
    <3>2. c \in Byte /\ <<c>> \in Text
      BY <2>2, FirstAndLast, OneByte
    <3>3. u = <<c>> \o t
      BY <3>1
    <3> HIDE DEF c
    <3>4. t \in P
      BY <1>1, <3>1, NoText
    <3>5. urldecode(x) = t /\ x \in Text
      BY <3>4, UrlencodeByByte
    <3>6. urlencode(u) = e \o x
      <4>1. urlencode(<<c>> \o t) = urlencode(<<c>>) \o urlencode(t)
        BY <3>2, UrlencodeJoined
      <4> QED BY <3>2, <3>3, <4>1, UrlencodeOne
    <3> HIDE DEF x
    <3>7. CASE c # Percent /\ e = <<c>>
      <4>1. ~hexPair(<<c>> \o x, 1)
        <5>1. (<<c>> \o x)[1] = c
          <6>1. 1 \in 1..(Len(<<c>>) + Len(x)) /\ 1 <= Len(<<c>>)
            BY <3>2, <3>5, NoText, OneByte
          <6> QED BY <3>2, <3>5, <6>1, JoinedText, OneByte
        <5> QED BY <3>7, <5>1 DEF hexPair
      <4>2. urldecode(<<c>> \o x) = <<c>> \o urldecode(x)
        BY <3>2, <3>5, <4>1, DecodeFirst
      <4> QED BY <3>3, <3>5, <3>6, <3>7, <4>2
    <3>8. CASE /\ e \in Text /\ Len(e) = 3 /\ e[1] = Percent
               /\ e[2] \in HexByte /\ e[3] \in HexByte
               /\ 16 * hexValue(e[2]) + hexValue(e[3]) = c
      <4> HIDE DEF e
      <4> DEFINE h == e[2]
                 l == e[3]
                 b == <<Percent, h, l>>
      <4>1. e = b
        <5>1. b \in Text /\ Len(b) = 3 /\ b[1] = Percent /\ b[2] = h /\ b[3] = l
          <6>1. Percent \in Byte /\ h \in Byte /\ l \in Byte
            BY <3>8, PairBytes DEF Percent, Byte
          <6> QED BY <6>1 DEF Text
        <5>2. \A i \in 1..3 : i = 1 \/ i = 2 \/ i = 3
          OBVIOUS
        <5> HIDE DEF b
        <5>3. \A i \in 1..3 : e[i] = b[i]
          BY <3>8, <5>1, <5>2
        <5> QED BY <3>8, <5>1, <5>3, SeqEqual DEF Text
      <4>2. h \in HexByte /\ l \in HexByte /\ 16 * hexValue(h) + hexValue(l) = c
        BY <3>8
      <4> HIDE DEF h, l
      <4>3. urldecode(b \o x) = <<16 * hexValue(h) + hexValue(l)>> \o urldecode(x)
        BY <3>5, <4>2, DecodeFirst
      <4> QED BY <3>3, <3>5, <3>6, <4>1, <4>2, <4>3
    <3> QED BY <3>2, <3>7, <3>8, EncodedFacts
  <2> QED BY <2>1, <2>2
<1>2. Text \subseteq P
  <2>1. \A u \in Text : (\A v \in Text : Len(v) < Len(u) => v \in P) => u \in P
    BY <1>1
  <2> HIDE DEF P
  <2> QED BY <2>1, ByLength
<1> QED BY <1>2

\* So it does behind a slash in a longer text.
LEMMA DecodeName ==
    ASSUME NEW x \in Text, NEW s \in Text
    PROVE  urldecode(x \o (<<Slash>> \o urlencode(s))) = urldecode(x) \o (<<Slash>> \o s)
<1> DEFINE e == urlencode(s)
           sl == <<Slash>>
           y == sl \o e
<1>1. e \in Text /\ sl \in Text /\ Len(sl) = 1 /\ sl[1] = Slash
  BY SlashText, UrlencodeByByte
<1>2. urldecode(e) = s
  BY EncodedReadBack
<1> HIDE DEF e
<1>3. y \in Text /\ y # <<>> /\ y[1] = Slash
  <2>1. /\ y \in Text /\ Len(y) = Len(sl) + Len(e) /\ Len(e) \in Nat
        /\ \A i \in 1..(Len(sl) + Len(e)) : y[i] = IF i <= Len(sl) THEN sl[i] ELSE e[i - Len(sl)]
    BY <1>1, JoinedText
  <2> HIDE DEF y, sl
  <2>2. 1 \in 1..(Len(sl) + Len(e)) /\ 1 <= Len(sl) /\ Len(y) > 0
    BY <1>1, <2>1
  <2> QED BY <1>1, <2>1, <2>2, NoText
<1>4. urldecode(y) = sl \o s
  <2>1. ~hexPair(y, 1)
    BY <1>3 DEF hexPair, Percent, Slash
  <2> QED BY <1>1, <1>2, <2>1, DecodeFirst, SlashText
<1> HIDE DEF y
<1>5. urldecode(x \o y) = urldecode(x) \o urldecode(y)
  BY <1>3, DecodeJoined
<1> QED BY <1>4, <1>5 DEF y, e
=============================================================================
