---------------------------- MODULE UrlReadProofs ----------------------------
(***************************************************************************)
(* Proofs about the automaton of Url: it reads a text of any length as     *)
(* url.rl says it is made up, and goes on from the end of a URL through    *)
(* a path.                                                                 *)
(***************************************************************************)
EXTENDS UrlProofs

-----------------------------------------------------------------------------
(* The steps of the automaton                                              *)

Fields == [Field -> Text]

Begin(n) ==
    [state |-> IF n = 0 THEN "error" ELSE "start",
     mark |-> 1, fields |-> [f \in Field |-> <<>>]]

\* a tells of each place of raw, from the end of the scheme on, how far the automaton
\* has come there.
IsReading(raw, a) ==
    /\ a[schemeLength(raw)] = Begin(schemeLength(raw))
    /\ \A k \in (schemeLength(raw) + 1)..Len(raw) : a[k] = read(a[k - 1], raw, k)

\* The scheme is one of two.
LEMMA SchemeFacts ==
    ASSUME NEW raw \in Text
    PROVE  /\ schemeLength(raw) \in {0, 7, 8} /\ schemeLength(raw) \in 0..Len(raw)
           /\ schemeLength(raw) # 0 => SubSeq(raw, 1, schemeLength(raw)) \in {http, https}
<1>1. Len(http) = 7 /\ SubSeq(http, 1, 7) = http
  <2>1. http \in Text /\ Len(http) = 7
    BY DEF http, Text, Byte
  <2> QED BY <2>1, SubSeqFull DEF Text
<1>2. Len(https) = 8 /\ SubSeq(https, 1, 8) = https
  <2>1. https \in Text /\ Len(https) = 8
    BY DEF https, Text, Byte
  <2> QED BY <2>1, SubSeqFull DEF Text
<1>3. Len(raw) \in Nat
  BY NoText
<1>4. CASE IsPrefix(http, raw)
  <2>1. schemeLength(raw) = 7
    BY <1>1, <1>4 DEF schemeLength
  <2>2. 7 <= Len(raw) /\ http = SubSeq(raw, 1, 7)
    BY <1>1, <1>4 DEF IsPrefix
  <2> QED BY <1>3, <2>1, <2>2
<1>5. CASE ~IsPrefix(http, raw) /\ IsPrefix(https, raw)
  <2>1. schemeLength(raw) = 8
    BY <1>2, <1>5 DEF schemeLength
  <2>2. 8 <= Len(raw) /\ https = SubSeq(raw, 1, 8)
    BY <1>2, <1>5 DEF IsPrefix
  <2> QED BY <1>3, <2>1, <2>2
<1>6. CASE ~IsPrefix(http, raw) /\ ~IsPrefix(https, raw)
  <2>1. schemeLength(raw) = 0
    BY <1>6 DEF schemeLength
  <2> QED BY <1>3, <2>1
<1> QED BY <1>4, <1>5, <1>6

\* run reads a text byte by byte.
LEMMA ReadingFacts ==
    ASSUME NEW raw \in Text
    PROVE  \E a : IsReading(raw, a) /\ run(raw) = a[Len(raw)]
<1> DEFINE n == schemeLength(raw)
           L == Len(raw)
           step(a, k) == IF k = n THEN Begin(n) ELSE read(a[k - 1], raw, k)
           Ok(a) == a = [k \in n..L |-> step(a, k)]
           N == (L - n) + 1
           Part(j) == \E a : a = [k \in n..((n + j) - 1) |-> step(a, k)]
           P == {j \in 1..N : Part(j)}
<1>1. n \in Nat /\ L \in Nat /\ n \in 0..L /\ N \in Nat /\ N \in 1..N /\ (n + N) - 1 = L
  BY SchemeFacts, NoText
<1>2. run(raw) = (CHOOSE a : Ok(a))[L]
  BY DEF run, Begin
<1> HIDE DEF n, L
<1>3. \A j \in 1..N : j \in P
  <2> SUFFICES \A j \in 1..N : (\A m \in 1..(j - 1) : m \in P) => j \in P
    <3> HIDE DEF P, N
    <3> QED BY <1>1, UpTo
  <2> SUFFICES ASSUME NEW j \in 1..N, \A m \in 1..(j - 1) : m \in P
               PROVE  Part(j)
    OBVIOUS
  <2> DEFINE h == (n + j) - 1
  <2>1. h \in n..L /\ h \in Nat
    BY <1>1
  <2>2. CASE j = 1
    <3>1. h = n
      BY <1>1, <2>2
    <3> HIDE DEF h
    <3> DEFINE a == [k \in n..h |-> Begin(n)]
    <3>2. \A k \in n..h : k = n
      BY <1>1, <3>1
    <3>3. a = [k \in n..h |-> step(a, k)]
      BY <3>2
    <3> QED BY <3>3 DEF h
  <2>3. CASE j # 1
    <3>1. j - 1 \in 1..(j - 1) /\ j - 1 \in 1..N /\ (n + (j - 1)) - 1 = h - 1 /\ h # n
          /\ h - 1 \in n..(h - 1)
      BY <1>1, <2>3
    <3>2. j - 1 \in P
      BY <3>1
    <3> HIDE DEF h
    <3>3. PICK g : g = [k \in n..(h - 1) |-> step(g, k)]
      BY <3>1, <3>2
    <3> DEFINE a == [k \in n..h |-> IF k = h THEN step(g, h) ELSE g[k]]
    <3>4. /\ a[h] = step(g, h)
          /\ \A k \in n..(h - 1) : a[k] = g[k]
      <4>1. h \in n..h /\ \A k \in n..(h - 1) : k \in n..h /\ k # h
        BY <1>1, <2>1
      <4> HIDE DEF step
      <4> QED BY <4>1
    <3>5. \A k \in n..(h - 1) : g[k] = step(g, k)
      <4> DEFINE G == [k \in n..(h - 1) |-> step(g, k)]
      <4>1. \A k \in n..(h - 1) : G[k] = step(g, k)
        OBVIOUS
      <4>2. g = G
        BY <3>3
      <4> HIDE DEF G
      <4> QED BY <4>1, <4>2
    <3>6. a = [k \in n..h |-> a[k]]
      OBVIOUS
    <3> HIDE DEF a
    <3>7. \A k \in n..h : step(a, k) = step(g, k)
      <4> SUFFICES ASSUME NEW k \in n..h, k # n
                   PROVE  a[k - 1] = g[k - 1]
        OBVIOUS
      <4>1. k - 1 \in n..(h - 1)
        BY <1>1, <2>1
      <4> QED BY <3>4, <4>1
    <3>8. \A k \in n..h : a[k] = step(a, k)
      <4> SUFFICES ASSUME NEW k \in n..h
                   PROVE  a[k] = step(g, k)
        BY <3>7
      <4>1. k = h \/ k \in n..(h - 1)
        BY <1>1, <2>1
      <4> HIDE DEF step
      <4> QED BY <3>4, <3>5, <4>1
    <3>9. a = [k \in n..h |-> step(a, k)]
      <4> HIDE DEF step
      <4> QED BY <3>6, <3>8
    <3> QED BY <3>9 DEF h
  <2> QED BY <2>2, <2>3
<1>4. \E a : Ok(a)
  <2>1. N \in P
    <3> HIDE DEF P
    <3> QED BY <1>1, <1>3
  <2> HIDE DEF step, N
  <2> QED BY <1>1, <2>1
<1>5. PICK a : a = (CHOOSE b : Ok(b))
  OBVIOUS
<1>6. Ok(a)
  <2> HIDE DEF step
  <2> QED BY <1>4, <1>5
<1>7. \A k \in n..L : a[k] = step(a, k)
  <2> HIDE DEF step
  <2> QED BY <1>6
<1>8. a[n] = Begin(n) /\ \A k \in (n + 1)..L : a[k] = read(a[k - 1], raw, k)
  <2>1. n \in n..L /\ \A k \in (n + 1)..L : k \in n..L /\ k # n
    BY <1>1
  <2> QED BY <1>7, <2>1
<1>9. IsReading(raw, a)
  BY <1>8 DEF IsReading, n, L
<1> QED BY <1>2, <1>5, <1>9 DEF L

\* The transitions, by the state that they leave.
LEMMA TransitionsFrom ==
    ASSUME NEW t \in Transitions
    PROVE  \/ /\ t.from = "start" /\ t.ends = {"scheme"} /\ t.marks
              /\ \/ t.on = UserByte \ HostByte /\ t.to = "user"
                 \/ t.on = HostByte /\ t.to = "userOrHost"
           \/ /\ t.from = "userOrHost"
              /\ \/ t = stay("userOrHost", HostByte)
                 \/ t = go("userOrHost", UserByte \ HostByte, {}, FALSE, "user")
                 \/ t = go("userOrHost", COLON, {"user", "host"}, FALSE, "afterColon")
                 \/ t = go("userOrHost", AT, {"user"}, FALSE, "afterAt")
                 \/ t = go("userOrHost", SLASH, {"host"}, TRUE, "path")
           \/ /\ t.from = "user"
              /\ \/ t = stay("user", UserByte)
                 \/ t = go("user", COLON, {"user"}, FALSE, "afterUser")
                 \/ t = go("user", AT, {"user"}, FALSE, "afterAt")
           \/ t.from = "afterUser" /\ t = go("afterUser", UserByte, {}, TRUE, "password")
           \/ /\ t.from = "password"
              /\ \/ t = stay("password", UserByte)
                 \/ t = go("password", AT, {"password"}, FALSE, "afterAt")
           \/ /\ t.from = "afterColon"
              /\ \/ t = go("afterColon", UserByte \ Digit, {}, TRUE, "password")
                 \/ t = go("afterColon", Digit, {}, TRUE, "passwordOrPort")
           \/ /\ t.from = "passwordOrPort"
              /\ \/ t = stay("passwordOrPort", Digit)
                 \/ t = go("passwordOrPort", UserByte \ Digit, {}, FALSE, "password")
                 \/ t = go("passwordOrPort", AT, {"password"}, FALSE, "afterAt")
                 \/ t = go("passwordOrPort", SLASH, {"port"}, TRUE, "path")
           \/ t.from = "afterAt" /\ t = go("afterAt", HostByte, {}, TRUE, "host")
           \/ /\ t.from = "host"
              /\ \/ t = stay("host", HostByte)
                 \/ t = go("host", COLON, {"host"}, FALSE, "afterHost")
                 \/ t = go("host", SLASH, {"host"}, TRUE, "path")
           \/ t.from = "afterHost" /\ t = go("afterHost", Digit, {}, TRUE, "port")
           \/ /\ t.from = "port"
              /\ \/ t = stay("port", Digit)
                 \/ t = go("port", SLASH, {"port"}, TRUE, "path")
           \/ /\ t.from = "path"
              /\ \/ t = stay("path", PathByte)
                 \/ t = go("path", QUESTION, {"path"}, FALSE, "afterPath")
           \/ t.from = "afterPath" /\ t = go("afterPath", SearchByte, {}, TRUE, "search")
           \/ t.from = "search" /\ t = stay("search", SearchByte)
  BY DEF Transitions, go, stay

\* What read makes of a byte.
After(t, u, raw, k) ==
    [state |-> t.to,
     mark |-> IF t.marks THEN k ELSE u.mark,
     fields |-> assign(u, raw, t.ends, k - 1)]

\* A byte is read along some transition of the state, or is an error when none takes it.
LEMMA ReadFacts ==
    ASSUME NEW u, NEW raw, NEW k
    PROVE  /\ \/ /\ \A t \in Transitions : ~(t.from = u.state /\ raw[k] \in t.on)
                 /\ read(u, raw, k) = [u EXCEPT !.state = "error"]
              \/ \E t \in Transitions :
                    /\ t.from = u.state /\ raw[k] \in t.on
                    /\ read(u, raw, k) = After(t, u, raw, k)
<1> DEFINE fitting == {t \in Transitions : t.from = u.state /\ raw[k] \in t.on}
<1>1. CASE fitting = {}
  BY <1>1, Zenon DEF read
<1>2. CASE fitting # {}
  <2> DEFINE t == CHOOSE x \in fitting : TRUE
  <2>1. t \in fitting
    BY <1>2
  <2>2. read(u, raw, k) = After(t, u, raw, k)
    BY <1>2, Zenon DEF read, After
  <2> QED BY <2>1, <2>2
<1> QED BY <1>1, <1>2

-----------------------------------------------------------------------------
(* What has been read                                                      *)

\* With a separator in front, if it is there at all.
optional(sep, s) == IF s = <<>> THEN <<>> ELSE sep \o s

colonText == <<58>>
atText == <<64>>
questionText == <<63>>

\* The text in front of a password or a port, of a host, of its port, of a path, and
\* of a search, told from the fields; S is what is in front of the host.
beforePassword(F) == (F.scheme \o F.user) \o colonText
beforeHost(F) == ((F.scheme \o F.user) \o optional(colonText, F.password)) \o atText
beforePort(S, F) == (S \o F.host) \o colonText
beforePath(S, F) == S \o (F.host \o optional(colonText, F.port))
beforeSearch(S, F) == (beforePath(S, F) \o F.path) \o questionText

Starts(F) == {F.scheme, beforeHost(F)}

\* The bytes of raw from m to k are of B.
Bytes(raw, m, k, B) == \A i \in m..k : raw[i] \in B

upto(raw, k) == SubSeq(raw, 1, k)

\* In each state: what has been read up to k, and of which fields, if m is the mark.
AtStart(raw, k, m, F) ==
    /\ m = 1 /\ \A f \in Field : F[f] = <<>>
    /\ upto(raw, k) \in {http, https}

AtUser(raw, k, m, F) ==
    /\ upto(raw, m - 1) = F.scheme
    /\ F.user = <<>> /\ F.password = <<>> /\ F.host = <<>> /\ F.port = <<>>
    /\ F.path = <<>> /\ F.search = <<>>

AtUserOrHost(raw, k, m, F) == AtUser(raw, k, m, F) /\ Bytes(raw, m, k, HostByte)

AtAfterUser(raw, k, m, F) ==
    /\ upto(raw, k) = beforePassword(F)
    /\ F.password = <<>> /\ F.host = <<>> /\ F.port = <<>> /\ F.path = <<>> /\ F.search = <<>>

AtPassword(raw, k, m, F) ==
    /\ upto(raw, m - 1) = beforePassword(F)
    /\ F.password = <<>> /\ F.port = <<>> /\ F.path = <<>> /\ F.search = <<>>

AtAfterColon(raw, k, m, F) ==
    /\ upto(raw, k) = beforePassword(F)
    /\ F.host = F.user /\ Range(F.host) \subseteq HostByte
    /\ F.password = <<>> /\ F.port = <<>> /\ F.path = <<>> /\ F.search = <<>>

AtPasswordOrPort(raw, k, m, F) ==
    /\ AtPassword(raw, k, m, F)
    /\ F.host = F.user /\ Range(F.host) \subseteq HostByte
    /\ Bytes(raw, m, k, Digit)

AtAfterAt(raw, k, m, F) ==
    /\ upto(raw, k) = beforeHost(F)
    /\ F.port = <<>> /\ F.path = <<>> /\ F.search = <<>>

AtHost(raw, k, m, F) ==
    /\ upto(raw, m - 1) = beforeHost(F)
    /\ Bytes(raw, m, k, HostByte)
    /\ F.port = <<>> /\ F.path = <<>> /\ F.search = <<>>

AtAfterHost(raw, k, m, F) ==
    /\ upto(raw, k) = beforePort(beforeHost(F), F)
    /\ Range(F.host) \subseteq HostByte
    /\ F.port = <<>> /\ F.path = <<>> /\ F.search = <<>>

AtPort(raw, k, m, F) ==
    /\ upto(raw, m - 1) = beforePort(beforeHost(F), F)
    /\ Range(F.host) \subseteq HostByte
    /\ Bytes(raw, m, k, Digit)
    /\ F.port = <<>> /\ F.path = <<>> /\ F.search = <<>>

AtPath(raw, k, m, F) ==
    /\ \E S \in Starts(F) : upto(raw, m - 1) = beforePath(S, F)
    /\ Range(F.host) \subseteq HostByte /\ Range(F.port) \subseteq Digit
    /\ raw[m] = Slash /\ Bytes(raw, m, k, PathByte)
    /\ F.path = <<>> /\ F.search = <<>>

AtAfterPath(raw, k, m, F) ==
    /\ \E S \in Starts(F) : upto(raw, k) = beforeSearch(S, F)
    /\ Range(F.host) \subseteq HostByte /\ Range(F.port) \subseteq Digit
    /\ F.path # <<>> /\ F.path[1] = Slash /\ Range(F.path) \subseteq PathByte
    /\ F.search = <<>>

AtSearch(raw, k, m, F) ==
    /\ \E S \in Starts(F) : upto(raw, m - 1) = beforeSearch(S, F)
    /\ Range(F.host) \subseteq HostByte /\ Range(F.port) \subseteq Digit
    /\ F.path # <<>> /\ F.path[1] = Slash /\ Range(F.path) \subseteq PathByte
    /\ F.search = <<>>

At(s, raw, k, m, F) ==
    \/ s = "error"
    \/ s = "start" /\ AtStart(raw, k, m, F)
    \/ s = "user" /\ AtUser(raw, k, m, F)
    \/ s = "userOrHost" /\ AtUserOrHost(raw, k, m, F)
    \/ s = "afterUser" /\ AtAfterUser(raw, k, m, F)
    \/ s = "password" /\ AtPassword(raw, k, m, F)
    \/ s = "afterColon" /\ AtAfterColon(raw, k, m, F)
    \/ s = "passwordOrPort" /\ AtPasswordOrPort(raw, k, m, F)
    \/ s = "afterAt" /\ AtAfterAt(raw, k, m, F)
    \/ s = "host" /\ AtHost(raw, k, m, F)
    \/ s = "afterHost" /\ AtAfterHost(raw, k, m, F)
    \/ s = "port" /\ AtPort(raw, k, m, F)
    \/ s = "path" /\ AtPath(raw, k, m, F)
    \/ s = "afterPath" /\ AtAfterPath(raw, k, m, F)
    \/ s = "search" /\ AtSearch(raw, k, m, F)

\* The word since the mark, and the byte that follows it.
LEMMA Word ==
    ASSUME NEW raw \in Text, NEW h \in 1..Len(raw), NEW m \in 1..h
    PROVE  /\ SubSeq(raw, m, h) \in Text /\ SubSeq(raw, m, h) # <<>>
           /\ SubSeq(raw, m, h)[1] = raw[m]
           /\ upto(raw, m - 1) \in Text
           /\ upto(raw, h) = upto(raw, m - 1) \o SubSeq(raw, m, h)
           /\ \A B : Bytes(raw, m, h, B) => Range(SubSeq(raw, m, h)) \subseteq B
<1> DEFINE w == SubSeq(raw, m, h)
           l == (h - m) + 1
<1>1. Len(raw) \in Nat /\ l \in Nat /\ l > 0 /\ (m + 1) - 1 = m /\ 1 \in 1..l
  BY NoText
<1>2. /\ m \in 1..(Len(raw) + 1) /\ h \in (m - 1)..Len(raw)
      /\ 1 \in 1..(Len(raw) + 1) /\ m - 1 \in (1 - 1)..Len(raw) /\ h \in (m - 1)..Len(raw)
      /\ m - 1 \in 0..Len(raw) /\ (m - 1) + 1 = m
  BY <1>1
<1>3. w \in Text /\ Len(w) = l /\ \A i \in 1..l : w[i] = raw[(m + i) - 1]
  BY <1>2, PartOfText
<1>4. SubSeq(raw, 1, m - 1) \o SubSeq(raw, (m - 1) + 1, h) = SubSeq(raw, 1, h)
  BY <1>2, ConcatAdjacentSubSeq DEF Text
<1>5. SubSeq(raw, 1, m - 1) \in Text
  BY <1>2, PartsOfText
<1> HIDE DEF w
<1>6. \A B : Bytes(raw, m, h, B) => Range(w) \subseteq B
  <2>1. DOMAIN w = 1..l
    BY <1>3 DEF Text
  <2>2. \A i \in 1..l : (m + i) - 1 \in m..h
    BY <1>1
  <2> HIDE DEF l
  <2>3. \A i \in 1..l : w[i] = raw[(m + i) - 1]
    BY <1>3
  <2> QED BY <2>1, <2>2, <2>3 DEF Bytes, Range
<1>7. w # <<>> /\ w[1] = raw[m]
  <2> HIDE DEF l
  <2>1. w # <<>>
    BY <1>1, <1>3, NoText
  <2>2. w[1] = raw[(m + 1) - 1]
    BY <1>1, <1>3
  <2> QED BY <1>1, <2>1, <2>2
<1> QED BY <1>2, <1>3, <1>4, <1>5, <1>6, <1>7 DEF upto, w

\* What has been read up to k is what was read before it and the byte k.
LEMMA OneByteMore ==
    ASSUME NEW raw \in Text, NEW k \in 1..Len(raw)
    PROVE  /\ upto(raw, k) \in Text /\ upto(raw, k - 1) \in Text
           /\ upto(raw, k) = upto(raw, k - 1) \o <<raw[k]>>
           /\ raw[k] \in Byte
<1>1. Len(raw) \in Nat /\ k \in 0..Len(raw) /\ k - 1 \in 0..Len(raw) /\ k \in 1..k
  BY NoText
<1>2. raw[k] \in Byte
  BY DEF Text
<1> DEFINE w == SubSeq(raw, k, k)
<1>3. w = <<raw[k]>>
  <2>1. k \in 1..(Len(raw) + 1) /\ k \in (k - 1)..Len(raw) /\ (k - k) + 1 = 1 /\ (k + 1) - 1 = k
    BY <1>1
  <2>2. /\ w \in Text /\ Len(w) = (k - k) + 1
        /\ \A i \in 1..((k - k) + 1) : w[i] = raw[(k + i) - 1]
    BY <2>1, PartOfText
  <2> HIDE DEF w
  <2>3. w \in Text /\ Len(w) = 1 /\ w[1] = raw[k]
    BY <2>1, <2>2
  <2>4. <<raw[k]>> \in Text /\ Len(<<raw[k]>>) = 1 /\ <<raw[k]>>[1] = raw[k]
    BY <1>2, OneByte
  <2>5. \A i \in 1..1 : w[i] = <<raw[k]>>[i]
    BY <2>3, <2>4
  <2> QED BY <2>3, <2>4, <2>5, SeqEqual DEF Text
<1>4. upto(raw, k) = upto(raw, k - 1) \o w
  BY <1>1, Word
<1>5. upto(raw, k) \in Text /\ upto(raw, k - 1) \in Text
  BY <1>1, PartsOfText DEF upto
<1> QED BY <1>2, <1>3, <1>4, <1>5

\* The bytes from m up to the one in front of k.
word(raw, m, k) == SubSeq(raw, m, k - 1)

begins(w, c) == w[1] = c

\* What field f is, once the word since the mark m is the value of the fields of E.
Value(f, E, raw, k, m, F) == IF f \in E THEN word(raw, m, k) ELSE F[f]

\* The byte at k is read: F becomes G.
Step(raw, k, m, F, G, E) ==
    /\ raw \in Text /\ k \in 2..Len(raw) /\ m \in 1..(k - 1)
    /\ F \in Fields /\ G \in Fields
    /\ \A f \in Field : G[f] = Value(f, E, raw, k, m, F)

\* The word that a transition ends is not empty, and is all that was read since the mark.
LEMMA StepFacts ==
    ASSUME NEW raw, NEW k, NEW m, NEW F, NEW G, NEW E, Step(raw, k, m, F, G, E)
    PROVE  /\ word(raw, m, k) \in Text /\ word(raw, m, k) # <<>>
           /\ begins(word(raw, m, k), raw[m])
           /\ upto(raw, m - 1) \in Text /\ upto(raw, k - 1) \in Text /\ upto(raw, k) \in Text
           /\ upto(raw, k - 1) = upto(raw, m - 1) \o word(raw, m, k)
           /\ upto(raw, k) = upto(raw, k - 1) \o <<raw[k]>>
           /\ \A B : Bytes(raw, m, k - 1, B) => Range(word(raw, m, k)) \subseteq B
           /\ \A B : Bytes(raw, m, k - 1, B) /\ raw[k] \in B => Bytes(raw, m, k, B)
           /\ \A B : raw[k] \in B => Bytes(raw, k, k, B)
<1> DEFINE h == k - 1
<1>1. /\ raw \in Text /\ k \in 1..Len(raw) /\ h \in 1..Len(raw) /\ m \in 1..h
  BY NoText DEF Step
<1>2. /\ SubSeq(raw, m, h) \in Text /\ SubSeq(raw, m, h) # <<>>
      /\ SubSeq(raw, m, h)[1] = raw[m]
      /\ upto(raw, m - 1) \in Text
      /\ upto(raw, h) = upto(raw, m - 1) \o SubSeq(raw, m, h)
      /\ \A B : Bytes(raw, m, h, B) => Range(SubSeq(raw, m, h)) \subseteq B
  <2> HIDE DEF h
  <2> QED BY <1>1, Word
<1>3. /\ upto(raw, k) \in Text /\ upto(raw, k - 1) \in Text
      /\ upto(raw, k) = upto(raw, k - 1) \o <<raw[k]>>
  BY <1>1, OneByteMore
<1>4. \A B : Bytes(raw, m, k - 1, B) /\ raw[k] \in B => Bytes(raw, m, k, B)
  <2>1. \A i \in m..k : i = k \/ i \in m..(k - 1)
    BY <1>1
  <2> QED BY <2>1 DEF Bytes
<1>5. \A B : raw[k] \in B => Bytes(raw, k, k, B)
  <2>1. \A i \in k..k : i = k
    BY <1>1
  <2> QED BY <2>1 DEF Bytes
<1>6. word(raw, m, k) = SubSeq(raw, m, h)
  BY DEF word
<1> HIDE DEF h
<1>7. /\ word(raw, m, k) \in Text /\ word(raw, m, k) # <<>>
      /\ begins(word(raw, m, k), raw[m])
      /\ upto(raw, m - 1) \in Text
      /\ upto(raw, h) = upto(raw, m - 1) \o word(raw, m, k)
      /\ \A B : Bytes(raw, m, h, B) => Range(word(raw, m, k)) \subseteq B
  BY <1>2, <1>6 DEF begins
<1> QED BY <1>3, <1>4, <1>5, <1>7 DEF h

\* A transition that ends one field sets it to the word, and leaves the others.
LEMMA StepFields ==
    ASSUME NEW raw, NEW k, NEW m, NEW F, NEW G, NEW e \in Field, Step(raw, k, m, F, G, {e})
    PROVE  /\ G[e] = word(raw, m, k)
           /\ \A f \in Field : f # e => G[f] = F[f]
<1> DEFINE E == {e}
<1>1. \A f \in Field : G[f] = Value(f, E, raw, k, m, F)
  BY DEF Step
<1>2. \A f \in Field : f = e <=> f \in E
  OBVIOUS
<1> HIDE DEF E
<1> QED BY <1>1, <1>2 DEF Value

\* A transition that ends no field leaves all of them.
LEMMA NoFields ==
    ASSUME NEW raw, NEW k, NEW m, NEW F, NEW G, Step(raw, k, m, F, G, {})
    PROVE  \A f \in Field : G[f] = F[f]
  BY DEF Step, Value

\* Each of the seven fields is a text.
LEMMA FieldsAreTexts ==
    ASSUME NEW F \in Fields
    PROVE  /\ F.scheme \in Text /\ F.user \in Text /\ F.password \in Text /\ F.host \in Text
           /\ F.port \in Text /\ F.path \in Text /\ F.search \in Text
  BY DEF Fields, Field

\* The signs between the fields are texts, and one is written only with the field it belongs
\* to.
LEMMA Separators ==
    /\ colonText \in Text /\ atText \in Text /\ questionText \in Text
    /\ COLON = {58} /\ AT = {64} /\ SLASH = {Slash} /\ QUESTION = {63}
    /\ \A sep : optional(sep, <<>>) = <<>>
    /\ \A sep, s : s # <<>> => optional(sep, s) = sep \o s
<1>1. 58 \in Byte /\ 64 \in Byte /\ 63 \in Byte
  BY DEF Byte
<1>2. colonText \in Text /\ atText \in Text /\ questionText \in Text
  BY <1>1, OneByte DEF colonText, atText, questionText
<1> QED BY <1>2 DEF COLON, AT, SLASH, QUESTION, optional

\* A colon and a port behind a host.
portLast(a, b, c) == ((a \o b) \o colonText) \o c
portFirst(a, b, c) == a \o (b \o (colonText \o c))

\* The port may be joined to the host first, or to all that stands before it.
LEMMA PortJoined ==
    ASSUME NEW a \in Text, NEW b \in Text, NEW c \in Text
    PROVE  portLast(a, b, c) = portFirst(a, b, c)
<1> DEFINE x == a \o b
           y == colonText \o c
<1>1. colonText \in Text
  BY Separators
<1>2. x \in Text /\ y \in Text
  BY <1>1, Joined
<1>3. leftFirst(x, colonText, c) = rightFirst(x, colonText, c)
  BY <1>1, <1>2, Associative
<1>4. leftFirst(a, b, y) = rightFirst(a, b, y)
  BY <1>2, Associative
<1>5. (x \o colonText) \o c = x \o y
  BY <1>3 DEF leftFirst, rightFirst
<1>6. x \o y = a \o (b \o y)
  BY <1>4 DEF leftFirst, rightFirst
<1> QED BY <1>5, <1>6 DEF portLast, portFirst

-----------------------------------------------------------------------------
(* What each byte adds                                                     *)

\* The first one after the scheme.
LEMMA FromStart ==
    ASSUME NEW raw, NEW k, NEW m, NEW F, NEW G, Step(raw, k, m, F, G, {"scheme"}),
           AtStart(raw, k - 1, m, F)
    PROVE  /\ AtUser(raw, k, k, G) /\ G.scheme \in {http, https}
           /\ raw[k] \in HostByte => AtUserOrHost(raw, k, k, G)
<1>1. /\ G.scheme = word(raw, m, k)
      /\ G.user = F.user /\ G.password = F.password /\ G.host = F.host /\ G.port = F.port
      /\ G.path = F.path /\ G.search = F.search
  BY StepFields DEF Field
<1>2. /\ m = 1 /\ upto(raw, k - 1) \in {http, https} /\ \A f \in Field : F[f] = <<>>
  BY DEF AtStart
<1>3. G.scheme = upto(raw, k - 1)
  BY <1>1, <1>2 DEF upto, word
<1>4. AtUser(raw, k, k, G)
  BY <1>1, <1>2, <1>3 DEF AtUser, Field
<1>5. raw[k] \in HostByte => AtUserOrHost(raw, k, k, G)
  BY <1>4, StepFacts DEF AtUserOrHost
<1> QED BY <1>2, <1>3, <1>4, <1>5

\* The word of a user is over; or it goes on, and shows that it is one.
LEMMA FromUser ==
    ASSUME NEW raw, NEW k, NEW m, NEW F, NEW G, Step(raw, k, m, F, G, {"user"}),
           AtUser(raw, k - 1, m, F)
    PROVE  /\ raw[k] = 58 => AtAfterUser(raw, k, m, G)
           /\ raw[k] = 64 => AtAfterAt(raw, k, m, G)
<1> DEFINE w == word(raw, m, k)
<1>1. /\ G.scheme = F.scheme /\ G.user = w /\ G.password = F.password /\ G.host = F.host
      /\ G.port = F.port /\ G.path = F.path /\ G.search = F.search
  BY StepFields DEF Field
<1>2. /\ upto(raw, m - 1) = F.scheme /\ F.password = <<>> /\ F.host = <<>>
      /\ F.port = <<>> /\ F.path = <<>> /\ F.search = <<>>
  BY DEF AtUser
<1>3. /\ upto(raw, k - 1) = upto(raw, m - 1) \o w
      /\ upto(raw, k) = upto(raw, k - 1) \o <<raw[k]>>
  BY StepFacts
<1>4. G.scheme \in Text /\ G.user \in Text
  BY FieldsAreTexts DEF Step
<1> HIDE DEF w
<1>5. /\ upto(raw, k) = (G.scheme \o G.user) \o <<raw[k]>>
      /\ G.password = <<>> /\ G.host = <<>> /\ G.port = <<>>
      /\ G.path = <<>> /\ G.search = <<>>
  BY <1>1, <1>2, <1>3
<1>6. ASSUME raw[k] = 58
      PROVE  AtAfterUser(raw, k, m, G)
  BY <1>5, <1>6 DEF AtAfterUser, beforePassword, colonText
<1>7. ASSUME raw[k] = 64
      PROVE  AtAfterAt(raw, k, m, G)
  <2> DEFINE x == G.scheme \o G.user
  <2>1. x \in Text
    BY <1>4, Joined
  <2> HIDE DEF x
  <2>2. x \o optional(colonText, <<>>) = x
    BY <2>1, NoText, Separators
  <2>3. upto(raw, k) = (x \o optional(colonText, G.password)) \o atText
    BY <1>5, <1>7, <2>2 DEF x, atText
  <2> QED BY <1>5, <2>3 DEF AtAfterAt, beforeHost, x
<1> QED BY <1>6, <1>7

\* A byte that ends nothing goes on with the user.
LEMMA UserGoesOn ==
    ASSUME NEW raw, NEW k, NEW m, NEW F, NEW G, Step(raw, k, m, F, G, {}),
           AtUser(raw, k - 1, m, F)
    PROVE  AtUser(raw, k, m, G)
  BY NoFields DEF AtUser, Field

\* So it does where the word may be a user or a host; the word may still be a host if the byte
\* may stand in one.
LEMMA UserOrHostGoesOn ==
    ASSUME NEW raw, NEW k, NEW m, NEW F, NEW G, Step(raw, k, m, F, G, {}),
           AtUserOrHost(raw, k - 1, m, F)
    PROVE  /\ AtUser(raw, k, m, G)
           /\ raw[k] \in HostByte => AtUserOrHost(raw, k, m, G)
<1>1. AtUser(raw, k, m, G)
  BY UserGoesOn DEF AtUserOrHost
<1> QED BY <1>1, StepFacts DEF AtUserOrHost

\* An at sign makes the word the user, a slash makes it the host.
LEMMA FromUserOrHost ==
    ASSUME NEW raw, NEW k, NEW m, NEW F, NEW G, AtUserOrHost(raw, k - 1, m, F)
    PROVE  /\ Step(raw, k, m, F, G, {"user"}) /\ raw[k] = 64 => AtAfterAt(raw, k, m, G)
           /\ Step(raw, k, m, F, G, {"host"}) /\ raw[k] = Slash => AtPath(raw, k, k, G)
<1> DEFINE w == word(raw, m, k)
<1>1. AtUser(raw, k - 1, m, F) /\ Bytes(raw, m, k - 1, HostByte)
  BY DEF AtUserOrHost
<1>2. Step(raw, k, m, F, G, {"user"}) /\ raw[k] = 64 => AtAfterAt(raw, k, m, G)
  BY <1>1, FromUser
<1>3. ASSUME Step(raw, k, m, F, G, {"host"}), raw[k] = Slash
      PROVE  AtPath(raw, k, k, G)
  <2>1. /\ G.scheme = F.scheme /\ G.host = w /\ G.user = F.user /\ G.password = F.password
        /\ G.port = F.port /\ G.path = F.path /\ G.search = F.search
    BY <1>3, StepFields DEF Field
  <2>2. /\ upto(raw, m - 1) = F.scheme /\ F.port = <<>> /\ F.path = <<>> /\ F.search = <<>>
    BY <1>1 DEF AtUser
  <2>3. /\ upto(raw, k - 1) = upto(raw, m - 1) \o w
        /\ Range(w) \subseteq HostByte /\ w \in Text
    BY <1>1, <1>3, StepFacts
  <2> HIDE DEF w
  <2>4. G.host \o optional(colonText, G.port) = G.host
    <3>1. G.port = <<>> /\ G.host \in Text
      BY <2>1, <2>2, <2>3
    <3>2. optional(colonText, G.port) = <<>>
      BY <3>1, Separators
    <3> QED BY <3>1, <3>2, NoText
  <2>5. upto(raw, k - 1) = beforePath(G.scheme, G)
    BY <2>1, <2>2, <2>3, <2>4 DEF beforePath
  <2>6. Bytes(raw, k, k, PathByte)
    <3>1. raw[k] \in PathByte
      BY <1>3 DEF Slash, PathByte
    <3> QED BY <1>3, <3>1, StepFacts
  <2>7. Range(G.host) \subseteq HostByte /\ Range(G.port) \subseteq Digit
    BY <2>1, <2>2, <2>3 DEF Range
  <2>8. G.path = <<>> /\ G.search = <<>>
    BY <2>1, <2>2
  <2> QED BY <1>3, <2>5, <2>6, <2>7, <2>8 DEF AtPath, Starts
<1> QED BY <1>2, <1>3

\* A colon leaves it open: the word is kept as the user and as the host.
LEMMA FromUserOrHostColon ==
    ASSUME NEW raw, NEW k, NEW m, NEW F, NEW G, Step(raw, k, m, F, G, {"user", "host"}),
           AtUserOrHost(raw, k - 1, m, F), raw[k] = 58
    PROVE  AtAfterColon(raw, k, m, G)
<1> DEFINE w == word(raw, m, k)
           E == {"user", "host"}
<1>1. /\ G.scheme = F.scheme /\ G.user = w /\ G.host = w /\ G.password = F.password
      /\ G.port = F.port /\ G.path = F.path /\ G.search = F.search
  <2>1. \A f \in Field : G[f] = Value(f, E, raw, k, m, F)
    BY DEF Step
  <2>2. \A f \in Field : f \in E <=> f = "user" \/ f = "host"
    OBVIOUS
  <2> HIDE DEF E
  <2> QED BY <2>1, <2>2 DEF Value, Field
<1>2. /\ upto(raw, m - 1) = F.scheme /\ F.password = <<>>
      /\ F.port = <<>> /\ F.path = <<>> /\ F.search = <<>>
  BY DEF AtUserOrHost, AtUser
<1>3. Bytes(raw, m, k - 1, HostByte)
  BY DEF AtUserOrHost
<1>4. /\ upto(raw, k - 1) = upto(raw, m - 1) \o w
      /\ upto(raw, k) = upto(raw, k - 1) \o <<raw[k]>>
      /\ Range(w) \subseteq HostByte
  BY <1>3, StepFacts
<1> HIDE DEF w
<1>5. upto(raw, k) = (G.scheme \o G.user) \o colonText
  BY <1>1, <1>2, <1>4 DEF colonText
<1> QED BY <1>1, <1>2, <1>4, <1>5 DEF AtAfterColon, beforePassword

\* Where a path begins.
LEMMA PathBegins ==
    ASSUME NEW raw, NEW k, NEW m, NEW F, NEW G, NEW E, Step(raw, k, m, F, G, E),
           raw[k] = Slash, NEW S \in Starts(G), upto(raw, k - 1) = beforePath(S, G),
           Range(G.host) \subseteq HostByte, Range(G.port) \subseteq Digit,
           G.path = <<>>, G.search = <<>>
    PROVE  AtPath(raw, k, k, G)
<1>1. raw[k] \in PathByte
  BY DEF Slash, PathByte
<1>2. Bytes(raw, k, k, PathByte)
  BY <1>1, StepFacts
<1> QED BY <1>2 DEF AtPath

\* The first byte after the colon begins a password, or, if it is a digit, perhaps a port.
LEMMA ColonGoesOn ==
    ASSUME NEW raw, NEW k, NEW m, NEW F, NEW G, Step(raw, k, m, F, G, {})
    PROVE  /\ AtAfterUser(raw, k - 1, m, F) => AtPassword(raw, k, k, G)
           /\ AtAfterColon(raw, k - 1, m, F) => AtPassword(raw, k, k, G)
           /\ AtAfterColon(raw, k - 1, m, F) /\ raw[k] \in Digit =>
                 AtPasswordOrPort(raw, k, k, G)
<1>1. /\ G.scheme = F.scheme /\ G.user = F.user /\ G.password = F.password
      /\ G.host = F.host /\ G.port = F.port /\ G.path = F.path /\ G.search = F.search
  BY NoFields DEF Field
<1>2. beforePassword(G) = beforePassword(F)
  BY <1>1 DEF beforePassword
<1>3. AtAfterUser(raw, k - 1, m, F) => AtPassword(raw, k, k, G)
  BY <1>1, <1>2 DEF AtAfterUser, AtPassword
<1>4. AtAfterColon(raw, k - 1, m, F) => AtPassword(raw, k, k, G)
  BY <1>1, <1>2 DEF AtAfterColon, AtPassword
<1>5. raw[k] \in Digit => Bytes(raw, k, k, Digit)
  BY StepFacts
<1>6. AtAfterColon(raw, k - 1, m, F) /\ raw[k] \in Digit => AtPasswordOrPort(raw, k, k, G)
  BY <1>1, <1>4, <1>5 DEF AtAfterColon, AtPasswordOrPort
<1> QED BY <1>3, <1>4, <1>6

\* A byte that ends nothing goes on with the password.
LEMMA PasswordGoesOn ==
    ASSUME NEW raw, NEW k, NEW m, NEW F, NEW G, Step(raw, k, m, F, G, {}),
           AtPassword(raw, k - 1, m, F)
    PROVE  AtPassword(raw, k, m, G)
<1>1. /\ G.scheme = F.scheme /\ G.user = F.user /\ G.password = F.password
      /\ G.host = F.host /\ G.port = F.port /\ G.path = F.path /\ G.search = F.search
  BY NoFields DEF Field
<1>2. beforePassword(G) = beforePassword(F)
  BY <1>1 DEF beforePassword
<1> QED BY <1>1, <1>2 DEF AtPassword

\* So it does where the word may be a password or a port; the word may still be a port if the
\* byte is a digit.
LEMMA PasswordOrPortGoesOn ==
    ASSUME NEW raw, NEW k, NEW m, NEW F, NEW G, Step(raw, k, m, F, G, {}),
           AtPasswordOrPort(raw, k - 1, m, F)
    PROVE  /\ AtPassword(raw, k, m, G)
           /\ raw[k] \in Digit => AtPasswordOrPort(raw, k, m, G)
<1>1. AtPassword(raw, k, m, G)
  BY PasswordGoesOn DEF AtPasswordOrPort
<1>2. G.host = F.host /\ G.user = F.user
  BY NoFields DEF Field
<1>3. raw[k] \in Digit => Bytes(raw, m, k, Digit)
  BY StepFacts DEF AtPasswordOrPort
<1> QED BY <1>1, <1>2, <1>3 DEF AtPasswordOrPort

\* An at sign ends the password, and a host follows.
LEMMA FromPassword ==
    ASSUME NEW raw, NEW k, NEW m, NEW F, NEW G, Step(raw, k, m, F, G, {"password"}),
           AtPassword(raw, k - 1, m, F), raw[k] = 64
    PROVE  AtAfterAt(raw, k, m, G)
<1> DEFINE w == word(raw, m, k)
           x == G.scheme \o G.user
<1>1. /\ G.scheme = F.scheme /\ G.user = F.user /\ G.password = w /\ G.host = F.host
      /\ G.port = F.port /\ G.path = F.path /\ G.search = F.search
  BY StepFields DEF Field
<1>2. /\ upto(raw, m - 1) = beforePassword(F) /\ F.port = <<>> /\ F.path = <<>>
      /\ F.search = <<>>
  BY DEF AtPassword
<1>3. /\ upto(raw, k - 1) = upto(raw, m - 1) \o w
      /\ upto(raw, k) = upto(raw, k - 1) \o <<raw[k]>>
      /\ w \in Text /\ w # <<>>
  BY StepFacts
<1>4. G.scheme \in Text /\ G.user \in Text
  BY FieldsAreTexts DEF Step
<1>5. x \in Text /\ colonText \in Text
  BY <1>4, Joined, Separators
<1> HIDE DEF w
<1>6. upto(raw, m - 1) = x \o colonText
  BY <1>1, <1>2 DEF beforePassword
<1> HIDE DEF x
<1>7. leftFirst(x, colonText, w) = rightFirst(x, colonText, w)
  BY <1>3, <1>5, Associative
<1>8. upto(raw, k - 1) = x \o (colonText \o w)
  BY <1>3, <1>6, <1>7 DEF leftFirst, rightFirst
<1>9. optional(colonText, G.password) = colonText \o w
  BY <1>1, <1>3, Separators
<1>10. upto(raw, k) = beforeHost(G)
  BY <1>3, <1>8, <1>9 DEF beforeHost, x, atText
<1> QED BY <1>1, <1>2, <1>10 DEF AtAfterAt

\* A slash makes the word the port, and the word before it the host.
LEMMA FromPasswordOrPort ==
    ASSUME NEW raw, NEW k, NEW m, NEW F, NEW G, Step(raw, k, m, F, G, {"port"}),
           AtPasswordOrPort(raw, k - 1, m, F), raw[k] = Slash
    PROVE  AtPath(raw, k, k, G)
<1> DEFINE w == word(raw, m, k)
<1>1. /\ G.scheme = F.scheme /\ G.user = F.user /\ G.password = F.password /\ G.host = F.host
      /\ G.port = w /\ G.path = F.path /\ G.search = F.search
  BY StepFields DEF Field
<1>2. /\ upto(raw, m - 1) = beforePassword(F) /\ F.path = <<>> /\ F.search = <<>>
      /\ F.host = F.user /\ Range(F.host) \subseteq HostByte /\ Bytes(raw, m, k - 1, Digit)
  BY DEF AtPasswordOrPort, AtPassword
<1>3. /\ upto(raw, k - 1) = upto(raw, m - 1) \o w
      /\ w \in Text /\ w # <<>> /\ Range(w) \subseteq Digit
  BY <1>2, StepFacts
<1>4. G.scheme \in Text /\ G.host \in Text /\ G.port \in Text
  BY FieldsAreTexts DEF Step
<1> HIDE DEF w
<1>5. upto(raw, k - 1) = portLast(G.scheme, G.host, w)
  BY <1>1, <1>2, <1>3 DEF beforePassword, portLast
<1>6. portLast(G.scheme, G.host, w) = portFirst(G.scheme, G.host, w)
  BY <1>3, <1>4, PortJoined
<1>7. optional(colonText, G.port) = colonText \o w
  BY <1>1, <1>3, Separators
<1>8. upto(raw, k - 1) = beforePath(G.scheme, G)
  BY <1>5, <1>6, <1>7 DEF beforePath, portFirst
<1>9. Range(G.host) \subseteq HostByte /\ Range(G.port) \subseteq Digit
  BY <1>1, <1>2, <1>3
<1>10. G.path = <<>> /\ G.search = <<>> /\ G.scheme \in Starts(G)
  BY <1>1, <1>2 DEF Starts
<1> QED BY <1>8, <1>9, <1>10, PathBegins

\* A host behind a user.
LEMMA HostGoesOn ==
    ASSUME NEW raw, NEW k, NEW m, NEW F, NEW G, Step(raw, k, m, F, G, {})
    PROVE  /\ AtAfterAt(raw, k - 1, m, F) /\ raw[k] \in HostByte => AtHost(raw, k, k, G)
           /\ AtHost(raw, k - 1, m, F) /\ raw[k] \in HostByte => AtHost(raw, k, m, G)
           /\ AtAfterHost(raw, k - 1, m, F) /\ raw[k] \in Digit => AtPort(raw, k, k, G)
           /\ AtPort(raw, k - 1, m, F) /\ raw[k] \in Digit => AtPort(raw, k, m, G)
<1>1. /\ G.scheme = F.scheme /\ G.user = F.user /\ G.password = F.password
      /\ G.host = F.host /\ G.port = F.port /\ G.path = F.path /\ G.search = F.search
  BY NoFields DEF Field
<1>2. beforeHost(G) = beforeHost(F)
  BY <1>1 DEF beforeHost
<1>3. beforePort(beforeHost(G), G) = beforePort(beforeHost(F), F)
  BY <1>1, <1>2 DEF beforePort
<1>4. \A B : raw[k] \in B => Bytes(raw, k, k, B)
  BY StepFacts
<1>5. \A B : Bytes(raw, m, k - 1, B) /\ raw[k] \in B => Bytes(raw, m, k, B)
  BY StepFacts
<1>6. AtAfterAt(raw, k - 1, m, F) /\ raw[k] \in HostByte => AtHost(raw, k, k, G)
  BY <1>1, <1>2, <1>4 DEF AtAfterAt, AtHost
<1>7. AtHost(raw, k - 1, m, F) /\ raw[k] \in HostByte => AtHost(raw, k, m, G)
  BY <1>1, <1>2, <1>5 DEF AtHost
<1>8. AtAfterHost(raw, k - 1, m, F) /\ raw[k] \in Digit => AtPort(raw, k, k, G)
  BY <1>1, <1>3, <1>4 DEF AtAfterHost, AtPort
<1>9. AtPort(raw, k - 1, m, F) /\ raw[k] \in Digit => AtPort(raw, k, m, G)
  BY <1>1, <1>3, <1>5 DEF AtPort
<1> QED BY <1>6, <1>7, <1>8, <1>9

\* A colon or a slash ends the host.
LEMMA FromHost ==
    ASSUME NEW raw, NEW k, NEW m, NEW F, NEW G, Step(raw, k, m, F, G, {"host"}),
           AtHost(raw, k - 1, m, F)
    PROVE  /\ raw[k] = 58 => AtAfterHost(raw, k, m, G)
           /\ raw[k] = Slash => AtPath(raw, k, k, G)
<1> DEFINE w == word(raw, m, k)
<1>1. /\ G.scheme = F.scheme /\ G.user = F.user /\ G.password = F.password /\ G.host = w
      /\ G.port = F.port /\ G.path = F.path /\ G.search = F.search
  BY StepFields DEF Field
<1>2. /\ upto(raw, m - 1) = beforeHost(F) /\ Bytes(raw, m, k - 1, HostByte)
      /\ F.port = <<>> /\ F.path = <<>> /\ F.search = <<>>
  BY DEF AtHost
<1>3. /\ upto(raw, k - 1) = upto(raw, m - 1) \o w
      /\ upto(raw, k) = upto(raw, k - 1) \o <<raw[k]>>
      /\ w \in Text /\ Range(w) \subseteq HostByte
  BY <1>2, StepFacts
<1> HIDE DEF w
<1>4. beforeHost(G) = beforeHost(F)
  BY <1>1 DEF beforeHost
<1>5. ASSUME raw[k] = 58
      PROVE  AtAfterHost(raw, k, m, G)
  <2>1. upto(raw, k) = beforePort(beforeHost(G), G)
    BY <1>1, <1>2, <1>3, <1>4, <1>5 DEF beforePort, colonText
  <2> QED BY <1>1, <1>2, <1>3, <2>1 DEF AtAfterHost
<1>6. ASSUME raw[k] = Slash
      PROVE  AtPath(raw, k, k, G)
  <2>1. G.host \o optional(colonText, G.port) = G.host
    <3>1. G.port = <<>> /\ G.host \in Text
      BY <1>1, <1>2, <1>3
    <3>2. optional(colonText, G.port) = <<>>
      BY <3>1, Separators
    <3> QED BY <3>1, <3>2, NoText
  <2>2. upto(raw, k - 1) = beforePath(beforeHost(G), G)
    BY <1>1, <1>2, <1>3, <1>4, <2>1 DEF beforePath
  <2>3. Range(G.host) \subseteq HostByte /\ Range(G.port) \subseteq Digit
    BY <1>1, <1>2, <1>3 DEF Range
  <2>4. G.path = <<>> /\ G.search = <<>> /\ beforeHost(G) \in Starts(G)
    BY <1>1, <1>2 DEF Starts
  <2> QED BY <1>6, <2>2, <2>3, <2>4, PathBegins
<1> QED BY <1>5, <1>6

\* What is written before the host is a text.
LEMMA BeforeHostIsText ==
    ASSUME NEW F \in Fields
    PROVE  beforeHost(F) \in Text
<1>1. F.scheme \o F.user \in Text
  BY FieldsAreTexts, Joined
<1>2. F.password \in Text /\ colonText \in Text /\ atText \in Text /\ colonText \o F.password \in Text
  BY FieldsAreTexts, Separators, Joined
<1>3. optional(colonText, F.password) \in Text
  BY <1>2, NoText DEF optional
<1>4. (F.scheme \o F.user) \o optional(colonText, F.password) \in Text
  BY <1>1, <1>3, Joined
<1> QED BY <1>2, <1>4, Joined DEF beforeHost

\* A slash ends the port.
LEMMA FromPort ==
    ASSUME NEW raw, NEW k, NEW m, NEW F, NEW G, Step(raw, k, m, F, G, {"port"}),
           AtPort(raw, k - 1, m, F), raw[k] = Slash
    PROVE  AtPath(raw, k, k, G)
<1> DEFINE w == word(raw, m, k)
           S == beforeHost(G)
<1>1. /\ G.scheme = F.scheme /\ G.user = F.user /\ G.password = F.password /\ G.host = F.host
      /\ G.port = w /\ G.path = F.path /\ G.search = F.search
  BY StepFields DEF Field
<1>2. /\ upto(raw, m - 1) = beforePort(beforeHost(F), F) /\ F.path = <<>> /\ F.search = <<>>
      /\ Range(F.host) \subseteq HostByte /\ Bytes(raw, m, k - 1, Digit)
  BY DEF AtPort
<1>3. /\ upto(raw, k - 1) = upto(raw, m - 1) \o w
      /\ w \in Text /\ w # <<>> /\ Range(w) \subseteq Digit
  BY <1>2, StepFacts
<1>4. G.host \in Text /\ G.port \in Text /\ S \in Text
  BY FieldsAreTexts, BeforeHostIsText DEF Step
<1> HIDE DEF w
<1>5. S = beforeHost(F)
  BY <1>1 DEF beforeHost
<1>6. S \in Starts(G)
  BY DEF Starts
<1> HIDE DEF S
<1>7. upto(raw, k - 1) = portLast(S, G.host, w)
  BY <1>1, <1>2, <1>3, <1>5 DEF beforePort, portLast
<1>8. portLast(S, G.host, w) = portFirst(S, G.host, w)
  BY <1>3, <1>4, PortJoined
<1>9. optional(colonText, G.port) = colonText \o w
  BY <1>1, <1>3, Separators
<1>10. upto(raw, k - 1) = beforePath(S, G)
  BY <1>7, <1>8, <1>9 DEF beforePath, portFirst
<1>11. Range(G.host) \subseteq HostByte /\ Range(G.port) \subseteq Digit
  BY <1>1, <1>2, <1>3
<1>12. G.path = <<>> /\ G.search = <<>>
  BY <1>1, <1>2
<1> QED BY <1>6, <1>10, <1>11, <1>12, PathBegins

\* A path, and a search.
LEMMA PathGoesOn ==
    ASSUME NEW raw, NEW k, NEW m, NEW F, NEW G, Step(raw, k, m, F, G, {})
    PROVE  /\ AtPath(raw, k - 1, m, F) /\ raw[k] \in PathByte => AtPath(raw, k, m, G)
           /\ AtAfterPath(raw, k - 1, m, F) => AtSearch(raw, k, k, G)
           /\ AtSearch(raw, k - 1, m, F) => AtSearch(raw, k, m, G)
<1>1. /\ G.scheme = F.scheme /\ G.user = F.user /\ G.password = F.password
      /\ G.host = F.host /\ G.port = F.port /\ G.path = F.path /\ G.search = F.search
  BY NoFields DEF Field
<1>2. beforeHost(G) = beforeHost(F)
  BY <1>1 DEF beforeHost
<1>3. Starts(G) = Starts(F)
  BY <1>1, <1>2 DEF Starts
<1>4. \A S : beforePath(S, G) = beforePath(S, F)
  BY <1>1 DEF beforePath
<1>5. \A S : beforeSearch(S, G) = beforeSearch(S, F)
  BY <1>1, <1>4 DEF beforeSearch
<1>6. \A B : Bytes(raw, m, k - 1, B) /\ raw[k] \in B => Bytes(raw, m, k, B)
  BY StepFacts
<1>7. AtPath(raw, k - 1, m, F) /\ raw[k] \in PathByte => AtPath(raw, k, m, G)
  BY <1>1, <1>3, <1>4, <1>6 DEF AtPath
<1>8. AtAfterPath(raw, k - 1, m, F) => AtSearch(raw, k, k, G)
  BY <1>1, <1>3, <1>5 DEF AtAfterPath, AtSearch
<1>9. AtSearch(raw, k - 1, m, F) => AtSearch(raw, k, m, G)
  BY <1>1, <1>3, <1>5 DEF AtSearch
<1> QED BY <1>7, <1>8, <1>9

\* A question mark ends the path.
LEMMA FromPath ==
    ASSUME NEW raw, NEW k, NEW m, NEW F, NEW G, Step(raw, k, m, F, G, {"path"}),
           AtPath(raw, k - 1, m, F), raw[k] = 63
    PROVE  AtAfterPath(raw, k, m, G)
<1> DEFINE w == word(raw, m, k)
<1>1. /\ G.scheme = F.scheme /\ G.user = F.user /\ G.password = F.password /\ G.host = F.host
      /\ G.port = F.port /\ G.path = w /\ G.search = F.search
  BY StepFields DEF Field
<1>2. /\ Range(F.host) \subseteq HostByte /\ Range(F.port) \subseteq Digit
      /\ raw[m] = Slash /\ Bytes(raw, m, k - 1, PathByte) /\ F.search = <<>>
  BY DEF AtPath
<1>3. PICK S \in Starts(F) : upto(raw, m - 1) = beforePath(S, F)
  BY DEF AtPath
<1>4. /\ upto(raw, k - 1) = upto(raw, m - 1) \o w
      /\ upto(raw, k) = upto(raw, k - 1) \o <<raw[k]>>
      /\ w # <<>> /\ w[1] = raw[m] /\ Range(w) \subseteq PathByte
  <2>1. Bytes(raw, m, k - 1, PathByte)
    BY <1>2
  <2>2. Range(w) \subseteq PathByte
    BY <2>1, StepFacts
  <2>3. w # <<>> /\ begins(w, raw[m])
    BY StepFacts
  <2>5. w # <<>> /\ w[1] = raw[m]
    BY <2>3 DEF begins
  <2>4. /\ upto(raw, k - 1) = upto(raw, m - 1) \o w
        /\ upto(raw, k) = upto(raw, k - 1) \o <<raw[k]>>
    BY StepFacts
  <2> QED BY <2>2, <2>4, <2>5
<1> HIDE DEF w
<1>5. beforeHost(G) = beforeHost(F)
  BY <1>1 DEF beforeHost
<1>6. S \in Starts(G)
  BY <1>1, <1>3, <1>5 DEF Starts
<1>7. beforePath(S, G) = beforePath(S, F)
  BY <1>1 DEF beforePath
<1>8. upto(raw, k) = beforeSearch(S, G)
  BY <1>1, <1>3, <1>4, <1>7 DEF beforeSearch, questionText
<1> QED BY <1>1, <1>2, <1>4, <1>6, <1>8 DEF AtAfterPath

-----------------------------------------------------------------------------
(* What the automaton makes of a text                                      *)

States == {"error", "start", "user", "userOrHost", "afterUser", "password", "afterColon",
           "passwordOrPort", "afterAt", "host", "afterHost", "port", "path", "afterPath", "search"}

Reading == [state : States, mark : Nat, fields : Fields]

Good(raw, k, u) ==
    /\ u \in Reading /\ u.mark \in 1..k
    /\ At(u.state, raw, k, u.mark, u.fields)
    /\ u.state \notin {"start", "error"} => u.fields.scheme \in {http, https}

\* Transition t is taken at the byte at k.
Moved(t, u, v, raw, k) ==
    /\ t \in Transitions /\ t.from = u.state /\ raw[k] \in t.on
    /\ v.state = t.to /\ v.mark = IF t.marks THEN k ELSE u.mark
    /\ Step(raw, k, u.mark, u.fields, v.fields, t.ends)

\* From the start the scheme is read, and the first byte of the word after it.
LEMMA MovedFromScheme ==
    ASSUME NEW t, NEW u, NEW v, NEW raw, NEW k, Moved(t, u, v, raw, k), u.state = "start",
           At(u.state, raw, k - 1, u.mark, u.fields)
    PROVE  /\ At(v.state, raw, k, v.mark, v.fields)
           /\ v.fields.scheme \in {http, https}
<1>1. AtStart(raw, k - 1, u.mark, u.fields)
  BY DEF At
<1>2. /\ t.ends = {"scheme"} /\ t.marks
      /\ \/ t.on = UserByte \ HostByte /\ t.to = "user"
         \/ t.on = HostByte /\ t.to = "userOrHost"
  BY TransitionsFrom DEF Moved
<1>3. Step(raw, k, u.mark, u.fields, v.fields, {"scheme"}) /\ v.mark = k
  BY <1>2 DEF Moved
<1>4. /\ AtUser(raw, k, k, v.fields) /\ v.fields.scheme \in {http, https}
      /\ raw[k] \in HostByte => AtUserOrHost(raw, k, k, v.fields)
  BY <1>1, <1>3, FromStart
<1>5. CASE t.to = "user"
  BY <1>3, <1>4, <1>5 DEF At, Moved
<1>6. CASE t.on = HostByte /\ t.to = "userOrHost"
  BY <1>3, <1>4, <1>6 DEF At, Moved
<1> QED BY <1>2, <1>4, <1>5, <1>6

\* Each transition from a word that may be a user or a host.
LEMMA MovedFromUserOrHost ==
    ASSUME NEW t, NEW u, NEW v, NEW raw, NEW k, Moved(t, u, v, raw, k), u.state = "userOrHost",
           At(u.state, raw, k - 1, u.mark, u.fields)
    PROVE  At(v.state, raw, k, v.mark, v.fields) /\ "scheme" \notin t.ends
<1> DEFINE m == u.mark
           F == u.fields
           G == v.fields
<1>1. AtUserOrHost(raw, k - 1, m, F)
  BY DEF At
<1>2. \/ t = stay("userOrHost", HostByte)
      \/ t = go("userOrHost", UserByte \ HostByte, {}, FALSE, "user")
      \/ t = go("userOrHost", COLON, {"user", "host"}, FALSE, "afterColon")
      \/ t = go("userOrHost", AT, {"user"}, FALSE, "afterAt")
      \/ t = go("userOrHost", SLASH, {"host"}, TRUE, "path")
  BY TransitionsFrom DEF Moved
<1>3. /\ raw[k] \in t.on /\ v.state = t.to /\ v.mark = IF t.marks THEN k ELSE m
      /\ Step(raw, k, m, F, G, t.ends)
  BY DEF Moved
<1> HIDE DEF m, F, G
<1>4. CASE t = stay("userOrHost", HostByte)
  <2>1. t.on = HostByte /\ t.ends = {} /\ ~t.marks /\ t.to = "userOrHost"
    BY <1>4 DEF go, stay
  <2>2. AtUserOrHost(raw, k, m, G)
    BY <1>1, <1>3, <2>1, UserOrHostGoesOn
  <2> QED BY <1>3, <2>1, <2>2 DEF At, G
<1>5. CASE t = go("userOrHost", UserByte \ HostByte, {}, FALSE, "user")
  <2>1. t.ends = {} /\ ~t.marks /\ t.to = "user"
    BY <1>5 DEF go
  <2>2. AtUser(raw, k, m, G)
    BY <1>1, <1>3, <2>1, UserOrHostGoesOn
  <2> QED BY <1>3, <2>1, <2>2 DEF At, G
<1>6. CASE t = go("userOrHost", COLON, {"user", "host"}, FALSE, "afterColon")
  <2>1. t.on = {58} /\ t.ends = {"user", "host"} /\ ~t.marks /\ t.to = "afterColon"
    BY <1>6 DEF go, COLON
  <2>2. AtAfterColon(raw, k, m, G)
    BY <1>1, <1>3, <2>1, FromUserOrHostColon
  <2> QED BY <1>3, <2>1, <2>2 DEF At, G
<1>7. CASE t = go("userOrHost", AT, {"user"}, FALSE, "afterAt")
  <2>1. t.on = {64} /\ t.ends = {"user"} /\ ~t.marks /\ t.to = "afterAt"
    BY <1>7 DEF go, AT
  <2>2. AtAfterAt(raw, k, m, G)
    BY <1>1, <1>3, <2>1, FromUserOrHost
  <2> QED BY <1>3, <2>1, <2>2 DEF At, G
<1>8. CASE t = go("userOrHost", SLASH, {"host"}, TRUE, "path")
  <2>1. t.on = {Slash} /\ t.ends = {"host"} /\ t.marks /\ t.to = "path"
    BY <1>8 DEF go, SLASH
  <2>2. AtPath(raw, k, k, G)
    BY <1>1, <1>3, <2>1, FromUserOrHost
  <2> QED BY <1>3, <2>1, <2>2 DEF At, G
<1> QED BY <1>2, <1>4, <1>5, <1>6, <1>7, <1>8

\* Each transition from a user.
LEMMA MovedFromUser ==
    ASSUME NEW t, NEW u, NEW v, NEW raw, NEW k, Moved(t, u, v, raw, k), u.state = "user",
           At(u.state, raw, k - 1, u.mark, u.fields)
    PROVE  At(v.state, raw, k, v.mark, v.fields) /\ "scheme" \notin t.ends
<1> DEFINE m == u.mark
           F == u.fields
           G == v.fields
<1>1. AtUser(raw, k - 1, m, F)
  BY DEF At
<1>2. \/ t = stay("user", UserByte)
      \/ t = go("user", COLON, {"user"}, FALSE, "afterUser")
      \/ t = go("user", AT, {"user"}, FALSE, "afterAt")
  BY TransitionsFrom DEF Moved
<1>3. /\ raw[k] \in t.on /\ v.state = t.to /\ v.mark = IF t.marks THEN k ELSE m
      /\ Step(raw, k, m, F, G, t.ends)
  BY DEF Moved
<1> HIDE DEF m, F, G
<1>4. CASE t = stay("user", UserByte)
  <2>1. t.ends = {} /\ ~t.marks /\ t.to = "user"
    BY <1>4 DEF go, stay
  <2>2. AtUser(raw, k, m, G)
    BY <1>1, <1>3, <2>1, UserGoesOn
  <2> QED BY <1>3, <2>1, <2>2 DEF At, G
<1>5. CASE t = go("user", COLON, {"user"}, FALSE, "afterUser")
  <2>1. t.on = {58} /\ t.ends = {"user"} /\ ~t.marks /\ t.to = "afterUser"
    BY <1>5 DEF go, COLON
  <2>2. AtAfterUser(raw, k, m, G)
    BY <1>1, <1>3, <2>1, FromUser
  <2> QED BY <1>3, <2>1, <2>2 DEF At, G
<1>6. CASE t = go("user", AT, {"user"}, FALSE, "afterAt")
  <2>1. t.on = {64} /\ t.ends = {"user"} /\ ~t.marks /\ t.to = "afterAt"
    BY <1>6 DEF go, AT
  <2>2. AtAfterAt(raw, k, m, G)
    BY <1>1, <1>3, <2>1, FromUser
  <2> QED BY <1>3, <2>1, <2>2 DEF At, G
<1> QED BY <1>2, <1>4, <1>5, <1>6

\* Each transition from the colon after a user, or after what may be one.
LEMMA MovedFromColon ==
    ASSUME NEW t, NEW u, NEW v, NEW raw, NEW k, Moved(t, u, v, raw, k),
           u.state \in {"afterUser", "afterColon"}, At(u.state, raw, k - 1, u.mark, u.fields)
    PROVE  At(v.state, raw, k, v.mark, v.fields) /\ "scheme" \notin t.ends
<1> DEFINE m == u.mark
           F == u.fields
           G == v.fields
<1>1. \/ u.state = "afterUser" /\ AtAfterUser(raw, k - 1, m, F)
      \/ u.state = "afterColon" /\ AtAfterColon(raw, k - 1, m, F)
  BY DEF At
<1>2. \/ u.state = "afterUser" /\ t = go("afterUser", UserByte, {}, TRUE, "password")
      \/ t = go("afterColon", UserByte \ Digit, {}, TRUE, "password")
      \/ u.state = "afterColon" /\ t = go("afterColon", Digit, {}, TRUE, "passwordOrPort")
  BY TransitionsFrom DEF Moved
<1>3. /\ raw[k] \in t.on /\ v.state = t.to /\ v.mark = IF t.marks THEN k ELSE m
      /\ Step(raw, k, m, F, G, t.ends)
  BY DEF Moved
<1> HIDE DEF m, F, G
<1>4. t.ends = {} /\ t.marks
  BY <1>2 DEF go
<1>5. AtPassword(raw, k, k, G)
  BY <1>1, <1>3, <1>4, ColonGoesOn
<1>6. CASE t.to = "password"
  BY <1>3, <1>4, <1>5, <1>6 DEF At, G
<1>7. CASE u.state = "afterColon" /\ t = go("afterColon", Digit, {}, TRUE, "passwordOrPort")
  <2>1. t.on = Digit /\ t.to = "passwordOrPort"
    BY <1>7 DEF go
  <2>2. AtPasswordOrPort(raw, k, k, G)
    BY <1>1, <1>3, <1>4, <1>7, <2>1, ColonGoesOn
  <2> QED BY <1>3, <1>4, <2>1, <2>2 DEF At, G
<1>8. t.to = "password" \/ t = go("afterColon", Digit, {}, TRUE, "passwordOrPort")
  BY <1>2 DEF go
<1>9. t.to = "password" \/ u.state = "afterColon"
  BY <1>2 DEF go
<1> QED BY <1>6, <1>7, <1>8, <1>9

\* Each transition from a password.
LEMMA MovedFromPassword ==
    ASSUME NEW t, NEW u, NEW v, NEW raw, NEW k, Moved(t, u, v, raw, k),
           u.state = "password", At(u.state, raw, k - 1, u.mark, u.fields)
    PROVE  At(v.state, raw, k, v.mark, v.fields) /\ "scheme" \notin t.ends
<1> DEFINE m == u.mark
           F == u.fields
           G == v.fields
<1>1. AtPassword(raw, k - 1, m, F)
  BY DEF At
<1>2. \/ t = stay("password", UserByte)
      \/ t = go("password", AT, {"password"}, FALSE, "afterAt")
  BY TransitionsFrom DEF Moved
<1>3. /\ raw[k] \in t.on /\ v.state = t.to /\ v.mark = IF t.marks THEN k ELSE m
      /\ Step(raw, k, m, F, G, t.ends)
  BY DEF Moved
<1> HIDE DEF m, F, G
<1>4. CASE t = stay("password", UserByte)
  <2>1. t.ends = {} /\ ~t.marks /\ t.to = "password"
    BY <1>4 DEF go, stay
  <2>2. AtPassword(raw, k, m, G)
    BY <1>1, <1>3, <2>1, PasswordGoesOn
  <2> QED BY <1>3, <2>1, <2>2 DEF At, G
<1>5. CASE t = go("password", AT, {"password"}, FALSE, "afterAt")
  <2>1. t.on = {64} /\ t.ends = {"password"} /\ ~t.marks /\ t.to = "afterAt"
    BY <1>5 DEF go, AT
  <2>2. AtAfterAt(raw, k, m, G)
    BY <1>1, <1>3, <2>1, FromPassword
  <2> QED BY <1>3, <2>1, <2>2 DEF At, G
<1> QED BY <1>2, <1>4, <1>5

\* Each transition from a word that may be a password or a port.
LEMMA MovedFromPasswordOrPort ==
    ASSUME NEW t, NEW u, NEW v, NEW raw, NEW k, Moved(t, u, v, raw, k),
           u.state = "passwordOrPort", At(u.state, raw, k - 1, u.mark, u.fields)
    PROVE  At(v.state, raw, k, v.mark, v.fields) /\ "scheme" \notin t.ends
<1> DEFINE m == u.mark
           F == u.fields
           G == v.fields
<1>1. AtPasswordOrPort(raw, k - 1, m, F) /\ AtPassword(raw, k - 1, m, F)
  BY DEF At, AtPasswordOrPort
<1>2. \/ t = stay("passwordOrPort", Digit)
      \/ t = go("passwordOrPort", UserByte \ Digit, {}, FALSE, "password")
      \/ t = go("passwordOrPort", AT, {"password"}, FALSE, "afterAt")
      \/ t = go("passwordOrPort", SLASH, {"port"}, TRUE, "path")
  BY TransitionsFrom DEF Moved
<1>3. /\ raw[k] \in t.on /\ v.state = t.to /\ v.mark = IF t.marks THEN k ELSE m
      /\ Step(raw, k, m, F, G, t.ends)
  BY DEF Moved
<1> HIDE DEF m, F, G
<1>4. CASE t = stay("passwordOrPort", Digit)
  <2>1. t.on = Digit /\ t.ends = {} /\ ~t.marks /\ t.to = "passwordOrPort"
    BY <1>4 DEF go, stay
  <2>2. AtPasswordOrPort(raw, k, m, G)
    BY <1>1, <1>3, <2>1, PasswordOrPortGoesOn
  <2> QED BY <1>3, <2>1, <2>2 DEF At, G
<1>5. CASE t = go("passwordOrPort", UserByte \ Digit, {}, FALSE, "password")
  <2>1. t.ends = {} /\ ~t.marks /\ t.to = "password"
    BY <1>5 DEF go
  <2>2. AtPassword(raw, k, m, G)
    BY <1>1, <1>3, <2>1, PasswordOrPortGoesOn
  <2> QED BY <1>3, <2>1, <2>2 DEF At, G
<1>6. CASE t = go("passwordOrPort", AT, {"password"}, FALSE, "afterAt")
  <2>1. t.on = {64} /\ t.ends = {"password"} /\ ~t.marks /\ t.to = "afterAt"
    BY <1>6 DEF go, AT
  <2>2. AtAfterAt(raw, k, m, G)
    BY <1>1, <1>3, <2>1, FromPassword
  <2> QED BY <1>3, <2>1, <2>2 DEF At, G
<1>7. CASE t = go("passwordOrPort", SLASH, {"port"}, TRUE, "path")
  <2>1. t.on = {Slash} /\ t.ends = {"port"} /\ t.marks /\ t.to = "path"
    BY <1>7 DEF go, SLASH
  <2>2. AtPath(raw, k, k, G)
    BY <1>1, <1>3, <2>1, FromPasswordOrPort
  <2> QED BY <1>3, <2>1, <2>2 DEF At, G
<1> QED BY <1>2, <1>4, <1>5, <1>6, <1>7

\* Each transition from the at sign, or from the colon after the host.
LEMMA MovedFromSign ==
    ASSUME NEW t, NEW u, NEW v, NEW raw, NEW k, Moved(t, u, v, raw, k),
           u.state \in {"afterAt", "afterHost"}, At(u.state, raw, k - 1, u.mark, u.fields)
    PROVE  At(v.state, raw, k, v.mark, v.fields) /\ "scheme" \notin t.ends
<1> DEFINE m == u.mark
           F == u.fields
           G == v.fields
<1>1. \/ u.state = "afterAt" /\ AtAfterAt(raw, k - 1, m, F)
      \/ u.state = "afterHost" /\ AtAfterHost(raw, k - 1, m, F)
  BY DEF At
<1>2. \/ u.state = "afterAt" /\ t = go("afterAt", HostByte, {}, TRUE, "host")
      \/ u.state = "afterHost" /\ t = go("afterHost", Digit, {}, TRUE, "port")
  BY TransitionsFrom DEF Moved
<1>3. /\ raw[k] \in t.on /\ v.state = t.to /\ v.mark = IF t.marks THEN k ELSE m
      /\ Step(raw, k, m, F, G, t.ends)
  BY DEF Moved
<1> HIDE DEF m, F, G
<1>4. CASE u.state = "afterAt" /\ t = go("afterAt", HostByte, {}, TRUE, "host")
  <2>1. t.on = HostByte /\ t.ends = {} /\ t.marks /\ t.to = "host"
    BY <1>4 DEF go
  <2>2. AtHost(raw, k, k, G)
    BY <1>1, <1>3, <1>4, <2>1, HostGoesOn
  <2> QED BY <1>3, <2>1, <2>2 DEF At, G
<1>5. CASE u.state = "afterHost" /\ t = go("afterHost", Digit, {}, TRUE, "port")
  <2>1. t.on = Digit /\ t.ends = {} /\ t.marks /\ t.to = "port"
    BY <1>5 DEF go
  <2>2. AtPort(raw, k, k, G)
    BY <1>1, <1>3, <1>5, <2>1, HostGoesOn
  <2> QED BY <1>3, <2>1, <2>2 DEF At, G
<1> QED BY <1>2, <1>4, <1>5

\* Each transition from a host.
LEMMA MovedFromHost ==
    ASSUME NEW t, NEW u, NEW v, NEW raw, NEW k, Moved(t, u, v, raw, k),
           u.state = "host", At(u.state, raw, k - 1, u.mark, u.fields)
    PROVE  At(v.state, raw, k, v.mark, v.fields) /\ "scheme" \notin t.ends
<1> DEFINE m == u.mark
           F == u.fields
           G == v.fields
<1>1. AtHost(raw, k - 1, m, F)
  BY DEF At
<1>2. \/ t = stay("host", HostByte)
      \/ t = go("host", COLON, {"host"}, FALSE, "afterHost")
      \/ t = go("host", SLASH, {"host"}, TRUE, "path")
  BY TransitionsFrom DEF Moved
<1>3. /\ raw[k] \in t.on /\ v.state = t.to /\ v.mark = IF t.marks THEN k ELSE m
      /\ Step(raw, k, m, F, G, t.ends)
  BY DEF Moved
<1> HIDE DEF m, F, G
<1>4. CASE t = stay("host", HostByte)
  <2>1. t.on = HostByte /\ t.ends = {} /\ ~t.marks /\ t.to = "host"
    BY <1>4 DEF go, stay
  <2>2. AtHost(raw, k, m, G)
    BY <1>1, <1>3, <2>1, HostGoesOn
  <2> QED BY <1>3, <2>1, <2>2 DEF At, G
<1>5. CASE t = go("host", COLON, {"host"}, FALSE, "afterHost")
  <2>1. t.on = {58} /\ t.ends = {"host"} /\ ~t.marks /\ t.to = "afterHost"
    BY <1>5 DEF go, COLON
  <2>2. AtAfterHost(raw, k, m, G)
    BY <1>1, <1>3, <2>1, FromHost
  <2> QED BY <1>3, <2>1, <2>2 DEF At, G
<1>6. CASE t = go("host", SLASH, {"host"}, TRUE, "path")
  <2>1. t.on = {Slash} /\ t.ends = {"host"} /\ t.marks /\ t.to = "path"
    BY <1>6 DEF go, SLASH
  <2>2. AtPath(raw, k, k, G)
    BY <1>1, <1>3, <2>1, FromHost
  <2> QED BY <1>3, <2>1, <2>2 DEF At, G
<1> QED BY <1>2, <1>4, <1>5, <1>6

\* Each transition from a port.
LEMMA MovedFromPort ==
    ASSUME NEW t, NEW u, NEW v, NEW raw, NEW k, Moved(t, u, v, raw, k),
           u.state = "port", At(u.state, raw, k - 1, u.mark, u.fields)
    PROVE  At(v.state, raw, k, v.mark, v.fields) /\ "scheme" \notin t.ends
<1> DEFINE m == u.mark
           F == u.fields
           G == v.fields
<1>1. AtPort(raw, k - 1, m, F)
  BY DEF At
<1>2. \/ t = stay("port", Digit)
      \/ t = go("port", SLASH, {"port"}, TRUE, "path")
  BY TransitionsFrom DEF Moved
<1>3. /\ raw[k] \in t.on /\ v.state = t.to /\ v.mark = IF t.marks THEN k ELSE m
      /\ Step(raw, k, m, F, G, t.ends)
  BY DEF Moved
<1> HIDE DEF m, F, G
<1>4. CASE t = stay("port", Digit)
  <2>1. t.on = Digit /\ t.ends = {} /\ ~t.marks /\ t.to = "port"
    BY <1>4 DEF go, stay
  <2>2. AtPort(raw, k, m, G)
    BY <1>1, <1>3, <2>1, HostGoesOn
  <2> QED BY <1>3, <2>1, <2>2 DEF At, G
<1>5. CASE t = go("port", SLASH, {"port"}, TRUE, "path")
  <2>1. t.on = {Slash} /\ t.ends = {"port"} /\ t.marks /\ t.to = "path"
    BY <1>5 DEF go, SLASH
  <2>2. AtPath(raw, k, k, G)
    BY <1>1, <1>3, <2>1, FromPort
  <2> QED BY <1>3, <2>1, <2>2 DEF At, G
<1> QED BY <1>2, <1>4, <1>5

\* Each transition from a path.
LEMMA MovedFromPath ==
    ASSUME NEW t, NEW u, NEW v, NEW raw, NEW k, Moved(t, u, v, raw, k),
           u.state = "path", At(u.state, raw, k - 1, u.mark, u.fields)
    PROVE  At(v.state, raw, k, v.mark, v.fields) /\ "scheme" \notin t.ends
<1> DEFINE m == u.mark
           F == u.fields
           G == v.fields
<1>1. AtPath(raw, k - 1, m, F)
  BY DEF At
<1>2. \/ t = stay("path", PathByte)
      \/ t = go("path", QUESTION, {"path"}, FALSE, "afterPath")
  BY TransitionsFrom DEF Moved
<1>3. /\ raw[k] \in t.on /\ v.state = t.to /\ v.mark = IF t.marks THEN k ELSE m
      /\ Step(raw, k, m, F, G, t.ends)
  BY DEF Moved
<1> HIDE DEF m, F, G
<1>4. CASE t = stay("path", PathByte)
  <2>1. t.on = PathByte /\ t.ends = {} /\ ~t.marks /\ t.to = "path"
    BY <1>4 DEF go, stay
  <2>2. AtPath(raw, k, m, G)
    BY <1>1, <1>3, <2>1, PathGoesOn
  <2> QED BY <1>3, <2>1, <2>2 DEF At, G
<1>5. CASE t = go("path", QUESTION, {"path"}, FALSE, "afterPath")
  <2>1. t.on = {63} /\ t.ends = {"path"} /\ ~t.marks /\ t.to = "afterPath"
    BY <1>5 DEF go, QUESTION
  <2>2. AtAfterPath(raw, k, m, G)
    BY <1>1, <1>3, <2>1, FromPath
  <2> QED BY <1>3, <2>1, <2>2 DEF At, G
<1> QED BY <1>2, <1>4, <1>5

\* Each transition from the question mark, or from a search.
LEMMA MovedFromSearch ==
    ASSUME NEW t, NEW u, NEW v, NEW raw, NEW k, Moved(t, u, v, raw, k),
           u.state \in {"afterPath", "search"}, At(u.state, raw, k - 1, u.mark, u.fields)
    PROVE  At(v.state, raw, k, v.mark, v.fields) /\ "scheme" \notin t.ends
<1> DEFINE m == u.mark
           F == u.fields
           G == v.fields
<1>1. \/ u.state = "afterPath" /\ AtAfterPath(raw, k - 1, m, F)
      \/ u.state = "search" /\ AtSearch(raw, k - 1, m, F)
  BY DEF At
<1>2. \/ u.state = "afterPath" /\ t = go("afterPath", SearchByte, {}, TRUE, "search")
      \/ u.state = "search" /\ t = stay("search", SearchByte)
  BY TransitionsFrom DEF Moved
<1>3. /\ raw[k] \in t.on /\ v.state = t.to /\ v.mark = IF t.marks THEN k ELSE m
      /\ Step(raw, k, m, F, G, t.ends)
  BY DEF Moved
<1> HIDE DEF m, F, G
<1>4. CASE u.state = "afterPath" /\ t = go("afterPath", SearchByte, {}, TRUE, "search")
  <2>1. t.ends = {} /\ t.marks /\ t.to = "search"
    BY <1>4 DEF go
  <2>2. AtSearch(raw, k, k, G)
    BY <1>1, <1>3, <1>4, <2>1, PathGoesOn
  <2> QED BY <1>3, <2>1, <2>2 DEF At, G
<1>5. CASE u.state = "search" /\ t = stay("search", SearchByte)
  <2>1. t.ends = {} /\ ~t.marks /\ t.to = "search"
    BY <1>5 DEF go, stay
  <2>2. AtSearch(raw, k, m, G)
    BY <1>1, <1>3, <1>5, <2>1, PathGoesOn
  <2> QED BY <1>3, <2>1, <2>2 DEF At, G
<1> QED BY <1>2, <1>4, <1>5

\* Whatever transition is taken, what is known at the state before it leads to what is known at
\* the state after it.
LEMMA MovedWell ==
    ASSUME NEW t, NEW u, NEW v, NEW raw, NEW k, Moved(t, u, v, raw, k), Good(raw, k - 1, u)
    PROVE  At(v.state, raw, k, v.mark, v.fields) /\ v.fields.scheme \in {http, https}
<1>1. /\ At(u.state, raw, k - 1, u.mark, u.fields)
      /\ u.state \notin {"start", "error"} => u.fields.scheme \in {http, https}
  BY DEF Good
<1>2. u.state # "error"
  BY TransitionsFrom DEF Moved
<1>3. CASE u.state = "start"
  BY <1>1, <1>3, MovedFromScheme
<1>4. CASE u.state # "start"
  <2>1. At(v.state, raw, k, v.mark, v.fields) /\ "scheme" \notin t.ends
    <3>1. CASE u.state = "userOrHost"
      BY <1>1, <3>1, MovedFromUserOrHost
    <3>2. CASE u.state = "user"
      BY <1>1, <3>2, MovedFromUser
    <3>3. CASE u.state \in {"afterUser", "afterColon"}
      BY <1>1, <3>3, MovedFromColon
    <3>4. CASE u.state = "password"
      BY <1>1, <3>4, MovedFromPassword
    <3>5. CASE u.state = "passwordOrPort"
      BY <1>1, <3>5, MovedFromPasswordOrPort
    <3>6. CASE u.state \in {"afterAt", "afterHost"}
      BY <1>1, <3>6, MovedFromSign
    <3>7. CASE u.state = "host"
      BY <1>1, <3>7, MovedFromHost
    <3>8. CASE u.state = "port"
      BY <1>1, <3>8, MovedFromPort
    <3>9. CASE u.state = "path"
      BY <1>1, <3>9, MovedFromPath
    <3>10. CASE u.state \in {"afterPath", "search"}
      BY <1>1, <3>10, MovedFromSearch
    <3>11. \/ u.state \in {"error", "start", "user", "userOrHost", "password", "passwordOrPort"}
           \/ u.state \in {"afterUser", "afterColon"} \/ u.state \in {"afterAt", "afterHost"}
           \/ u.state \in {"host", "port", "path"} \/ u.state \in {"afterPath", "search"}
      BY <1>1 DEF At
    <3> QED BY <1>2, <1>4, <3>1, <3>2, <3>3, <3>4, <3>5, <3>6, <3>7, <3>8, <3>9, <3>10, <3>11
  <2>2. v.fields.scheme = u.fields.scheme
    <3> DEFINE E == t.ends
    <3>1. Step(raw, k, u.mark, u.fields, v.fields, E)
      BY DEF Moved
    <3>2. "scheme" \notin E
      BY <2>1
    <3> HIDE DEF E
    <3> QED BY <3>1, <3>2 DEF Step, Value, Field
  <2> QED BY <1>1, <1>2, <1>4, <2>1, <2>2
<1> QED BY <1>3, <1>4

\* Place by place, from b to e.
LEMMA StepByStep ==
    ASSUME NEW b \in Nat, NEW e \in Nat, NEW P, b \in P,
           \A k \in (b + 1)..e : k - 1 \in P => k \in P
    PROVE  \A k \in b..e : k \in P
<1> DEFINE N == IF b <= e THEN (e - b) + 1 ELSE 0
           Q == {j \in 1..N : (b + j) - 1 \in P}
<1>1. N \in Nat
  OBVIOUS
<1>2. \A j \in 1..N : (\A i \in 1..(j - 1) : i \in Q) => j \in Q
  <2> SUFFICES ASSUME NEW j \in 1..N, \A i \in 1..(j - 1) : i \in Q
               PROVE  (b + j) - 1 \in P
    OBVIOUS
  <2>1. CASE j = 1
    <3>1. (b + j) - 1 = b
      BY <2>1
    <3> QED BY <3>1
  <2>2. CASE j # 1
    <3>1. /\ j - 1 \in 1..(j - 1) /\ (b + (j - 1)) - 1 = ((b + j) - 1) - 1
          /\ (b + j) - 1 \in (b + 1)..e
      BY <2>2
    <3>2. j - 1 \in Q
      BY <3>1
    <3>3. (b + (j - 1)) - 1 \in P
      BY <3>2
    <3> QED BY <3>1, <3>3
  <2> QED BY <2>1, <2>2
<1>3. \A j \in 1..N : j \in Q
  <2> HIDE DEF N, Q
  <2> QED BY <1>1, <1>2, UpTo
<1> SUFFICES ASSUME NEW k \in b..e
             PROVE  k \in P
  OBVIOUS
<1>4. (k - b) + 1 \in 1..N /\ (b + ((k - b) + 1)) - 1 = k
  OBVIOUS
<1>5. (k - b) + 1 \in Q
  <2> HIDE DEF N, Q
  <2> QED BY <1>3, <1>4
<1>6. (b + ((k - b) + 1)) - 1 \in P
  BY <1>5
<1> QED BY <1>4, <1>6

\* A transition of the table, taken at byte k, is such a move.
LEMMA MoveMade ==
    ASSUME NEW raw \in Text, NEW k \in 2..Len(raw), NEW u \in Reading, u.mark \in 1..(k - 1),
           NEW t \in Transitions, t.from = u.state, raw[k] \in t.on
    PROVE  /\ After(t, u, raw, k) \in Reading /\ After(t, u, raw, k).mark \in 1..k
           /\ Moved(t, u, After(t, u, raw, k), raw, k)
<1> DEFINE m == u.mark
           w == SubSeq(raw, m, k - 1)
           F == u.fields
           G == assign(u, raw, t.ends, k - 1)
           v == After(t, u, raw, k)
<1>1. F \in Fields
  BY DEF Reading
<1>2. w \in Text
  <2>1. Len(raw) \in Nat /\ m \in 1..(Len(raw) + 1) /\ k - 1 \in (m - 1)..Len(raw)
    BY NoText
  <2> QED BY <2>1, PartOfText
<1>3. G \in Fields /\ \A f \in Field : G[f] = Value(f, t.ends, raw, k, m, F)
  BY <1>1, <1>2 DEF assign, Fields, Value, word
<1>4. v.state = t.to /\ v.mark = (IF t.marks THEN k ELSE m) /\ v.fields = G
  BY DEF After
<1>5. t.to \in States
  BY DEF Transitions, go, stay, States
<1>6. (IF t.marks THEN k ELSE m) \in Nat /\ (IF t.marks THEN k ELSE m) \in 1..k
  OBVIOUS
<1>7. v \in Reading
  <2> HIDE DEF m, w, F, G
  <2>1. v = [state |-> t.to, mark |-> IF t.marks THEN k ELSE m, fields |-> G]
    BY DEF After, m, G
  <2> QED BY <1>3, <1>5, <1>6, <2>1 DEF Reading
<1>8. Step(raw, k, m, F, G, t.ends)
  BY <1>1, <1>3 DEF Step
<1> HIDE DEF m, w, F, G, v
<1>9. Moved(t, u, v, raw, k)
  BY <1>4, <1>8 DEF Moved, m, F
<1> QED BY <1>4, <1>6, <1>7, <1>9 DEF v

\* From an error there is no way on.
LEMMA ErrorStays ==
    ASSUME NEW u \in Reading, NEW raw, NEW k,
           \A t \in Transitions : ~(t.from = u.state /\ raw[k] \in t.on)
    PROVE  /\ read(u, raw, k) \in Reading /\ read(u, raw, k).state = "error"
           /\ read(u, raw, k).mark = u.mark /\ read(u, raw, k).fields = u.fields
<1>1. read(u, raw, k) = [u EXCEPT !.state = "error"]
  BY ReadFacts
<1>2. "error" \in States
  BY DEF States
<1> QED BY <1>1, <1>2 DEF Reading

\* No transition leaves the error state.
LEMMA NoneFromError == \A t \in Transitions : t.from # "error"
  BY TransitionsFrom

\* One byte more keeps what is known of the reading.
LEMMA GoodGoesOn ==
    ASSUME NEW raw \in Text, NEW k \in 2..Len(raw), NEW u, Good(raw, k - 1, u)
    PROVE  Good(raw, k, read(u, raw, k))
<1>1. u \in Reading /\ u.mark \in 1..(k - 1)
  BY DEF Good
<1>2. CASE \A t \in Transitions : ~(t.from = u.state /\ raw[k] \in t.on)
  <2> DEFINE v == read(u, raw, k)
  <2>1. v \in Reading /\ v.state = "error" /\ v.mark = u.mark
    BY <1>1, <1>2, ErrorStays
  <2>2. u.mark \in 1..k
    BY <1>1
  <2> HIDE DEF v
  <2>3. Good(raw, k, v)
    BY <2>1, <2>2 DEF Good, At
  <2> QED BY <2>3 DEF v
<1>3. ASSUME NEW t \in Transitions, t.from = u.state, raw[k] \in t.on,
             read(u, raw, k) = After(t, u, raw, k)
      PROVE  Good(raw, k, read(u, raw, k))
  <2> DEFINE v == After(t, u, raw, k)
  <2>1. v \in Reading /\ v.mark \in 1..k /\ Moved(t, u, v, raw, k)
    BY <1>1, <1>3, MoveMade
  <2> HIDE DEF v
  <2>2. At(v.state, raw, k, v.mark, v.fields) /\ v.fields.scheme \in {http, https}
    BY <2>1, MovedWell
  <2>3. Good(raw, k, v)
    BY <2>1, <2>2 DEF Good
  <2> QED BY <1>3, <2>3 DEF v
<1> QED BY <1>2, <1>3, ReadFacts

\* What the automaton has noted is true at every place.
LEMMA GoodEverywhere ==
    ASSUME NEW raw \in Text, schemeLength(raw) # 0, NEW a, IsReading(raw, a)
    PROVE  \A k \in schemeLength(raw)..Len(raw) : Good(raw, k, a[k])
<1> DEFINE n == schemeLength(raw)
           L == Len(raw)
           P == {k \in n..L : Good(raw, k, a[k])}
<1>1. n \in {7, 8} /\ n \in Nat /\ L \in Nat /\ n \in n..L
  BY SchemeFacts, NoText
<1>2. n \in P
  <2> DEFINE u == Begin(n)
  <2>1. u.state = "start" /\ u.mark = 1 /\ u.fields = [f \in Field |-> <<>>]
    BY <1>1 DEF Begin
  <2>2. u.fields \in Fields
    BY <2>1, NoText DEF Fields
  <2>3. u \in Reading
    <3>1. u = [state |-> "start", mark |-> 1, fields |-> u.fields] /\ "start" \in States
      BY <1>1, <2>1 DEF Begin, States
    <3> HIDE DEF u
    <3> QED BY <2>2, <3>1 DEF Reading
  <2>4. upto(raw, n) \in {http, https}
    BY SchemeFacts DEF upto
  <2>5. AtStart(raw, n, 1, u.fields)
    BY <2>1, <2>4 DEF AtStart
  <2>6. 1 \in 1..n
    BY <1>1
  <2> HIDE DEF u
  <2>7. Good(raw, n, u)
    BY <2>1, <2>3, <2>5, <2>6 DEF Good, At
  <2>8. a[n] = u
    BY DEF IsReading, u
  <2> QED BY <1>1, <2>7, <2>8
<1>3. \A k \in (n + 1)..L : k - 1 \in P => k \in P
  <2> SUFFICES ASSUME NEW k \in (n + 1)..L, Good(raw, k - 1, a[k - 1])
               PROVE  Good(raw, k, a[k])
    BY <1>1
  <2>1. k \in 2..Len(raw)
    BY <1>1
  <2>2. a[k] = read(a[k - 1], raw, k)
    BY DEF IsReading
  <2> QED BY <2>1, <2>2, GoodGoesOn
<1>4. \A k \in n..L : k \in P
  <2> HIDE DEF n, L, P
  <2> QED BY <1>1, <1>2, <1>3, StepByStep
<1> QED BY <1>4

\* Without a scheme no text is accepted.
LEMMA SchemeNeeded ==
    ASSUME NEW raw \in Text, schemeLength(raw) = 0, NEW a, IsReading(raw, a)
    PROVE  a[Len(raw)].state = "error"
<1> DEFINE L == Len(raw)
           P == {k \in 0..L : a[k] \in Reading /\ a[k].state = "error"}
<1>1. L \in Nat
  BY NoText
<1>2. 0 \in P
  <2>1. [f \in Field |-> <<>>] \in Fields
    BY NoText DEF Fields
  <2>2. a[0] = [state |-> "error", mark |-> 1, fields |-> [f \in Field |-> <<>>]]
    BY DEF IsReading, Begin
  <2>3. a[0] \in Reading /\ a[0].state = "error"
    <3> DEFINE F == [f \in Field |-> <<>>]
    <3>1. F \in Fields /\ "error" \in States
      BY <2>1 DEF States
    <3>2. a[0] = [state |-> "error", mark |-> 1, fields |-> F]
      BY <2>2
    <3> HIDE DEF F
    <3> QED BY <3>1, <3>2 DEF Reading
  <2> QED BY <1>1, <2>3
<1>3. \A k \in (0 + 1)..L : k - 1 \in P => k \in P
  <2> SUFFICES ASSUME NEW k \in 1..L, a[k - 1] \in Reading, a[k - 1].state = "error"
               PROVE  a[k] \in Reading /\ a[k].state = "error"
    BY <1>1
  <2>1. a[k] = read(a[k - 1], raw, k)
    BY DEF IsReading
  <2> QED BY <2>1, NoneFromError, ErrorStays
<1>4. \A k \in 0..L : k \in P
  <2> HIDE DEF L, P
  <2> QED BY <1>1, <1>2, <1>3, StepByStep
<1>5. L \in 0..L
  BY <1>1
<1> QED BY <1>4, <1>5

-----------------------------------------------------------------------------
(* At the end of the text                                                  *)

rest(raw, m) == SubSeq(raw, m, Len(raw))

\* What is behind the scheme, or behind the user.
site(f) == ((f.host \o optional(colonText, f.port)) \o f.path) \o optional(questionText, f.search)

\* F becomes f as the text ends: what is left of it is the value of field e.
Ended(raw, m, F, f, e) ==
    /\ raw \in Text /\ m \in 1..Len(raw) /\ F \in Fields /\ f \in Fields /\ e \in Field
    /\ f[e] = rest(raw, m) /\ \A g \in Field : g # e => f[g] = F[g]

\* The last field is all that was read since the mark.
LEMMA EndFacts ==
    ASSUME NEW raw, NEW m, NEW F, NEW f, NEW e, Ended(raw, m, F, f, e)
    PROVE  /\ rest(raw, m) \in Text /\ rest(raw, m) # <<>> /\ begins(rest(raw, m), raw[m])
           /\ upto(raw, m - 1) \in Text /\ raw = upto(raw, m - 1) \o rest(raw, m)
           /\ \A B : Bytes(raw, m, Len(raw), B) => Range(rest(raw, m)) \subseteq B
<1> DEFINE h == Len(raw)
<1>1. raw \in Text /\ h \in 1..Len(raw) /\ m \in 1..h
  BY NoText DEF Ended
<1>2. upto(raw, h) = raw
  BY <1>1, SubSeqFull DEF upto, Text
<1>3. rest(raw, m) = SubSeq(raw, m, h)
  BY DEF rest
<1>4. /\ SubSeq(raw, m, h) \in Text /\ SubSeq(raw, m, h) # <<>>
      /\ SubSeq(raw, m, h)[1] = raw[m]
      /\ upto(raw, m - 1) \in Text
      /\ upto(raw, h) = upto(raw, m - 1) \o SubSeq(raw, m, h)
      /\ \A B : Bytes(raw, m, h, B) => Range(SubSeq(raw, m, h)) \subseteq B
  <2> HIDE DEF h
  <2> QED BY <1>1, Word
<1> QED BY <1>2, <1>3, <1>4 DEF begins

\* A text is made of its fields when what stands before the host is one of its possible starts.
LEMMA MadeFrom ==
    ASSUME NEW raw, NEW f \in Fields, NEW S \in Starts(f), raw = S \o site(f),
           f.scheme \in {http, https}, Range(f.host) \subseteq HostByte,
           Range(f.port) \subseteq Digit, f.path = <<>> \/ f.path[1] = Slash,
           Range(f.path) \subseteq PathByte
    PROVE  Made(raw, f)
<1>1. f.path = <<>> \/ Head(f.path) = Slash
  BY FieldsAreTexts DEF Text
<1>2. QUESTION \cap Range(f.path) = {}
  <2>1. 63 \notin PathByte
    BY DEF PathByte, Letter
  <2> QED BY <2>1 DEF QUESTION
<1> DEFINE opt(sep, s) == IF s = <<>> THEN <<>> ELSE sep \o s
           place == f.host \o opt(<<58>>, f.port) \o f.path \o opt(<<63>>, f.search)
<1>3. place = site(f)
  BY Zenon DEF site, optional, colonText, questionText
<1>4. beforeHost(f) = f.scheme \o f.user \o opt(<<58>>, f.password) \o <<64>>
  BY Zenon DEF beforeHost, optional, colonText, atText
<1>5. \/ raw = f.scheme \o place
      \/ raw = f.scheme \o f.user \o opt(<<58>>, f.password) \o <<64>> \o place
  <2>1. S = f.scheme \/ S = beforeHost(f)
    BY DEF Starts
  <2> HIDE DEF opt, place
  <2>2. CASE S = f.scheme
    BY <1>3, <2>2
  <2>3. CASE S = beforeHost(f)
    BY <1>3, <1>4, <2>3
  <2> QED BY <2>1, <2>2, <2>3
<1>6. Made(raw, f) <=>
         /\ \/ raw = f.scheme \o place
            \/ raw = f.scheme \o f.user \o opt(<<58>>, f.password) \o <<64>> \o place
         /\ f.scheme \in {http, https}
         /\ Range(f.host) \subseteq HostByte /\ Range(f.port) \subseteq Digit
         /\ f.path = <<>> \/ Head(f.path) = Slash
         /\ QUESTION \cap Range(f.path) = {}
  BY Zenon DEF Made
<1> HIDE DEF opt, place
<1> QED BY <1>1, <1>2, <1>5, <1>6

\* A site without a path and a search, and one without a search.
LEMMA PlainSite ==
    ASSUME NEW f \in Fields, f.search = <<>>
    PROVE  /\ site(f) = (f.host \o optional(colonText, f.port)) \o f.path
           /\ f.host \o optional(colonText, f.port) \in Text
           /\ f.path = <<>> => site(f) = f.host \o optional(colonText, f.port)
           /\ f.path = <<>> /\ f.port = <<>> => site(f) = f.host
<1> DEFINE x == f.host \o optional(colonText, f.port)
<1>1. f.host \in Text /\ f.port \in Text /\ f.path \in Text
  BY FieldsAreTexts
<1>2. optional(colonText, f.port) \in Text
  <2>1. colonText \o f.port \in Text
    BY <1>1, Separators, Joined
  <2> QED BY <2>1, NoText DEF optional
<1>3. x \in Text
  BY <1>1, <1>2, Joined
<1>4. optional(questionText, f.search) = <<>>
  BY Separators
<1>5. f.port = <<>> => x = f.host
  <2>1. f.port = <<>> => optional(colonText, f.port) = <<>>
    BY Separators
  <2> QED BY <1>1, <2>1, NoText
<1> HIDE DEF x
<1>6. x \o f.path \in Text
  BY <1>1, <1>3, Joined
<1>7. site(f) = (x \o f.path) \o <<>>
  BY <1>4 DEF site, x
<1>8. site(f) = x \o f.path
  BY <1>6, <1>7, NoText
<1>9. f.path = <<>> => site(f) = x
  BY <1>3, <1>8, NoText
<1> QED BY <1>3, <1>5, <1>8, <1>9 DEF x

\* A text that ends in its host is made of its fields.
LEMMA EndOfHost ==
    ASSUME NEW raw, NEW m, NEW F, NEW f, Ended(raw, m, F, f, "host"),
           F.scheme \in {http, https},
           \/ AtUserOrHost(raw, Len(raw), m, F)
           \/ AtHost(raw, Len(raw), m, F)
    PROVE  Made(raw, f)
<1> DEFINE w == rest(raw, m)
           S == upto(raw, m - 1)
<1>1. /\ f.scheme = F.scheme /\ f.user = F.user /\ f.password = F.password /\ f.host = w
      /\ f.port = F.port /\ f.path = F.path /\ f.search = F.search /\ f \in Fields
  BY DEF Ended, Field
<1>2. /\ F.port = <<>> /\ F.path = <<>> /\ F.search = <<>>
      /\ Bytes(raw, m, Len(raw), HostByte) /\ S \in Starts(F)
  BY DEF AtUserOrHost, AtUser, AtHost, Starts
<1>3. raw = S \o w /\ Range(w) \subseteq HostByte
  BY <1>2, EndFacts
<1>4. Starts(f) = Starts(F)
  BY <1>1 DEF Starts, beforeHost
<1> HIDE DEF w, S
<1>5. site(f) = w
  BY <1>1, <1>2, PlainSite
<1>6. Range(f.port) \subseteq Digit /\ Range(f.path) \subseteq PathByte
  BY <1>1, <1>2 DEF Range
<1> QED BY <1>1, <1>2, <1>3, <1>4, <1>5, <1>6, MadeFrom

\* So is one that ends in its port.
LEMMA EndOfPort ==
    ASSUME NEW raw, NEW m, NEW F, NEW f, Ended(raw, m, F, f, "port"),
           F.scheme \in {http, https},
           \/ AtPasswordOrPort(raw, Len(raw), m, F)
           \/ AtPort(raw, Len(raw), m, F)
    PROVE  Made(raw, f)
<1> DEFINE w == rest(raw, m)
<1>1. /\ f.scheme = F.scheme /\ f.user = F.user /\ f.password = F.password /\ f.host = F.host
      /\ f.port = w /\ f.path = F.path /\ f.search = F.search /\ f \in Fields
  BY DEF Ended, Field
<1>2. /\ F.path = <<>> /\ F.search = <<>> /\ Range(F.host) \subseteq HostByte
      /\ Bytes(raw, m, Len(raw), Digit)
      /\ \/ upto(raw, m - 1) = beforePort(F.scheme, F)
         \/ upto(raw, m - 1) = beforePort(beforeHost(F), F)
  BY DEF AtPasswordOrPort, AtPassword, AtPort, beforePassword, beforePort
<1>3. /\ raw = upto(raw, m - 1) \o w /\ w \in Text /\ w # <<>>
      /\ Range(w) \subseteq Digit
  BY <1>2, EndFacts
<1>4. Starts(f) = Starts(F)
  BY <1>1 DEF Starts, beforeHost
<1>5. PICK S \in Starts(F) : upto(raw, m - 1) = beforePort(S, F)
  BY <1>2 DEF Starts
<1>6. S \in Text /\ f.host \in Text
  BY <1>1, <1>4, <1>5, FieldsAreTexts, BeforeHostIsText DEF Starts
<1> HIDE DEF w
<1>7. raw = portLast(S, f.host, w)
  BY <1>1, <1>3, <1>5 DEF beforePort, portLast
<1>8. portLast(S, f.host, w) = portFirst(S, f.host, w)
  BY <1>3, <1>6, PortJoined
<1>9. optional(colonText, f.port) = colonText \o w
  BY <1>1, <1>3, Separators
<1>10. site(f) = f.host \o (colonText \o w)
  BY <1>1, <1>2, <1>9, PlainSite
<1>11. raw = S \o site(f)
  BY <1>7, <1>8, <1>10 DEF portFirst
<1>12. Range(f.path) \subseteq PathByte /\ Range(f.port) \subseteq Digit
       /\ Range(f.host) \subseteq HostByte
  BY <1>1, <1>2, <1>3 DEF Range
<1> QED BY <1>1, <1>2, <1>4, <1>5, <1>11, <1>12, MadeFrom

\* So is one that ends in its path.
LEMMA EndOfPath ==
    ASSUME NEW raw, NEW m, NEW F, NEW f, Ended(raw, m, F, f, "path"),
           F.scheme \in {http, https}, AtPath(raw, Len(raw), m, F)
    PROVE  Made(raw, f)
<1> DEFINE w == rest(raw, m)
           x == f.host \o optional(colonText, f.port)
<1>1. /\ f.scheme = F.scheme /\ f.user = F.user /\ f.password = F.password /\ f.host = F.host
      /\ f.port = F.port /\ f.path = w /\ f.search = F.search /\ f \in Fields
  BY DEF Ended, Field
<1>2. PICK S \in Starts(F) : upto(raw, m - 1) = beforePath(S, F)
  BY DEF AtPath
<1>3. /\ F.search = <<>> /\ Range(F.host) \subseteq HostByte /\ Range(F.port) \subseteq Digit
      /\ raw[m] = Slash /\ Bytes(raw, m, Len(raw), PathByte)
  BY DEF AtPath
<1>4. /\ raw = upto(raw, m - 1) \o w /\ w \in Text /\ begins(w, raw[m])
      /\ Range(w) \subseteq PathByte
  BY <1>3, EndFacts
<1>5. Starts(f) = Starts(F)
  BY <1>1 DEF Starts, beforeHost
<1>6. S \in Text
  BY <1>1, <1>2, <1>5, FieldsAreTexts, BeforeHostIsText DEF Starts
<1>7. x \in Text /\ site(f) = x \o f.path
  BY <1>1, <1>3, PlainSite
<1> HIDE DEF w
<1>8. upto(raw, m - 1) = S \o x
  BY <1>1, <1>2 DEF beforePath
<1> HIDE DEF x
<1>9. leftFirst(S, x, w) = rightFirst(S, x, w)
  BY <1>4, <1>6, <1>7, Associative
<1>10. raw = S \o (x \o w)
  BY <1>4, <1>8, <1>9 DEF leftFirst, rightFirst
<1>11. raw = S \o site(f)
  BY <1>1, <1>7, <1>10
<1>12. w[1] = Slash
  BY <1>3, <1>4 DEF begins
<1>13. Range(f.path) \subseteq PathByte /\ Range(f.port) \subseteq Digit
       /\ Range(f.host) \subseteq HostByte
  BY <1>1, <1>3, <1>4
<1> QED BY <1>1, <1>2, <1>5, <1>11, <1>12, <1>13, MadeFrom

\* So is one that ends in its search.
LEMMA EndOfSearch ==
    ASSUME NEW raw, NEW m, NEW F, NEW f, Ended(raw, m, F, f, "search"),
           F.scheme \in {http, https}, AtSearch(raw, Len(raw), m, F)
    PROVE  Made(raw, f)
<1> DEFINE w == rest(raw, m)
           x == f.host \o optional(colonText, f.port)
           y == questionText \o w
           z == x \o f.path
<1>1. /\ f.scheme = F.scheme /\ f.user = F.user /\ f.password = F.password /\ f.host = F.host
      /\ f.port = F.port /\ f.path = F.path /\ f.search = w /\ f \in Fields /\ F \in Fields
  BY DEF Ended, Field
<1>2. PICK S \in Starts(F) : upto(raw, m - 1) = beforeSearch(S, F)
  BY DEF AtSearch
<1>3. /\ F.search = <<>> /\ Range(F.host) \subseteq HostByte /\ Range(F.port) \subseteq Digit
      /\ F.path[1] = Slash /\ Range(F.path) \subseteq PathByte
  BY DEF AtSearch
<1>4. /\ raw = upto(raw, m - 1) \o w /\ w \in Text /\ w # <<>>
  BY EndFacts
<1>5. Starts(f) = Starts(F)
  BY <1>1 DEF Starts, beforeHost
<1>6. S \in Text /\ f.path \in Text /\ questionText \in Text
  BY <1>1, <1>2, <1>5, FieldsAreTexts, BeforeHostIsText, Separators DEF Starts
<1>7. x \in Text
  BY <1>1, <1>3, PlainSite
<1>8. y \in Text
  BY <1>4, <1>6, Joined
<1> HIDE DEF w
<1>9. upto(raw, m - 1) = ((S \o x) \o f.path) \o questionText
  BY <1>1, <1>2 DEF beforeSearch, beforePath
<1>10. optional(questionText, f.search) = y
  BY <1>1, <1>4, Separators
<1>11. site(f) = z \o y
  BY <1>10 DEF site
<1> HIDE DEF x
<1>12. z \in Text /\ S \o z \in Text
  BY <1>6, <1>7, Joined
<1>13. leftFirst(S, x, f.path) = rightFirst(S, x, f.path)
  BY <1>6, <1>7, Associative
<1>14. (S \o x) \o f.path = S \o z
  BY <1>13 DEF leftFirst, rightFirst
<1> HIDE DEF z
<1>15. leftFirst(S \o z, questionText, w) = rightFirst(S \o z, questionText, w)
  BY <1>4, <1>6, <1>12, Associative
<1>16. raw = (S \o z) \o y
  BY <1>4, <1>9, <1>14, <1>15 DEF leftFirst, rightFirst
<1> HIDE DEF y
<1>17. leftFirst(S, z, y) = rightFirst(S, z, y)
  BY <1>6, <1>8, <1>12, Associative
<1>18. raw = S \o site(f)
  BY <1>11, <1>16, <1>17 DEF leftFirst, rightFirst
<1>19. Range(f.path) \subseteq PathByte /\ Range(f.port) \subseteq Digit
       /\ Range(f.host) \subseteq HostByte /\ f.path[1] = Slash
  BY <1>1, <1>3
<1> QED BY <1>1, <1>2, <1>5, <1>18, <1>19, MadeFrom

\* Texts without a scheme are not read, and what is noted at the end is true.
LEMMA AtTheEnd ==
    ASSUME NEW raw \in Text, parses(raw)
    PROVE  /\ schemeLength(raw) # 0 /\ Good(raw, Len(raw), run(raw))
           /\ run(raw).state \in DOMAIN AtEnd
<1>1. PICK a : IsReading(raw, a) /\ run(raw) = a[Len(raw)]
  BY ReadingFacts
<1>2. run(raw).state \in DOMAIN AtEnd
  BY DEF parses
<1>3. run(raw).state # "error"
  BY <1>2 DEF AtEnd
<1>4. schemeLength(raw) # 0
  BY <1>1, <1>3, SchemeNeeded
<1>5. Len(raw) \in schemeLength(raw)..Len(raw)
  BY SchemeFacts, NoText
<1>6. Good(raw, Len(raw), a[Len(raw)])
  BY <1>1, <1>4, <1>5, GoodEverywhere
<1> QED BY <1>1, <1>2, <1>4, <1>6

\* What parse does at the end of the text.
LEMMA EndMade ==
    ASSUME NEW raw \in Text, parses(raw), NEW e \in Field,
           AtEnd[run(raw).state] = {e}
    PROVE  Ended(raw, run(raw).mark, run(raw).fields, parse(raw), e)
<1> DEFINE u == run(raw)
           m == u.mark
           F == u.fields
           E == AtEnd[u.state]
           f == parse(raw)
<1>1. u \in Reading /\ m \in 1..Len(raw) /\ F \in Fields
  BY AtTheEnd DEF Good, Reading
<1>2. f = assign(u, raw, E, Len(raw))
  BY DEF parse
<1>3. f = [g \in Field |-> IF g \in E THEN rest(raw, m) ELSE F[g]]
  BY <1>2 DEF assign, rest
<1>4. \A g \in Field : g \in E <=> g = e
  OBVIOUS
<1>5. rest(raw, m) \in Text
  <2>1. Len(raw) \in Nat /\ m \in 1..(Len(raw) + 1) /\ Len(raw) \in (m - 1)..Len(raw)
    BY <1>1, NoText
  <2> QED BY <2>1, PartOfText DEF rest
<1> HIDE DEF u, m, F, E, f
<1>6. f \in Fields /\ f[e] = rest(raw, m) /\ \A g \in Field : g # e => f[g] = F[g]
  BY <1>1, <1>3, <1>4, <1>5 DEF Fields
<1>7. Ended(raw, m, F, f, e)
  BY <1>1, <1>6 DEF Ended
<1> QED BY <1>7 DEF u, m, F, f

\* URL::parse reads a text as url.rl says it is made up: the parts that it finds, with
\* the separators between them, are the text, whichever text it accepts; but for one
\* that ends in its question mark, which it does not give back.
THEOREM ReadAsMade ==
    \A raw \in Text : parses(raw) /\ run(raw).state # "afterPath" => Made(raw, parse(raw))
<1> SUFFICES ASSUME NEW raw \in Text, parses(raw), run(raw).state # "afterPath"
             PROVE  Made(raw, parse(raw))
  OBVIOUS
<1> DEFINE u == run(raw)
           m == u.mark
           F == u.fields
           f == parse(raw)
<1>1. /\ At(u.state, raw, Len(raw), m, F)
      /\ u.state \notin {"start", "error"} => F.scheme \in {http, https}
  BY AtTheEnd DEF Good
<1>2. u.state \in {"userOrHost", "host", "passwordOrPort", "port", "path", "search"}
  BY AtTheEnd DEF AtEnd
<1>3. F.scheme \in {http, https}
  BY <1>1, <1>2
<1>4. \A e \in Field : AtEnd[run(raw).state] = {e} => Ended(raw, m, F, f, e)
  BY EndMade
<1>5. u.state = run(raw).state
  OBVIOUS
<1> HIDE DEF u, m, F, f
<1>6. CASE u.state \in {"userOrHost", "host"}
  <2>1. AtEnd[u.state] = {"host"} /\ "host" \in Field
    BY <1>6 DEF AtEnd, Field
  <2>2. Ended(raw, m, F, f, "host")
    BY <1>4, <1>5, <2>1
  <2>3. AtUserOrHost(raw, Len(raw), m, F) \/ AtHost(raw, Len(raw), m, F)
    BY <1>1, <1>6 DEF At
  <2> QED BY <1>3, <2>2, <2>3, EndOfHost DEF f
<1>7. CASE u.state \in {"passwordOrPort", "port"}
  <2>1. AtEnd[u.state] = {"port"} /\ "port" \in Field
    BY <1>7 DEF AtEnd, Field
  <2>2. Ended(raw, m, F, f, "port")
    BY <1>4, <1>5, <2>1
  <2>3. AtPasswordOrPort(raw, Len(raw), m, F) \/ AtPort(raw, Len(raw), m, F)
    BY <1>1, <1>7 DEF At
  <2> QED BY <1>3, <2>2, <2>3, EndOfPort DEF f
<1>8. CASE u.state = "path"
  <2>1. AtEnd[u.state] = {"path"} /\ "path" \in Field
    BY <1>8 DEF AtEnd, Field
  <2>2. Ended(raw, m, F, f, "path")
    BY <1>4, <1>5, <2>1
  <2>3. AtPath(raw, Len(raw), m, F)
    BY <1>1, <1>8 DEF At
  <2> QED BY <1>3, <2>2, <2>3, EndOfPath DEF f
<1>9. CASE u.state = "search"
  <2>1. AtEnd[u.state] = {"search"} /\ "search" \in Field
    BY <1>9 DEF AtEnd, Field
  <2>2. Ended(raw, m, F, f, "search")
    BY <1>4, <1>5, <2>1
  <2>3. AtSearch(raw, Len(raw), m, F)
    BY <1>1, <1>9 DEF At
  <2> QED BY <1>3, <2>2, <2>3, EndOfSearch DEF f
<1> QED BY <1>2, <1>6, <1>7, <1>8, <1>9

\* Only a question mark at its end keeps a text from being read as it is made up.
LEMMA QuestionLast ==
    ASSUME NEW raw \in Text, parses(raw), run(raw).state = "afterPath"
    PROVE  raw[Len(raw)] = 63
<1> DEFINE n == schemeLength(raw)
           L == Len(raw)
<1>1. PICK a : IsReading(raw, a) /\ run(raw) = a[L]
  BY ReadingFacts
<1>2. n # 0 /\ n \in 0..L /\ n \in {7, 8} /\ L \in Nat
  BY AtTheEnd, SchemeFacts, NoText
<1>3. L # n
  <2>1. a[n].state = "start"
    BY <1>1, <1>2 DEF IsReading, Begin
  <2> QED BY <1>1, <2>1
<1>4. L \in (n + 1)..L /\ L - 1 \in n..L
  BY <1>2, <1>3
<1>5. a[L] = read(a[L - 1], raw, L)
  BY <1>1, <1>4 DEF IsReading
<1>6. a[L - 1] \in Reading
  BY <1>1, <1>2, <1>4, GoodEverywhere DEF Good
<1> HIDE DEF L, n
<1>7. PICK t \in Transitions : raw[L] \in t.on /\ a[L] = After(t, a[L - 1], raw, L)
  <2>1. a[L].state # "error"
    BY <1>1
  <2> QED BY <1>5, <1>6, <2>1, ReadFacts, ErrorStays
<1>8. t.to = "afterPath"
  BY <1>1, <1>7 DEF After
<1>9. t.on = {63}
  <2>1. \A s \in Transitions : s.to = "afterPath" => s.on = QUESTION
    BY DEF Transitions, go, stay
  <2> QED BY <1>8, <2>1 DEF QUESTION
<1> QED BY <1>7, <1>9 DEF L

-----------------------------------------------------------------------------
(* A text that goes on                                                     *)

\* x and what it goes on with.
LEMMA StartOfJoined ==
    ASSUME NEW x \in Text, NEW z \in Text
    PROVE  /\ x \o z \in Text /\ Len(x \o z) = Len(x) + Len(z)
           /\ Len(x) \in Nat /\ Len(z) \in Nat
           /\ \A k \in 1..Len(x) : (x \o z)[k] = x[k]
           /\ \A k \in 1..Len(z) : (x \o z)[Len(x) + k] = z[k]
<1>1. /\ Len(x) \in Nat /\ Len(z) \in Nat
      /\ x \o z \in Text /\ Len(x \o z) = Len(x) + Len(z)
      /\ \A i \in 1..(Len(x) + Len(z)) :
            (x \o z)[i] = IF i <= Len(x) THEN x[i] ELSE z[i - Len(x)]
  BY JoinedText
<1> DEFINE raw == x \o z
           l == Len(x)
           h == Len(z)
<1> HIDE DEF raw, l, h
<1>2. /\ l \in Nat /\ h \in Nat
      /\ \A i \in 1..(l + h) : raw[i] = IF i <= l THEN x[i] ELSE z[i - l]
  BY <1>1 DEF raw, l, h
<1>3. \A k \in 1..l : raw[k] = x[k]
  BY <1>2
<1>4. \A k \in 1..h : l + k \in 1..(l + h) /\ ~(l + k <= l) /\ (l + k) - l = k
  BY <1>2
<1>5. \A k \in 1..h : raw[l + k] = z[k]
  BY <1>2, <1>4
<1> QED BY <1>1, <1>3, <1>5 DEF raw, l, h

\* A part that lies within x is the same in any text that begins with x.
LEMMA SamePart ==
    ASSUME NEW x \in Text, NEW z \in Text, NEW h \in 0..Len(x), NEW m \in 1..(h + 1)
    PROVE  SubSeq(x \o z, m, h) = SubSeq(x, m, h)
<1> DEFINE raw == x \o z
           p == SubSeq(raw, m, h)
           q == SubSeq(x, m, h)
           l == h - m + 1
<1>1. /\ raw \in Text /\ Len(raw) = Len(x) + Len(z) /\ Len(x) \in Nat /\ Len(z) \in Nat
      /\ \A k \in 1..Len(x) : raw[k] = x[k]
  BY StartOfJoined
<1>2. /\ m \in 1..(Len(x) + 1) /\ h \in (m - 1)..Len(x)
      /\ m \in 1..(Len(raw) + 1) /\ h \in (m - 1)..Len(raw)
  <2> HIDE DEF raw
  <2> QED BY <1>1
<1> HIDE DEF raw
<1>3. p \in Text /\ Len(p) = l /\ \A i \in 1..l : p[i] = raw[m + i - 1]
  BY <1>1, <1>2, PartOfText
<1>4. q \in Text /\ Len(q) = l /\ \A i \in 1..l : q[i] = x[m + i - 1]
  BY <1>2, PartOfText
<1>5. \A i \in 1..l : m + i - 1 \in 1..Len(x)
  BY <1>1, <1>2
<1> HIDE DEF p, q, l
<1>6. \A i \in 1..l : p[i] = q[i]
  BY <1>1, <1>3, <1>4, <1>5
<1>7. p = q
  BY <1>3, <1>4, <1>6, SeqEqual DEF Text
<1> QED BY <1>7 DEF raw, p, q

\* So is the scheme.
LEMMA SameScheme ==
    ASSUME NEW x \in Text, NEW z \in Text, schemeLength(x) # 0
    PROVE  schemeLength(x \o z) = schemeLength(x)
<1> DEFINE raw == x \o z
           n == schemeLength(x)
<1>1. http \in Text /\ Len(http) = 7 /\ http[5] = 58 /\ SubSeq(http, 1, 7) = http
  <2>1. http \in Text /\ Len(http) = 7 /\ http[5] = 58
    BY DEF http, Text, Byte
  <2> QED BY <2>1, SubSeqFull DEF Text
<1>2. https \in Text /\ Len(https) = 8 /\ https[5] = 115
  BY DEF https, Text, Byte
<1>3. n \in {7, 8} /\ n \in 0..Len(x) /\ SubSeq(x, 1, n) \in {http, https}
  BY SchemeFacts
<1>4. /\ Len(SubSeq(x, 1, n)) = n /\ \A i \in 1..n : SubSeq(x, 1, n)[i] = x[i]
  BY <1>3, PartsOfText
<1>5. /\ raw \in Text /\ Len(raw) = Len(x) + Len(z) /\ Len(x) \in Nat /\ Len(z) \in Nat
      /\ \A k \in 1..Len(x) : raw[k] = x[k]
  BY StartOfJoined
<1>6. SubSeq(raw, 1, n) = SubSeq(x, 1, n)
  <2>1. n \in 0..Len(x) /\ 1 \in 1..(n + 1)
    BY <1>3
  <2> QED BY <2>1, SamePart
<1> HIDE DEF raw, n
<1>7. CASE n = 7
  <2>1. SubSeq(x, 1, n) = http
    <3> DEFINE q == SubSeq(x, 1, n)
    <3>1. q \in {http, https} /\ Len(q) = n
      BY <1>3, <1>4
    <3> HIDE DEF q
    <3>2. q = http
      BY <1>2, <1>7, <3>1
    <3> QED BY <3>2 DEF q
  <2>2. IsPrefix(http, raw)
    BY <1>1, <1>3, <1>5, <1>6, <1>7, <2>1 DEF IsPrefix
  <2> QED BY <1>1, <1>7, <2>2 DEF schemeLength, raw, n
<1>8. CASE n = 8
  <2>1. SubSeq(x, 1, n) = https
    <3> DEFINE q == SubSeq(x, 1, n)
    <3>1. q \in {http, https} /\ Len(q) = n
      BY <1>3, <1>4
    <3> HIDE DEF q
    <3>2. q = https
      BY <1>1, <1>8, <3>1
    <3> QED BY <3>2 DEF q
  <2>2. IsPrefix(https, raw)
    BY <1>2, <1>3, <1>5, <1>6, <1>8, <2>1 DEF IsPrefix
  <2>3. raw[5] = 115
    <3>1. 5 \in 1..n /\ 5 \in 1..Len(x)
      BY <1>3, <1>8
    <3>2. x[5] = https[5]
      BY <1>4, <2>1, <3>1
    <3> QED BY <1>2, <1>5, <3>1, <3>2
  <2>4. ~IsPrefix(http, raw)
    <3> SUFFICES ASSUME IsPrefix(http, raw)
                 PROVE  FALSE
      OBVIOUS
    <3>1. http = SubSeq(raw, 1, 7) /\ 7 <= Len(raw)
      BY <1>1 DEF IsPrefix
    <3>2. 7 \in 0..Len(raw) /\ 5 \in 1..7
      BY <1>5, <3>1
    <3>3. \A i \in 1..7 : SubSeq(raw, 1, 7)[i] = raw[i]
      BY <1>5, <3>2, PartsOfText
    <3>4. http[5] = raw[5]
      BY <3>1, <3>2, <3>3
    <3> QED BY <1>1, <2>3, <3>4
  <2> QED BY <1>2, <1>8, <2>2, <2>4 DEF schemeLength, raw, n
<1> QED BY <1>3, <1>7, <1>8

\* A byte is read in the same way, whatever comes after it.
LEMMA SameRead ==
    ASSUME NEW x \in Text, NEW z \in Text, NEW k \in 2..Len(x), NEW u, u.mark \in 1..(k - 1)
    PROVE  read(u, x \o z, k) = read(u, x, k)
<1> DEFINE raw == x \o z
<1>1. raw[k] = x[k]
  <2>1. k \in 1..Len(x)
    OBVIOUS
  <2> QED BY <2>1, StartOfJoined
<1>2. SubSeq(raw, u.mark, k - 1) = SubSeq(x, u.mark, k - 1)
  <2> DEFINE h == k - 1
             m == u.mark
  <2>1. h \in 0..Len(x) /\ m \in 1..(h + 1)
    BY NoText
  <2> HIDE DEF h, m
  <2>2. SubSeq(x \o z, m, h) = SubSeq(x, m, h)
    BY <2>1, SamePart
  <2> QED BY <2>2 DEF h, m
<1> HIDE DEF raw
<1>3. \A E : assign(u, raw, E, k - 1) = assign(u, x, E, k - 1)
  BY <1>2 DEF assign
<1>4. read(u, raw, k) = read(u, x, k)
  BY <1>1, <1>3, Zenon DEF read
<1> QED BY <1>4 DEF raw

\* So is the whole reading, up to the end of x.
LEMMA SameReading ==
    ASSUME NEW x \in Text, NEW z \in Text, schemeLength(x) # 0, NEW a, IsReading(x \o z, a)
    PROVE  IsReading(x, a)
<1> DEFINE raw == x \o z
           n == schemeLength(x)
<1>1. schemeLength(raw) = n /\ n \in {7, 8} /\ n \in 0..Len(x)
  BY SameScheme, SchemeFacts
<1>2. raw \in Text /\ Len(raw) = Len(x) + Len(z) /\ Len(x) \in Nat /\ Len(z) \in Nat
  BY StartOfJoined
<1> HIDE DEF raw, n
<1>3. a[n] = Begin(n)
  BY <1>1 DEF IsReading, raw
<1>4. ASSUME NEW k \in (n + 1)..Len(x)
      PROVE  a[k] = read(a[k - 1], x, k)
  <2>1. /\ k \in 2..Len(x) /\ k \in (n + 1)..Len(raw)
        /\ k - 1 \in n..Len(raw)
    BY <1>1, <1>2
  <2>2. a[k] = read(a[k - 1], raw, k)
    BY <1>1, <2>1 DEF IsReading, raw
  <2>3. Good(raw, k - 1, a[k - 1])
    <3>1. schemeLength(raw) # 0 /\ IsReading(raw, a)
      BY <1>1 DEF raw
    <3>2. k - 1 \in schemeLength(raw)..Len(raw)
      BY <1>1, <2>1
    <3>3. \A i \in schemeLength(raw)..Len(raw) : Good(raw, i, a[i])
      BY <1>2, <3>1, GoodEverywhere
    <3> QED BY <3>2, <3>3
  <2>4. a[k - 1].mark \in 1..(k - 1)
    BY <2>3 DEF Good
  <2>5. read(a[k - 1], x \o z, k) = read(a[k - 1], x, k)
    BY <2>1, <2>4, SameRead
  <2> QED BY <2>2, <2>5 DEF raw
<1> QED BY <1>3, <1>4 DEF IsReading, n

\* There is one reading.
LEMMA ReadingEnds ==
    ASSUME NEW raw \in Text, NEW a, IsReading(raw, a)
    PROVE  run(raw) = a[Len(raw)]
<1> DEFINE n == schemeLength(raw)
           L == Len(raw)
<1>1. PICK b : IsReading(raw, b) /\ run(raw) = b[L]
  BY ReadingFacts
<1> DEFINE P == {k \in n..L : a[k] = b[k]}
<1>2. n \in Nat /\ L \in Nat /\ n \in n..L /\ L \in n..L
  BY SchemeFacts, NoText
<1>3. n \in P
  BY <1>1, <1>2 DEF IsReading
<1>4. \A k \in (n + 1)..L : k - 1 \in P => k \in P
  <2> SUFFICES ASSUME NEW k \in (n + 1)..L, a[k - 1] = b[k - 1]
               PROVE  a[k] = b[k]
    BY <1>2
  <2>1. a[k] = read(a[k - 1], raw, k) /\ b[k] = read(b[k - 1], raw, k)
    BY <1>1 DEF IsReading
  <2> QED BY <2>1
<1>5. \A k \in n..L : k \in P
  <2> HIDE DEF n, L, P
  <2> QED BY <1>2, <1>3, <1>4, StepByStep
<1> QED BY <1>1, <1>2, <1>5

\* Texts that a path may follow.
OpenStates == {"userOrHost", "host", "passwordOrPort", "port", "path"}

Open(x) == x \in Text /\ parses(x) /\ run(x).state \in OpenStates

\* Where the automaton is when a slash has followed x.
onPath(x) ==
    [state |-> "path",
     mark |-> IF run(x).state = "path" THEN run(x).mark ELSE Len(x) + 1,
     fields |-> IF run(x).state = "path" THEN run(x).fields ELSE parse(x)]

\* What parse makes of such a text.
LEMMA OpenFacts ==
    ASSUME NEW x, Open(x)
    PROVE  /\ x \in Text /\ schemeLength(x) # 0
           /\ run(x) \in Reading /\ run(x).mark \in 1..Len(x)
           /\ parse(x) \in Fields /\ parse(x).search = <<>>
           /\ parse(x) = assign(run(x), x, AtEnd[run(x).state], Len(x))
           /\ run(x).state # "path" => parse(x).path = <<>>
           /\ run(x).state = "path" =>
                 /\ parse(x).path = SubSeq(x, run(x).mark, Len(x))
                 /\ \A f \in Field : f # "path" => parse(x)[f] = run(x).fields[f]
<1> DEFINE u == run(x)
           F == u.fields
           f == parse(x)
<1>1. x \in Text /\ parses(x) /\ u.state \in OpenStates
  BY DEF Open
<1>2. schemeLength(x) # 0 /\ u \in Reading /\ u.mark \in 1..Len(x)
      /\ At(u.state, x, Len(x), u.mark, F)
  BY <1>1, AtTheEnd DEF Good
<1>3. f = assign(u, x, AtEnd[u.state], Len(x))
  BY DEF parse
<1>4. \A e \in Field : AtEnd[run(x).state] = {e} => Ended(x, u.mark, F, f, e)
  BY <1>1, EndMade
<1>5. u.state = run(x).state
  OBVIOUS
<1>6. F.search = <<>> /\ (u.state # "path" => F.path = <<>>)
  BY <1>1, <1>2 DEF At, OpenStates, AtUserOrHost, AtUser, AtHost, AtPasswordOrPort, AtPassword,
     AtPort, AtPath
<1> HIDE DEF u, F, f
<1>7. PICK e \in {"host", "port", "path"} :
         AtEnd[u.state] = {e} /\ (e = "path" <=> u.state = "path")
  BY <1>1 DEF OpenStates, AtEnd
<1>8. Ended(x, u.mark, F, f, e)
  BY <1>4, <1>5, <1>7 DEF Field
<1>9. f \in Fields /\ f[e] = rest(x, u.mark) /\ \A g \in Field : g # e => f[g] = F[g]
  BY <1>8 DEF Ended
<1>10. f.search = <<>> /\ (u.state # "path" => f.path = <<>>)
  BY <1>6, <1>7, <1>9 DEF Field
<1>11. u.state = "path" =>
          /\ f.path = SubSeq(x, u.mark, Len(x))
          /\ \A g \in Field : g # "path" => f[g] = F[g]
  BY <1>7, <1>9 DEF rest
<1> QED BY <1>1, <1>2, <1>3, <1>9, <1>10, <1>11 DEF u, F, f

\* After a text that a path may follow, a slash begins the path.
LEMMA SlashRead ==
    ASSUME NEW x, Open(x), NEW z \in Text, z # <<>>, z[1] = Slash
    PROVE  /\ read(run(x), x \o z, Len(x) + 1) = onPath(x)
           /\ onPath(x) \in Reading
<1> DEFINE u == run(x)
           raw == x \o z
           k == Len(x) + 1
           v == read(u, raw, k)
<1>1. /\ x \in Text /\ u \in Reading /\ u.mark \in 1..Len(x) /\ parse(x) \in Fields
      /\ parse(x) = assign(u, x, AtEnd[u.state], Len(x))
  BY OpenFacts
<1>2. Len(x) \in Nat /\ Len(z) \in Nat /\ Len(z) > 0 /\ k - 1 = Len(x)
  BY <1>1, NoText
<1>3. raw[k] = Slash
  <2>1. 1 \in 1..Len(z)
    BY <1>2
  <2> QED BY <1>1, <2>1, StartOfJoined
<1>4. \A E : assign(u, raw, E, k - 1) = assign(u, x, E, Len(x))
  <2>1. SubSeq(raw, u.mark, Len(x)) = SubSeq(x, u.mark, Len(x))
    <3> DEFINE h == Len(x)
               m == u.mark
    <3>1. h \in 0..Len(x) /\ m \in 1..(h + 1)
      BY <1>1, <1>2
    <3> HIDE DEF h, m
    <3>2. SubSeq(x \o z, m, h) = SubSeq(x, m, h)
      BY <1>1, <3>1, SamePart
    <3> QED BY <3>2 DEF h, m
  <2> HIDE DEF raw, u, k
  <2> QED BY <1>2, <2>1 DEF assign
<1>5. u.state \in OpenStates
  BY DEF Open
<1>6. onPath(x) = [state |-> "path", mark |-> IF u.state = "path" THEN u.mark ELSE k,
                   fields |-> IF u.state = "path" THEN u.fields ELSE parse(x)]
  BY DEF onPath
<1> HIDE DEF raw, u, k, v
<1>7. Slash = 47 /\ Slash \notin HostByte /\ Slash \notin UserByte /\ Slash \notin Digit
      /\ Slash \notin COLON /\ Slash \notin AT /\ Slash \notin QUESTION /\ Slash \in SLASH
      /\ Slash \in PathByte
  BY DEF Slash, HostByte, UserByte, Digit, Letter, COLON, AT, QUESTION, SLASH, PathByte
<1>8. /\ go("userOrHost", SLASH, {"host"}, TRUE, "path") \in Transitions
      /\ go("host", SLASH, {"host"}, TRUE, "path") \in Transitions
      /\ go("passwordOrPort", SLASH, {"port"}, TRUE, "path") \in Transitions
      /\ go("port", SLASH, {"port"}, TRUE, "path") \in Transitions
      /\ stay("path", PathByte) \in Transitions
  BY DEF Transitions
<1>9. \E s \in Transitions : s.from = u.state /\ raw[k] \in s.on
  BY <1>3, <1>5, <1>7, <1>8 DEF OpenStates, go, stay
<1>10. PICK t \in Transitions : t.from = u.state /\ raw[k] \in t.on /\ v = After(t, u, raw, k)
  BY <1>9, ReadFacts DEF v
<1>11. /\ t.to = "path"
       /\ u.state # "path" => t.marks /\ t.ends = AtEnd[u.state]
       /\ u.state = "path" => ~t.marks /\ t.ends = {}
  <2>1. \/ u.state = "userOrHost" /\ t = go("userOrHost", SLASH, {"host"}, TRUE, "path")
        \/ u.state = "host" /\ t = go("host", SLASH, {"host"}, TRUE, "path")
        \/ u.state = "passwordOrPort" /\ t = go("passwordOrPort", SLASH, {"port"}, TRUE, "path")
        \/ u.state = "port" /\ t = go("port", SLASH, {"port"}, TRUE, "path")
        \/ u.state = "path" /\ t = stay("path", PathByte)
    <3>1. CASE u.state = "userOrHost"
      <4>1. \/ t = stay("userOrHost", HostByte)
            \/ t = go("userOrHost", UserByte \ HostByte, {}, FALSE, "user")
            \/ t = go("userOrHost", COLON, {"user", "host"}, FALSE, "afterColon")
            \/ t = go("userOrHost", AT, {"user"}, FALSE, "afterAt")
            \/ t = go("userOrHost", SLASH, {"host"}, TRUE, "path")
        BY <1>10, <3>1, TransitionsFrom
      <4> QED BY <1>3, <1>7, <1>10, <3>1, <4>1 DEF go, stay
    <3>2. CASE u.state = "host"
      <4>1. \/ t = stay("host", HostByte)
            \/ t = go("host", COLON, {"host"}, FALSE, "afterHost")
            \/ t = go("host", SLASH, {"host"}, TRUE, "path")
        BY <1>10, <3>2, TransitionsFrom
      <4> QED BY <1>3, <1>7, <1>10, <3>2, <4>1 DEF go, stay
    <3>3. CASE u.state = "passwordOrPort"
      <4>1. \/ t = stay("passwordOrPort", Digit)
            \/ t = go("passwordOrPort", UserByte \ Digit, {}, FALSE, "password")
            \/ t = go("passwordOrPort", AT, {"password"}, FALSE, "afterAt")
            \/ t = go("passwordOrPort", SLASH, {"port"}, TRUE, "path")
        BY <1>10, <3>3, TransitionsFrom
      <4> QED BY <1>3, <1>7, <1>10, <3>3, <4>1 DEF go, stay
    <3>4. CASE u.state = "port"
      <4>1. \/ t = stay("port", Digit)
            \/ t = go("port", SLASH, {"port"}, TRUE, "path")
        BY <1>10, <3>4, TransitionsFrom
      <4> QED BY <1>3, <1>7, <1>10, <3>4, <4>1 DEF go, stay
    <3>5. CASE u.state = "path"
      <4>1. \/ t = stay("path", PathByte)
            \/ t = go("path", QUESTION, {"path"}, FALSE, "afterPath")
        BY <1>10, <3>5, TransitionsFrom
      <4> QED BY <1>3, <1>7, <1>10, <3>5, <4>1 DEF go, stay
    <3> QED BY <1>5, <3>1, <3>2, <3>3, <3>4, <3>5 DEF OpenStates
  <2>2. /\ t.to = "path"
        /\ \/ u.state \in {"userOrHost", "host"} /\ t.marks /\ t.ends = {"host"}
           \/ u.state \in {"passwordOrPort", "port"} /\ t.marks /\ t.ends = {"port"}
           \/ u.state = "path" /\ ~t.marks /\ t.ends = {}
    BY <2>1 DEF go, stay
  <2>3. /\ u.state \in {"userOrHost", "host"} => AtEnd[u.state] = {"host"}
        /\ u.state \in {"passwordOrPort", "port"} => AtEnd[u.state] = {"port"}
    BY DEF AtEnd
  <2> QED BY <2>2, <2>3
<1>12. assign(u, x, {}, Len(x)) = u.fields
  BY <1>1 DEF assign, Reading, Fields
<1>13. v = onPath(x)
  <2>1. v = [state |-> "path", mark |-> IF t.marks THEN k ELSE u.mark,
             fields |-> assign(u, x, t.ends, Len(x))]
    BY <1>4, <1>10, <1>11 DEF After
  <2> QED BY <1>1, <1>6, <1>11, <1>12, <2>1
<1>14. onPath(x) \in Reading
  <2>1. "path" \in States /\ k \in Nat
    BY <1>2 DEF States, k
  <2>2. u.mark \in Nat /\ u.fields \in Fields
    BY <1>1 DEF Reading
  <2> QED BY <1>1, <1>6, <2>1, <2>2 DEF Reading
<1> QED BY <1>13, <1>14 DEF v, u, raw, k

\* A path goes on over its bytes, and ends with a question mark only.
LEMMA PathRead ==
    ASSUME NEW u \in Reading, u.state = "path", NEW raw, NEW k, raw[k] # 63
    PROVE  /\ raw[k] \in PathByte => read(u, raw, k) = u
           /\ raw[k] \notin PathByte => /\ read(u, raw, k) \in Reading
                                        /\ read(u, raw, k).state = "error"
<1>1. stay("path", PathByte) \in Transitions
  BY DEF Transitions
<1>2. ASSUME NEW t \in Transitions, t.from = "path", raw[k] \in t.on
      PROVE  t.on = PathByte /\ After(t, u, raw, k) = u
  <2>1. t = stay("path", PathByte)
    BY <1>2, TransitionsFrom DEF QUESTION, go
  <2>2. t.on = PathByte /\ ~t.marks /\ t.ends = {} /\ t.to = "path"
    BY <2>1 DEF stay, go
  <2>3. assign(u, raw, t.ends, k - 1) = u.fields
    BY <2>2 DEF assign, Reading, Fields
  <2>4. u = [state |-> "path", mark |-> u.mark, fields |-> u.fields]
    BY DEF Reading
  <2>5. After(t, u, raw, k) = [state |-> "path", mark |-> u.mark, fields |-> u.fields]
    BY <2>2, <2>3 DEF After
  <2> QED BY <2>2, <2>4, <2>5
<1>3. ASSUME raw[k] \in PathByte
      PROVE  read(u, raw, k) = u
  <2>1. \E t \in Transitions : t.from = u.state /\ raw[k] \in t.on
    BY <1>1, <1>3 DEF stay, go
  <2> QED BY <1>2, <2>1, ReadFacts
<1>4. ASSUME raw[k] \notin PathByte
      PROVE  read(u, raw, k) \in Reading /\ read(u, raw, k).state = "error"
  BY <1>2, <1>4, ErrorStays
<1> QED BY <1>3, <1>4

\* From the slash on the automaton is on the path, or has found an error.
LEMMA PathRuns ==
    ASSUME NEW x, Open(x), NEW z \in Text, z # <<>>, z[1] = Slash,
           \A i \in 1..Len(z) : z[i] # 63
    PROVE  /\ \/ run(x \o z) = onPath(x)
              \/ run(x \o z).state = "error"
           /\ (\A i \in 1..Len(z) : z[i] \in PathByte) => run(x \o z) = onPath(x)
<1> DEFINE raw == x \o z
           n == schemeLength(x)
           l == Len(x)
           h == Len(z)
           v == onPath(x)
<1>1. x \in Text /\ n # 0 /\ n \in {7, 8} /\ n \in 0..l
  BY OpenFacts, SchemeFacts
<1>2. /\ raw \in Text /\ Len(raw) = l + h /\ l \in Nat /\ h \in Nat
      /\ \A k \in 1..h : raw[l + k] = z[k]
  BY <1>1, StartOfJoined
<1>3. h > 0
  BY NoText
<1>4. PICK a : IsReading(raw, a) /\ run(raw) = a[l + h]
  BY <1>2, ReadingFacts
<1>5. schemeLength(raw) = n
  BY <1>1, SameScheme
<1>6. \A k \in (n + 1)..(l + h) : a[k] = read(a[k - 1], raw, k)
  BY <1>2, <1>4, <1>5 DEF IsReading
<1>7. a[l] = run(x)
  <2>1. IsReading(x, a)
    BY <1>1, <1>4, SameReading
  <2> QED BY <1>1, <2>1, ReadingEnds
<1>8. a[l + 1] = v /\ v \in Reading /\ v.state = "path"
  <2>1. l + 1 \in (n + 1)..(l + h) /\ (l + 1) - 1 = l
    BY <1>1, <1>2, <1>3
  <2>2. a[l + 1] = read(a[(l + 1) - 1], raw, l + 1)
    BY <1>6, <2>1
  <2>3. a[l + 1] = read(run(x), raw, l + 1)
    BY <1>7, <2>1, <2>2
  <2> QED BY <2>3, SlashRead DEF onPath
<1> DEFINE P == {k \in (l + 1)..(l + h) : a[k] = v \/ (a[k] \in Reading /\ a[k].state = "error")}
           Q == {k \in (l + 1)..(l + h) : a[k] = v}
<1> HIDE DEF raw, n, l, h, v
<1>9. l + 1 \in Nat /\ l + h \in Nat /\ l + 1 \in (l + 1)..(l + h) /\ l + h \in (l + 1)..(l + h)
  BY <1>2, <1>3
<1>10. ASSUME NEW k \in ((l + 1) + 1)..(l + h)
       PROVE  /\ k - l \in 1..Len(z) /\ raw[k] = z[k - l] /\ raw[k] # 63
              /\ a[k] = read(a[k - 1], raw, k)
  <2>1. k - l \in 1..h /\ l + (k - l) = k /\ k \in (n + 1)..(l + h)
    BY <1>1, <1>2
  <2>2. raw[l + (k - l)] = z[k - l]
    BY <1>2, <2>1
  <2> QED BY <1>6, <2>1, <2>2 DEF h
<1>11. \A k \in (l + 1)..(l + h) : k \in P
  <2>1. l + 1 \in P
    BY <1>8, <1>9
  <2>2. \A k \in ((l + 1) + 1)..(l + h) : k - 1 \in P => k \in P
    <3> SUFFICES ASSUME NEW k \in ((l + 1) + 1)..(l + h),
                        a[k - 1] = v \/ (a[k - 1] \in Reading /\ a[k - 1].state = "error")
                 PROVE  a[k] = v \/ (a[k] \in Reading /\ a[k].state = "error")
      BY <1>2
    <3>1. raw[k] # 63 /\ a[k] = read(a[k - 1], raw, k)
      BY <1>10
    <3>2. CASE a[k - 1] = v
      BY <1>8, <3>1, <3>2, PathRead
    <3>3. CASE a[k - 1] \in Reading /\ a[k - 1].state = "error"
      BY <3>1, <3>3, ErrorStays, NoneFromError
    <3> QED BY <3>2, <3>3
  <2> HIDE DEF P
  <2> QED BY <1>9, <2>1, <2>2, StepByStep
<1>12. ASSUME \A i \in 1..Len(z) : z[i] \in PathByte
       PROVE  \A k \in (l + 1)..(l + h) : k \in Q
  <2>1. l + 1 \in Q
    BY <1>8, <1>9
  <2>2. \A k \in ((l + 1) + 1)..(l + h) : k - 1 \in Q => k \in Q
    <3> SUFFICES ASSUME NEW k \in ((l + 1) + 1)..(l + h), a[k - 1] = v
                 PROVE  a[k] = v
      BY <1>2
    <3>1. raw[k] # 63 /\ raw[k] \in PathByte /\ a[k] = read(a[k - 1], raw, k)
      BY <1>10, <1>12
    <3> QED BY <1>8, <3>1, PathRead
  <2> HIDE DEF Q
  <2> QED BY <1>9, <2>1, <2>2, StepByStep
<1>13. a[l + h] = v \/ a[l + h].state = "error"
  <2>1. l + h \in P
    BY <1>9, <1>11
  <2> QED BY <2>1
<1>14. (\A i \in 1..Len(z) : z[i] \in PathByte) => a[l + h] = v
  <2> SUFFICES ASSUME \A i \in 1..Len(z) : z[i] \in PathByte
               PROVE  l + h \in Q
    OBVIOUS
  <2> QED BY <1>9, <1>12
<1> QED BY <1>4, <1>13, <1>14 DEF raw, v

\* Behind x, or from within it, a text that begins with x goes on with z.
LEMMA TailOfJoined ==
    ASSUME NEW x \in Text, NEW z \in Text
    PROVE  /\ SubSeq(x \o z, Len(x) + 1, Len(x \o z)) = z
           /\ \A m \in 1..Len(x) : SubSeq(x \o z, m, Len(x \o z)) = SubSeq(x, m, Len(x)) \o z
<1> DEFINE raw == x \o z
           l == Len(x)
           h == Len(z)
           q == SubSeq(raw, l + 1, Len(raw))
<1>1. /\ raw \in Text /\ Len(raw) = l + h /\ l \in Nat /\ h \in Nat
      /\ \A k \in 1..h : raw[l + k] = z[k]
  BY StartOfJoined
<1> HIDE DEF raw, l, h
<1>2. l \in 0..Len(raw) /\ Len(raw) - l = h
  BY <1>1
<1>3. q \in Text /\ Len(q) = Len(raw) - l /\ \A i \in 1..(Len(raw) - l) : q[i] = raw[l + i]
  BY <1>1, <1>2, PartsOfText
<1> HIDE DEF q
<1>4. \A i \in 1..h : q[i] = z[i]
  BY <1>1, <1>2, <1>3
<1>5. q = z
  <2>1. Len(q) = Len(z)
    BY <1>2, <1>3 DEF h
  <2> QED BY <1>3, <1>4, <2>1, SeqEqual DEF Text, h
<1>6. ASSUME NEW m \in 1..l
      PROVE  SubSeq(raw, m, Len(raw)) = SubSeq(x, m, l) \o z
  <2>1. /\ m \in 1..(Len(raw) + 1) /\ l \in (m - 1)..Len(raw) /\ Len(raw) \in l..Len(raw)
        /\ l \in 0..Len(x) /\ m \in 1..(l + 1)
    BY <1>1 DEF l
  <2>2. SubSeq(raw, m, l) \o SubSeq(raw, l + 1, Len(raw)) = SubSeq(raw, m, Len(raw))
    BY <1>1, <2>1, ConcatAdjacentSubSeq DEF Text
  <2>3. SubSeq(raw, m, l) = SubSeq(x, m, l)
    BY <2>1, SamePart DEF raw
  <2> QED BY <1>5, <2>2, <2>3 DEF q
<1> QED BY <1>5, <1>6 DEF raw, l, q

\* What follows the URL of an account belongs to its path.
LEMMA GoesOn ==
    ASSUME NEW x, Open(x), NEW z \in Text, z # <<>>, z[1] = Slash,
           \A i \in 1..Len(z) : z[i] # 63, parses(x \o z)
    PROVE  /\ parse(x \o z).host = parse(x).host
           /\ parse(x \o z).path = parse(x).path \o z
           /\ parse(x \o z).search = <<>>
<1> DEFINE raw == x \o z
           u == run(x)
           v == onPath(x)
           f == parse(x)
           g == parse(raw)
<1>1. /\ x \in Text /\ u \in Reading /\ u.mark \in 1..Len(x) /\ f \in Fields /\ f.search = <<>>
      /\ u.state # "path" => f.path = <<>>
      /\ u.state = "path" =>
            /\ f.path = SubSeq(x, u.mark, Len(x))
            /\ \A e \in Field : e # "path" => f[e] = u.fields[e]
  BY OpenFacts
<1>2. run(raw) = v
  <2>1. run(raw).state \in DOMAIN AtEnd
    BY DEF parses
  <2>2. run(raw).state # "error"
    BY <2>1 DEF AtEnd
  <2> QED BY <2>2, PathRuns
<1>3. /\ v.state = "path" /\ v.mark = (IF u.state = "path" THEN u.mark ELSE Len(x) + 1)
      /\ v.fields = (IF u.state = "path" THEN u.fields ELSE f)
  BY DEF onPath
<1>4. g = assign(v, raw, AtEnd[v.state], Len(raw))
  BY <1>2 DEF parse
<1>5. AtEnd[v.state] = {"path"}
  BY <1>3 DEF AtEnd
<1>6. /\ SubSeq(raw, Len(x) + 1, Len(raw)) = z
      /\ \A m \in 1..Len(x) : SubSeq(raw, m, Len(raw)) = SubSeq(x, m, Len(x)) \o z
  BY <1>1, TailOfJoined
<1> HIDE DEF raw, u, v, f, g
<1>7. /\ g.path = SubSeq(raw, v.mark, Len(raw)) /\ g.host = v.fields.host
      /\ g.search = v.fields.search
  BY <1>4, <1>5 DEF assign, Field
<1>8. g.path = f.path \o z
  <2>1. CASE u.state = "path"
    BY <1>1, <1>3, <1>6, <1>7, <2>1
  <2>2. CASE u.state # "path"
    <3>1. g.path = z /\ f.path = <<>>
      BY <1>1, <1>3, <1>6, <1>7, <2>2
    <3> QED BY <3>1, NoText
  <2> QED BY <2>1, <2>2
<1>9. g.host = f.host /\ g.search = f.search
  BY <1>1, <1>3, <1>7 DEF Field
<1> QED BY <1>1, <1>8, <1>9 DEF raw, f, g

\* A text that a path may follow, and a path behind it, are accepted.
LEMMA PathTaken ==
    ASSUME NEW x, Open(x), NEW z \in Text, z # <<>>, z[1] = Slash,
           \A i \in 1..Len(z) : z[i] \in PathByte
    PROVE  parses(x \o z)
<1>1. \A i \in 1..Len(z) : z[i] # 63
  <2>1. 63 \notin PathByte
    BY DEF PathByte, Letter
  <2> QED BY <2>1
<1>2. run(x \o z) = onPath(x)
  BY <1>1, PathRuns
<1>3. run(x \o z).state = "path"
  BY <1>2 DEF onPath
<1> QED BY <1>3 DEF parses, AtEnd

\* Without the slash at its end the URL of an account is still one.
LEMMA SchemeBack ==
    ASSUME NEW x \in Text, NEW z \in Text, schemeLength(x \o z) # 0,
           schemeLength(x \o z) <= Len(x)
    PROVE  schemeLength(x) # 0
<1> DEFINE raw == x \o z
           n == schemeLength(raw)
<1>1. raw \in Text /\ Len(x) \in Nat
  BY StartOfJoined
<1>2. n \in {7, 8} /\ SubSeq(raw, 1, n) \in {http, https}
  BY <1>1, SchemeFacts
<1>3. SubSeq(raw, 1, n) = SubSeq(x, 1, n) /\ Len(SubSeq(raw, 1, n)) = n
  <2>1. n \in 0..Len(x) /\ 1 \in 1..(n + 1)
    BY <1>1, <1>2
  <2>2. SubSeq(raw, 1, n) = SubSeq(x, 1, n)
    <3> HIDE DEF n
    <3> QED BY <2>1, SamePart
  <2>3. Len(SubSeq(x, 1, n)) = n
    <3> HIDE DEF n
    <3> QED BY <2>1, PartsOfText
  <2> QED BY <2>2, <2>3
<1>4. /\ Len(http) = 7 /\ SubSeq(http, 1, 7) = http
      /\ Len(https) = 8 /\ SubSeq(https, 1, 8) = https
  <2>1. http \in Text /\ Len(http) = 7 /\ https \in Text /\ Len(https) = 8
    BY DEF http, https, Text, Byte
  <2> QED BY <2>1, SubSeqFull DEF Text
<1> DEFINE q == SubSeq(x, 1, n)
<1>5. q \in {http, https} /\ Len(q) = n /\ q = SubSeq(x, 1, n) /\ n <= Len(x)
  BY <1>2, <1>3
<1> HIDE DEF n, q, raw
<1>6. IsPrefix(http, x) \/ IsPrefix(https, x)
  <2>1. CASE q = http
    BY <1>4, <1>5, <2>1 DEF IsPrefix
  <2>2. CASE q = https
    BY <1>4, <1>5, <2>2 DEF IsPrefix
  <2> QED BY <1>5, <2>1, <2>2
<1> QED BY <1>4, <1>6 DEF schemeLength

\* A slash is read only in the states that a path may follow.
LEMMA SlashFrom ==
    \A t \in Transitions : Slash \in t.on => t.from \in OpenStates
<1>1. Slash = 47 /\ Slash \notin HostByte /\ Slash \notin UserByte /\ Slash \notin Digit
      /\ Slash \notin COLON /\ Slash \notin AT /\ Slash \notin QUESTION
      /\ Slash \notin SearchByte
  BY DEF Slash, HostByte, UserByte, Digit, Letter, COLON, AT, QUESTION, SearchByte
<1> QED BY <1>1, TransitionsFrom DEF go, stay, OpenStates

\* If a path may follow a text and its last slash, one may follow the text without that slash.
LEMMA OpenBack ==
    ASSUME NEW x \in Text, Open(x \o <<Slash>>)
    PROVE  Open(x)
<1> DEFINE sl == <<Slash>>
           raw == x \o sl
           n == schemeLength(raw)
           l == Len(x)
<1>1. sl \in Text /\ Len(sl) = 1 /\ sl[1] = Slash
  BY SlashText
<1>2. /\ raw \in Text /\ Len(raw) = l + 1 /\ l \in Nat
      /\ \A k \in 1..Len(sl) : raw[l + k] = sl[k]
  BY <1>1, StartOfJoined
<1>3. raw[l + 1] = Slash
  <2> HIDE DEF raw
  <2>1. 1 \in 1..Len(sl)
    BY <1>1
  <2> QED BY <1>1, <1>2, <2>1
<1>4. parses(raw) /\ run(raw).state \in OpenStates
  BY DEF Open
<1>5. PICK a : IsReading(raw, a) /\ run(raw) = a[Len(raw)]
  BY <1>2, ReadingFacts
<1>6. n # 0 /\ n \in {7, 8} /\ n \in 0..Len(raw)
  BY <1>2, <1>4, AtTheEnd, SchemeFacts
<1> HIDE DEF raw, n, sl
<1>7. n # l + 1
  <2>1. a[n].state = "start"
    BY <1>5, <1>6 DEF IsReading, Begin, n
  <2>2. "start" \notin OpenStates
    BY DEF OpenStates
  <2> QED BY <1>2, <1>4, <1>5, <2>1, <2>2
<1>8. n \in 0..l /\ l \in n..Len(raw) /\ l + 1 \in (n + 1)..Len(raw) /\ (l + 1) - 1 = l
  BY <1>2, <1>6, <1>7
<1>9. schemeLength(x) # 0
  BY <1>1, <1>6, <1>8, SchemeBack DEF raw, n
<1>10. run(x) = a[l]
  <2>1. IsReading(x, a)
    BY <1>1, <1>5, <1>9, SameReading DEF raw
  <2> QED BY <2>1, ReadingEnds
<1>11. a[l + 1] = read(a[l], raw, l + 1)
  <2>1. a[l + 1] = read(a[(l + 1) - 1], raw, l + 1)
    BY <1>5, <1>8 DEF IsReading, n
  <2> QED BY <1>8, <2>1
<1>12. a[l] \in Reading
  <2>1. Good(raw, l, a[l])
    BY <1>2, <1>5, <1>6, <1>8, GoodEverywhere DEF n
  <2> QED BY <2>1 DEF Good
<1>13. PICK t \in Transitions : t.from = a[l].state /\ raw[l + 1] \in t.on
  <2>1. a[l + 1].state # "error"
    BY <1>2, <1>4, <1>5 DEF OpenStates
  <2> QED BY <1>11, <1>12, <2>1, ReadFacts, ErrorStays
<1>14. run(x).state \in OpenStates
  BY <1>3, <1>10, <1>13, SlashFrom
<1> QED BY <1>14 DEF Open, parses, OpenStates, AtEnd

\* If a path may follow the endpoint as it is configured, one may follow it trimmed.
LEMMA OpenTrim ==
    ASSUME NEW base, Open(base)
    PROVE  base \in Text /\ base # <<>> /\ Open(trim(base))
<1> DEFINE n == schemeLength(base)
           m == trim(base)
<1>1. base \in Text /\ n # 0
  BY OpenFacts
<1>2. n \in {7, 8} /\ n \in 0..Len(base) /\ SubSeq(base, 1, n) \in {http, https}
  BY <1>1, SchemeFacts
<1>3. Len(base) \in Nat /\ Len(base) >= 7 /\ base # <<>>
  BY <1>1, <1>2, NoText
<1>4. base[1] # Slash
  <2>1. SubSeq(base, 1, n)[1] = base[1]
    <3>1. \A i \in 1..n : SubSeq(base, 1, n)[i] = base[i]
      <4> HIDE DEF n
      <4> QED BY <1>1, <1>2, PartsOfText
    <3> QED BY <1>2, <3>1
  <2>2. \A q \in {http, https} : q[1] = 104
    BY DEF http, https
  <2> DEFINE q == SubSeq(base, 1, n)
  <2>3. q \in {http, https} /\ q[1] = base[1]
    BY <1>2, <2>1
  <2> HIDE DEF q
  <2>4. base[1] = 104
    BY <2>2, <2>3
  <2> QED BY <2>4 DEF Slash
<1>5. base \notin {<<Slash>>, <<Slash>> \o <<Slash>>}
  <2>1. <<Slash>>[1] = Slash /\ (<<Slash>> \o <<Slash>>)[1] = Slash
    BY SlashText DEF Text
  <2> QED BY <1>4, <2>1
<1>6. m \in Text /\ Trimmed(base, m)
  BY <1>1, <1>3, <1>5, TrimCases
<1> HIDE DEF m, n
<1>7. PICK a \in Edge, b \in Edge : base = (a \o m) \o b
  BY <1>6 DEF Trimmed
<1>8. a \in {<<>>, <<Slash>>} /\ b \in {<<>>, <<Slash>>}
  BY DEF Edge
<1>9. a = <<>>
  <2> SUFFICES ASSUME a = <<Slash>>
               PROVE  FALSE
    BY <1>8
  <2> DEFINE y == m \o b
  <2>1. a \in Text /\ b \in Text /\ Len(a) = 1 /\ a[1] = Slash
    BY SlashText
  <2>2. y \in Text
    BY <1>6, <2>1, Joined
  <2>3. leftFirst(a, m, b) = rightFirst(a, m, b)
    BY <1>6, <2>1, Associative
  <2>4. base = a \o y
    BY <1>7, <2>3 DEF leftFirst, rightFirst
  <2> HIDE DEF y
  <2>5. \A k \in 1..Len(a) : (a \o y)[k] = a[k]
    BY <2>1, <2>2, StartOfJoined
  <2>6. 1 \in 1..Len(a)
    BY <2>1
  <2>7. base[1] = Slash
    BY <2>1, <2>4, <2>5, <2>6
  <2> QED BY <1>4, <2>7
<1>10. base = m \o b
  BY <1>6, <1>7, <1>9, NoText
<1>11. CASE b = <<>>
  BY <1>1, <1>3, <1>6, <1>10, <1>11, NoText DEF m
<1>12. CASE b = <<Slash>>
  <2>1. Open(m)
    BY <1>6, <1>10, <1>12, OpenBack
  <2> QED BY <1>1, <1>3, <2>1 DEF m
<1> QED BY <1>8, <1>11, <1>12

-----------------------------------------------------------------------------
(* The URL of an object                                                    *)

without(z, c) == \A i \in 1..Len(z) : z[i] # c

\* A slash, and an encoded name behind it.
LEMMA NameBehind ==
    ASSUME NEW s \in Text, s # <<>>, NEW z, z = <<Slash>> \o urlencode(s)
    PROVE  /\ z \in Text /\ z # <<>> /\ z[1] = Slash /\ z[Len(z)] # 63
           /\ without(z, 63)
           /\ without(s, 126) => \A i \in 1..Len(z) : z[i] \in PathByte
<1> DEFINE sl == <<Slash>>
           e == urlencode(s)
           h == Len(e)
<1>1. sl \in Text /\ Len(sl) = 1 /\ sl[1] = Slash /\ e \in Text /\ e # <<>>
  BY SlashText, UrlencodeEnds
<1>2. /\ \A i \in 1..h : e[i] \in PlainByte \cup {126} /\ e[i] # 63
      /\ \A i \in 1..h : e[i] = 126 => \E k \in 1..Len(s) : s[k] = 126
  BY UrlencodeBytes
<1>3. /\ z \in Text /\ Len(z) = 1 + h /\ h \in Nat
      /\ \A k \in 1..1 : z[k] = sl[k]
      /\ \A k \in 1..h : z[1 + k] = e[k]
  <2>1. /\ sl \o e \in Text /\ Len(sl \o e) = Len(sl) + Len(e)
        /\ Len(sl) \in Nat /\ Len(e) \in Nat
        /\ \A k \in 1..Len(sl) : (sl \o e)[k] = sl[k]
        /\ \A k \in 1..Len(e) : (sl \o e)[Len(sl) + k] = e[k]
    BY <1>1, StartOfJoined
  <2>2. z = sl \o e
    OBVIOUS
  <2> HIDE DEF sl, e
  <2> QED BY <1>1, <2>1, <2>2
<1>4. h > 0
  BY <1>1, NoText
<1> HIDE DEF h, e, sl
<1>5. \A i \in 1..Len(z) : i = 1 \/ (i - 1 \in 1..h /\ 1 + (i - 1) = i)
  BY <1>3
<1>6. z[1] = Slash
  BY <1>1, <1>3
<1>7. \A i \in 1..Len(z) : z[i] = Slash \/ \E k \in 1..h : z[i] = e[k]
  BY <1>3, <1>5, <1>6
<1>8. \A i \in 1..Len(z) : z[i] # 63
  <2>1. Slash # 63
    BY DEF Slash
  <2> QED BY <1>2, <1>7, <2>1
<1>9. Slash \in PathByte /\ PlainByte \subseteq PathByte
  BY DEF Slash, PathByte, PlainByte, Legal, Percent, Digit, Letter
<1>10. ASSUME \A k \in 1..Len(s) : s[k] # 126
       PROVE  \A i \in 1..Len(z) : z[i] \in PathByte
  <2>1. \A i \in 1..h : e[i] # 126
    BY <1>2, <1>10
  <2>2. \A i \in 1..h : e[i] \in PathByte
    BY <1>2, <1>9, <2>1
  <2> QED BY <1>7, <1>9, <2>2
<1>11. z # <<>> /\ Len(z) \in 1..Len(z)
  BY <1>3, <1>4, NoText
<1> QED BY <1>3, <1>6, <1>8, <1>10, <1>11 DEF without

\* The address of an object is the trimmed endpoint, a slash and the encoded path of the
\* object.
LEMMA AddressOf ==
    ASSUME NEW base, NEW c, NEW d, NEW r, Parts(base, c, d, r)
    PROVE  /\ trim(base) \in Text /\ objectOf(c, d, r) \in Text /\ objectOf(c, d, r) # <<>>
           /\ address(base, <<c, d, r>>)
                 = trim(base) \o (<<Slash>> \o urlencode(objectOf(c, d, r)))
<1>1. r \in Text
  BY DEF Parts
<1>2. /\ trim(base) \in Text /\ trim(c) \in Text /\ trim(d) \in Text
      /\ objectOf(c, d, r) \in Text
      /\ address(base, <<c, d, r>>)
            = trim(base) \o (<<Slash>> \o urlencode(objectOf(c, d, r)))
  BY AddressIs
<1> DEFINE C == trim(c)
           o == trim(d) \o r
           y == <<Slash>> \o o
<1>3. C \in Text /\ o \in Text
  BY <1>1, <1>2, Joined
<1>4. objectOf(c, d, r) = C \o y
  BY DEF objectOf
<1> HIDE DEF C, o
<1>5. y \in Text /\ Len(y) = 1 + Len(o) /\ Len(o) \in Nat
  BY <1>3, SlashText, StartOfJoined
<1> HIDE DEF y
<1>6. C \o y \in Text /\ Len(C \o y) = Len(C) + Len(y) /\ Len(C) \in Nat
  BY <1>3, <1>5, StartOfJoined
<1>7. C \o y # <<>>
  BY <1>5, <1>6, NoText
<1> QED BY <1>2, <1>4, <1>7

\* What url.rl says of the URL of an account holds of that of an object.
LEMMA ObjectMade ==
    ASSUME NEW base, NEW c, NEW d, NEW r, Parts(base, c, d, r),
           NEW raw, raw = address(base, <<c, d, r>>), parses(raw)
    PROVE  Made(raw, parse(raw))
<1> DEFINE x == trim(base)
           s == objectOf(c, d, r)
           z == <<Slash>> \o urlencode(s)
<1>1. x \in Text /\ s \in Text /\ s # <<>> /\ raw = x \o z
  BY AddressOf
<1>2. z = <<Slash>> \o urlencode(s)
  OBVIOUS
<1> HIDE DEF x, s, z
<1>3. z \in Text /\ z # <<>> /\ z[Len(z)] # 63
  BY <1>1, <1>2, NameBehind
<1>4. /\ raw \in Text /\ Len(raw) = Len(x) + Len(z) /\ Len(x) \in Nat /\ Len(z) \in Nat
      /\ \A k \in 1..Len(z) : raw[Len(x) + k] = z[k]
  <2>1. /\ x \o z \in Text /\ Len(x \o z) = Len(x) + Len(z) /\ Len(x) \in Nat /\ Len(z) \in Nat
        /\ \A k \in 1..Len(z) : (x \o z)[Len(x) + k] = z[k]
    BY <1>1, <1>3, StartOfJoined
  <2> QED BY <1>1, <2>1
<1>5. raw[Len(raw)] # 63
  <2>1. Len(z) \in 1..Len(z)
    BY <1>3, NoText
  <2>2. raw[Len(x) + Len(z)] = z[Len(z)]
    BY <1>4, <2>1
  <2> QED BY <1>3, <1>4, <2>2
<1>6. run(raw).state # "afterPath"
  BY <1>4, <1>5, QuestionLast
<1> QED BY <1>4, <1>6, ReadAsMade

\* The URL of an object s.
IsUrl(raw, base, c, d, r, s) ==
    Open(base) /\ Parts(base, c, d, r) /\ raw = address(base, <<c, d, r>>) /\ s = objectOf(c, d, r)

\* The request for an object goes to the host of the account, and its target is decoded
\* to the path of the account, a slash, and the name of the container and the object;
\* only a tilde in a name keeps its URL from being accepted.
LEMMA ObjectReached ==
    ASSUME NEW base, NEW c, NEW d, NEW r, NEW raw, NEW s, IsUrl(raw, base, c, d, r, s)
    PROVE  /\ parses(raw) =>
              /\ parse(raw).host = parse(trim(base)).host
              /\ parse(raw).search = <<>>
              /\ urldecode(pathAndSearch(parse(raw)))
                    = urldecode(parse(trim(base)).path) \o (<<Slash>> \o s)
           /\ without(s, 126) => parses(raw)
<1> DEFINE x == trim(base)
           z == <<Slash>> \o urlencode(s)
           f == parse(x)
           g == parse(raw)
<1>1. Open(x) /\ x \in Text
  BY OpenTrim DEF Open, IsUrl
<1>2. s \in Text /\ s # <<>> /\ raw = x \o z
  BY AddressOf DEF IsUrl
<1>3. z = <<Slash>> \o urlencode(s)
  OBVIOUS
<1>4. f.path \in Text
  BY <1>1, OpenFacts, FieldsAreTexts
<1>5. urldecode(f.path \o z) = urldecode(f.path) \o (<<Slash>> \o s)
  BY <1>2, <1>4, DecodeName
<1> HIDE DEF x, z
<1>6. /\ z \in Text /\ z # <<>> /\ z[1] = Slash
      /\ \A i \in 1..Len(z) : z[i] # 63
      /\ without(s, 126) => \A i \in 1..Len(z) : z[i] \in PathByte
  <2>1. z \in Text /\ z # <<>> /\ z[1] = Slash
    BY <1>2, <1>3, NameBehind
  <2>2. \A i \in 1..Len(z) : z[i] # 63
    <3>1. without(z, 63)
      BY <1>2, <1>3, NameBehind
    <3> QED BY <3>1 DEF without
  <2>3. without(s, 126) => \A i \in 1..Len(z) : z[i] \in PathByte
    BY <1>2, <1>3, NameBehind
  <2> QED BY <2>1, <2>2, <2>3
<1>7. without(s, 126) => parses(raw)
  <2>1. without(s, 126) => parses(x \o z)
    BY <1>1, <1>6, PathTaken
  <2> QED BY <1>2, <2>1
<1>8. ASSUME parses(raw)
      PROVE  g.host = f.host /\ g.path = f.path \o z /\ g.search = <<>>
  <2>1. parses(x \o z)
    BY <1>2, <1>8
  <2>2. /\ parse(x \o z).host = parse(x).host
        /\ parse(x \o z).path = parse(x).path \o z
        /\ parse(x \o z).search = <<>>
    BY <1>1, <1>6, <2>1, GoesOn
  <2> QED BY <1>2, <2>2
<1>9. ASSUME parses(raw)
      PROVE  urldecode(pathAndSearch(g)) = urldecode(f.path) \o (<<Slash>> \o s)
  <2>1. g.path = f.path \o z /\ g.search = <<>>
    BY <1>8, <1>9
  <2>2. f.path \o z \in Text
    BY <1>4, <1>6, Joined
  <2> HIDE DEF f, g
  <2>3. pathAndSearch(g) = f.path \o z
    BY <2>1, <2>2, NoText DEF pathAndSearch
  <2> QED BY <1>5, <2>3
<1> QED BY <1>7, <1>8, <1>9 DEF x
=============================================================================
