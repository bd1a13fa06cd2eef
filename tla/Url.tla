-------------------------------- MODULE Url --------------------------------
(***************************************************************************)
(* How the URL of an object is put together (operator/, joinSlashes and    *)
(* urlencode of url.hpp and url.cpp) and taken apart again (URL::parse,    *)
(* the automaton that ragel has made in url_parser.hpp out of url.rl).     *)
(*                                                                         *)
(* A string is the sequence of its bytes.  Inside of a URL every byte is   *)
(* below 128: urlencode sees to it for names, and the URL of an account is *)
(* plain text.  The seven states in which the automaton reads "http://" or *)
(* "https://" are taken in one step, as nothing is assigned in them.       *)
(***************************************************************************)
EXTENDS Naturals, SequencesExt

Byte == 0..255
Slash == 47
Percent == 37

Digit == 48..57
Letter == (65..90) \cup (97..122)

-----------------------------------------------------------------------------
(* Putting a URL together                                                  *)

\* Letters, digits, and - . / : ; = @ _ ~ ! $ & ' ( ) * + ,
Legal ==
    Digit \cup Letter \cup ((36..47) \ {Percent}) \cup {33, 58, 59, 61, 64, 95, 126}

hexDigit(n) == IF n <= 9 THEN 48 + n ELSE 65 + n - 10

encodedExceptPercent(c) ==   \* bug: a percent sign is left as it is
    IF c \in Legal \cup {Percent} THEN <<c>>
    ELSE <<Percent, hexDigit(c \div 16), hexDigit(c % 16)>>
encoded(c) ==
    IF c \in Legal THEN <<c>>
    ELSE <<Percent, hexDigit(c \div 16), hexDigit(c % 16)>>

urlencode(path) == FlattenSeq([k \in DOMAIN path |-> encoded(path[k])])

\* One slash in front of s, and one behind it, is dropped.  Of "/" nothing is
\* left: the iterators cross, and std::copy copies nothing.
trim(s) ==
    SubSeq(s, IF Head(s) = Slash THEN 2 ELSE 1,
              IF Last(s) = Slash THEN Len(s) - 1 ELSE Len(s))

joinSlashes(strings) ==
    Front(FlattenSeq([k \in DOMAIN strings |->
              IF strings[k] = <<>> THEN <<>> ELSE trim(strings[k]) \o <<Slash>>]))

\* base / parts[1] / parts[2] / ...
address(base, parts) ==
    joinSlashes(<<base>> \o [k \in DOMAIN parts |-> urlencode(parts[k])])

-----------------------------------------------------------------------------
(* Taking it apart                                                         *)

http == <<104, 116, 116, 112, 58, 47, 47>>
https == <<104, 116, 116, 112, 115, 58, 47, 47>>

Field == {"scheme", "user", "password", "host", "port", "path", "search"}

\* The bytes of a host; of a user or a password; of a path, and of a search.
HostByte == Digit \cup Letter \cup {45, 46}
UserByte == HostByte \cup (36..44) \cup {33, 59, 61, 63, 95}
PathByteUchar ==   \* bug: of hsegment, only uchar
    HostByte \cup ((36..44) \ {38}) \cup {Slash, 33, 95}
PathByte == (36..59) \cup (64..90) \cup Letter \cup {33, 61, 95}
SearchByte == PathByte \ {Slash}

\* In state from, on a byte of on: the text since the last mark becomes the
\* value of the fields of ends, a new mark is set if marks, and the state is to.
go(from, on, ends, marks, to) ==
    [from |-> from, on |-> on, ends |-> ends, marks |-> marks, to |-> to]
stay(state, on) == go(state, on, {}, FALSE, state)

COLON == {58}
AT == {64}
SLASH == {Slash}
QUESTION == {63}

\* What comes after the scheme may turn out to be a user or a host, and what
\* comes after its colon a password or a port.
Transitions == {
    go("start",          UserByte \ HostByte, {"scheme"},       TRUE,  "user"),
    go("start",          HostByte,            {"scheme"},       TRUE,  "userOrHost"),
    stay("userOrHost",   HostByte),
    go("userOrHost",     UserByte \ HostByte, {},               FALSE, "user"),
    go("userOrHost",     COLON,               {"user", "host"}, FALSE, "afterColon"),
    go("userOrHost",     AT,                  {"user"},         FALSE, "afterAt"),
    go("userOrHost",     SLASH,               {"host"},         TRUE,  "path"),
    stay("user",         UserByte),
    go("user",           COLON,               {"user"},         FALSE, "afterUser"),
    go("user",           AT,                  {"user"},         FALSE, "afterAt"),
    go("afterUser",      UserByte,            {},               TRUE,  "password"),
    stay("password",     UserByte),
    go("password",       AT,                  {"password"},     FALSE, "afterAt"),
    go("afterColon",     UserByte \ Digit,    {},               TRUE,  "password"),
    go("afterColon",     Digit,               {},               TRUE,  "passwordOrPort"),
    stay("passwordOrPort", Digit),
    go("passwordOrPort", UserByte \ Digit,    {},               FALSE, "password"),
    go("passwordOrPort", AT,                  {"password"},     FALSE, "afterAt"),
    go("passwordOrPort", SLASH,               {"port"},         TRUE,  "path"),
    go("afterAt",        HostByte,            {},               TRUE,  "host"),
    stay("host",         HostByte),
    go("host",           COLON,               {"host"},         FALSE, "afterHost"),
    go("host",           SLASH,               {"host"},         TRUE,  "path"),
    go("afterHost",      Digit,               {},               TRUE,  "port"),
    stay("port",         Digit),
    go("port",           SLASH,               {"port"},         TRUE,  "path"),
    stay("path",         PathByte),
    go("path",           QUESTION,            {"path"},         FALSE, "afterPath"),
    go("afterPath",      SearchByte,          {},               TRUE,  "search"),
    stay("search",       SearchByte) }

\* What the end of the text ends, in the states in which it may come.
AtEnd ==
    [userOrHost |-> {"host"}, host |-> {"host"}, passwordOrPort |-> {"port"},
     port |-> {"port"}, path |-> {"path"}, afterPath |-> {}, search |-> {"search"}]

\* The text from the mark up to k becomes the value of the fields of ends.
assign(u, raw, ends, k) ==
    [f \in Field |-> IF f \in ends THEN SubSeq(raw, u.mark, k) ELSE u.fields[f]]

\* One byte; where no transition fits there is no way on.
readUnlessMarked(u, raw, k) ==   \* bug: the mark stays where it was first set
    LET fitting == {t \in Transitions : t.from = u.state /\ raw[k] \in t.on}
        t == CHOOSE x \in fitting : TRUE
    IN  IF fitting = {} THEN [u EXCEPT !.state = "error"]
        ELSE [state |-> t.to,
              mark |-> IF t.marks /\ u.mark = 1 THEN k ELSE u.mark,
              fields |-> assign(u, raw, t.ends, k - 1)]
read(u, raw, k) ==
    LET fitting == {t \in Transitions : t.from = u.state /\ raw[k] \in t.on}
        t == CHOOSE x \in fitting : TRUE
    IN  IF fitting = {} THEN [u EXCEPT !.state = "error"]
        ELSE [state |-> t.to,
              mark |-> IF t.marks THEN k ELSE u.mark,
              fields |-> assign(u, raw, t.ends, k - 1)]

\* Where the scheme ends, 0 if there is none.
schemeLength(raw) ==
    IF IsPrefix(http, raw) THEN Len(http)
    ELSE IF IsPrefix(https, raw) THEN Len(https) ELSE 0

\* The automaton, after the whole text.
run(raw) ==
    LET n == schemeLength(raw)
        at[k \in n..Len(raw)] ==
            IF k = n THEN [state |-> IF n = 0 THEN "error" ELSE "start",
                           mark |-> 1, fields |-> [f \in Field |-> <<>>]]
            ELSE read(at[k - 1], raw, k)
    IN  at[Len(raw)]

\* URL::URL throws if the text does not end in a final state.
parses(raw) == run(raw).state \in DOMAIN AtEnd

parse(raw) ==
    LET u == run(raw)
    IN  assign(u, raw, AtEnd[u.state], Len(raw))

\* The search goes without its question mark.
pathAndSearch(fields) == fields.path \o fields.search

-----------------------------------------------------------------------------
(* What others make of it                                                  *)

\* The name that a server sees in the target of a request.
hexValue(d) == IF d \in Digit THEN d - 48 ELSE d - 65 + 10

urldecode(s) ==
    LET HexByte == Digit \cup (65..70)
        from[k \in 1..(Len(s) + 1)] ==
            IF k > Len(s) THEN <<>>
            ELSE IF /\ s[k] = Percent /\ k + 2 <= Len(s)
                    /\ {s[k + 1], s[k + 2]} \subseteq HexByte
                 THEN <<16 * hexValue(s[k + 1]) + hexValue(s[k + 2])>> \o from[k + 3]
                 ELSE <<s[k]>> \o from[k + 1]
    IN  from[1]

\* A text is read as url.rl says it is made up:
\*    scheme [ user [ ":" password ] "@" ] host [ ":" port ] [ path [ "?" search ] ]
Made(raw, f) ==
    LET opt(sep, s) == IF s = <<>> THEN <<>> ELSE sep \o s
        site == f.host \o opt(<<58>>, f.port) \o f.path \o opt(<<63>>, f.search)
    IN  /\ \/ raw = f.scheme \o site
           \/ raw = f.scheme \o f.user \o opt(<<58>>, f.password) \o <<64>> \o site
        /\ f.scheme \in {http, https}
        /\ Range(f.host) \subseteq HostByte /\ Range(f.port) \subseteq Digit
        /\ f.path = <<>> \/ Head(f.path) = Slash
        /\ QUESTION \cap Range(f.path) = {}
=============================================================================
