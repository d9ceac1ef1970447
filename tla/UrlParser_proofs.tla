--------------------------- MODULE UrlParser_proofs ---------------------------
(***************************************************************************)
(* What is proved of the URL parser, for URLs of any length: where the     *)
(* parser takes a URL for one that names a host, it has found the host and *)
(* the port that the URL names, and it takes every plain URL.              *)
(***************************************************************************)
EXTENDS Exchange, SequenceTheorems, FiniteSetTheorems, WellFoundedInduction, TLAPS

\* Sets of naturals have a least element, by the well-foundedness of the order of
\* finite sets by inclusion.
LEMMA LeastNumber ==
  ASSUME NEW B, B \subseteq Nat, B # {}
  PROVE  \E n \in B : \A m \in B : n <= m
<1> DEFINE T == {1 .. n : n \in B}
<1>1. IsWellFoundedOn(StrictSubsetOrdering(Nat), FiniteSubsetsOf(Nat))
  BY FS_StrictSubsetOrderingWellFounded
<1>2. T \subseteq FiniteSubsetsOf(Nat) /\ T # {}
  <2>1. \A n \in B : 1 .. n \in SUBSET Nat /\ IsFiniteSet(1 .. n)
    BY FS_Interval
  <2> QED BY <2>1 DEF FiniteSubsetsOf
<1> HIDE DEF T
<1>3. PICK x \in T : \A y \in T : ~(<<y, x>> \in StrictSubsetOrdering(Nat))
  BY <1>1, <1>2, WFMin
<1>4. PICK n \in B : x = 1 .. n
  BY <1>3 DEF T
<1>5. \A m \in B : ~(m < n)
  <2> SUFFICES ASSUME NEW m \in B, m < n PROVE FALSE
    OBVIOUS
  <2>1. 1 .. m \in T BY DEF T
  <2>2. 1 .. m \subseteq 1 .. n /\ n \in 1 .. n /\ n \notin 1 .. m OBVIOUS
  <2>3. 1 .. m \in SUBSET Nat /\ 1 .. n \in SUBSET Nat OBVIOUS
  <2> QED BY <1>3, <1>4, <2>1, <2>2, <2>3 DEF StrictSubsetOrdering
<1> QED BY <1>5

\* What holds of 0, and of n if it holds of n - 1, holds up to N.
LEMMA Reaches ==
  ASSUME NEW N \in Nat, NEW G, 0 \in G, \A n \in 1 .. N : n - 1 \in G => n \in G
  PROVE  0 .. N \subseteq G
<1> DEFINE B == (0 .. N) \ G
<1> SUFFICES ASSUME B # {} PROVE FALSE
  OBVIOUS
<1>1. B \subseteq Nat
  OBVIOUS
<1> HIDE DEF B
<1>2. PICK n \in B : \A m \in B : n <= m
  BY <1>1, LeastNumber
<1>3. n \in 1 .. N /\ n - 1 \in 0 .. N /\ n \notin G
  BY <1>2 DEF B
<1>4. n - 1 \notin B
  BY <1>2, <1>3
<1> QED BY <1>3, <1>4 DEF B

\* f is defined recursively up to N.
Recursion(f, N, c, Step) ==
  f[0] = c /\ \A n \in 1 .. N : f[n] = Step[<<f[n - 1], n>>]

LEMMA Recursive ==
  ASSUME NEW T, NEW N \in Nat, NEW c \in T, NEW Step \in [T \X (1 .. N) -> T]
  PROVE  \E f \in [0 .. N -> T] : Recursion(f, N, c, Step)
<1> DEFINE G == {n \in 0 .. N : \E f \in [0 .. N -> T] : Recursion(f, n, c, Step)}
<1>1. 0 \in G
  <2>1. [k \in 0 .. N |-> c] \in [0 .. N -> T] /\ Recursion([k \in 0 .. N |-> c], 0, c, Step)
    BY DEF Recursion
  <2> QED BY <2>1
<1>2. ASSUME NEW n \in 1 .. N, n - 1 \in G PROVE n \in G
  <2>1. PICK f \in [0 .. N -> T] : Recursion(f, n - 1, c, Step)
    BY <1>2
  <2> DEFINE g == [f EXCEPT ![n] = Step[<<f[n - 1], n>>]]
  <2>2. Step[<<f[n - 1], n>>] \in T
    <3>1. <<f[n - 1], n>> \in T \X (1 .. N)
      OBVIOUS
    <3> QED BY <3>1
  <2>3. g \in [0 .. N -> T]
    BY <2>2
  <2>4. ASSUME NEW k \in 1 .. n PROVE g[k] = Step[<<g[k - 1], k>>]
    <3>1. CASE k = n
      BY <3>1
    <3>2. CASE k # n
      BY <2>1, <3>2 DEF Recursion
    <3> QED BY <3>1, <3>2
  <2>5. Recursion(g, n, c, Step)
    BY <2>1, <2>4 DEF Recursion
  <2> HIDE DEF g
  <2> QED BY <2>3, <2>5
<1> HIDE DEF G
<1>3. N \in G
  BY <1>1, <1>2, Reaches
<1> QED BY <1>3 DEF G

LEMMA MinIsLeast ==
  ASSUME NEW I, I \subseteq Nat, I # {}
  PROVE  Min(I) \in I /\ \A n \in I : Min(I) <= n
<1>1. \E m \in I : \A n \in I : m <= n
  BY LeastNumber
<1> QED BY <1>1 DEF Min

\* A piece that is one longer.
LEMMA OneMore ==
  ASSUME NEW S, NEW s \in Seq(S), NEW i \in Nat, NEW j \in Nat,
         1 <= i, i <= j + 1, j + 1 <= Len(s)
  PROVE  Append(SubSeq(s, i, j), s[j + 1]) = SubSeq(s, i, j + 1)
<1>1. SubSeq(s, i, j) \in Seq(S) /\ Len(SubSeq(s, i, j)) = j + 1 - i
  OBVIOUS
<1>2. SubSeq(s, i, j + 1) \in Seq(S) /\ Len(SubSeq(s, i, j + 1)) = j + 2 - i
  OBVIOUS
<1>3. \A m \in 1 .. j + 2 - i : Append(SubSeq(s, i, j), s[j + 1])[m] = SubSeq(s, i, j + 1)[m]
  BY <1>1
<1>4. s[j + 1] \in S
  OBVIOUS
<1>5. /\ Append(SubSeq(s, i, j), s[j + 1]) \in Seq(S)
      /\ Len(Append(SubSeq(s, i, j), s[j + 1])) = j + 2 - i
  BY <1>1, <1>4
<1> QED BY <1>2, <1>3, <1>5, SeqEqual

-----------------------------------------------------------------------------

\* None of these characters is between two places.
No(str, from, to, chars) == \A i \in from .. to : str[i] \notin chars

\* No part has been collected yet.
Free(p, parts) == \A part \in parts : p[part] = <<>>
Fields == {"username", "password", "hostname", "port", "usernameOrHostname", "portOrPassword"}

\* What names the server begins behind s: behind the first colon, and behind two
\* slashes if they follow it.
Begins(str, s) ==
  \/ /\ s > 0 /\ str[s] = ":" /\ No(str, 1, s - 1, {":"})
     /\ str[s + 1] # "/"
  \/ /\ s > 2 /\ str[s - 2] = ":" /\ No(str, 1, s - 3, {":"})
     /\ str[s - 1] = "/" /\ str[s] = "/"

\* It ends with the slash at e, the host begins behind a and ends before k, where
\* the colon before the port is, or the slash.
ServerAt(str, s, a, k, e) ==
  /\ Begins(str, s)
  /\ str[e] = "/" /\ No(str, s + 1, e - 1, {"/"})
  /\ a = s \/ str[a] = "@"
  /\ No(str, a + 1, e - 1, {"@"})
  /\ No(str, a + 1, k - 1, {":"})
  /\ k = e \/ str[k] = ":"

BeforeServer(str, p, n) ==
  /\ Free(p, Fields)
  /\ \/ p.state = "Scheme" /\ No(str, 1, n, {":"})
     \/ p.state = "SlashAfterScheme1" /\ n > 0 /\ str[n] = ":" /\ No(str, 1, n - 1, {":"})
     \/ /\ p.state = "SlashAfterScheme2" /\ n > 1
        /\ str[n - 1] = ":" /\ No(str, 1, n - 2, {":"}) /\ str[n] = "/"

\* It is not known yet whether it is the host that begins behind s.
UserOrHost(str, p, n, s) ==
  /\ Free(p, {"username", "password", "hostname", "port"})
  /\ No(str, s + 1, n, {"@"})
  /\ \/ /\ p.state = "UsernameOrHostname" /\ No(str, s + 1, n, {":"})
        /\ p.usernameOrHostname = SubSeq(str, s + 1, n) /\ p.portOrPassword = <<>>
     \/ /\ p.state = "PortOrPassword"
        /\ \E k \in s + 1 .. n :
             /\ str[k] = ":" /\ No(str, s + 1, k - 1, {":"})
             /\ p.usernameOrHostname = SubSeq(str, s + 1, k - 1)
             /\ p.portOrPassword = SubSeq(str, k + 1, n)

InPassword(p) ==
  p.state = "Password" /\ Free(p, {"hostname", "port", "usernameOrHostname", "portOrPassword"})

\* The host, that begins behind the @ at a, and the port.
BehindUser(str, p, n, a) ==
  /\ str[a] = "@" /\ No(str, a + 1, n, {"@"})
  /\ Free(p, {"port", "usernameOrHostname"})
  /\ \/ /\ p.state = "Hostname" /\ No(str, a + 1, n, {":"})
        /\ p.hostname = SubSeq(str, a + 1, n) /\ p.portOrPassword = <<>>
     \/ /\ p.state = "Port"
        /\ \E k \in a + 1 .. n :
             /\ str[k] = ":" /\ No(str, a + 1, k - 1, {":"})
             /\ p.hostname = SubSeq(str, a + 1, k - 1)
             /\ p.portOrPassword = SubSeq(str, k + 1, n)

BehindServer(str, p, n) ==
  /\ p.state \in {"Path", "Query", "Fragment"}
  /\ Free(p, {"usernameOrHostname", "portOrPassword"})
  /\ \E s \in 1 .. n, e \in 2 .. n : s < e /\ \E a \in s .. e - 1 : \E k \in a + 1 .. e :
       /\ ServerAt(str, s, a, k, e)
       /\ p.hostname = SubSeq(str, a + 1, k - 1)
       /\ p.port = SubSeq(str, k + 1, e - 1)

Dead == Url!Over \union {"IPV6Hostname"}

\* Where the parser is when it has taken n characters, and what it has by then.
UrlAt(str, p, n) ==
  \/ p.state \in Dead
  \/ BeforeServer(str, p, n)
  \/ \E s \in 1 .. n :
       /\ Begins(str, s) /\ No(str, s + 1, n, {"/"})
       /\ \/ UserOrHost(str, p, n, s)
          \/ InPassword(p)
          \/ \E a \in s + 1 .. n : BehindUser(str, p, n, a)
  \/ BehindServer(str, p, n)

\* The first seven characters of a plain URL.
Http == <<"h", "t", "t", "p", ":", "/", "/">>

PlainAt(str, k, e) ==
  /\ e \in 9 .. Len(str) /\ k \in 9 .. e
  /\ \A i \in 1 .. 7 : str[i] = Http[i]
  /\ \A i \in 8 .. k - 1 : str[i] \in Url!Unreserved
  /\ k # e => str[k] = ":"
  /\ \A i \in k + 1 .. e - 1 : str[i] \in Url!Digits
  /\ str[e] = "/"

\* The parser takes a plain URL.
InPlain(str, p, n, k, e) ==
  /\ n > 3 => p.scheme = <<"h", "t", "t", "p">>
  /\ n < e => Free(p, {"hostname"})
  /\ \/ p.state = "Scheme" /\ n \in 0 .. 4 /\ p.scheme = SubSeq(str, 1, n) /\ Free(p, Fields)
     \/ p.state = "SlashAfterScheme1" /\ n = 5 /\ Free(p, Fields)
     \/ p.state = "SlashAfterScheme2" /\ n = 6 /\ Free(p, Fields)
     \/ /\ p.state = "UsernameOrHostname" /\ n \in 7 .. k - 1
        /\ p.usernameOrHostname = SubSeq(str, 8, n)
        /\ Free(p, {"port", "portOrPassword"})
     \/ /\ p.state = "PortOrPassword" /\ n \in k .. e - 1
        /\ p.usernameOrHostname = SubSeq(str, 8, k - 1)
        /\ Free(p, {"port"})
     \/ /\ p.state \in {"Path", "Query", "Fragment"} /\ n >= e
        /\ p.hostname = SubSeq(str, 8, k - 1)
        /\ Free(p, {"usernameOrHostname", "portOrPassword"})

-----------------------------------------------------------------------------

UrlFields == Url!Parts \union {"state"}
UrlStates == DOMAIN Url!Moves \union Dead

\* What the parser is while it works.
Urls ==
  {p \in [UrlFields -> Seq(Url!Characters) \union UrlStates] :
     p.state \in UrlStates /\ \A part \in Url!Parts : p[part] \in Seq(Url!Characters)}

\* q is p with the parts sorted for the next state and ch at the end of one.
Takes(p, ch, q, next, part) ==
  /\ q.state = next
  /\ \A x \in Url!Parts :
       q[x] = IF x = part THEN Append(Url!Sort(p, next)[x], ch) ELSE Url!Sort(p, next)[x]

LEMMA PartsOf ==
  /\ Url!Parts = {"scheme", "username", "password", "hostname", "port", "path", "query",
                  "fragment", "usernameOrHostname", "portOrPassword"}
  /\ "state" \notin Url!Parts /\ "none" \notin Url!Parts
BY DEF Url!Parts

LEMMA MoveStates ==
  /\ DOMAIN Url!Moves = {"Scheme", "SlashAfterScheme1", "SlashAfterScheme2",
                         "UsernameOrHostname", "Password", "Hostname", "PortOrPassword",
                         "Port", "Path", "Query", "Fragment"}
  /\ Dead = {"invalid", "aborted", "IPV6Hostname"}
BY DEF Url!Moves, Dead, Url!Over

LEMMA MoveTypes ==
  \A s \in DOMAIN Url!Moves : \A m \in Url!Moves[s] :
    m[2] \in UrlStates /\ m[3] \in Url!Parts \union {"none"}
<1> SUFFICES ASSUME NEW s \in DOMAIN Url!Moves, NEW m \in Url!Moves[s]
             PROVE  m[2] \in UrlStates /\ m[3] \in Url!Parts \union {"none"}
  OBVIOUS
<1>1. \E c : m \in {<<c, t, x>> : t \in UrlStates, x \in Url!Parts \union {"none"}}
  BY MoveStates, PartsOf DEF Url!Moves, UrlStates
<1> QED BY <1>1

LEMMA SwapType ==
  ASSUME NEW p \in Urls, NEW x \in Url!Parts, NEW y \in Url!Parts
  PROVE  /\ Url!Swap(p, x, y) \in Urls
         /\ Url!Swap(p, x, y).state = p.state
<1>1. DOMAIN p = UrlFields /\ x # "state" /\ y # "state" /\ x \in UrlFields /\ y \in UrlFields
  BY PartsOf DEF Urls, UrlFields
<1>2. Url!Swap(p, x, y) = [z \in UrlFields |-> IF z = y THEN p[x] ELSE IF z = x THEN p[y] ELSE p[z]]
  BY <1>1 DEF Url!Swap, Urls
<1> QED BY <1>1, <1>2, PartsOf DEF Urls, UrlFields

LEMMA SortType ==
  ASSUME NEW p \in Urls, NEW next
  PROVE  Url!Sort(p, next) \in Urls
<1>1. \A x, y \in Url!Parts : Url!Swap(p, x, y) \in Urls
  BY SwapType
<1>2. \A x, y, z, w \in Url!Parts : Url!Swap(Url!Swap(p, x, y), z, w) \in Urls
  BY <1>1, SwapType
<1>3. /\ "username" \in Url!Parts /\ "usernameOrHostname" \in Url!Parts /\ "hostname" \in Url!Parts
      /\ "port" \in Url!Parts /\ "portOrPassword" \in Url!Parts /\ "password" \in Url!Parts
  BY PartsOf
<1> QED BY <1>1, <1>2, <1>3 DEF Url!Sort

LEMMA Taken ==
  ASSUME NEW p \in Urls, NEW ch \in Url!Characters, NEW move,
         move[2] \in UrlStates, move[3] \in Url!Parts \union {"none"}
  PROVE  /\ Url!Take(p, ch, move) \in Urls
         /\ Takes(p, ch, Url!Take(p, ch, move), move[2], move[3])
<1> DEFINE s == Url!Sort(p, move[2])
           q == Url!Take(p, ch, move)
<1>1. s \in Urls
  BY SortType
<1> HIDE DEF s
<1>2. DOMAIN s = UrlFields /\ \A x \in Url!Parts : s[x] \in Seq(Url!Characters)
  BY <1>1 DEF Urls
<1>3. q = [x \in UrlFields |->
             CASE x = "state" -> move[2]
               [] x = move[3] -> Append(s[x], ch)
               [] OTHER -> s[x]]
  BY <1>2 DEF Url!Take, s
<1>4. q.state = move[2]
  BY <1>3, PartsOf DEF UrlFields
<1>5. \A x \in Url!Parts : q[x] = IF x = move[3] THEN Append(s[x], ch) ELSE s[x]
  BY <1>3, PartsOf DEF UrlFields
<1>6. \A x \in Url!Parts : q[x] \in Seq(Url!Characters)
  <2> SUFFICES ASSUME NEW x \in Url!Parts PROVE q[x] \in Seq(Url!Characters)
    OBVIOUS
  <2> HIDE DEF q
  <2>1. Append(s[x], ch) \in Seq(Url!Characters)
    BY <1>2
  <2> QED BY <1>2, <1>5, <2>1
<1>7. q = [x \in UrlFields |-> q[x]]
  BY <1>3
<1>8. \A x \in UrlFields : q[x] \in Seq(Url!Characters) \union UrlStates
  <2> HIDE DEF q
  <2> QED BY <1>4, <1>6 DEF UrlFields
<1>9. q \in [UrlFields -> Seq(Url!Characters) \union UrlStates]
  <2> HIDE DEF q
  <2> QED BY <1>7, <1>8
<1> HIDE DEF q
<1> QED BY <1>4, <1>5, <1>6, <1>9 DEF Urls, Takes, q, s

LEMMA StartType == Url!Start \in Urls
<1>1. /\ Url!Start.state = "Scheme"
      /\ \A part \in Url!Parts : Url!Start[part] = IF part = "path" THEN <<"/">> ELSE <<>>
  BY PartsOf DEF Url!Start
<1>2. <<"/">> \in Seq(Url!Characters) /\ <<>> \in Seq(Url!Characters)
  BY DEF Url!Characters
<1>3. Url!Start = [part \in UrlFields |-> Url!Start[part]]
  BY DEF Url!Start, UrlFields
<1>4. "Scheme" \in UrlStates
  BY MoveStates DEF UrlStates
<1>5. \A part \in Url!Parts : Url!Start[part] \in Seq(Url!Characters)
  BY <1>1, <1>2
<1>6. \A part \in UrlFields : Url!Start[part] \in Seq(Url!Characters) \union UrlStates
  BY <1>1, <1>4, <1>5 DEF UrlFields
<1>7. Url!Start \in [UrlFields -> Seq(Url!Characters) \union UrlStates]
  BY <1>3, <1>6
<1> QED BY <1>1, <1>4, <1>5, <1>7 DEF Urls

LEMMA TurnTakes ==
  ASSUME NEW p \in Urls, NEW ch \in Url!Characters
  PROVE  /\ Url!Turn(p, ch) \in Urls
         /\ p.state \in Dead => Url!Turn(p, ch).state \in Dead
         /\ p.state \notin Dead =>
              \/ Url!Accepted(p, ch) = {} /\ Url!Turn(p, ch).state = "invalid"
              \/ \E m \in Url!Accepted(p, ch) : Takes(p, ch, Url!Turn(p, ch), m[2], m[3])
<1> DEFINE q == Url!Turn(p, ch)
<1>1. /\ p \in [UrlFields -> Seq(Url!Characters) \union UrlStates]
      /\ p.state \in UrlStates /\ \A part \in Url!Parts : p[part] \in Seq(Url!Characters)
      /\ DOMAIN p = UrlFields
  BY DEF Urls
<1>2. CASE p.state \in Url!Over
  <2>1. q = p
    BY <1>2 DEF Url!Turn, Url!Over
  <2> QED BY <1>2, <2>1 DEF Dead
<1>3. CASE p.state = "IPV6Hostname"
  <2>1. q = [p EXCEPT !["state"] = "aborted"]
    BY <1>3 DEF Url!Turn, Url!Over
  <2>2. q.state = "aborted" /\ \A part \in Url!Parts : q[part] = p[part]
    BY <1>1, <2>1, PartsOf DEF UrlFields
  <2>3. q \in [UrlFields -> Seq(Url!Characters) \union UrlStates]
    BY <1>1, <2>1, MoveStates DEF UrlStates
  <2> HIDE DEF q
  <2>4. q \in Urls
    BY <1>1, <2>2, <2>3, MoveStates DEF Urls, UrlStates
  <2> QED BY <1>3, <2>2, <2>4, MoveStates DEF q
<1>4. CASE p.state \notin Dead
  <2>1. p.state \in DOMAIN Url!Moves /\ p.state \notin Url!Over /\ p.state # "IPV6Hostname"
    BY <1>1, <1>4 DEF UrlStates, Dead
  <2>2. q = IF Url!Accepted(p, ch) = {} THEN Url!Invalid(p)
            ELSE Url!Take(p, ch, CHOOSE m \in Url!Accepted(p, ch) : TRUE)
    BY <2>1 DEF Url!Turn
  <2>3. CASE Url!Accepted(p, ch) = {}
    <3>1. q = Url!Invalid(p)
      BY <2>2, <2>3
    <3>2. q.state = "invalid"
      BY <1>1, <3>1 DEF Url!Invalid, UrlFields
    <3>3. \A part \in Url!Parts : q[part] = <<>> \/ q[part] = p[part]
      BY <1>1, <3>1, PartsOf DEF Url!Invalid, UrlFields
    <3>4. q = [x \in UrlFields |-> q[x]]
      BY <1>1, <3>1 DEF Url!Invalid
    <3> HIDE DEF q
    <3>5. <<>> \in Seq(Url!Characters) /\ "invalid" \in UrlStates
      BY MoveStates DEF UrlStates
    <3>6. q \in Urls
      BY <1>1, <3>2, <3>3, <3>4, <3>5 DEF Urls, UrlFields
    <3> QED BY <1>4, <2>3, <3>2, <3>6 DEF q
  <2>4. CASE Url!Accepted(p, ch) # {}
    <3>1. PICK m \in Url!Accepted(p, ch) : q = Url!Take(p, ch, m)
      BY <2>2, <2>4
    <3>2. m[2] \in UrlStates /\ m[3] \in Url!Parts \union {"none"}
      BY <2>1, MoveTypes DEF Url!Accepted
    <3>3. q \in Urls /\ Takes(p, ch, q, m[2], m[3])
      <4>1. Url!Take(p, ch, m) \in Urls /\ Takes(p, ch, Url!Take(p, ch, m), m[2], m[3])
        BY <3>2, Taken
      <4> HIDE DEF q
      <4> QED BY <3>1, <4>1
    <3> QED BY <1>4, <3>3
  <2> QED BY <2>3, <2>4
<1> QED BY <1>2, <1>3, <1>4 DEF Dead

\* The moves of each state, and what the parser does with a character there.
LEMMA MovesOf ==
  /\ Url!Moves["Scheme"] =
       {<<Url!Alnum \union {"+", "-", "."}, "Scheme", "scheme">>,
        <<{":"}, "SlashAfterScheme1", "none">>}
  /\ Url!Moves["SlashAfterScheme1"] =
       {<<{"/"}, "SlashAfterScheme2", "none">>,
        <<Url!Alnum, "UsernameOrHostname", "usernameOrHostname">>}
  /\ Url!Moves["SlashAfterScheme2"] =
       {<<{"/"}, "UsernameOrHostname", "none">>}
  /\ Url!Moves["UsernameOrHostname"] =
       {<<Url!Unreserved \union {"%"}, "UsernameOrHostname", "usernameOrHostname">>,
        <<{":"}, "PortOrPassword", "none">>,
        <<{"@"}, "Hostname", "none">>,
        <<{"/"}, "Path", "none">>}
  /\ Url!Moves["Password"] =
       {<<Url!Alnum \union {"%"}, "Password", "password">>,
        <<{"@"}, "Hostname", "none">>}
  /\ Url!Moves["Hostname"] =
       {<<Url!Unreserved \union {"%"}, "Hostname", "hostname">>,
        <<{"["}, "IPV6Hostname", "none">>,
        <<{":"}, "Port", "none">>,
        <<{"/"}, "Path", "none">>}
  /\ Url!Moves["PortOrPassword"] =
       {<<Url!Digits, "PortOrPassword", "portOrPassword">>,
        <<Url!Letters \union {"%"}, "Password", "password">>,
        <<{"/"}, "Path", "none">>}
  /\ Url!Moves["Port"] =
       {<<Url!Digits, "Port", "portOrPassword">>,
        <<{"/"}, "Path", "none">>}
  /\ Url!Moves["Path"] =
       {<<Url!Characters \ {"#", "?"}, "Path", "path">>,
        <<{"?"}, "Query", "none">>,
        <<{"#"}, "Fragment", "none">>}
  /\ Url!Moves["Query"] =
       {<<Url!Characters \ {"#", "?"}, "Query", "query">>,
        <<{"?"}, "Query", "none">>,
        <<{"#"}, "Fragment", "none">>}
  /\ Url!Moves["Fragment"] =
       {<<Url!Characters, "Fragment", "fragment">>}
BY DEF Url!Moves

TakesOne(p, ch, q) ==
  \/ /\ p.state = "Scheme"
     /\ \/ /\ ch \in Url!Alnum \union {"+", "-", "."}
           /\ Takes(p, ch, q, "Scheme", "scheme")
        \/ /\ ch \in {":"}
           /\ Takes(p, ch, q, "SlashAfterScheme1", "none")
  \/ /\ p.state = "SlashAfterScheme1"
     /\ \/ /\ ch \in {"/"}
           /\ Takes(p, ch, q, "SlashAfterScheme2", "none")
        \/ /\ ch \in Url!Alnum
           /\ Takes(p, ch, q, "UsernameOrHostname", "usernameOrHostname")
  \/ /\ p.state = "SlashAfterScheme2"
     /\ \/ /\ ch \in {"/"}
           /\ Takes(p, ch, q, "UsernameOrHostname", "none")
  \/ /\ p.state = "UsernameOrHostname"
     /\ \/ /\ ch \in Url!Unreserved \union {"%"}
           /\ Takes(p, ch, q, "UsernameOrHostname", "usernameOrHostname")
        \/ /\ ch \in {":"}
           /\ Takes(p, ch, q, "PortOrPassword", "none")
        \/ /\ ch \in {"@"}
           /\ Takes(p, ch, q, "Hostname", "none")
        \/ /\ ch \in {"/"}
           /\ Takes(p, ch, q, "Path", "none")
  \/ /\ p.state = "Password"
     /\ \/ /\ ch \in Url!Alnum \union {"%"}
           /\ Takes(p, ch, q, "Password", "password")
        \/ /\ ch \in {"@"}
           /\ Takes(p, ch, q, "Hostname", "none")
  \/ /\ p.state = "Hostname"
     /\ \/ /\ ch \in Url!Unreserved \union {"%"}
           /\ Takes(p, ch, q, "Hostname", "hostname")
        \/ /\ ch \in {"["}
           /\ Takes(p, ch, q, "IPV6Hostname", "none")
        \/ /\ ch \in {":"}
           /\ Takes(p, ch, q, "Port", "none")
        \/ /\ ch \in {"/"}
           /\ Takes(p, ch, q, "Path", "none")
  \/ /\ p.state = "PortOrPassword"
     /\ \/ /\ ch \in Url!Digits
           /\ Takes(p, ch, q, "PortOrPassword", "portOrPassword")
        \/ /\ ch \in Url!Letters \union {"%"}
           /\ Takes(p, ch, q, "Password", "password")
        \/ /\ ch \in {"/"}
           /\ Takes(p, ch, q, "Path", "none")
  \/ /\ p.state = "Port"
     /\ \/ /\ ch \in Url!Digits
           /\ Takes(p, ch, q, "Port", "portOrPassword")
        \/ /\ ch \in {"/"}
           /\ Takes(p, ch, q, "Path", "none")
  \/ /\ p.state = "Path"
     /\ \/ /\ ch \in Url!Characters \ {"#", "?"}
           /\ Takes(p, ch, q, "Path", "path")
        \/ /\ ch \in {"?"}
           /\ Takes(p, ch, q, "Query", "none")
        \/ /\ ch \in {"#"}
           /\ Takes(p, ch, q, "Fragment", "none")
  \/ /\ p.state = "Query"
     /\ \/ /\ ch \in Url!Characters \ {"#", "?"}
           /\ Takes(p, ch, q, "Query", "query")
        \/ /\ ch \in {"?"}
           /\ Takes(p, ch, q, "Query", "none")
        \/ /\ ch \in {"#"}
           /\ Takes(p, ch, q, "Fragment", "none")
  \/ /\ p.state = "Fragment"
     /\ \/ /\ ch \in Url!Characters
           /\ Takes(p, ch, q, "Fragment", "fragment")

LEMMA Turns ==
  ASSUME NEW p \in Urls, NEW ch \in Url!Characters, NEW q, q = Url!Turn(p, ch)
  PROVE  /\ q.state \in Dead \/ TakesOne(p, ch, q)
         /\ p.state \notin Dead /\ Url!Accepted(p, ch) # {} => TakesOne(p, ch, q)
<1>1. CASE p.state \in Dead
  BY <1>1, TurnTakes
<1>2. CASE p.state \notin Dead /\ Url!Accepted(p, ch) = {}
  BY <1>2, TurnTakes, MoveStates
<1>3. ASSUME p.state \notin Dead, Url!Accepted(p, ch) # {} PROVE TakesOne(p, ch, q)
  <2>1. PICK m \in Url!Accepted(p, ch) : Takes(p, ch, q, m[2], m[3])
    BY <1>3, TurnTakes
  <2>2. m \in Url!Moves[p.state] /\ ch \in m[1]
    BY DEF Url!Accepted
  <2>3. p.state \in DOMAIN Url!Moves
    BY <1>3 DEF Urls, UrlStates
  <2>4. CASE p.state = "Scheme"
    BY <2>1, <2>2, <2>4, MovesOf DEF TakesOne
  <2>5. CASE p.state = "SlashAfterScheme1"
    BY <2>1, <2>2, <2>5, MovesOf DEF TakesOne
  <2>6. CASE p.state = "SlashAfterScheme2"
    BY <2>1, <2>2, <2>6, MovesOf DEF TakesOne
  <2>7. CASE p.state = "UsernameOrHostname"
    BY <2>1, <2>2, <2>7, MovesOf DEF TakesOne
  <2>8. CASE p.state = "Password"
    BY <2>1, <2>2, <2>8, MovesOf DEF TakesOne
  <2>9. CASE p.state = "Hostname"
    BY <2>1, <2>2, <2>9, MovesOf DEF TakesOne
  <2>10. CASE p.state = "PortOrPassword"
    BY <2>1, <2>2, <2>10, MovesOf DEF TakesOne
  <2>11. CASE p.state = "Port"
    BY <2>1, <2>2, <2>11, MovesOf DEF TakesOne
  <2>12. CASE p.state = "Path"
    BY <2>1, <2>2, <2>12, MovesOf DEF TakesOne
  <2>13. CASE p.state = "Query"
    BY <2>1, <2>2, <2>13, MovesOf DEF TakesOne
  <2>14. CASE p.state = "Fragment"
    BY <2>1, <2>2, <2>14, MovesOf DEF TakesOne
  <2> QED BY <2>3, <2>4, <2>5, <2>6, <2>7, <2>8, <2>9, <2>10, <2>11, <2>12, <2>13, <2>14, MoveStates
<1> QED BY <1>1, <1>2, <1>3

LEMMA NoMore ==
  ASSUME NEW str, NEW i \in Int, NEW n \in Int, NEW chars, No(str, i, n, chars),
         str[n + 1] \notin chars
  PROVE  No(str, i, n + 1, chars)
<1> SUFFICES ASSUME NEW j \in i .. n + 1 PROVE str[j] \notin chars
  BY DEF No
<1>1. j \in i .. n \/ j = n + 1
  OBVIOUS
<1> QED BY <1>1 DEF No

LEMMA NoneYet ==
  ASSUME NEW str, NEW n \in Int, NEW chars
  PROVE  No(str, n + 1, n, chars)
BY DEF No

LEMMA NothingYet ==
  ASSUME NEW S, NEW s \in Seq(S), NEW n \in Int
  PROVE  SubSeq(s, n + 1, n) = <<>>
OBVIOUS

LEMMA NoneHere ==
  ASSUME NEW str, NEW n \in Int, NEW chars, str[n + 1] \notin chars
  PROVE  No(str, n + 1, n + 1, chars)
BY NoneYet, NoMore

LEMMA OneHere ==
  ASSUME NEW S, NEW s \in Seq(S), NEW n \in Nat, n + 1 <= Len(s)
  PROVE  SubSeq(s, n + 1, n + 1) = Append(<<>>, s[n + 1])
<1>1. SubSeq(s, n + 1, n) = <<>>
  BY NothingYet
<1>2. Append(SubSeq(s, n + 1, n), s[n + 1]) = SubSeq(s, n + 1, n + 1)
  BY OneMore
<1> QED BY <1>1, <1>2

LEMMA SwapParts ==
  ASSUME NEW p \in Urls, NEW x \in Url!Parts, NEW y \in Url!Parts, NEW z \in Url!Parts
  PROVE  Url!Swap(p, x, y)[z] = IF z = y THEN p[x] ELSE IF z = x THEN p[y] ELSE p[z]
<1>1. DOMAIN p = UrlFields /\ x \in UrlFields /\ y \in UrlFields /\ z \in UrlFields
  BY DEF Urls, UrlFields
<1> QED BY <1>1 DEF Url!Swap

LEMMA NotSorted ==
  ASSUME NEW p, NEW next,
         \/ p.state \notin {"UsernameOrHostname", "PortOrPassword", "Port"}
         \/ next \notin {"Hostname", "Path", "Password"}
  PROVE  Url!Sort(p, next) = p
BY DEF Url!Sort

\* What stays if nothing is sorted.
LEMMA Collects ==
  ASSUME NEW p, NEW ch, NEW q, NEW next, NEW part, Takes(p, ch, q, next, part),
         \/ p.state \notin {"UsernameOrHostname", "PortOrPassword", "Port"}
         \/ next \notin {"Hostname", "Path", "Password"}
  PROVE  /\ q.state = next
         /\ \A x \in Url!Parts : q[x] = IF x = part THEN Append(p[x], ch) ELSE p[x]
BY NotSorted DEF Takes

\* The next character of a URL.
InUrl(str, p, n, q) ==
  /\ str \in Seq(Url!Characters) /\ p \in Urls /\ n \in Nat /\ n < Len(str)
  /\ q \in Urls /\ TakesOne(p, str[n + 1], q)

LEMMA BeforeServerStep ==
  ASSUME NEW str, NEW p, NEW n, NEW q, InUrl(str, p, n, q), BeforeServer(str, p, n)
  PROVE  UrlAt(str, q, n + 1)
<1> DEFINE ch == str[n + 1]
<1>1. str \in Seq(Url!Characters) /\ n \in Nat /\ n + 1 <= Len(str) /\ TakesOne(p, ch, q)
  BY DEF InUrl
<1> HIDE DEF ch
<1>2. Fields \subseteq Url!Parts /\ Free(p, Fields)
  BY PartsOf DEF Fields, BeforeServer
<1>3. CASE p.state = "Scheme" /\ No(str, 1, n, {":"})
  <2>1. CASE ch \in Url!Alnum \union {"+", "-", "."} /\ Takes(p, ch, q, "Scheme", "scheme")
    <3>1. q.state = "Scheme" /\ Free(q, Fields)
      BY <1>2, <1>3, <2>1, Collects DEF Free, Fields
    <3>2. ch \notin {":"}
      BY <2>1 DEF Url!Alnum, Url!Letters, Url!Digits
    <3>3. No(str, 1, n + 1, {":"})
      BY <1>1, <1>3, <3>2, NoMore DEF ch
    <3> QED BY <3>1, <3>3 DEF UrlAt, BeforeServer
  <2>2. CASE ch = ":" /\ Takes(p, ch, q, "SlashAfterScheme1", "none")
    <3>1. q.state = "SlashAfterScheme1" /\ Free(q, Fields)
      BY <1>2, <1>3, <2>2, PartsOf, Collects DEF Free, Fields
    <3>2. n + 1 > 0 /\ str[n + 1] = ":" /\ (n + 1) - 1 = n
      BY <1>1, <2>2 DEF ch
    <3> QED BY <1>3, <3>1, <3>2 DEF UrlAt, BeforeServer
  <2> QED BY <1>1, <1>3, <2>1, <2>2 DEF TakesOne
<1>4. CASE p.state = "SlashAfterScheme1" /\ n > 0 /\ str[n] = ":" /\ No(str, 1, n - 1, {":"})
  <2>1. CASE ch = "/" /\ Takes(p, ch, q, "SlashAfterScheme2", "none")
    <3>1. q.state = "SlashAfterScheme2" /\ Free(q, Fields)
      BY <1>2, <1>4, <2>1, PartsOf, Collects DEF Free, Fields
    <3>2. n + 1 > 1 /\ str[n + 1] = "/" /\ (n + 1) - 1 = n /\ (n + 1) - 2 = n - 1
      BY <1>1, <1>4, <2>1 DEF ch
    <3> QED BY <1>4, <3>1, <3>2 DEF UrlAt, BeforeServer
  <2>2. CASE ch \in Url!Alnum /\ Takes(p, ch, q, "UsernameOrHostname", "usernameOrHostname")
    <3>1. /\ q.state = "UsernameOrHostname" /\ q.usernameOrHostname = Append(<<>>, ch)
          /\ Free(q, {"username", "password", "hostname", "port"}) /\ q.portOrPassword = <<>>
      <4>1. /\ q.state = "UsernameOrHostname"
            /\ \A x \in Url!Parts :
                 q[x] = IF x = "usernameOrHostname" THEN Append(p[x], ch) ELSE p[x]
        BY <1>4, <2>2, Collects
      <4>2. \A x \in Fields : p[x] = <<>> /\ x \in Url!Parts
        BY <1>2 DEF Free
      <4>3. \A x \in Fields : q[x] = IF x = "usernameOrHostname" THEN Append(<<>>, ch) ELSE <<>>
        BY <4>1, <4>2
      <4> QED BY <4>1, <4>3 DEF Free, Fields
    <3>2. ch \notin {":", "/", "@"}
      BY <2>2 DEF Url!Alnum, Url!Letters, Url!Digits
    <3>3. n \in 1 .. n + 1 /\ Begins(str, n)
      BY <1>1, <1>4, <3>2 DEF Begins, ch
    <3>4. \A c \in {":", "/", "@"} : No(str, n + 1, n + 1, {c})
      BY <1>1, <3>2, NoneHere DEF ch
    <3>5. SubSeq(str, n + 1, n + 1) = Append(<<>>, ch)
      BY <1>1, OneHere DEF ch
    <3>6. UserOrHost(str, q, n + 1, n)
      BY <3>1, <3>4, <3>5 DEF UserOrHost
    <3> QED BY <3>3, <3>4, <3>6 DEF UrlAt
  <2> QED BY <1>1, <1>4, <2>1, <2>2 DEF TakesOne
<1>5. CASE /\ p.state = "SlashAfterScheme2" /\ n > 1
           /\ str[n - 1] = ":" /\ No(str, 1, n - 2, {":"}) /\ str[n] = "/"
  <2>1. ch = "/" /\ Takes(p, ch, q, "UsernameOrHostname", "none")
    BY <1>1, <1>5 DEF TakesOne
  <2>2. /\ q.state = "UsernameOrHostname" /\ q.usernameOrHostname = <<>>
        /\ Free(q, {"username", "password", "hostname", "port"}) /\ q.portOrPassword = <<>>
    BY <1>2, <1>5, <2>1, PartsOf, Collects DEF Free, Fields
  <2> DEFINE s == n + 1
  <2>3. s \in Int /\ s > 2 /\ s - 2 = n - 1 /\ s - 3 = n - 2 /\ s - 1 = n /\ s \in 1 .. n + 1
    BY <1>1, <1>5
  <2>4. str[s] = "/"
    BY <2>1 DEF ch
  <2>5. Begins(str, s)
    <3> HIDE DEF s
    <3> QED BY <1>5, <2>3, <2>4 DEF Begins
  <2>6. \A c : No(str, s + 1, s, {c})
    BY <2>3, NoneYet
  <2>7. SubSeq(str, s + 1, s) = <<>>
    BY <1>1, <2>3, NothingYet
  <2>8. UserOrHost(str, q, s, s)
    BY <2>2, <2>6, <2>7 DEF UserOrHost
  <2> QED BY <2>3, <2>5, <2>6, <2>8 DEF UrlAt
<1> QED BY <1>3, <1>4, <1>5 DEF BeforeServer

\* What is behind the host and the port: the next part of the URL, which begins
\* with the slash.
LEMMA ReachesPath ==
  ASSUME NEW str \in Seq(Url!Characters), NEW n \in Nat, n < Len(str), str[n + 1] = "/",
         NEW q, q.state = "Path", Free(q, {"usernameOrHostname", "portOrPassword"}),
         NEW s \in 1 .. n, Begins(str, s), No(str, s + 1, n, {"/"}),
         NEW a \in s .. n, a = s \/ str[a] = "@", No(str, a + 1, n, {"@"}),
         NEW k \in a + 1 .. n + 1, k = n + 1 \/ str[k] = ":", No(str, a + 1, k - 1, {":"}),
         q.hostname = SubSeq(str, a + 1, k - 1), q.port = SubSeq(str, k + 1, n)
  PROVE  UrlAt(str, q, n + 1)
<1> DEFINE e == n + 1
<1>1. /\ e \in 2 .. n + 1 /\ s \in 1 .. n + 1 /\ s < e /\ a \in s .. e - 1 /\ k \in a + 1 .. e
      /\ e - 1 = n
  OBVIOUS
<1>2. ServerAt(str, s, a, k, e)
  BY <1>1 DEF ServerAt
<1> HIDE DEF e
<1>3. BehindServer(str, q, n + 1)
  BY <1>1, <1>2 DEF BehindServer
<1> QED BY <1>3 DEF UrlAt

LEMMA SortedParts ==
  ASSUME NEW p \in Urls, NEW next, NEW z \in Url!Parts
  PROVE  /\ p.state = "UsernameOrHostname" /\ next = "Hostname" =>
              Url!Sort(p, next)[z] = Url!Swap(p, "username", "usernameOrHostname")[z]
         /\ p.state = "UsernameOrHostname" /\ next = "Path" =>
              Url!Sort(p, next)[z] = Url!Swap(p, "hostname", "usernameOrHostname")[z]
         /\ p.state = "PortOrPassword" /\ next = "Path" =>
              Url!Sort(p, next)[z]
                = Url!Swap(Url!Swap(p, "hostname", "usernameOrHostname"), "port", "portOrPassword")[z]
         /\ p.state = "PortOrPassword" /\ next = "Password" =>
              Url!Sort(p, next)[z]
                = Url!Swap(Url!Swap(p, "username", "usernameOrHostname"), "password", "portOrPassword")[z]
         /\ p.state = "Port" /\ next = "Path" =>
              Url!Sort(p, next)[z] = Url!Swap(p, "port", "portOrPassword")[z]
BY DEF Url!Sort

\* The five places where the parts are sorted.
LEMMA Sorts ==
  ASSUME NEW p \in Urls, NEW ch, NEW q, NEW next, Takes(p, ch, q, next, "none")
  PROVE  /\ p.state = "UsernameOrHostname" /\ next = "Hostname" =>
              /\ q.usernameOrHostname = p.username
              /\ q.hostname = p.hostname /\ q.port = p.port
              /\ q.portOrPassword = p.portOrPassword /\ q.scheme = p.scheme
         /\ p.state = "UsernameOrHostname" /\ next = "Path" =>
              /\ q.usernameOrHostname = p.hostname /\ q.hostname = p.usernameOrHostname
              /\ q.port = p.port /\ q.portOrPassword = p.portOrPassword /\ q.scheme = p.scheme
         /\ p.state = "PortOrPassword" /\ next = "Path" =>
              /\ q.usernameOrHostname = p.hostname /\ q.hostname = p.usernameOrHostname
              /\ q.port = p.portOrPassword /\ q.portOrPassword = p.port /\ q.scheme = p.scheme
         /\ p.state = "Port" /\ next = "Path" =>
              /\ q.usernameOrHostname = p.usernameOrHostname /\ q.hostname = p.hostname
              /\ q.port = p.portOrPassword /\ q.portOrPassword = p.port /\ q.scheme = p.scheme
<1>1. /\ "username" \in Url!Parts /\ "usernameOrHostname" \in Url!Parts /\ "hostname" \in Url!Parts
      /\ "port" \in Url!Parts /\ "portOrPassword" \in Url!Parts /\ "scheme" \in Url!Parts
      /\ "none" \notin Url!Parts
  BY PartsOf
<1>2. \A x \in Url!Parts : q[x] = Url!Sort(p, next)[x]
  BY <1>1 DEF Takes
<1> DEFINE r == Url!Swap(p, "hostname", "usernameOrHostname")
<1>3. r \in Urls
  BY <1>1, SwapType
<1>4. \A z \in Url!Parts : r[z] = IF z = "usernameOrHostname" THEN p.hostname
                                  ELSE IF z = "hostname" THEN p.usernameOrHostname ELSE p[z]
  BY <1>1, SwapParts
<1>5. ASSUME p.state = "UsernameOrHostname", next = "Hostname", NEW z \in Url!Parts
      PROVE  q[z] = IF z = "usernameOrHostname" THEN p.username
                    ELSE IF z = "username" THEN p.usernameOrHostname ELSE p[z]
  BY <1>1, <1>2, <1>5, SortedParts, SwapParts
<1>6. ASSUME p.state = "UsernameOrHostname", next = "Path", NEW z \in Url!Parts
      PROVE  q[z] = r[z]
  BY <1>2, <1>6, SortedParts
<1>7. ASSUME p.state = "PortOrPassword", next = "Path", NEW z \in Url!Parts
      PROVE  q[z] = IF z = "portOrPassword" THEN r.port
                    ELSE IF z = "port" THEN r.portOrPassword ELSE r[z]
  <2>1. q[z] = Url!Swap(r, "port", "portOrPassword")[z]
    BY <1>2, <1>7, SortedParts
  <2> HIDE DEF r
  <2> QED BY <1>1, <1>3, <2>1, SwapParts
<1>8. ASSUME p.state = "Port", next = "Path", NEW z \in Url!Parts
      PROVE  q[z] = IF z = "portOrPassword" THEN p.port
                    ELSE IF z = "port" THEN p.portOrPassword ELSE p[z]
  BY <1>1, <1>2, <1>8, SortedParts, SwapParts
<1> HIDE DEF r
<1> QED BY <1>1, <1>4, <1>5, <1>6, <1>7, <1>8


\* The character after which what was collected is a name and a password.
LEMMA PasswordBegins ==
  ASSUME NEW p \in Urls, NEW ch, NEW q, p.state = "PortOrPassword",
         Takes(p, ch, q, "Password", "password"),
         Free(p, {"username", "password", "hostname", "port"})
  PROVE  InPassword(q)
<1>1. /\ "username" \in Url!Parts /\ "usernameOrHostname" \in Url!Parts /\ "hostname" \in Url!Parts
      /\ "port" \in Url!Parts /\ "portOrPassword" \in Url!Parts /\ "password" \in Url!Parts
  BY PartsOf
<1> DEFINE r == Url!Swap(p, "username", "usernameOrHostname")
<1>2. r \in Urls
  BY <1>1, SwapType
<1>3. \A z \in Url!Parts : r[z] = IF z = "usernameOrHostname" THEN p.username
                                  ELSE IF z = "username" THEN p.usernameOrHostname ELSE p[z]
  BY <1>1, SwapParts
<1>4. \A z \in Url!Parts : Url!Sort(p, "Password")[z] = Url!Swap(r, "password", "portOrPassword")[z]
  BY SortedParts
<1> HIDE DEF r
<1>5. \A z \in Url!Parts : Url!Sort(p, "Password")[z] =
        IF z = "portOrPassword" THEN r.password ELSE IF z = "password" THEN r.portOrPassword ELSE r[z]
  BY <1>1, <1>2, <1>4, SwapParts
<1>6. q.state = "Password" /\ \A z \in Url!Parts \ {"password"} : q[z] = Url!Sort(p, "Password")[z]
  BY DEF Takes
<1>7. r.password = <<>> /\ r.hostname = <<>> /\ r.port = <<>> /\ r.usernameOrHostname = <<>>
  BY <1>1, <1>3 DEF Free
<1> QED BY <1>1, <1>5, <1>6, <1>7 DEF InPassword, Free

LEMMA UserOrHostStep ==
  ASSUME NEW str, NEW p, NEW n, NEW q, InUrl(str, p, n, q), q.state \notin Dead,
         NEW s \in 1 .. n, Begins(str, s), No(str, s + 1, n, {"/"}), UserOrHost(str, p, n, s)
  PROVE  UrlAt(str, q, n + 1)
<1> DEFINE ch == str[n + 1]
<1>1. /\ str \in Seq(Url!Characters) /\ n \in Nat /\ n < Len(str) /\ n + 1 <= Len(str)
      /\ p \in Urls /\ TakesOne(p, ch, q)
  BY DEF InUrl
<1>2. s \in 1 .. n + 1 /\ s \in Nat
  BY <1>1
<1> HIDE DEF ch
<1>3. /\ p.username = <<>> /\ p.password = <<>> /\ p.hostname = <<>> /\ p.port = <<>>
      /\ No(str, s + 1, n, {"@"}) /\ Free(p, {"username", "password", "hostname", "port"})
  BY DEF UserOrHost, Free
<1>4. /\ "username" \in Url!Parts /\ "usernameOrHostname" \in Url!Parts /\ "hostname" \in Url!Parts
      /\ "port" \in Url!Parts /\ "portOrPassword" \in Url!Parts /\ "password" \in Url!Parts
      /\ "none" \notin Url!Parts
  BY PartsOf
<1>5. ASSUME ch # "/", UserOrHost(str, q, n + 1, s) \/ InPassword(q) PROVE UrlAt(str, q, n + 1)
  <2>1. No(str, s + 1, n + 1, {"/"})
    BY <1>1, <1>2, <1>5, NoMore DEF ch
  <2> QED BY <1>2, <1>5, <2>1 DEF UrlAt
<1>6. CASE /\ p.state = "UsernameOrHostname" /\ No(str, s + 1, n, {":"})
           /\ p.usernameOrHostname = SubSeq(str, s + 1, n) /\ p.portOrPassword = <<>>
  <2>1. CASE /\ ch \in Url!Unreserved \union {"%"}
             /\ Takes(p, ch, q, "UsernameOrHostname", "usernameOrHostname")
    <3>1. ch \notin {":"} /\ ch \notin {"@"} /\ ch # "/"
      BY <2>1 DEF Url!Unreserved, Url!Alnum, Url!Letters, Url!Digits
    <3>2. No(str, s + 1, n + 1, {":"}) /\ No(str, s + 1, n + 1, {"@"})
      BY <1>1, <1>2, <1>3, <1>6, <3>1, NoMore DEF ch
    <3>3. q.state = "UsernameOrHostname" /\ q.usernameOrHostname = Append(p.usernameOrHostname, ch)
          /\ q.username = <<>> /\ q.password = <<>> /\ q.hostname = <<>> /\ q.port = <<>>
          /\ q.portOrPassword = <<>>
      <4>1. /\ q.state = "UsernameOrHostname"
            /\ \A x \in Url!Parts :
                 q[x] = IF x = "usernameOrHostname" THEN Append(p[x], ch) ELSE p[x]
        BY <2>1, Collects
      <4> QED BY <1>3, <1>4, <1>6, <4>1
    <3>4. Append(SubSeq(str, s + 1, n), ch) = SubSeq(str, s + 1, n + 1)
      BY <1>1, <1>2, OneMore DEF ch
    <3>5. UserOrHost(str, q, n + 1, s)
      BY <1>6, <3>2, <3>3, <3>4 DEF UserOrHost, Free
    <3> QED BY <1>5, <3>1, <3>5
  <2>2. CASE ch = ":" /\ Takes(p, ch, q, "PortOrPassword", "none")
    <3>1. q.state = "PortOrPassword" /\ \A x \in Url!Parts : q[x] = p[x]
      BY <1>4, <2>2, Collects
    <3>2. No(str, s + 1, n + 1, {"@"})
      BY <1>1, <1>2, <1>3, <2>2, NoMore DEF ch
    <3>3. /\ n + 1 \in s + 1 .. n + 1 /\ str[n + 1] = ":" /\ (n + 1) - 1 = n
          /\ SubSeq(str, (n + 1) + 1, n + 1) = <<>>
      BY <1>1, <1>2, <2>2, NothingYet DEF ch
    <3>4. /\ q.usernameOrHostname = SubSeq(str, s + 1, (n + 1) - 1)
          /\ No(str, s + 1, (n + 1) - 1, {":"})
          /\ q.portOrPassword = SubSeq(str, (n + 1) + 1, n + 1)
      BY <1>4, <1>6, <3>1, <3>3
    <3>5. Free(q, {"username", "password", "hostname", "port"})
      BY <1>3, <1>4, <3>1 DEF Free
    <3>6. UserOrHost(str, q, n + 1, s)
      BY <3>1, <3>2, <3>3, <3>4, <3>5 DEF UserOrHost
    <3>7. ch # "/"
      BY <2>2
    <3> QED BY <1>5, <3>6, <3>7
  <2>3. CASE ch = "@" /\ Takes(p, ch, q, "Hostname", "none")
    <3>1. /\ q.state = "Hostname" /\ q.usernameOrHostname = <<>> /\ q.hostname = <<>>
          /\ q.port = <<>> /\ q.portOrPassword = <<>>
      <4>1. q.state = "Hostname"
        BY <2>3 DEF Takes
      <4> QED BY <1>1, <1>3, <1>6, <2>3, <4>1, Sorts
    <3>2. /\ n + 1 \in s + 1 .. n + 1 /\ str[n + 1] = "@" /\ n + 1 \in Int
          /\ No(str, (n + 1) + 1, n + 1, {"@"}) /\ No(str, (n + 1) + 1, n + 1, {":"})
          /\ SubSeq(str, (n + 1) + 1, n + 1) = <<>>
      <4>1. n + 1 \in s + 1 .. n + 1 /\ n + 1 \in Int
        BY <1>1, <1>2
      <4>2. SubSeq(str, (n + 1) + 1, n + 1) = <<>>
        BY <1>1, <4>1, NothingYet
      <4>3. No(str, (n + 1) + 1, n + 1, {"@"}) /\ No(str, (n + 1) + 1, n + 1, {":"})
        BY <4>1, NoneYet
      <4> QED BY <2>3, <4>1, <4>2, <4>3 DEF ch
    <3>3. BehindUser(str, q, n + 1, n + 1)
      BY <3>1, <3>2 DEF BehindUser, Free
    <3>4. No(str, s + 1, n + 1, {"/"})
      BY <1>1, <1>2, <2>3, NoMore DEF ch
    <3> QED BY <1>2, <3>2, <3>3, <3>4 DEF UrlAt
  <2>4. CASE ch = "/" /\ Takes(p, ch, q, "Path", "none")
    <3>1. /\ q.state = "Path" /\ q.usernameOrHostname = <<>> /\ q.hostname = SubSeq(str, s + 1, n)
          /\ q.port = <<>> /\ q.portOrPassword = <<>>
      <4>1. q.state = "Path"
        BY <2>4 DEF Takes
      <4> QED BY <1>1, <1>3, <1>6, <2>4, <4>1, Sorts
    <3>2. /\ n + 1 \in s + 1 .. n + 1 /\ s \in s .. n /\ (n + 1) - 1 = n /\ str[n + 1] = "/"
          /\ SubSeq(str, (n + 1) + 1, n) = <<>>
      BY <1>1, <1>2, <2>4 DEF ch
    <3>3. /\ Free(q, {"usernameOrHostname", "portOrPassword"})
          /\ q.hostname = SubSeq(str, s + 1, (n + 1) - 1) /\ q.port = SubSeq(str, (n + 1) + 1, n)
          /\ No(str, s + 1, (n + 1) - 1, {":"})
      BY <1>6, <3>1, <3>2 DEF Free
    <3> QED BY <1>1, <1>3, <3>1, <3>2, <3>3, ReachesPath
  <2> QED BY <1>1, <1>6, <2>1, <2>2, <2>3, <2>4 DEF TakesOne
<1>7. CASE /\ p.state = "PortOrPassword"
           /\ \E k \in s + 1 .. n :
                /\ str[k] = ":" /\ No(str, s + 1, k - 1, {":"})
                /\ p.usernameOrHostname = SubSeq(str, s + 1, k - 1)
                /\ p.portOrPassword = SubSeq(str, k + 1, n)
  <2>0. PICK k \in s + 1 .. n :
          /\ str[k] = ":" /\ No(str, s + 1, k - 1, {":"})
          /\ p.usernameOrHostname = SubSeq(str, s + 1, k - 1)
          /\ p.portOrPassword = SubSeq(str, k + 1, n)
    BY <1>7
  <2>1. CASE ch \in Url!Digits /\ Takes(p, ch, q, "PortOrPassword", "portOrPassword")
    <3>1. ch \notin {"@"} /\ ch # "/"
      BY <2>1 DEF Url!Digits
    <3>2. No(str, s + 1, n + 1, {"@"})
      BY <1>1, <1>2, <1>3, <3>1, NoMore DEF ch
    <3>3. /\ q.state = "PortOrPassword"
          /\ \A x \in Url!Parts : q[x] = IF x = "portOrPassword" THEN Append(p[x], ch) ELSE p[x]
      BY <2>1, Collects
    <3>4. Append(SubSeq(str, k + 1, n), ch) = SubSeq(str, k + 1, n + 1)
      BY <1>1, <1>2, OneMore DEF ch
    <3>5. /\ q.portOrPassword = SubSeq(str, k + 1, n + 1)
          /\ q.usernameOrHostname = SubSeq(str, s + 1, k - 1)
          /\ q.username = <<>> /\ q.password = <<>> /\ q.hostname = <<>> /\ q.port = <<>>
      BY <1>3, <1>4, <2>0, <3>3, <3>4
    <3>6. k \in s + 1 .. n + 1
      BY <1>1, <1>2
    <3>7. UserOrHost(str, q, n + 1, s)
      BY <2>0, <3>2, <3>3, <3>5, <3>6 DEF UserOrHost, Free
    <3> QED BY <1>5, <3>1, <3>7
  <2>2. CASE ch \in Url!Letters \union {"%"} /\ Takes(p, ch, q, "Password", "password")
    <3>1. ch # "/"
      BY <2>2 DEF Url!Letters
    <3> QED BY <1>1, <1>3, <1>5, <1>7, <2>2, <3>1, PasswordBegins
  <2>3. CASE ch = "/" /\ Takes(p, ch, q, "Path", "none")
    <3>1. /\ q.state = "Path" /\ q.usernameOrHostname = <<>> /\ q.hostname = SubSeq(str, s + 1, k - 1)
          /\ q.port = SubSeq(str, k + 1, n) /\ q.portOrPassword = <<>>
      <4>1. q.state = "Path"
        BY <2>3 DEF Takes
      <4>2. /\ q.usernameOrHostname = p.hostname /\ q.hostname = p.usernameOrHostname
            /\ q.port = p.portOrPassword /\ q.portOrPassword = p.port
        BY <1>1, <1>7, <2>3, Sorts
      <4> QED BY <1>3, <2>0, <4>1, <4>2
    <3>2. k \in s + 1 .. n + 1 /\ s \in s .. n /\ str[n + 1] = "/"
      BY <1>1, <1>2, <2>3 DEF ch
    <3>3. Free(q, {"usernameOrHostname", "portOrPassword"})
      BY <3>1 DEF Free
    <3> QED BY <1>1, <1>3, <2>0, <3>1, <3>2, <3>3, ReachesPath
  <2> QED BY <1>1, <1>7, <2>1, <2>2, <2>3 DEF TakesOne
<1> QED BY <1>6, <1>7 DEF UserOrHost

LEMMA PasswordStep ==
  ASSUME NEW str, NEW p, NEW n, NEW q, InUrl(str, p, n, q), q.state \notin Dead,
         NEW s \in 1 .. n, Begins(str, s), No(str, s + 1, n, {"/"}), InPassword(p)
  PROVE  UrlAt(str, q, n + 1)
<1> DEFINE ch == str[n + 1]
<1>1. /\ str \in Seq(Url!Characters) /\ n \in Nat /\ n < Len(str) /\ n + 1 <= Len(str)
      /\ p \in Urls /\ TakesOne(p, ch, q)
  BY DEF InUrl
<1>2. s \in 1 .. n + 1 /\ s \in Nat /\ n + 1 \in Int
  BY <1>1
<1> HIDE DEF ch
<1>3. /\ p.state = "Password" /\ p.hostname = <<>> /\ p.port = <<>>
      /\ p.usernameOrHostname = <<>> /\ p.portOrPassword = <<>>
  BY DEF InPassword, Free
<1>4. /\ "usernameOrHostname" \in Url!Parts /\ "hostname" \in Url!Parts
      /\ "port" \in Url!Parts /\ "portOrPassword" \in Url!Parts /\ "none" \notin Url!Parts
  BY PartsOf
<1>5. CASE ch \in Url!Alnum \union {"%"} /\ Takes(p, ch, q, "Password", "password")
  <2>1. /\ q.state = "Password"
        /\ \A x \in Url!Parts : q[x] = IF x = "password" THEN Append(p[x], ch) ELSE p[x]
    BY <1>3, <1>5, Collects
  <2>2. InPassword(q)
    BY <1>3, <1>4, <2>1 DEF InPassword, Free
  <2>3. ch # "/"
    BY <1>5 DEF Url!Alnum, Url!Letters, Url!Digits
  <2>4. No(str, s + 1, n + 1, {"/"})
    BY <1>1, <1>2, <2>3, NoMore DEF ch
  <2> QED BY <1>2, <2>2, <2>4 DEF UrlAt
<1>6. CASE ch = "@" /\ Takes(p, ch, q, "Hostname", "none")
  <2>1. q.state = "Hostname" /\ \A x \in Url!Parts : q[x] = p[x]
    BY <1>3, <1>4, <1>6, Collects
  <2>2. n + 1 \in s + 1 .. n + 1 /\ str[n + 1] = "@"
    BY <1>1, <1>2, <1>6 DEF ch
  <2>3. No(str, (n + 1) + 1, n + 1, {"@"}) /\ No(str, (n + 1) + 1, n + 1, {":"})
    BY <1>2, NoneYet
  <2>4. SubSeq(str, (n + 1) + 1, n + 1) = <<>>
    BY <1>1, <1>2, NothingYet
  <2>5. BehindUser(str, q, n + 1, n + 1)
    BY <1>3, <1>4, <2>1, <2>2, <2>3, <2>4 DEF BehindUser, Free
  <2>6. No(str, s + 1, n + 1, {"/"})
    BY <1>1, <1>2, <1>6, NoMore DEF ch
  <2> QED BY <1>2, <2>2, <2>5, <2>6 DEF UrlAt
<1> QED BY <1>1, <1>3, <1>5, <1>6 DEF TakesOne

LEMMA BehindUserStep ==
  ASSUME NEW str, NEW p, NEW n, NEW q, InUrl(str, p, n, q), q.state \notin Dead,
         NEW s \in 1 .. n, Begins(str, s), No(str, s + 1, n, {"/"}),
         NEW a \in s + 1 .. n, BehindUser(str, p, n, a)
  PROVE  UrlAt(str, q, n + 1)
<1> DEFINE ch == str[n + 1]
<1>1. /\ str \in Seq(Url!Characters) /\ n \in Nat /\ n < Len(str) /\ n + 1 <= Len(str)
      /\ p \in Urls /\ TakesOne(p, ch, q)
  BY DEF InUrl
<1>2. s \in 1 .. n + 1 /\ s \in Nat /\ a \in s + 1 .. n + 1 /\ a \in s .. n /\ a \in Nat
  BY <1>1
<1> HIDE DEF ch
<1>3. /\ str[a] = "@" /\ No(str, a + 1, n, {"@"})
      /\ p.port = <<>> /\ p.usernameOrHostname = <<>>
  BY DEF BehindUser, Free
<1>4. /\ "usernameOrHostname" \in Url!Parts /\ "hostname" \in Url!Parts
      /\ "port" \in Url!Parts /\ "portOrPassword" \in Url!Parts /\ "none" \notin Url!Parts
  BY PartsOf
<1>5. ASSUME ch # "/", BehindUser(str, q, n + 1, a) PROVE UrlAt(str, q, n + 1)
  <2>1. No(str, s + 1, n + 1, {"/"})
    BY <1>1, <1>2, <1>5, NoMore DEF ch
  <2> QED BY <1>2, <1>5, <2>1 DEF UrlAt
<1>6. CASE /\ p.state = "Hostname" /\ No(str, a + 1, n, {":"})
           /\ p.hostname = SubSeq(str, a + 1, n) /\ p.portOrPassword = <<>>
  <2>1. CASE ch \in Url!Unreserved \union {"%"} /\ Takes(p, ch, q, "Hostname", "hostname")
    <3>1. ch \notin {":"} /\ ch \notin {"@"} /\ ch # "/"
      BY <2>1 DEF Url!Unreserved, Url!Alnum, Url!Letters, Url!Digits
    <3>2. No(str, a + 1, n + 1, {":"}) /\ No(str, a + 1, n + 1, {"@"})
      BY <1>1, <1>2, <1>3, <1>6, <3>1, NoMore DEF ch
    <3>3. /\ q.state = "Hostname"
          /\ \A x \in Url!Parts : q[x] = IF x = "hostname" THEN Append(p[x], ch) ELSE p[x]
      BY <1>6, <2>1, Collects
    <3>4. Append(SubSeq(str, a + 1, n), ch) = SubSeq(str, a + 1, n + 1)
      BY <1>1, <1>2, OneMore DEF ch
    <3>5. /\ q.hostname = SubSeq(str, a + 1, n + 1)
          /\ q.port = <<>> /\ q.usernameOrHostname = <<>> /\ q.portOrPassword = <<>>
      BY <1>3, <1>4, <1>6, <3>3, <3>4
    <3>6. BehindUser(str, q, n + 1, a)
      BY <1>3, <3>2, <3>3, <3>5 DEF BehindUser, Free
    <3> QED BY <1>5, <3>1, <3>6
  <2>2. CASE ch = "[" /\ Takes(p, ch, q, "IPV6Hostname", "none")
    <3>1. q.state \in Dead
      BY <2>2, MoveStates DEF Takes
    <3> QED BY <3>1
  <2>3. CASE ch = ":" /\ Takes(p, ch, q, "Port", "none")
    <3>1. q.state = "Port" /\ \A x \in Url!Parts : q[x] = p[x]
      BY <1>4, <1>6, <2>3, Collects
    <3>2. No(str, a + 1, n + 1, {"@"})
      BY <1>1, <1>2, <1>3, <2>3, NoMore DEF ch
    <3>3. n + 1 \in a + 1 .. n + 1 /\ str[n + 1] = ":" /\ (n + 1) - 1 = n /\ n + 1 \in Int
      BY <1>1, <1>2, <2>3 DEF ch
    <3>4. SubSeq(str, (n + 1) + 1, n + 1) = <<>>
      BY <1>1, <3>3, NothingYet
    <3>5. /\ q.hostname = SubSeq(str, a + 1, (n + 1) - 1) /\ No(str, a + 1, (n + 1) - 1, {":"})
          /\ q.portOrPassword = SubSeq(str, (n + 1) + 1, n + 1)
      BY <1>4, <1>6, <3>1, <3>3, <3>4
    <3>6. Free(q, {"port", "usernameOrHostname"})
      BY <1>3, <1>4, <3>1 DEF Free
    <3>7. BehindUser(str, q, n + 1, a)
      BY <1>3, <3>1, <3>2, <3>3, <3>5, <3>6 DEF BehindUser
    <3>8. ch # "/"
      BY <2>3
    <3> QED BY <1>5, <3>7, <3>8
  <2>4. CASE ch = "/" /\ Takes(p, ch, q, "Path", "none")
    <3>1. q.state = "Path" /\ \A x \in Url!Parts : q[x] = p[x]
      BY <1>4, <1>6, <2>4, Collects
    <3>2. n + 1 \in a + 1 .. n + 1 /\ (n + 1) - 1 = n /\ str[n + 1] = "/" /\ n + 1 \in Int
      BY <1>1, <1>2, <2>4 DEF ch
    <3>3. SubSeq(str, (n + 1) + 1, n) = <<>>
      BY <1>1
    <3>4. /\ Free(q, {"usernameOrHostname", "portOrPassword"})
          /\ q.hostname = SubSeq(str, a + 1, (n + 1) - 1) /\ q.port = SubSeq(str, (n + 1) + 1, n)
          /\ No(str, a + 1, (n + 1) - 1, {":"})
      BY <1>3, <1>4, <1>6, <3>1, <3>2, <3>3 DEF Free
    <3>5. s \in 1 .. n
      OBVIOUS
    <3> QED BY <1>1, <1>2, <1>3, <3>1, <3>2, <3>4, <3>5, ReachesPath
  <2> QED BY <1>1, <1>6, <2>1, <2>2, <2>3, <2>4 DEF TakesOne
<1>7. CASE /\ p.state = "Port"
           /\ \E k \in a + 1 .. n :
                /\ str[k] = ":" /\ No(str, a + 1, k - 1, {":"})
                /\ p.hostname = SubSeq(str, a + 1, k - 1)
                /\ p.portOrPassword = SubSeq(str, k + 1, n)
  <2>0. PICK k \in a + 1 .. n :
          /\ str[k] = ":" /\ No(str, a + 1, k - 1, {":"})
          /\ p.hostname = SubSeq(str, a + 1, k - 1)
          /\ p.portOrPassword = SubSeq(str, k + 1, n)
    BY <1>7
  <2>1. CASE ch \in Url!Digits /\ Takes(p, ch, q, "Port", "portOrPassword")
    <3>1. ch \notin {"@"} /\ ch # "/"
      BY <2>1 DEF Url!Digits
    <3>2. No(str, a + 1, n + 1, {"@"})
      BY <1>1, <1>2, <1>3, <3>1, NoMore DEF ch
    <3>3. /\ q.state = "Port"
          /\ \A x \in Url!Parts : q[x] = IF x = "portOrPassword" THEN Append(p[x], ch) ELSE p[x]
      BY <2>1, Collects
    <3>4. Append(SubSeq(str, k + 1, n), ch) = SubSeq(str, k + 1, n + 1)
      BY <1>1, <1>2, OneMore DEF ch
    <3>5. /\ q.portOrPassword = SubSeq(str, k + 1, n + 1)
          /\ q.hostname = SubSeq(str, a + 1, k - 1)
          /\ q.port = <<>> /\ q.usernameOrHostname = <<>>
      BY <1>3, <1>4, <2>0, <3>3, <3>4
    <3>6. k \in a + 1 .. n + 1
      BY <1>1, <1>2
    <3>7. BehindUser(str, q, n + 1, a)
      BY <1>3, <2>0, <3>2, <3>3, <3>5, <3>6 DEF BehindUser, Free
    <3> QED BY <1>5, <3>1, <3>7
  <2>2. CASE ch = "/" /\ Takes(p, ch, q, "Path", "none")
    <3>1. /\ q.state = "Path" /\ q.usernameOrHostname = <<>> /\ q.hostname = SubSeq(str, a + 1, k - 1)
          /\ q.port = SubSeq(str, k + 1, n) /\ q.portOrPassword = <<>>
      <4>1. q.state = "Path"
        BY <2>2 DEF Takes
      <4>2. /\ q.usernameOrHostname = p.usernameOrHostname /\ q.hostname = p.hostname
            /\ q.port = p.portOrPassword /\ q.portOrPassword = p.port
        BY <1>1, <1>7, <2>2, Sorts
      <4> QED BY <1>3, <2>0, <4>1, <4>2
    <3>2. k \in a + 1 .. n + 1 /\ str[n + 1] = "/"
      BY <1>1, <1>2, <2>2 DEF ch
    <3>3. Free(q, {"usernameOrHostname", "portOrPassword"})
      BY <3>1 DEF Free
    <3> QED BY <1>1, <1>2, <1>3, <2>0, <3>1, <3>2, <3>3, ReachesPath
  <2> QED BY <1>1, <1>7, <2>1, <2>2 DEF TakesOne
<1> QED BY <1>6, <1>7 DEF BehindUser

LEMMA BehindServerStep ==
  ASSUME NEW str, NEW p, NEW n, NEW q, InUrl(str, p, n, q), BehindServer(str, p, n)
  PROVE  UrlAt(str, q, n + 1)
<1> DEFINE ch == str[n + 1]
<1>1. n \in Nat /\ p \in Urls /\ TakesOne(p, ch, q)
  BY DEF InUrl
<1> HIDE DEF ch
<1>2. PICK next \in {"Path", "Query", "Fragment"}, part \in {"path", "query", "fragment", "none"} :
        Takes(p, ch, q, next, part)
  BY <1>1 DEF TakesOne, BehindServer
<1>3. /\ q.state = next
      /\ \A x \in Url!Parts : q[x] = IF x = part THEN Append(p[x], ch) ELSE p[x]
  BY <1>2, Collects DEF BehindServer
<1>4. \A x \in {"usernameOrHostname", "portOrPassword", "hostname", "port"} : q[x] = p[x]
  BY <1>3, PartsOf
<1>5. q.state \in {"Path", "Query", "Fragment"} /\ Free(q, {"usernameOrHostname", "portOrPassword"})
  BY <1>3, <1>4 DEF BehindServer, Free
<1>6. PICK s \in 1 .. n, e \in 2 .. n : s < e /\ \E a \in s .. e - 1 : \E k \in a + 1 .. e :
       /\ ServerAt(str, s, a, k, e)
       /\ p.hostname = SubSeq(str, a + 1, k - 1)
       /\ p.port = SubSeq(str, k + 1, e - 1)
  BY DEF BehindServer
<1>7. s \in 1 .. n + 1 /\ e \in 2 .. n + 1
  BY <1>1
<1>8. BehindServer(str, q, n + 1)
  BY <1>4, <1>5, <1>6, <1>7 DEF BehindServer
<1> QED BY <1>8 DEF UrlAt

\* The parser has what is at its place in the URL with every character.
LEMMA UrlStep ==
  ASSUME NEW str \in Seq(Url!Characters), NEW p \in Urls, NEW n \in Nat, n < Len(str),
         UrlAt(str, p, n)
  PROVE  UrlAt(str, Url!Turn(p, str[n + 1]), n + 1)
<1> DEFINE q == Url!Turn(p, str[n + 1])
<1>1. str[n + 1] \in Url!Characters
  OBVIOUS
<1>2. q \in Urls /\ (p.state \in Dead => q.state \in Dead)
  BY <1>1, TurnTakes
<1>3. q.state \in Dead \/ TakesOne(p, str[n + 1], q)
  BY <1>1, Turns
<1> HIDE DEF q
<1>4. CASE q.state \in Dead
  BY <1>4 DEF UrlAt, q
<1>5. ASSUME q.state \notin Dead PROVE UrlAt(str, q, n + 1)
  <2>1. InUrl(str, p, n, q)
    BY <1>2, <1>3, <1>5 DEF InUrl
  <2>2. p.state \notin Dead
    BY <1>2, <1>5
  <2>3. CASE BeforeServer(str, p, n)
    BY <2>1, <2>3, BeforeServerStep
  <2>4. CASE BehindServer(str, p, n)
    BY <2>1, <2>4, BehindServerStep
  <2>5. ASSUME NEW s \in 1 .. n, Begins(str, s), No(str, s + 1, n, {"/"}),
               UserOrHost(str, p, n, s)
        PROVE  UrlAt(str, q, n + 1)
    BY <1>5, <2>1, <2>5, UserOrHostStep
  <2>6. ASSUME NEW s \in 1 .. n, Begins(str, s), No(str, s + 1, n, {"/"}), InPassword(p)
        PROVE  UrlAt(str, q, n + 1)
    BY <1>5, <2>1, <2>6, PasswordStep
  <2>7. ASSUME NEW s \in 1 .. n, Begins(str, s), No(str, s + 1, n, {"/"}),
               NEW a \in s + 1 .. n, BehindUser(str, p, n, a)
        PROVE  UrlAt(str, q, n + 1)
    BY <1>5, <2>1, <2>7, BehindUserStep
  <2> QED BY <2>2, <2>3, <2>4, <2>5, <2>6, <2>7 DEF UrlAt
<1> QED BY <1>4, <1>5 DEF q

-----------------------------------------------------------------------------

LEMMA PieceOfPiece ==
  ASSUME NEW S, NEW s \in Seq(S), NEW i \in Nat, NEW j \in Nat, NEW k \in Nat, NEW l \in Nat,
         1 <= i, i <= j + 1, j <= Len(s), 1 <= k, l <= j + 1 - i
  PROVE  SubSeq(SubSeq(s, i, j), k, l) = SubSeq(s, i + k - 1, i + l - 1)
<1> DEFINE r == SubSeq(s, i, j)
<1>1. r \in Seq(S) /\ Len(r) = j + 1 - i /\ \A m \in 1 .. j + 1 - i : r[m] = s[i + m - 1]
  OBVIOUS
<1> HIDE DEF r
<1>2. CASE k > l
  <2>1. SubSeq(r, k, l) = <<>>
    BY <1>1, <1>2
  <2>2. SubSeq(s, i + k - 1, i + l - 1) = <<>>
    BY <1>2
  <2> QED BY <2>1, <2>2 DEF r
<1>3. CASE k <= l
  <2>1. SubSeq(r, k, l) \in Seq(S) /\ Len(SubSeq(r, k, l)) = l + 1 - k
    BY <1>1, <1>3
  <2>2. SubSeq(s, i + k - 1, i + l - 1) \in Seq(S) /\ Len(SubSeq(s, i + k - 1, i + l - 1)) = l + 1 - k
    BY <1>3
  <2>3. ASSUME NEW m \in 1 .. l + 1 - k
        PROVE  SubSeq(r, k, l)[m] = SubSeq(s, i + k - 1, i + l - 1)[m]
    <3>1. SubSeq(r, k, l)[m] = r[k + m - 1]
      BY <1>1, <1>3
    <3>2. k + m - 1 \in 1 .. j + 1 - i
      BY <1>3
    <3>3. r[k + m - 1] = s[i + (k + m - 1) - 1]
      BY <1>1, <3>2
    <3>4. SubSeq(s, i + k - 1, i + l - 1)[m] = s[(i + k - 1) + m - 1]
      BY <1>3
    <3>5. i + (k + m - 1) - 1 = (i + k - 1) + m - 1
      OBVIOUS
    <3> QED BY <3>1, <3>3, <3>4, <3>5
  <2>4. SubSeq(r, k, l) = SubSeq(s, i + k - 1, i + l - 1)
    BY <2>1, <2>2, <2>3, SeqEqual
  <2> QED BY <2>4 DEF r
<1> QED BY <1>2, <1>3

\* Where a character is found first, and where last.
LEMMA FirstPlace ==
  ASSUME NEW S, NEW s \in Seq(S), NEW ch, NEW i \in 1 .. Len(s), s[i] = ch, No(s, 1, i - 1, {ch})
  PROVE  UpTo(s, ch) = SubSeq(s, 1, i - 1) /\ Behind(s, ch) = SubSeq(s, i + 1, Len(s))
<1> DEFINE I == {n \in 1 .. Len(s) : s[n] = ch}
           first == IF I # {} THEN Min(I) ELSE 0
<1>1. I # {} /\ I \subseteq Nat /\ i \in I
  OBVIOUS
<1>2. Min(I) \in I /\ Min(I) <= i
  <2> HIDE DEF I
  <2> QED BY <1>1, MinIsLeast
<1>3. first = Min(I)
  BY <1>1
<1>4. first = i /\ i # 0
  BY <1>2, <1>3 DEF No
<1>5. UpTo(s, ch) = (IF first = 0 THEN s ELSE SubSeq(s, 1, first - 1))
  BY DEF UpTo, SelectInSeq
<1>6. Behind(s, ch) = From(s, IF first = 0 THEN Len(s) ELSE first)
  BY DEF Behind, SelectInSeq
<1> HIDE DEF first
<1> QED BY <1>4, <1>5, <1>6 DEF From

LEMMA NoPlace ==
  ASSUME NEW S, NEW s \in Seq(S), NEW ch, No(s, 1, Len(s), {ch})
  PROVE  UpTo(s, ch) = s /\ Behind(s, ch) = <<>>
<1> DEFINE I == {n \in 1 .. Len(s) : s[n] = ch}
           first == IF I # {} THEN Min(I) ELSE 0
<1>1. first = 0
  BY DEF No
<1>2. UpTo(s, ch) = (IF first = 0 THEN s ELSE SubSeq(s, 1, first - 1))
  BY DEF UpTo, SelectInSeq
<1>3. Behind(s, ch) = From(s, IF first = 0 THEN Len(s) ELSE first)
  BY DEF Behind, SelectInSeq
<1> HIDE DEF first
<1>4. SubSeq(s, Len(s) + 1, Len(s)) = <<>>
  BY NothingYet
<1> QED BY <1>1, <1>2, <1>3, <1>4 DEF From

LEMMA UpToType ==
  ASSUME NEW S, NEW s \in Seq(S), NEW ch
  PROVE  UpTo(s, ch) \in Seq(S)
<1> DEFINE I == {n \in 1 .. Len(s) : s[n] = ch}
           first == IF I # {} THEN Min(I) ELSE 0
<1>1. UpTo(s, ch) = (IF first = 0 THEN s ELSE SubSeq(s, 1, first - 1))
  BY DEF UpTo, SelectInSeq
<1>2. first \in 0 .. Len(s)
  <2>1. I \subseteq Nat
    OBVIOUS
  <2>2. I # {} => Min(I) \in I
    <3> HIDE DEF I
    <3> QED BY <2>1, MinIsLeast
  <2> QED BY <2>2
<1> HIDE DEF first
<1>3. first # 0 => SubSeq(s, 1, first - 1) \in Seq(S)
  BY <1>2
<1> QED BY <1>1, <1>3

LEMMA LastPlace ==
  ASSUME NEW S, NEW s \in Seq(S), NEW ch, NEW i \in 0 .. Len(s),
         i # 0 => s[i] = ch, No(s, i + 1, Len(s), {ch})
  PROVE  SelectLastInSeq(s, LAMBDA c : c = ch) = i
<1> DEFINE I == {n \in 1 .. Len(s) : s[n] = ch}
           last == IF I # {} THEN Max(I) ELSE 0
<1>1. SelectLastInSeq(s, LAMBDA c : c = ch) = last
  BY DEF SelectLastInSeq
<1>2. \A n \in I : n <= i
  BY DEF No
<1>3. CASE i = 0
  <2>1. I = {}
    BY <1>2, <1>3
  <2> QED BY <1>1, <1>3, <2>1
<1>4. CASE i # 0
  <2>1. i \in I
    BY <1>4
  <2>2. I \subseteq Nat
    OBVIOUS
  <2>3. Max(I) = i
    <3> HIDE DEF I
    <3>1. \A n \in I : (\A m \in I : n >= m) => n = i
      BY <1>2, <2>1, <2>2
    <3> QED BY <1>2, <2>1, <2>2, <3>1 DEF Max
  <2> QED BY <1>1, <2>1, <2>3
<1> QED BY <1>3, <1>4

LEMMA NoneWithin ==
  ASSUME NEW S, NEW s \in Seq(S), NEW i \in Nat, NEW j \in Nat, NEW k \in Nat, NEW l \in Nat,
         NEW chars, 1 <= i, i <= j + 1, j <= Len(s), 1 <= k, l <= j + 1 - i,
         No(s, i + k - 1, i + l - 1, chars)
  PROVE  No(SubSeq(s, i, j), k, l, chars)
<1> SUFFICES ASSUME NEW m \in k .. l PROVE SubSeq(s, i, j)[m] \notin chars
  BY DEF No
<1>1. SubSeq(s, i, j)[m] = s[i + m - 1]
  OBVIOUS
<1>2. i + m - 1 \in i + k - 1 .. i + l - 1
  OBVIOUS
<1> QED BY <1>1, <1>2 DEF No

\* What is behind the first colon and the slashes that follow it.
LEMMA RestOf ==
  ASSUME NEW str \in Seq(Url!Characters), NEW s \in 1 .. Len(str) - 1, Begins(str, s)
  PROVE  Rest(str) = SubSeq(str, s + 1, Len(str))
<1> DEFINE rest == Behind(str, ":")
           N == Len(str)
           two == <<"/", "/">>
<1>1. N \in Nat /\ s \in Nat /\ s + 1 <= N /\ s >= 1
  OBVIOUS
<1>2. /\ two \in Seq({"/"}) /\ Len(two) = 2 /\ two[1] = "/" /\ two[2] = "/"
      /\ SubSeq(two, 1, 2) = two
  <2>1. two \in Seq({"/"}) /\ Len(two) = 2 /\ two[1] = "/" /\ two[2] = "/"
    OBVIOUS
  <2> HIDE DEF two
  <2>2. SubSeq(two, 1, 2) \in Seq({"/"}) /\ Len(SubSeq(two, 1, 2)) = 2
    BY <2>1
  <2>3. \A m \in 1 .. 2 : SubSeq(two, 1, 2)[m] = two[m]
    BY <2>1
  <2> QED BY <2>1, <2>2, <2>3, SeqEqual
<1>3. Rest(str) = IF IsPrefix(two, rest) THEN From(rest, 2) ELSE rest
  BY DEF Rest
<1> HIDE DEF two
<1>4. CASE str[s] = ":" /\ No(str, 1, s - 1, {":"}) /\ str[s + 1] # "/"
  <2>1. rest = SubSeq(str, s + 1, N)
    <3>1. s \in 1 .. Len(str)
      BY <1>1
    <3> QED BY <1>4, <3>1, FirstPlace
  <2>2. rest[1] = str[s + 1]
    BY <1>1, <2>1
  <2>3. ~IsPrefix(two, rest)
    <3>1. SUFFICES ASSUME two = SubSeq(rest, 1, 2), 2 <= Len(rest) PROVE FALSE
      BY <1>2 DEF IsPrefix
    <3>2. rest \in Seq(Url!Characters)
      <4>1. SubSeq(str, s + 1, N) \in Seq(Url!Characters)
        BY <1>1
      <4> HIDE DEF rest
      <4> QED BY <2>1, <4>1
    <3>3. SubSeq(rest, 1, 2)[1] = rest[1]
      <4> HIDE DEF rest
      <4> QED BY <3>1, <3>2
    <3> HIDE DEF rest
    <3> QED BY <1>2, <1>4, <2>2, <3>1, <3>3
  <2> QED BY <1>3, <2>1, <2>3
<1>5. CASE /\ s > 2 /\ str[s - 2] = ":" /\ No(str, 1, s - 3, {":"})
           /\ str[s - 1] = "/" /\ str[s] = "/"
  <2>1. rest = SubSeq(str, s - 1, N)
    <3>1. s - 2 \in 1 .. Len(str) /\ (s - 2) - 1 = s - 3 /\ (s - 2) + 1 = s - 1
      BY <1>1, <1>5
    <3> QED BY <1>5, <3>1, FirstPlace
  <2>0. s - 1 \in Nat /\ 1 <= s - 1 /\ s - 1 <= N
    BY <1>1, <1>5
  <2>2. rest \in Seq(Url!Characters) /\ Len(rest) = N + 2 - s
    <3>1. SubSeq(str, s - 1, N) \in Seq(Url!Characters) /\ Len(SubSeq(str, s - 1, N)) = N + 1 - (s - 1)
      BY <2>0
    <3>2. N + 1 - (s - 1) = N + 2 - s
      BY <1>1
    <3> HIDE DEF rest
    <3> QED BY <2>1, <3>1, <3>2
  <2>3. rest[1] = "/" /\ rest[2] = "/"
    <3>1. SubSeq(str, s - 1, N)[1] = str[s - 1] /\ SubSeq(str, s - 1, N)[2] = str[s]
      BY <1>1, <2>0
    <3> HIDE DEF rest
    <3> QED BY <1>5, <2>1, <3>1
  <2>4. IsPrefix(two, rest)
    <3> HIDE DEF rest, N
    <3>1. 2 <= Len(rest)
      BY <1>1, <2>2
    <3>2. SubSeq(rest, 1, 2) \in Seq({"/"}) /\ Len(SubSeq(rest, 1, 2)) = 2
      <4>1. SubSeq(rest, 1, 2) \in Seq(Url!Characters) /\ Len(SubSeq(rest, 1, 2)) = 2
        BY <2>2, <3>1
      <4>2. \A m \in 1 .. 2 : SubSeq(rest, 1, 2)[m] = "/"
        BY <2>2, <2>3, <3>1
      <4> HIDE DEF rest
      <4> QED BY <4>1, <4>2
    <3>3. SubSeq(rest, 1, 2)[1] = rest[1] /\ SubSeq(rest, 1, 2)[2] = rest[2]
      BY <2>2, <3>1
    <3>4. \A m \in 1 .. 2 : SubSeq(rest, 1, 2)[m] = two[m]
      BY <1>2, <2>3, <3>3
    <3>5. SubSeq(rest, 1, 2) = two
      BY <1>2, <3>2, <3>4, SeqEqual
    <3> QED BY <1>2, <3>1, <3>5 DEF IsPrefix
  <2>5. From(rest, 2) = SubSeq(rest, 3, N + 2 - s)
    BY <2>2 DEF From
  <2>6. SubSeq(rest, 3, N + 2 - s) = SubSeq(str, s + 1, N)
    <3>1. /\ s - 1 \in Nat /\ N + 2 - s \in Nat /\ 1 <= s - 1 /\ s - 1 <= N + 1
          /\ N + 2 - s <= N + 1 - (s - 1) /\ (s - 1) + 3 - 1 = s + 1
          /\ (s - 1) + (N + 2 - s) - 1 = N
      BY <1>1, <1>5
    <3> HIDE DEF rest
    <3> QED BY <1>1, <2>1, <3>1, PieceOfPiece
  <2> QED BY <1>3, <2>4, <2>5, <2>6
<1> QED BY <1>4, <1>5 DEF Begins

\* What is behind the last @ in what is there up to the next slash.
LEMMA ServerOf ==
  ASSUME NEW str \in Seq(Url!Characters), NEW s \in 1 .. Len(str), NEW e \in 1 .. Len(str), s < e,
         NEW a \in s .. e - 1, NEW k \in a + 1 .. e, ServerAt(str, s, a, k, e)
  PROVE  HostAndPort(str) = SubSeq(str, a + 1, e - 1)
<1> DEFINE rest == SubSeq(str, s + 1, Len(str))
           authority == SubSeq(str, s + 1, e - 1)
<1>1. s \in Nat /\ e \in Nat /\ a \in Nat /\ Len(str) \in Nat /\ s \in 1 .. Len(str) - 1
  OBVIOUS
<1>2. Rest(str) = rest
  BY <1>1, RestOf DEF ServerAt
<1>3. rest \in Seq(Url!Characters) /\ Len(rest) = Len(str) - s
  BY <1>1
<1>4. UpTo(rest, "/") = SubSeq(rest, 1, e - s - 1)
  <2>1. e - s \in 1 .. Len(rest)
    BY <1>1, <1>3
  <2>2. rest[e - s] = "/"
    BY <1>1 DEF ServerAt
  <2>3. No(rest, 1, e - s - 1, {"/"})
    <3>1. /\ s + 1 \in Nat /\ 1 <= s + 1 /\ s + 1 <= Len(str) + 1 /\ e - s - 1 \in Nat
          /\ e - s - 1 <= Len(str) + 1 - (s + 1)
          /\ (s + 1) + 1 - 1 = s + 1 /\ (s + 1) + (e - s - 1) - 1 = e - 1
      BY <1>1
    <3>2. No(str, s + 1, e - 1, {"/"})
      BY DEF ServerAt
    <3> QED BY <1>1, <3>1, <3>2, NoneWithin
  <2> HIDE DEF rest
  <2> QED BY <1>3, <2>1, <2>2, <2>3, FirstPlace
<1>5. SubSeq(rest, 1, e - s - 1) = authority
  <2>1. /\ s + 1 \in Nat /\ 1 <= s + 1 /\ s + 1 <= Len(str) + 1 /\ e - s - 1 \in Nat
        /\ e - s - 1 <= Len(str) + 1 - (s + 1)
        /\ (s + 1) + 1 - 1 = s + 1 /\ (s + 1) + (e - s - 1) - 1 = e - 1
    BY <1>1
  <2> QED BY <1>1, <2>1, PieceOfPiece
<1>6. authority \in Seq(Url!Characters) /\ Len(authority) = e - s - 1
  BY <1>1
<1>7. SelectLastInSeq(authority, LAMBDA c : c = "@") = a - s
  <2>1. a - s \in 0 .. Len(authority)
    BY <1>1, <1>6
  <2>2. a - s # 0 => authority[a - s] = "@"
    BY <1>1 DEF ServerAt
  <2>3. No(authority, (a - s) + 1, Len(authority), {"@"})
    <3>1. /\ s + 1 \in Nat /\ e - 1 \in Nat /\ 1 <= s + 1 /\ s + 1 <= (e - 1) + 1
          /\ e - s - 1 \in Nat /\ e - 1 <= Len(str) /\ (a - s) + 1 \in Nat /\ 1 <= (a - s) + 1
          /\ e - s - 1 <= (e - 1) + 1 - (s + 1)
          /\ (s + 1) + ((a - s) + 1) - 1 = a + 1 /\ (s + 1) + (e - s - 1) - 1 = e - 1
      BY <1>1
    <3>2. No(str, a + 1, e - 1, {"@"})
      BY DEF ServerAt
    <3> QED BY <1>1, <1>6, <3>1, <3>2, NoneWithin
  <2> HIDE DEF authority
  <2> QED BY <1>6, <2>1, <2>2, <2>3, LastPlace
<1>8. HostAndPort(str) = SubSeq(authority, (a - s) + 1, Len(authority))
  <2> HIDE DEF rest, authority
  <2> QED BY <1>2, <1>4, <1>5, <1>7 DEF HostAndPort, From
<1>9. SubSeq(authority, (a - s) + 1, e - s - 1) = SubSeq(str, a + 1, e - 1)
  <2>1. /\ s + 1 \in Nat /\ e - 1 \in Nat /\ 1 <= s + 1 /\ s + 1 <= (e - 1) + 1
        /\ e - s - 1 \in Nat /\ e - 1 <= Len(str) /\ (a - s) + 1 \in Nat /\ 1 <= (a - s) + 1
        /\ e - s - 1 <= (e - 1) + 1 - (s + 1)
        /\ (s + 1) + ((a - s) + 1) - 1 = a + 1 /\ (s + 1) + (e - s - 1) - 1 = e - 1
    BY <1>1
  <2> QED BY <1>1, <2>1, PieceOfPiece
<1> QED BY <1>6, <1>8, <1>9

\* The host is what is before the first colon of that, and the port what is behind.
LEMMA HostOf ==
  ASSUME NEW str \in Seq(Url!Characters), NEW s \in 1 .. Len(str), NEW e \in 1 .. Len(str), s < e,
         NEW a \in s .. e - 1, NEW k \in a + 1 .. e, ServerAt(str, s, a, k, e)
  PROVE  /\ UpTo(HostAndPort(str), ":") = SubSeq(str, a + 1, k - 1)
         /\ Behind(HostAndPort(str), ":") = SubSeq(str, k + 1, e - 1)
<1> DEFINE server == SubSeq(str, a + 1, e - 1)
<1>1. HostAndPort(str) = server
  BY ServerOf
<1>2. s \in Nat /\ e \in Nat /\ a \in Nat /\ k \in Nat /\ Len(str) \in Nat /\ e - 1 \in Nat
  OBVIOUS
<1>3. server \in Seq(Url!Characters) /\ Len(server) = e - 1 - a
  BY <1>2
<1>4. /\ a + 1 \in Nat /\ 1 <= a + 1 /\ a + 1 <= (e - 1) + 1 /\ e - 1 <= Len(str)
      /\ k - a - 1 \in Nat /\ k - a - 1 <= (e - 1) + 1 - (a + 1)
      /\ (a + 1) + 1 - 1 = a + 1 /\ (a + 1) + (k - a - 1) - 1 = k - 1
  BY <1>2
<1>5. No(str, a + 1, k - 1, {":"})
  BY DEF ServerAt
<1>6. No(server, 1, k - a - 1, {":"})
  BY <1>2, <1>4, <1>5, NoneWithin
<1>7. SubSeq(server, 1, k - a - 1) = SubSeq(str, a + 1, k - 1)
  BY <1>2, <1>4, PieceOfPiece
<1>8. CASE k = e
  <2>1. UpTo(server, ":") = server /\ Behind(server, ":") = <<>>
    <3>1. k - a - 1 = Len(server)
      BY <1>2, <1>3, <1>8
    <3> HIDE DEF server
    <3> QED BY <1>3, <1>6, <3>1, NoPlace
  <2>2. SubSeq(str, k + 1, e - 1) = <<>>
    BY <1>2, <1>8
  <2> QED BY <1>1, <1>8, <2>1, <2>2
<1>9. CASE k # e
  <2>1. str[k] = ":"
    BY <1>9 DEF ServerAt
  <2>2. k - a \in 1 .. Len(server) /\ (k - a) - 1 = k - a - 1
    BY <1>2, <1>3, <1>9
  <2>3. server[k - a] = ":"
    BY <1>2, <1>9, <2>1
  <2>4. UpTo(server, ":") = SubSeq(server, 1, k - a - 1)
        /\ Behind(server, ":") = SubSeq(server, (k - a) + 1, Len(server))
    <3> HIDE DEF server
    <3> QED BY <1>3, <1>6, <2>2, <2>3, FirstPlace
  <2>5. SubSeq(server, (k - a) + 1, e - 1 - a) = SubSeq(str, k + 1, e - 1)
    <3>1. /\ (k - a) + 1 \in Nat /\ 1 <= (k - a) + 1 /\ e - 1 - a \in Nat
          /\ e - 1 - a <= (e - 1) + 1 - (a + 1)
          /\ (a + 1) + ((k - a) + 1) - 1 = k + 1 /\ (a + 1) + (e - 1 - a) - 1 = e - 1
      BY <1>2
    <3> QED BY <1>2, <1>4, <3>1, PieceOfPiece
  <2> QED BY <1>1, <1>3, <1>7, <2>4, <2>5
<1> QED BY <1>8, <1>9

-----------------------------------------------------------------------------

\* What the parser is after each character.
LEMMA Passes ==
  ASSUME NEW str \in Seq(Url!Characters)
  PROVE  \E f \in [0 .. Len(str) -> Urls] :
           /\ f[0] = Url!Start
           /\ \A n \in 1 .. Len(str) : f[n] = Url!Turn(f[n - 1], str[n])
           /\ LET p == f[Len(str)]
              IN  Url!Parse(str) = IF p.usernameOrHostname = <<>> THEN p
                                   ELSE [p EXCEPT !["hostname"] = p.usernameOrHostname]
<1> DEFINE N == Len(str)
           Values(f) == [n \in 0 .. N |-> IF n = 0 THEN Url!Start ELSE Url!Turn(f[n - 1], str[n])]
           passed == CHOOSE f : f = Values(f)
           turn == [x \in Urls \X (1 .. N) |-> Url!Turn(x[1], str[x[2]])]
<1>1. N \in Nat /\ \A n \in 1 .. N : str[n] \in Url!Characters
  OBVIOUS
<1>2. Url!Parse(str) = IF passed[N].usernameOrHostname = <<>> THEN passed[N]
                       ELSE [passed[N] EXCEPT !["hostname"] = passed[N].usernameOrHostname]
  BY DEF Url!Parse
<1> HIDE DEF N
<1>3. turn \in [Urls \X (1 .. N) -> Urls]
  <2>1. ASSUME NEW p \in Urls, NEW n \in 1 .. N PROVE Url!Turn(p, str[n]) \in Urls
    BY <1>1, TurnTakes
  <2> QED BY <2>1
<1>4. PICK f \in [0 .. N -> Urls] : Recursion(f, N, Url!Start, turn)
  <2> HIDE DEF turn
  <2> QED BY <1>1, <1>3, StartType, Recursive
<1>5. \E g : g = Values(g)
  <2>1. ASSUME NEW n \in 1 .. N PROVE f[n] = Url!Turn(f[n - 1], str[n])
    <3>1. <<f[n - 1], n>> \in Urls \X (1 .. N)
      <4>1. n - 1 \in 0 .. N
        BY <1>1
      <4> QED BY <1>4, <4>1
    <3>2. f[n] = turn[<<f[n - 1], n>>]
      BY <1>4 DEF Recursion
    <3> QED BY <3>1, <3>2
  <2>2. f[0] = Url!Start /\ f = [n \in 0 .. N |-> f[n]]
    BY <1>4 DEF Recursion
  <2>3. \A n \in 0 .. N : f[n] = IF n = 0 THEN Url!Start ELSE Url!Turn(f[n - 1], str[n])
    BY <1>1, <2>1, <2>2
  <2>4. f = Values(f)
    BY <2>2, <2>3
  <2> QED BY <2>4
<1>6. passed = Values(passed)
  BY <1>5
<1> HIDE DEF passed
<1>7. /\ passed = [n \in 0 .. N |-> passed[n]] /\ passed[0] = Url!Start
      /\ \A n \in 1 .. N : passed[n] = Url!Turn(passed[n - 1], str[n])
  BY <1>1, <1>6
<1>8. 0 .. N \subseteq {n \in 0 .. N : passed[n] \in Urls}
  <2> DEFINE G == {n \in 0 .. N : passed[n] \in Urls}
  <2>1. 0 \in G
    BY <1>1, <1>7, StartType
  <2>2. ASSUME NEW n \in 1 .. N, n - 1 \in G PROVE n \in G
    <3>1. passed[n - 1] \in Urls /\ str[n] \in Url!Characters
      BY <1>1, <2>2
    <3>2. Url!Turn(passed[n - 1], str[n]) \in Urls
      BY <3>1, TurnTakes
    <3>3. passed[n] \in Urls
      BY <1>7, <3>2
    <3>4. n \in 0 .. N
      BY <1>1
    <3> QED BY <3>3, <3>4
  <2> HIDE DEF G
  <2>3. 0 .. N \subseteq G
    BY <1>1, <2>1, <2>2, Reaches
  <2> QED BY <2>3 DEF G
<1>9. passed \in [0 .. N -> Urls]
  BY <1>7, <1>8
<1> QED BY <1>2, <1>7, <1>9 DEF N

\* Only a [ leads to a host that is in brackets, and a character behind it does
\* not lead anywhere.
LEMMA InBrackets ==
  ASSUME NEW p \in Urls, NEW ch \in Url!Characters, Url!Turn(p, ch).state = "IPV6Hostname"
  PROVE  ch = "["
<1> DEFINE q == Url!Turn(p, ch)
<1>1. DOMAIN p = UrlFields
  BY DEF Urls
<1>2. CASE p.state \in Url!Over
  <2>1. q = p
    BY <1>2 DEF Url!Turn, Url!Over
  <2> HIDE DEF q
  <2> QED BY <1>2, <2>1 DEF Url!Over, q
<1>3. CASE p.state = "IPV6Hostname"
  <2>1. q = [p EXCEPT !["state"] = "aborted"]
    BY <1>3 DEF Url!Turn, Url!Over
  <2>2. q.state = "aborted"
    BY <1>1, <2>1 DEF UrlFields
  <2> QED BY <2>2
<1>4. CASE p.state \notin Dead
  <2>1. CASE q.state = "invalid"
    BY <2>1
  <2>2. PICK m \in Url!Accepted(p, ch) : Takes(p, ch, q, m[2], m[3])
    BY <1>4, TurnTakes
  <2>3. m[2] = "IPV6Hostname" /\ ch \in m[1] /\ m \in Url!Moves[p.state]
    BY <2>2 DEF Takes, Url!Accepted
  <2>4. p.state \in DOMAIN Url!Moves
    BY <1>4 DEF Urls, UrlStates
  <2>5. m[1] = {"["}
    BY <2>3, <2>4, MovesOf, MoveStates
  <2> QED BY <2>3, <2>5
<1> QED BY <1>2, <1>3, <1>4 DEF Dead

\* The host and the port of a URL that ends with a slash are those it names, if
\* the parser takes it for one that names a host.
LEMMA Parsed ==
  ASSUME NEW str \in Seq(Url!Characters), str # <<>>, Last(str) = "/",
         Url!Parse(str).state \notin Url!Over, Url!Parse(str).hostname # <<>>
  PROVE  /\ Url!Parse(str).hostname = UpTo(HostAndPort(str), ":")
         /\ Url!Parse(str).port = Behind(HostAndPort(str), ":")
<1> DEFINE N == Len(str)
<1>1. N \in Nat /\ N \in 1 .. N /\ str[N] = "/"
  BY DEF Last
<1>2. PICK f \in [0 .. N -> Urls] :
        /\ f[0] = Url!Start
        /\ \A n \in 1 .. N : f[n] = Url!Turn(f[n - 1], str[n])
        /\ Url!Parse(str) = IF f[N].usernameOrHostname = <<>> THEN f[N]
                            ELSE [f[N] EXCEPT !["hostname"] = f[N].usernameOrHostname]
  BY Passes
<1>3. \A n \in 0 .. N : UrlAt(str, f[n], n)
  <2> DEFINE G == {n \in 0 .. N : UrlAt(str, f[n], n)}
  <2>1. 0 \in G
    <3>1. /\ Url!Start.state = "Scheme"
          /\ \A part \in Fields : Url!Start[part] = <<>>
      BY DEF Url!Start, Url!Parts, Fields
    <3>2. BeforeServer(str, Url!Start, 0)
      BY <3>1 DEF BeforeServer, Free, No
    <3> QED BY <1>1, <1>2, <3>2 DEF UrlAt
  <2>2. ASSUME NEW n \in 1 .. N, n - 1 \in G PROVE n \in G
    <3>1. n - 1 \in Nat /\ n - 1 < N /\ (n - 1) + 1 = n /\ f[n - 1] \in Urls /\ n \in 0 .. N
      BY <1>1, <1>2, <2>2
    <3>2. UrlAt(str, Url!Turn(f[n - 1], str[(n - 1) + 1]), (n - 1) + 1)
      BY <2>2, <3>1, UrlStep
    <3>3. UrlAt(str, f[n], n)
      BY <1>2, <3>1, <3>2
    <3> QED BY <3>1, <3>3
  <2> HIDE DEF G
  <2>3. 0 .. N \subseteq G
    BY <1>1, <2>1, <2>2, Reaches
  <2> QED BY <2>3 DEF G
<1> DEFINE p == f[N]
<1>4. p \in Urls /\ UrlAt(str, p, N) /\ DOMAIN p = UrlFields
  BY <1>1, <1>2, <1>3 DEF Urls
<1>5. p.state # "IPV6Hostname"
  <2>1. N - 1 \in 0 .. N /\ str[N] # "["
    BY <1>1
  <2>2. f[N - 1] \in Urls /\ str[N] \in Url!Characters /\ f[N] = Url!Turn(f[N - 1], str[N])
    BY <1>1, <1>2, <2>1
  <2> QED BY <2>1, <2>2, InBrackets
<1> HIDE DEF p, N
<1>6. /\ Url!Parse(str).state = p.state /\ Url!Parse(str).port = p.port
      /\ Url!Parse(str).hostname = IF p.usernameOrHostname = <<>> THEN p.hostname
                                   ELSE p.usernameOrHostname
  BY <1>2, <1>4, PartsOf DEF p, UrlFields
<1>7. p.state \notin Dead
  BY <1>5, <1>6 DEF Dead
<1>8. ~BeforeServer(str, p, N)
  BY <1>6 DEF BeforeServer, Free, Fields
<1>9. ASSUME NEW s \in 1 .. N, No(str, s + 1, N, {"/"}),
             UserOrHost(str, p, N, s) \/ InPassword(p) \/ \E a \in s + 1 .. N : BehindUser(str, p, N, a)
      PROVE  FALSE
  <2>1. s = N
    BY <1>1, <1>9 DEF No
  <2>2. N + 1 .. N = {}
    BY <1>1
  <2>3. UserOrHost(str, p, N, N) \/ InPassword(p)
    BY <1>9, <2>1, <2>2
  <2>4. CASE InPassword(p)
    BY <1>6, <2>4 DEF InPassword, Free
  <2>5. CASE UserOrHost(str, p, N, N)
    <3>1. SubSeq(str, N + 1, N) = <<>>
      BY <1>1, NothingYet DEF N
    <3> QED BY <1>6, <2>2, <2>5, <3>1 DEF UserOrHost, Free
  <2> QED BY <2>3, <2>4, <2>5
<1>10. BehindServer(str, p, N)
  BY <1>4, <1>7, <1>8, <1>9 DEF UrlAt
<1>11. PICK s \in 1 .. N, e \in 2 .. N : s < e /\ \E a \in s .. e - 1 : \E k \in a + 1 .. e :
        /\ ServerAt(str, s, a, k, e)
        /\ p.hostname = SubSeq(str, a + 1, k - 1)
        /\ p.port = SubSeq(str, k + 1, e - 1)
  BY <1>10 DEF BehindServer
<1>12. PICK a \in s .. e - 1 : \E k \in a + 1 .. e :
        /\ ServerAt(str, s, a, k, e)
        /\ p.hostname = SubSeq(str, a + 1, k - 1)
        /\ p.port = SubSeq(str, k + 1, e - 1)
  BY <1>11
<1>13. PICK k \in a + 1 .. e :
        /\ ServerAt(str, s, a, k, e)
        /\ p.hostname = SubSeq(str, a + 1, k - 1)
        /\ p.port = SubSeq(str, k + 1, e - 1)
  BY <1>12
<1>14. e \in 1 .. N /\ s < e
  BY <1>1, <1>11
<1>15. /\ UpTo(HostAndPort(str), ":") = SubSeq(str, a + 1, k - 1)
       /\ Behind(HostAndPort(str), ":") = SubSeq(str, k + 1, e - 1)
  BY <1>13, <1>14, HostOf DEF N
<1>16. p.usernameOrHostname = <<>>
  BY <1>10 DEF BehindServer, Free
<1> QED BY <1>6, <1>13, <1>15, <1>16

-----------------------------------------------------------------------------

LEMMA TheRest ==
  ASSUME NEW S, NEW s \in Seq(S), NEW i \in Nat, i >= 1, i <= Len(s) + 1
  PROVE  SubSeq(s, i, Len(s)) \in Seq(S) /\ Len(SubSeq(s, i, Len(s))) = Len(s) + 1 - i
<1>1. i \in 1 .. Len(s) + 1 /\ Len(s) \in i - 1 .. Len(s)
  OBVIOUS
<1> QED BY <1>1, SubSeqProperties

LEMMA InSet ==
  ASSUME NEW S, NEW s \in Seq(S), NEW i \in 1 .. Len(s)
  PROVE  s[i] \in ToSet(s)
BY DEF ToSet

\* Where the parts of a plain URL are, when it ends with a slash.
LEMMA PlainPlaces ==
  ASSUME NEW g \in Seq(Url!Characters), g # <<>>, Plain(g),
         NEW str, str = (IF Last(g) = "/" THEN g ELSE Append(g, "/"))
  PROVE  str \in Seq(Url!Characters) /\ \E k, e : PlainAt(str, k, e)
<1> DEFINE G == Len(g)
           rest == SubSeq(g, 8, G)
           server == UpTo(rest, "/")
           host == UpTo(server, ":")
           port == SubSeq(server, Len(host) + 1, Len(server))
<1>1. /\ G \in Nat /\ 7 <= G /\ \A i \in 1 .. 7 : g[i] = Http[i]
  <2>1. 7 <= G /\ SubSeq(Http, 1, 7) = SubSeq(g, 1, 7)
    BY DEF Plain, IsPrefix, Http
  <2>2. \A i \in 1 .. 7 : SubSeq(g, 1, 7)[i] = g[i]
    BY <2>1
  <2>3. \A i \in 1 .. 7 : SubSeq(Http, 1, 7)[i] = Http[i]
    BY DEF Http
  <2> QED BY <2>1, <2>2, <2>3
<1>2. /\ host # <<>> /\ ToSet(host) \subseteq Url!Unreserved
      /\ port # <<>> => ToSet(Tail(port)) \subseteq Url!Digits
  BY DEF Plain, From
<1>3. /\ str \in Seq(Url!Characters) /\ \A i \in 1 .. G : str[i] = g[i]
      /\ Len(str) \in Nat /\ Len(str) >= G
      /\ Last(g) # "/" => Len(str) = G + 1 /\ str[G + 1] = "/"
  <2>1. "/" \in Url!Characters
    BY DEF Url!Characters
  <2> QED BY <2>1
<1>4. rest \in Seq(Url!Characters) /\ Len(rest) = G - 7 /\ \A i \in 1 .. G - 7 : rest[i] = g[i + 7]
  <2>1. SubSeq(g, 8, G) \in Seq(Url!Characters) /\ Len(SubSeq(g, 8, G)) = G - 7
    <3>1. 8 \in Nat /\ 8 >= 1 /\ 8 <= Len(g) + 1 /\ Len(g) + 1 - 8 = G - 7
      BY <1>1
    <3> QED BY <3>1, TheRest
  <2>2. ASSUME NEW i \in 1 .. G - 7 PROVE SubSeq(g, 8, G)[i] = g[i + 7]
    BY <1>1
  <2> QED BY <2>1, <2>2
<1> HIDE DEF rest
<1>5. \E e \in 8 .. Len(str) : e <= G + 1 /\ str[e] = "/" /\ server = SubSeq(rest, 1, e - 8)
  <2> DEFINE I == {i \in 1 .. G - 7 : rest[i] = "/"}
  <2>1. CASE I # {}
    <3> DEFINE i == Min(I)
    <3>1. i \in I /\ \A n \in I : i <= n
      <4>1. I \subseteq Nat
        OBVIOUS
      <4> HIDE DEF I
      <4> QED BY <2>1, <4>1, MinIsLeast
    <3> HIDE DEF i
    <3>2. i \in 1 .. Len(rest) /\ rest[i] = "/" /\ No(rest, 1, i - 1, {"/"})
      BY <1>4, <3>1 DEF No
    <3>3. server = SubSeq(rest, 1, i - 1)
      BY <1>4, <3>2, FirstPlace
    <3>4. /\ i + 7 \in 8 .. Len(str) /\ i + 7 <= G + 1 /\ (i + 7) - 8 = i - 1
      BY <1>1, <1>3, <1>4, <3>2
    <3>5. str[i + 7] = "/"
      BY <1>1, <1>3, <1>4, <3>1
    <3> HIDE DEF server
    <3> QED BY <3>3, <3>4, <3>5
  <2>2. CASE I = {}
    <3>1. No(rest, 1, Len(rest), {"/"})
      BY <1>4, <2>2 DEF No
    <3>2. server = rest
      BY <1>4, <3>1, NoPlace
    <3>3. rest # <<>>
      <4>1. CASE rest = <<>>
        <5>1. No(<<>>, 1, Len(<<>>), {":"}) /\ <<>> \in Seq(Url!Characters)
          BY DEF No
        <5>2. UpTo(<<>>, ":") = <<>>
          BY <5>1, NoPlace
        <5> HIDE DEF server
        <5> QED BY <1>2, <3>2, <4>1, <5>2
      <4> QED BY <4>1
    <3>4. G > 7
      BY <1>1, <1>4, <3>3, EmptySeq
    <3>5. Last(g) # "/"
      <4>1. G - 7 \in 1 .. G - 7 /\ rest[G - 7] = g[G]
        BY <1>1, <1>4, <3>4
      <4> QED BY <2>2, <4>1 DEF Last
    <3>6. SubSeq(rest, 1, (G + 1) - 8) = rest
      BY <1>1, <1>4
    <3>7. G + 1 \in 8 .. Len(str)
      BY <1>1, <1>3, <3>5
    <3> HIDE DEF server
    <3> QED BY <1>3, <3>2, <3>5, <3>6, <3>7
  <2> QED BY <2>1, <2>2
<1>6. PICK e \in 8 .. Len(str) : e <= G + 1 /\ str[e] = "/" /\ server = SubSeq(rest, 1, e - 8)
  BY <1>5
<1>7. /\ server \in Seq(Url!Characters) /\ Len(server) = e - 8 /\ e - 8 \in Nat
      /\ \A i \in 1 .. e - 8 : server[i] = str[i + 7]
  <2>1. e - 8 \in 0 .. G - 7
    BY <1>1, <1>3, <1>6
  <2>2. SubSeq(rest, 1, e - 8) \in Seq(Url!Characters) /\ Len(SubSeq(rest, 1, e - 8)) = e - 8
    BY <1>4, <2>1
  <2>3. ASSUME NEW i \in 1 .. e - 8 PROVE SubSeq(rest, 1, e - 8)[i] = str[i + 7]
    <3>1. SubSeq(rest, 1, e - 8)[i] = rest[i]
      BY <1>4, <2>1
    <3>2. i \in 1 .. G - 7 /\ i + 7 \in 1 .. G
      BY <1>1, <2>1
    <3> QED BY <1>3, <1>4, <3>1, <3>2
  <2> HIDE DEF server
  <2> QED BY <1>6, <2>1, <2>2, <2>3
<1> HIDE DEF server
<1>8. \E k \in 8 .. e :
        /\ Len(host) = k - 8 /\ \A i \in 1 .. k - 8 : host[i] = server[i]
        /\ k # e => server[k - 7] = ":"
  <2> DEFINE I == {i \in 1 .. e - 8 : server[i] = ":"}
  <2>1. CASE I # {}
    <3> DEFINE i == Min(I)
    <3>1. i \in I /\ \A n \in I : i <= n
      <4>1. I \subseteq Nat
        OBVIOUS
      <4> HIDE DEF I
      <4> QED BY <2>1, <4>1, MinIsLeast
    <3> HIDE DEF i
    <3>2. i \in 1 .. Len(server) /\ server[i] = ":" /\ No(server, 1, i - 1, {":"})
      BY <1>7, <3>1 DEF No
    <3>3. host = SubSeq(server, 1, i - 1)
      BY <1>7, <3>2, FirstPlace
    <3>4. Len(SubSeq(server, 1, i - 1)) = i - 1
          /\ \A n \in 1 .. i - 1 : SubSeq(server, 1, i - 1)[n] = server[n]
      BY <1>7, <3>2
    <3>5. i + 7 \in 8 .. e /\ (i + 7) - 8 = i - 1 /\ (i + 7) - 7 = i
      BY <1>7, <3>2
    <3> HIDE DEF host
    <3> QED BY <3>2, <3>3, <3>4, <3>5
  <2>2. CASE I = {}
    <3>1. No(server, 1, Len(server), {":"})
      BY <1>7, <2>2 DEF No
    <3>2. host = server
      BY <1>7, <3>1, NoPlace
    <3> HIDE DEF host
    <3> QED BY <1>6, <1>7, <3>2
  <2> QED BY <2>1, <2>2
<1>9. PICK k \in 8 .. e :
        /\ Len(host) = k - 8 /\ \A i \in 1 .. k - 8 : host[i] = server[i]
        /\ k # e => server[k - 7] = ":"
  BY <1>8
<1>10. host \in Seq(Url!Characters)
  <2>1. host \in Seq(Url!Characters)
    BY <1>7, UpToType
  <2> QED BY <2>1
<1>11. k \in 9 .. e /\ e \in 9 .. Len(str)
  <2>1. Len(host) # 0
    <3> HIDE DEF host
    <3> QED BY <1>2, <1>10, EmptySeq
  <2> QED BY <1>6, <1>9, <2>1
<1>12. ASSUME NEW i \in 8 .. k - 1 PROVE str[i] \in Url!Unreserved
  <2>1. i - 7 \in 1 .. k - 8 /\ i - 7 \in 1 .. e - 8 /\ (i - 7) + 7 = i
    BY <1>11
  <2>2. host[i - 7] \in ToSet(host)
    <3> HIDE DEF host
    <3> QED BY <1>9, <1>10, <2>1 DEF ToSet
  <2>3. host[i - 7] = str[i]
    BY <1>7, <1>9, <2>1
  <2> QED BY <1>2, <2>2, <2>3
<1>13. ASSUME k # e PROVE str[k] = ":"
  <2>1. k - 7 \in 1 .. e - 8 /\ (k - 7) + 7 = k
    BY <1>11, <1>13
  <2> QED BY <1>7, <1>9, <1>13, <2>1
<1>14. ASSUME NEW i \in k + 1 .. e - 1 PROVE str[i] \in Url!Digits
  <2>1. port = SubSeq(server, k - 7, e - 8)
    <3>1. Len(host) + 1 = k - 7 /\ Len(server) = e - 8
      BY <1>7, <1>9, <1>11
    <3> HIDE DEF host
    <3> QED BY <3>1
  <2>2. k - 7 \in 1 .. e - 8 /\ i - 7 \in k - 6 .. e - 8 /\ (i - 7) + 7 = i /\ i - 7 \in 1 .. e - 8
    BY <1>11
  <2>3. SubSeq(server, k - 7, e - 8) \in Seq(Url!Characters) /\ Len(SubSeq(server, k - 7, e - 8)) = e - k
    BY <1>7, <1>11, <2>2
  <2>4. SubSeq(server, k - 7, e - 8)[i - k + 1] = server[i - 7]
    BY <1>7, <1>11, <2>2
  <2> DEFINE t == SubSeq(server, k - 7, e - 8)
  <2> HIDE DEF t, port
  <2>5. t \in Seq(Url!Characters) /\ t # <<>> /\ i - k \in 1 .. Len(t) - 1
    <3>1. t \in Seq(Url!Characters) /\ Len(t) = e - k
      BY <2>3 DEF t
    <3>2. i - k \in 1 .. e - k - 1 /\ e - k # 0
      BY <1>11
    <3> QED BY <3>1, <3>2, EmptySeq
  <2>6. Tail(t) \in Seq(Url!Characters) /\ Len(Tail(t)) = Len(t) - 1 /\ Tail(t)[i - k] = t[i - k + 1]
    BY <2>5
  <2>7. Tail(t)[i - k] \in ToSet(Tail(t))
    BY <2>5, <2>6, InSet
  <2>8. ToSet(Tail(t)) \subseteq Url!Digits
    BY <1>2, <2>1, <2>5 DEF t
  <2>9. server[i - 7] = str[i]
    BY <1>7, <2>2
  <2> QED BY <2>4, <2>6, <2>7, <2>8, <2>9 DEF t
<1>15. \A i \in 1 .. 7 : str[i] = Http[i]
  BY <1>1, <1>3
<1>16. PlainAt(str, k, e)
  BY <1>6, <1>11, <1>12, <1>13, <1>14, <1>15 DEF PlainAt
<1> QED BY <1>3, <1>16

\* The parser takes a character that one of the moves accepts.
LEMMA Accepts ==
  ASSUME NEW p \in Urls, NEW ch \in Url!Characters, p.state \notin Dead,
         NEW m \in Url!Moves[p.state], ch \in m[1], m[2] # "IPV6Hostname"
  PROVE  TakesOne(p, ch, Url!Turn(p, ch))
<1>1. m \in Url!Accepted(p, ch)
  BY DEF Url!Accepted
<1> QED BY <1>1, Turns

LEMMA FirstFour ==
  ASSUME NEW S, NEW s \in Seq(S), Len(s) >= 4,
         s[1] = "h", s[2] = "t", s[3] = "t", s[4] = "p"
  PROVE  SubSeq(s, 1, 4) = <<"h", "t", "t", "p">>
<1> DEFINE r == SubSeq(s, 1, 4)
<1>1. r \in Seq(S) /\ Len(r) = 4 /\ r[1] = "h" /\ r[2] = "t" /\ r[3] = "t" /\ r[4] = "p"
  OBVIOUS
<1> HIDE DEF r
<1>2. r = [i \in 1 .. 4 |-> r[i]]
  BY <1>1
<1>3. <<"h", "t", "t", "p">> = [i \in 1 .. 4 |-> r[i]]
  BY <1>1
<1> QED BY <1>2, <1>3 DEF r

LEMMA PlainStep ==
  ASSUME NEW str \in Seq(Url!Characters), NEW p \in Urls, NEW n \in Nat, n < Len(str),
         NEW k, NEW e, PlainAt(str, k, e), InPlain(str, p, n, k, e)
  PROVE  InPlain(str, Url!Turn(p, str[n + 1]), n + 1, k, e)
<1> DEFINE q == Url!Turn(p, str[n + 1])
           ch == str[n + 1]
<1>1. /\ k \in Nat /\ e \in Nat /\ 9 <= k /\ k <= e /\ e <= Len(str) /\ Len(str) \in Nat
      /\ \A i \in 1 .. 7 : str[i] = Http[i]
      /\ \A i \in 8 .. k - 1 : str[i] \in Url!Unreserved
      /\ k # e => str[k] = ":"
      /\ \A i \in k + 1 .. e - 1 : str[i] \in Url!Digits
      /\ str[e] = "/"
  BY DEF PlainAt
<1>2. ch \in Url!Characters
  OBVIOUS
<1>3. /\ "scheme" \in Url!Parts /\ "usernameOrHostname" \in Url!Parts /\ "hostname" \in Url!Parts
      /\ "port" \in Url!Parts /\ "portOrPassword" \in Url!Parts /\ "none" \notin Url!Parts
      /\ Fields \subseteq Url!Parts /\ "scheme" \notin Fields
  BY PartsOf DEF Fields
<1>4. p.state \notin Dead
  BY MoveStates DEF InPlain
<1>5. ASSUME NEW m \in Url!Moves[p.state], ch \in m[1], m[2] # "IPV6Hostname"
      PROVE  TakesOne(p, ch, q)
  BY <1>2, <1>4, <1>5, Accepts
<1>6. (n + 1) - 1 = n /\ n + 1 \in Nat /\ n + 1 <= Len(str)
  OBVIOUS
<1> HIDE DEF q, ch
<1>7. CASE p.state = "Scheme" /\ n \in 0 .. 3 /\ p.scheme = SubSeq(str, 1, n) /\ Free(p, Fields)
  <2>1. ch \in {"h", "t", "p"}
    BY <1>1, <1>7 DEF ch, Http
  <2>2. TakesOne(p, ch, q)
    <3>1. <<Url!Alnum \union {"+", "-", "."}, "Scheme", "scheme">> \in Url!Moves[p.state]
      BY <1>7, MovesOf
    <3>2. ch \in Url!Alnum \union {"+", "-", "."}
      BY <2>1 DEF Url!Alnum, Url!Letters
    <3> QED BY <1>5, <3>1, <3>2
  <2>3. Takes(p, ch, q, "Scheme", "scheme")
    BY <1>7, <2>1, <2>2 DEF TakesOne
  <2>4. /\ q.state = "Scheme"
        /\ \A x \in Url!Parts : q[x] = IF x = "scheme" THEN Append(p[x], ch) ELSE p[x]
    BY <1>7, <2>3, Collects
  <2>5. Append(SubSeq(str, 1, n), ch) = SubSeq(str, 1, n + 1)
    BY <1>6, <1>7, OneMore DEF ch
  <2>6. q.scheme = SubSeq(str, 1, n + 1) /\ Free(q, Fields)
    BY <1>3, <1>7, <2>4, <2>5 DEF Free
  <2>7. n + 1 \in 0 .. 4 /\ Free(q, {"hostname"})
    BY <1>7, <2>6 DEF Free, Fields
  <2>8. n + 1 > 3 => q.scheme = <<"h", "t", "t", "p">>
    <3>1. SubSeq(str, 1, 4) = <<"h", "t", "t", "p">>
      <4>1. str[1] = "h" /\ str[2] = "t" /\ str[3] = "t" /\ str[4] = "p" /\ Len(str) >= 4
        BY <1>1 DEF Http
      <4> QED BY <4>1, FirstFour
    <3>2. n + 1 > 3 => n + 1 = 4
      BY <1>7
    <3> QED BY <2>6, <3>1, <3>2
  <2>9. InPlain(str, q, n + 1, k, e)
    BY <2>4, <2>6, <2>7, <2>8 DEF InPlain
  <2> QED BY <2>9 DEF q
<1>8. CASE p.state = "Scheme" /\ n = 4 /\ p.scheme = SubSeq(str, 1, n) /\ Free(p, Fields)
  <2>1. ch = ":"
    BY <1>1, <1>8 DEF ch, Http
  <2>2. TakesOne(p, ch, q)
    <3>1. <<{":"}, "SlashAfterScheme1", "none">> \in Url!Moves[p.state]
      BY <1>8, MovesOf
    <3> QED BY <1>5, <2>1, <3>1
  <2>3. Takes(p, ch, q, "SlashAfterScheme1", "none")
    BY <1>8, <2>1, <2>2 DEF TakesOne, Url!Alnum, Url!Letters, Url!Digits
  <2>4. q.state = "SlashAfterScheme1" /\ \A x \in Url!Parts : q[x] = p[x]
    BY <1>3, <1>8, <2>3, Collects
  <2>5. p.scheme = <<"h", "t", "t", "p">>
    BY <1>8 DEF InPlain
  <2>6. q.scheme = <<"h", "t", "t", "p">> /\ Free(q, Fields) /\ Free(q, {"hostname"})
    BY <1>3, <1>8, <2>4, <2>5 DEF Free, Fields
  <2>7. InPlain(str, q, n + 1, k, e)
    BY <1>8, <2>4, <2>6 DEF InPlain
  <2> QED BY <2>7 DEF q
<1>9. CASE p.state = "SlashAfterScheme1" /\ n = 5 /\ Free(p, Fields)
  <2>1. ch = "/"
    BY <1>1, <1>9 DEF ch, Http
  <2>2. TakesOne(p, ch, q)
    <3>1. <<{"/"}, "SlashAfterScheme2", "none">> \in Url!Moves[p.state]
      BY <1>9, MovesOf
    <3> QED BY <1>5, <2>1, <3>1
  <2>3. Takes(p, ch, q, "SlashAfterScheme2", "none")
    BY <1>9, <2>1, <2>2 DEF TakesOne, Url!Alnum, Url!Letters, Url!Digits
  <2>4. q.state = "SlashAfterScheme2" /\ \A x \in Url!Parts : q[x] = p[x]
    BY <1>3, <1>9, <2>3, Collects
  <2>5. p.scheme = <<"h", "t", "t", "p">>
    BY <1>9 DEF InPlain
  <2>6. q.scheme = <<"h", "t", "t", "p">> /\ Free(q, Fields) /\ Free(q, {"hostname"})
    BY <1>3, <1>9, <2>4, <2>5 DEF Free, Fields
  <2>7. InPlain(str, q, n + 1, k, e)
    BY <1>9, <2>4, <2>6 DEF InPlain
  <2> QED BY <2>7 DEF q
<1>10. CASE p.state = "SlashAfterScheme2" /\ n = 6 /\ Free(p, Fields)
  <2>1. ch = "/"
    BY <1>1, <1>10 DEF ch, Http
  <2>2. TakesOne(p, ch, q)
    <3>1. <<{"/"}, "UsernameOrHostname", "none">> \in Url!Moves[p.state]
      BY <1>10, MovesOf
    <3> QED BY <1>5, <2>1, <3>1
  <2>3. Takes(p, ch, q, "UsernameOrHostname", "none")
    BY <1>10, <2>1, <2>2 DEF TakesOne
  <2>4. q.state = "UsernameOrHostname" /\ \A x \in Url!Parts : q[x] = p[x]
    BY <1>3, <1>10, <2>3, Collects
  <2>5. p.scheme = <<"h", "t", "t", "p">>
    BY <1>10 DEF InPlain
  <2>6. q.scheme = <<"h", "t", "t", "p">> /\ Free(q, Fields)
    BY <1>3, <1>10, <2>4, <2>5 DEF Free
  <2>7. Free(q, {"hostname"}) /\ Free(q, {"port", "portOrPassword"}) /\ q.usernameOrHostname = <<>>
    BY <2>6 DEF Free, Fields
  <2>8. SubSeq(str, 8, 7) = <<>> /\ 7 \in 7 .. k - 1
    BY <1>1
  <2>9. InPlain(str, q, n + 1, k, e)
    BY <1>10, <2>4, <2>6, <2>7, <2>8 DEF InPlain
  <2> QED BY <2>9 DEF q
<1>11. CASE /\ p.state = "UsernameOrHostname" /\ n \in 7 .. k - 1
            /\ p.usernameOrHostname = SubSeq(str, 8, n)
            /\ Free(p, {"port", "portOrPassword"})
  <2>1. /\ p.scheme = <<"h", "t", "t", "p">> /\ p.hostname = <<>>
        /\ p.port = <<>> /\ p.portOrPassword = <<>>
    BY <1>1, <1>11 DEF InPlain, Free
  <2>2. CASE n + 1 < k
    <3>1. ch \in Url!Unreserved
      BY <1>1, <1>11, <2>2 DEF ch
    <3>2. TakesOne(p, ch, q)
      <4>1. <<Url!Unreserved \union {"%"}, "UsernameOrHostname", "usernameOrHostname">> \in Url!Moves[p.state]
        BY <1>11, MovesOf
      <4> QED BY <1>5, <3>1, <4>1
    <3>3. Takes(p, ch, q, "UsernameOrHostname", "usernameOrHostname")
      BY <1>11, <3>1, <3>2 DEF TakesOne, Url!Unreserved, Url!Alnum, Url!Letters, Url!Digits
    <3>4. /\ q.state = "UsernameOrHostname"
          /\ \A x \in Url!Parts : q[x] = IF x = "usernameOrHostname" THEN Append(p[x], ch) ELSE p[x]
      BY <1>11, <3>3, Collects
    <3>5. Append(SubSeq(str, 8, n), ch) = SubSeq(str, 8, n + 1)
      BY <1>6, <1>11, OneMore DEF ch
    <3>6. /\ q.usernameOrHostname = SubSeq(str, 8, n + 1) /\ q.scheme = p.scheme
          /\ Free(q, {"hostname"}) /\ Free(q, {"port", "portOrPassword"})
      BY <1>3, <1>11, <2>1, <3>4, <3>5 DEF Free
    <3>7. n + 1 \in 7 .. k - 1
      BY <1>1, <1>11, <2>2
    <3>8. InPlain(str, q, n + 1, k, e)
      BY <2>1, <3>4, <3>6, <3>7 DEF InPlain
    <3> QED BY <3>8 DEF q
  <2>3. CASE n + 1 = k /\ k # e
    <3>1. ch = ":"
      BY <1>1, <2>3 DEF ch
    <3>2. TakesOne(p, ch, q)
      <4>1. <<{":"}, "PortOrPassword", "none">> \in Url!Moves[p.state]
        BY <1>11, MovesOf
      <4> QED BY <1>5, <3>1, <4>1
    <3>3. Takes(p, ch, q, "PortOrPassword", "none")
      BY <1>11, <3>1, <3>2 DEF TakesOne, Url!Unreserved, Url!Alnum, Url!Letters, Url!Digits
    <3>4. q.state = "PortOrPassword" /\ \A x \in Url!Parts : q[x] = p[x]
      BY <1>3, <1>11, <3>3, Collects
    <3>5. /\ q.usernameOrHostname = SubSeq(str, 8, k - 1) /\ q.scheme = p.scheme
          /\ Free(q, {"hostname"}) /\ Free(q, {"port"})
      BY <1>3, <1>6, <1>11, <2>1, <2>3, <3>4 DEF Free
    <3>6. n + 1 \in k .. e - 1
      BY <1>1, <2>3
    <3>7. InPlain(str, q, n + 1, k, e)
      BY <2>1, <3>4, <3>5, <3>6 DEF InPlain
    <3> QED BY <3>7 DEF q
  <2>4. CASE n + 1 = k /\ k = e
    <3>1. ch = "/"
      BY <1>1, <2>4 DEF ch
    <3>2. TakesOne(p, ch, q)
      <4>1. <<{"/"}, "Path", "none">> \in Url!Moves[p.state]
        BY <1>11, MovesOf
      <4> QED BY <1>5, <3>1, <4>1
    <3>3. Takes(p, ch, q, "Path", "none")
      BY <1>11, <3>1, <3>2 DEF TakesOne, Url!Unreserved, Url!Alnum, Url!Letters, Url!Digits
    <3>4. q.state = "Path"
      BY <3>3 DEF Takes
    <3>5. /\ q.usernameOrHostname = p.hostname /\ q.hostname = p.usernameOrHostname
          /\ q.port = p.port /\ q.portOrPassword = p.portOrPassword /\ q.scheme = p.scheme
      BY <1>11, <3>3, Sorts
    <3>6. Free(q, {"usernameOrHostname", "portOrPassword"}) /\ q.hostname = SubSeq(str, 8, k - 1)
      BY <1>6, <1>11, <2>1, <2>4, <3>5 DEF Free
    <3>7. n + 1 >= e /\ ~(n + 1 < e)
      BY <1>1, <2>4
    <3>8. InPlain(str, q, n + 1, k, e)
      BY <2>1, <3>4, <3>5, <3>6, <3>7 DEF InPlain
    <3> QED BY <3>8 DEF q
  <2> QED BY <1>1, <1>11, <2>2, <2>3, <2>4
<1>12. CASE /\ p.state = "PortOrPassword" /\ n \in k .. e - 1
            /\ p.usernameOrHostname = SubSeq(str, 8, k - 1)
            /\ Free(p, {"port"})
  <2>1. p.scheme = <<"h", "t", "t", "p">> /\ p.hostname = <<>> /\ p.port = <<>>
    BY <1>1, <1>12 DEF InPlain, Free
  <2>2. CASE n + 1 < e
    <3>1. ch \in Url!Digits
      BY <1>1, <1>12, <2>2 DEF ch
    <3>2. TakesOne(p, ch, q)
      <4>1. <<Url!Digits, "PortOrPassword", "portOrPassword">> \in Url!Moves[p.state]
        BY <1>12, MovesOf
      <4> QED BY <1>5, <3>1, <4>1
    <3>3. Takes(p, ch, q, "PortOrPassword", "portOrPassword")
      BY <1>12, <3>1, <3>2 DEF TakesOne, Url!Letters, Url!Digits
    <3>4. /\ q.state = "PortOrPassword"
          /\ \A x \in Url!Parts : q[x] = IF x = "portOrPassword" THEN Append(p[x], ch) ELSE p[x]
      BY <1>12, <3>3, Collects
    <3>5. /\ q.usernameOrHostname = SubSeq(str, 8, k - 1) /\ q.scheme = p.scheme
          /\ Free(q, {"hostname"}) /\ Free(q, {"port"})
      BY <1>3, <1>12, <2>1, <3>4 DEF Free
    <3>6. n + 1 \in k .. e - 1
      BY <1>1, <1>12, <2>2
    <3>7. InPlain(str, q, n + 1, k, e)
      BY <2>1, <3>4, <3>5, <3>6 DEF InPlain
    <3> QED BY <3>7 DEF q
  <2>3. CASE n + 1 = e
    <3>1. ch = "/"
      BY <1>1, <2>3 DEF ch
    <3>2. TakesOne(p, ch, q)
      <4>1. <<{"/"}, "Path", "none">> \in Url!Moves[p.state]
        BY <1>12, MovesOf
      <4> QED BY <1>5, <3>1, <4>1
    <3>3. Takes(p, ch, q, "Path", "none")
      BY <1>12, <3>1, <3>2 DEF TakesOne, Url!Letters, Url!Digits
    <3>4. q.state = "Path"
      BY <3>3 DEF Takes
    <3>5. /\ q.usernameOrHostname = p.hostname /\ q.hostname = p.usernameOrHostname
          /\ q.port = p.portOrPassword /\ q.portOrPassword = p.port /\ q.scheme = p.scheme
      BY <1>12, <3>3, Sorts
    <3>6. Free(q, {"usernameOrHostname", "portOrPassword"}) /\ q.hostname = SubSeq(str, 8, k - 1)
      BY <1>12, <2>1, <3>5 DEF Free
    <3>7. n + 1 >= e /\ ~(n + 1 < e)
      BY <1>1, <2>3
    <3>8. InPlain(str, q, n + 1, k, e)
      BY <2>1, <3>4, <3>5, <3>6, <3>7 DEF InPlain
    <3> QED BY <3>8 DEF q
  <2> QED BY <1>1, <1>12, <2>2, <2>3
<1>13. CASE /\ p.state \in {"Path", "Query", "Fragment"} /\ n >= e
            /\ p.hostname = SubSeq(str, 8, k - 1)
            /\ Free(p, {"usernameOrHostname", "portOrPassword"})
  <2>1. \E m \in Url!Moves[p.state] : ch \in m[1] /\ m[2] # "IPV6Hostname"
    <3>1. CASE p.state = "Path"
      BY <1>2, <3>1, MovesOf
    <3>2. CASE p.state = "Query"
      BY <1>2, <3>2, MovesOf
    <3>3. CASE p.state = "Fragment"
      BY <1>2, <3>3, MovesOf
    <3> QED BY <1>13, <3>1, <3>2, <3>3
  <2>2. TakesOne(p, ch, q)
    BY <1>5, <2>1
  <2>3. PICK next \in {"Path", "Query", "Fragment"}, part \in {"path", "query", "fragment", "none"} :
          Takes(p, ch, q, next, part)
    BY <1>13, <2>2 DEF TakesOne
  <2>4. /\ q.state = next
        /\ \A x \in Url!Parts : q[x] = IF x = part THEN Append(p[x], ch) ELSE p[x]
    BY <1>13, <2>3, Collects
  <2>5. \A x \in {"usernameOrHostname", "portOrPassword", "hostname", "scheme"} : q[x] = p[x]
    BY <1>3, <2>4
  <2>6. Free(q, {"usernameOrHostname", "portOrPassword"})
    BY <1>13, <2>5 DEF Free
  <2>7. p.scheme = <<"h", "t", "t", "p">>
    BY <1>1, <1>13 DEF InPlain
  <2>8. n + 1 >= e /\ ~(n + 1 < e)
    BY <1>1, <1>13
  <2>9. InPlain(str, q, n + 1, k, e)
    BY <1>13, <2>3, <2>4, <2>5, <2>6, <2>7, <2>8 DEF InPlain
  <2> QED BY <2>9 DEF q
<1>14. 0 .. 4 = (0 .. 3) \union {4}
  OBVIOUS
<1> QED BY <1>7, <1>8, <1>9, <1>10, <1>11, <1>12, <1>13, <1>14 DEF InPlain

\* A plain URL is one of a host for http.
LEMMA PlainParsed ==
  ASSUME NEW str \in Seq(Url!Characters), NEW k, NEW e, PlainAt(str, k, e)
  PROVE  /\ Url!Parse(str).state \notin Url!Over
         /\ Url!Parse(str).scheme = <<"h", "t", "t", "p">>
         /\ Url!Parse(str).hostname # <<>> /\ Url!Parse(str).portOrPassword = <<>>
<1> DEFINE N == Len(str)
<1>1. N \in Nat /\ k \in Nat /\ e \in Nat /\ 9 <= k /\ k <= e /\ e <= N
  BY DEF PlainAt
<1>2. PICK f \in [0 .. N -> Urls] :
        /\ f[0] = Url!Start
        /\ \A n \in 1 .. N : f[n] = Url!Turn(f[n - 1], str[n])
        /\ Url!Parse(str) = IF f[N].usernameOrHostname = <<>> THEN f[N]
                            ELSE [f[N] EXCEPT !["hostname"] = f[N].usernameOrHostname]
  BY Passes
<1>3. \A n \in 0 .. N : InPlain(str, f[n], n, k, e)
  <2> DEFINE G == {n \in 0 .. N : InPlain(str, f[n], n, k, e)}
  <2>1. 0 \in G
    <3>1. /\ Url!Start.state = "Scheme" /\ Url!Start.scheme = <<>>
          /\ \A part \in Fields : Url!Start[part] = <<>>
      BY DEF Url!Start, Url!Parts, Fields
    <3>2. SubSeq(str, 1, 0) = <<>> /\ 0 \in 0 .. 4 /\ ~(0 > 3) /\ 0 \in 0 .. N
      BY <1>1
    <3>3. Free(Url!Start, Fields) /\ Free(Url!Start, {"hostname"})
      BY <3>1 DEF Free, Fields
    <3>4. InPlain(str, Url!Start, 0, k, e)
      BY <3>1, <3>2, <3>3 DEF InPlain
    <3> QED BY <1>2, <3>2, <3>4
  <2>2. ASSUME NEW n \in 1 .. N, n - 1 \in G PROVE n \in G
    <3>1. n - 1 \in Nat /\ n - 1 < N /\ (n - 1) + 1 = n /\ f[n - 1] \in Urls /\ n \in 0 .. N
      BY <1>1, <1>2, <2>2
    <3>2. InPlain(str, Url!Turn(f[n - 1], str[(n - 1) + 1]), (n - 1) + 1, k, e)
      BY <2>2, <3>1, PlainStep
    <3>3. InPlain(str, f[n], n, k, e)
      BY <1>2, <3>1, <3>2
    <3> QED BY <3>1, <3>3
  <2> HIDE DEF G
  <2>3. 0 .. N \subseteq G
    BY <1>1, <2>1, <2>2, Reaches
  <2> QED BY <2>3 DEF G
<1> DEFINE p == f[N]
<1>4. InPlain(str, p, N, k, e)
  BY <1>1, <1>3
<1> HIDE DEF p
<1>5. /\ p.state \in {"Path", "Query", "Fragment"}
      /\ p.hostname = SubSeq(str, 8, k - 1)
      /\ p.usernameOrHostname = <<>> /\ p.portOrPassword = <<>>
      /\ p.scheme = <<"h", "t", "t", "p">>
  BY <1>1, <1>4 DEF InPlain, Free
<1>6. Url!Parse(str) = p
  BY <1>2, <1>5 DEF p
<1>7. SubSeq(str, 8, k - 1) # <<>>
  BY <1>1
<1> QED BY <1>5, <1>6, <1>7 DEF Url!Over
==============================================================================
