------------------------------ MODULE UrlParser ------------------------------
(***************************************************************************)
(* The URL parser of the driver client: one pass over the characters, from *)
(* state to state, that collects the parts of the URL.                     *)
(*                                                                         *)
(* The port as a number is left out: khttp takes it as text.               *)
(***************************************************************************)
EXTENDS Integers, SequencesExt

\* The characters that occur.
Letters == {"a", "h", "p", "t"}
Digits == {"1"}
Alnum == Letters \union Digits
Unreserved == Alnum \union {"-", ".", "_", "~"}
Characters == Unreserved \union {"+", "%", ":", "/", "@", "#", "?", "[", "*"}

\* For each state the characters that it accepts, the state they lead to, and
\* the part that they become the end of, or "none". Any other is an error.
Moves == [
  Scheme             |-> {<<Alnum \union {"+", "-", "."}, "Scheme", "scheme">>,
                          <<{":"}, "SlashAfterScheme1", "none">>},
  SlashAfterScheme1  |-> {<<{"/"}, "SlashAfterScheme2", "none">>,
                          <<Alnum, "UsernameOrHostname", "usernameOrHostname">>},
  SlashAfterScheme2  |-> {<<{"/"}, "UsernameOrHostname", "none">>},
  UsernameOrHostname |-> {<<Unreserved \union {"%"}, "UsernameOrHostname",
                            "usernameOrHostname">>,
                          <<{":"}, "PortOrPassword", "none">>,
                          <<{"@"}, "Hostname", "none">>,
                          <<{"/"}, "Path", "none">>},
  Password           |-> {<<Alnum \union {"%"}, "Password", "password">>,
                          <<{"@"}, "Hostname", "none">>},
  Hostname           |-> {<<Unreserved \union {"%"}, "Hostname", "hostname">>,
                          <<{"["}, "IPV6Hostname", "none">>,
                          <<{":"}, "Port", "none">>,
                          <<{"/"}, "Path", "none">>},
  PortOrPassword     |-> {<<Digits, "PortOrPassword", "portOrPassword">>,
                          <<Letters \union {"%"}, "Password", "password">>,
                          <<{"/"}, "Path", "none">>},
  Port               |-> {<<Digits, "Port", "portOrPassword">>,
                          <<{"/"}, "Path", "none">>},
  Path               |-> {<<Characters \ {"#", "?"}, "Path", "path">>,
                          <<{"?"}, "Query", "none">>,
                          <<{"#"}, "Fragment", "none">>},
  Query              |-> {<<Characters \ {"#", "?"}, "Query", "query">>,
                          <<{"?"}, "Query", "none">>,
                          <<{"#"}, "Fragment", "none">>},
  Fragment           |-> {<<Characters, "Fragment", "fragment">>}]

\* The pass is over with the first error, and the system is if there is any
\* character behind a [: that is abort().
Over == {"invalid", "aborted"}

Parts == {"scheme", "username", "password", "hostname", "port", "path", "query",
          "fragment", "usernameOrHostname", "portOrPassword"}

Start == [part \in Parts \union {"state"} |->
            CASE part = "state" -> "Scheme" [] part = "path" -> <<"/">> [] OTHER -> <<>>]

\* url = Url(); the two that are not part of it stay.
Invalid(p) == [part \in DOMAIN p |->
                 CASE part = "state" -> "invalid"
                   [] part \in {"usernameOrHostname", "portOrPassword"} -> p[part]
                   [] OTHER -> <<>>]

Swap(p, one, other) == [p EXCEPT ![one] = p[other], ![other] = p[one]]

\* Mutant of Sort: the port is not taken.
SortWithoutPort(p, next) ==
  CASE p.state = "UsernameOrHostname" /\ next = "Hostname" ->
         Swap(p, "username", "usernameOrHostname")
    [] p.state \in {"UsernameOrHostname", "PortOrPassword"} /\ next = "Path" ->
         Swap(p, "hostname", "usernameOrHostname")
    [] p.state = "PortOrPassword" /\ next = "Password" ->
         Swap(Swap(p, "username", "usernameOrHostname"), "password", "portOrPassword")
    [] p.state = "Port" /\ next = "Path" -> Swap(p, "port", "portOrPassword")
    [] OTHER -> p

\* What was collected turns out to be a name or a host, a port or a password.
Sort(p, next) ==
  CASE p.state = "UsernameOrHostname" /\ next = "Hostname" ->
         Swap(p, "username", "usernameOrHostname")
    [] p.state = "UsernameOrHostname" /\ next = "Path" ->
         Swap(p, "hostname", "usernameOrHostname")
    [] p.state = "PortOrPassword" /\ next = "Path" ->
         Swap(Swap(p, "hostname", "usernameOrHostname"), "port", "portOrPassword")
    [] p.state = "PortOrPassword" /\ next = "Password" ->
         Swap(Swap(p, "username", "usernameOrHostname"), "password", "portOrPassword")
    [] p.state = "Port" /\ next = "Path" -> Swap(p, "port", "portOrPassword")
    [] OTHER -> p

\* Mutant of Accepted: a path must follow a host, but that may still be taken for
\* a user.
AcceptedBehindHost(p, ch) ==
  {m \in Moves[p.state] :
     /\ ch \in m[1]
     /\ m[2] = "IPV6Hostname" => p.hostname = <<>>
     /\ m[2] = "Path" /\ p.state # "Path" => p.hostname # <<>>}

\* A [ is the beginning of a host only.
Accepted(p, ch) ==
  {m \in Moves[p.state] :
     ch \in m[1] /\ (m[2] = "IPV6Hostname" => p.hostname = <<>>)}

Take(p, ch, move) ==
  LET q == Sort(p, move[2])
  IN  [part \in DOMAIN q |->
         CASE part = "state" -> move[2]
           [] part = move[3] -> Append(q[part], ch)
           [] OTHER -> q[part]]

Turn(p, ch) ==
  CASE p.state \in Over -> p
    [] p.state = "IPV6Hostname" -> [p EXCEPT !["state"] = "aborted"]
    [] OTHER -> LET moves == Accepted(p, ch)
                IN  IF moves = {} THEN Invalid(p)
                    ELSE Take(p, ch, CHOOSE m \in moves : TRUE)

\* What is left over is taken for the host.
Parse(str) ==
  LET passed[n \in 0 .. Len(str)] ==
        IF n = 0 THEN Start ELSE Turn(passed[n - 1], str[n])
      p == passed[Len(str)]
  IN  IF p.usernameOrHostname = <<>> THEN p
      ELSE [p EXCEPT !["hostname"] = p.usernameOrHostname]

IsValid(url) == url.state # "invalid"
=============================================================================
