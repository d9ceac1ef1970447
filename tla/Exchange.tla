------------------------------ MODULE Exchange ------------------------------
(***************************************************************************)
(* A query of the driver client: kqpdb finds out the PDB of an image and   *)
(* posts what it is asked through khttp, over a connection on which bytes  *)
(* are sent and received in pieces of any size, and which may end or break *)
(* at any time, and takes what the parser has made of the pieces for the   *)
(* answer.                                                                 *)
(***************************************************************************)
EXTENDS HttpResponse, AddrInfo

CONSTANTS
  Cases,        \* [server, image, answers]: what kqpdb is given, and which
                \* responses the server may send
  RequestSize,  \* the length of the request
  BufferSize    \* the most that one recv returns

Url == INSTANCE UrlParser
Pe == INSTANCE PdbPath

ASSUME ExchangeAssumption ==
  /\ RequestSize \in Nat \ {0}
  /\ BufferSize \in Nat \ {0}
  /\ \A c \in Cases :
       /\ c.server \in Seq(Url!Characters)
       /\ c.image.proper => Pe!Linked(c.image)
       /\ \A r \in c.answers : ResponseTypeOK(r) /\ (r.proper => Proper(r))

VARIABLES
  pc,           \* what the query does next, or "done" when it is over
  given,        \* the case
  wsk,          \* whether the driver has a WSK provider
  info,         \* the PDB of the image
  peer,         \* host and port that the URL names
  request,      \* the bytes of the request still to be sent
  wire,         \* the bytes the server has received
  response,     \* what the server answers
  left,         \* the bytes of it that have not been received
  conn,         \* "none", "open", "connected", or how it ended: "closed" by
                \* the server, "broken", or "unused" if it has not been made
  reply         \* the answer to the query: NotYet, Thrown or a content

queryVars == <<given, wsk, info, peer>>
ioVars == <<request, wire, response, left>>
vars == <<parserVars, addrVars, queryVars, ioVars, pc, conn, reply>>

NoInfo == [name |-> "", guid |-> "", age |-> 0]
NoPeer == [host |-> <<>>, port |-> <<>>]

\* A request names the PDB.
RequestFor(pdb) == [n \in 1 .. RequestSize |-> [pdb |-> pdb, byte |-> n]]

NotYet == [is |-> "none", content |-> <<>>]
Thrown == [is |-> "thrown", content |-> <<>>]
Answer(content) == [is |-> "answer", content |-> content]

EmptyResponse == [status |-> 0, content |-> <<>>]
NoResponse == [bytes |-> <<>>, size |-> 0, status |-> 0, content |-> <<>>,
               headers |-> <<>>, blank |-> 0, chunks |-> <<>>, trailers |-> <<>>,
               proper |-> FALSE]

Init ==
  /\ ParserInit
  /\ AddrInit
  /\ pc = "construct"
  /\ given \in Cases
  /\ wsk \in BOOLEAN
  /\ info = NoInfo
  /\ peer = NoPeer
  /\ request = <<>>
  /\ wire = <<>>
  /\ response = NoResponse
  /\ left = <<>>
  /\ conn = "none"
  /\ reply = NotYet

\* http_impl returns r, with the socket closed and the addresses freed by their
\* guards, and the query throws unless the status is 200.
Finish(r) ==
  /\ pc' = "done"
  /\ reply' = IF r.status = 200 THEN Answer(r.content) ELSE Thrown
  /\ FreeAddrInfo

\* A step that does not get on.
GiveUp(ended) ==
  /\ Finish(EmptyResponse)
  /\ conn' = ended
  /\ UNCHANGED <<step, addresses, wild>>

\* The server's URL as kqpdb keeps it.
Server(str) == IF Last(str) = "/" THEN str ELSE Append(str, "/")

\* The constructor of kqpdb: without a server or with a file that cannot be
\* read, the queries throw; so does the constructor if it does not know the
\* machine.
Construct ==
  /\ pc = "construct"
  /\ \/ /\ given.server # <<>>
        /\ given.image.machine \in Pe!Machines
        /\ info' = Pe!PdbPathInfo(given.image)
        /\ pc' = "check"
        /\ UNCHANGED <<addrVars, conn, reply>>
     \/ GiveUp("unused") /\ UNCHANGED info
  /\ UNCHANGED <<parserVars, ioVars, given, wsk, peer>>

ThisUrl == Url!Parse(Server(given.server))

\* khttp, and the check at the beginning of http_impl. abort() does not return.
Check ==
  /\ pc = "check"
  /\ \/ /\ wsk
        /\ Url!IsValid(ThisUrl)
        /\ ThisUrl.state # "aborted"
        /\ ThisUrl.scheme = <<"h", "t", "t", "p">>
        /\ ThisUrl.hostname # <<>>
        /\ peer' = [host |-> ThisUrl.hostname,
                    port |-> IF ThisUrl.port = <<>> THEN <<"8", "0">> ELSE ThisUrl.port]
        /\ pc' = "resolve"
        /\ UNCHANGED <<addrVars, conn, reply>>
     \/ /\ ThisUrl.state = "aborted"
        /\ pc' = "aborted"
        /\ UNCHANGED <<addrVars, peer, conn, reply>>
     \/ /\ ThisUrl.state # "aborted"
        /\ \/ ~wsk
           \/ ~Url!IsValid(ThisUrl)
           \/ ThisUrl.scheme # <<"h", "t", "t", "p">>
           \/ ThisUrl.hostname = <<>>
        /\ GiveUp("unused")
        /\ UNCHANGED peer
  /\ UNCHANGED <<parserVars, ioVars, given, wsk, info>>

\* A step of getaddrinfo, or what follows it.
Resolve ==
  /\ pc = "resolve"
  /\ \/ GetAddrInfo /\ UNCHANGED <<pc, conn, reply>>
     \/ /\ step = "ok"
        /\ pc' = "socket"
        /\ UNCHANGED <<addrVars, conn, reply>>
     \/ step \in {"failed", "unconverted"} /\ GiveUp("unused")
  /\ UNCHANGED <<parserVars, queryVars, ioVars>>

Socket ==
  /\ pc = "socket"
  /\ \/ pc' = "connect" /\ conn' = "open" /\ UNCHANGED <<addrVars, reply>>
     \/ GiveUp("unused")
  /\ UNCHANGED <<parserVars, queryVars, ioVars>>

\* The first address is tried and no other.
Connect ==
  /\ pc = "connect"
  /\ \/ /\ pc' = "send" /\ conn' = "connected"
        /\ request' = RequestFor(info)
        /\ response' \in given.answers
        /\ left' = response'.bytes
        /\ UNCHANGED <<addrVars, wire, reply>>
     \/ GiveUp("unused") /\ UNCHANGED ioVars
  /\ UNCHANGED <<parserVars, queryVars>>

\* Mutant of Send: what is left of the request is not sent.
SendOnce ==
  /\ pc = "send"
  /\ \E n \in 1 .. Len(request) :
       /\ wire' = wire \o SubSeq(request, 1, n)
       /\ request' = SubSeq(request, n + 1, Len(request))
       /\ pc' = "recv"
  /\ UNCHANGED <<parserVars, addrVars, queryVars, response, left, conn, reply>>

Send ==
  /\ pc = "send"
  /\ \/ \E n \in 0 .. Len(request) :
          /\ wire' = wire \o SubSeq(request, 1, n)
          /\ request' = SubSeq(request, n + 1, Len(request))
          /\ pc' = IF n = Len(request) THEN "recv" ELSE "send"
          /\ UNCHANGED <<addrVars, conn, reply>>
     \/ GiveUp("broken") /\ UNCHANGED <<request, wire>>
  /\ UNCHANGED <<parserVars, queryVars, response, left>>

\* The next bytes of the response, which the server sends once it has the
\* request.
Receive ==
  /\ pc = "recv"
  /\ outcome # "parsing"
  /\ wire = RequestFor(info)
  /\ \E n \in 1 .. Len(left) :
       /\ n <= BufferSize
       /\ buf' = SubSeq(left, 1, n)
       /\ left' = SubSeq(left, n + 1, Len(left))
  /\ outcome' = "parsing"
  /\ UNCHANGED <<parser, addrVars, queryVars, pc, request, wire, response, conn, reply>>

Parse ==
  /\ pc = "recv"
  /\ ParserNext
  /\ UNCHANGED <<addrVars, queryVars, ioVars, pc, conn, reply>>

\* Mutant of Closed: what has not failed is taken for complete.
ClosedUnlessError ==
  /\ pc = "recv"
  /\ outcome # "parsing"
  /\ Finish(IF outcome # "ParsingError"
            THEN [status |-> parser.status, content |-> parser.content]
            ELSE EmptyResponse)
  /\ conn' = "closed"
  /\ UNCHANGED <<parserVars, step, addresses, wild, queryVars, ioVars>>

\* recv returns 0: the server has closed the connection, or died. Now what the
\* parser made of the last piece counts.
Closed ==
  /\ pc = "recv"
  /\ outcome # "parsing"
  /\ Finish(IF outcome = "ParsingCompleted"
            THEN [status |-> parser.status, content |-> parser.content]
            ELSE EmptyResponse)
  /\ conn' = "closed"
  /\ UNCHANGED <<parserVars, step, addresses, wild, queryVars, ioVars>>

Broken ==
  /\ pc = "recv"
  /\ outcome # "parsing"
  /\ GiveUp("broken")
  /\ UNCHANGED <<parserVars, queryVars, ioVars>>

\* An exception of the parser, which has no memory for the content, leaves
\* http_impl and the query.
ParseThrows ==
  /\ pc = "recv"
  /\ Reserves
  /\ GiveUp("broken")
  /\ UNCHANGED <<parserVars, queryVars, ioVars>>

Next ==
  \/ Construct \/ Check \/ Resolve \/ Socket \/ Connect \/ Send
  \/ Receive \/ Parse \/ ParseThrows \/ Closed \/ Broken

Spec == Init /\ [][Next]_vars

-----------------------------------------------------------------------------

ExchangeTypeOK ==
  /\ outcome \in Results \union {"parsing"}
  /\ parser.state \in DOMAIN Moves \union Counting
  /\ parser.status \in Nat
  /\ parser.contentSize \in Int /\ parser.chunkSize \in Nat
  /\ IsSuffix(buf \o left, response.bytes)
  /\ pc \in {"construct", "check", "aborted", "resolve", "socket", "connect",
             "send", "recv", "done"}
  /\ step \in {"node", "service", "hints", "ask", "convert", "ok", "failed",
               "unconverted"}
  /\ conn \in {"none", "open", "connected", "closed", "broken", "unused"}
  /\ pc = "done" <=> reply # NotYet
  /\ reply # NotYet => conn \in {"closed", "broken", "unused"}

\* The server gets the whole request before an answer is waited for, in
\* whatever pieces send takes it, and no byte of it twice or out of order.
RequestArrives ==
  /\ IsPrefix(wire, RequestFor(info))
  /\ pc = "recv" => wire = RequestFor(info)

\* What the server is asked for is the PDB that the debug directory of the image
\* names, wherever in the file that is, if it is a proper one.
AsksForItsPdb == wire # <<>> /\ given.image.proper => info = given.image.pdb

\* All of the response has arrived, and the server has closed the connection
\* as it was asked to.
Complete ==
  conn = "closed" /\ Len(response.bytes) - Len(left) >= response.size

\* If the server sends a proper response, a query has no answer but the content
\* of one that is complete and says 200, wherever the connection ended or broke
\* and whatever follows it.
RefusesIncomplete ==
  response.proper /\ reply.is = "answer" =>
    Complete /\ response.status = 200 /\ reply.content = response.content

ProperAndAlone ==
  /\ response.proper /\ response.status = 200
  /\ Len(response.bytes) = response.size

\* A complete and proper response that says 200, and that nothing follows, is
\* taken, wherever it was cut.
AnswersComplete ==
  pc = "done" /\ Complete /\ ProperAndAlone => reply = Answer(response.content)

-----------------------------------------------------------------------------

\* Where the server's name is in the URL, read without a parser: behind the
\* first colon and two slashes, up to the next slash, behind the last @ in that.
From(str, n) == SubSeq(str, n + 1, Len(str))
UpTo(str, ch) ==
  LET n == SelectInSeq(str, LAMBDA c : c = ch)
  IN  IF n = 0 THEN str ELSE SubSeq(str, 1, n - 1)
Behind(str, ch) ==
  LET n == SelectInSeq(str, LAMBDA c : c = ch) IN From(str, IF n = 0 THEN Len(str) ELSE n)

Rest(str) == LET rest == Behind(str, ":")
             IN  IF IsPrefix(<<"/", "/">>, rest) THEN From(rest, 2) ELSE rest
HostAndPort(str) == LET authority == UpTo(Rest(str), "/")
                    IN  From(authority, SelectLastInSeq(authority, LAMBDA c : c = "@"))

\* Host and port that the URL names are those that are looked up.
LooksUpTheServer ==
  LET server == HostAndPort(Server(given.server))
      port == Behind(server, ":")
  IN  peer # NoPeer =>
        /\ peer.host = UpTo(server, ":")
        /\ peer.port = IF port = <<>> THEN <<"8", "0">> ELSE port

\* http://, a host, and maybe a port.
Plain(str) ==
  /\ IsPrefix(<<"h", "t", "t", "p", ":", "/", "/">>, str)
  /\ LET server == UpTo(From(str, 7), "/")
         host == UpTo(server, ":")
         port == From(server, Len(host))
     IN  /\ host # <<>> /\ ToSet(host) \subseteq Url!Unreserved
         /\ port # <<>> => ToSet(Tail(port)) \subseteq Url!Digits

\* A plain URL is not turned down, if the driver has its WSK provider.
TakesPlainUrls ==
  pc \in {"aborted", "done"} /\ info # NoInfo /\ wsk /\ Plain(given.server) => peer # NoPeer

\* When a query is over, what it has allocated is freed, but for both names in
\* Unicode and what is left if the addresses could not be converted; and no
\* string is freed that was never set if the server has but one address.
FreesAddresses ==
  /\ pc = "done" /\ step # "unconverted" => pool \subseteq Names
  /\ addresses <= 1 => ~wild
=============================================================================
