---------------------------- MODULE QueryServer ----------------------------
(***************************************************************************)
(* The whole server: the listening thread and the thread pool of httplib   *)
(* around the request handlers and the storage of module Downloader.       *)
(*                                                                         *)
(* A connection goes into an unbounded list of jobs; a thread of the pool  *)
(* takes one and stays with it for up to KeepAliveMax requests, until the  *)
(* client asks to close, goes away, or sends nothing for a while.          *)
(***************************************************************************)
EXTENDS Downloader, Sequences

CONSTANTS
  Conns,          \* connections, each used once
  KeepAliveMax,   \* CPPHTTPLIB_KEEPALIVE_MAX_COUNT, requests per connection
  MaxRequests,    \* bound: requests all clients send together
  Malformed       \* a body that is not the JSON of a request

ASSUME ConnsAssumption == Nothing \notin Conns
ASSUME KeepAliveAssumption == KeepAliveMax \in Nat \ {0}
ASSUME MaxRequestsAssumption == MaxRequests \in Nat
ASSUME MalformedAssumption == Malformed \notin Keys \union {Nothing}

VARIABLES
  jobs,           \* ThreadPool::jobs_
  conn,           \* conn[c]: "new", "open", or "closed" by either side
  asked,          \* asked[c]: the request the client waits for, or Nothing
  wire,           \* wire[c]: a request the server has not read, or Nothing
  serving,        \* serving[w]: the connection thread w is busy with
  count,          \* count[w]: requests w still accepts on it
  closing,        \* closing[w]: w closes it next
  sent            \* how many requests were sent

poolVars == <<jobs, conn, serving, count>>
clientVars == <<asked, wire, sent>>
serverVars == <<vars, poolVars, clientVars, closing>>

ServerInit ==
  /\ Init
  /\ jobs = <<>>
  /\ conn = [c \in Conns |-> "new"]
  /\ asked = [c \in Conns |-> Nothing]
  /\ wire = [c \in Conns |-> Nothing]
  /\ serving = [w \in Workers |-> Nothing]
  /\ count = [w \in Workers |-> 0]
  /\ closing = [w \in Workers |-> FALSE]
  /\ sent = 0

-----------------------------------------------------------------------------
\* The clients.

\* A client connects; listen_internal accepts and enqueues. An error of accept
\* that is not for want of descriptors ends the listening: then this never
\* happens again, which the fairness below allows.
Connect(c) ==
  /\ conn[c] = "new"
  /\ conn' = [conn EXCEPT ![c] = "open"]
  /\ jobs' = Append(jobs, c)
  /\ UNCHANGED <<vars, clientVars, serving, count, closing>>

\* One request at a time on a connection.
Send(c, r) ==
  /\ conn[c] = "open"
  /\ asked[c] = Nothing
  /\ sent < MaxRequests
  /\ asked' = [asked EXCEPT ![c] = r]
  /\ wire' = [wire EXCEPT ![c] = r]
  /\ sent' = sent + 1
  /\ UNCHANGED <<vars, poolVars, closing>>

\* The client's read timeout expires (get_symbol and its like fail), or it has
\* what it wanted. What it has sent stays in the socket.
GiveUp(c) ==
  /\ conn[c] = "open"
  /\ conn' = [conn EXCEPT ![c] = "closed"]
  /\ asked' = [asked EXCEPT ![c] = Nothing]
  /\ UNCHANGED <<vars, jobs, serving, count, closing, wire, sent>>

-----------------------------------------------------------------------------
\* A thread of the pool.

\* Mutant of Dequeue: front() without pop_front().
DequeueKeepsJob(w) ==
  /\ serving[w] = Nothing
  /\ jobs # <<>>
  /\ serving' = [serving EXCEPT ![w] = Head(jobs)]
  /\ count' = [count EXCEPT ![w] = KeepAliveMax]
  /\ UNCHANGED <<vars, clientVars, conn, jobs, closing>>

\* worker::operator() takes the first job.
Dequeue(w) ==
  /\ serving[w] = Nothing
  /\ jobs # <<>>
  /\ serving' = [serving EXCEPT ![w] = Head(jobs)]
  /\ jobs' = Tail(jobs)
  /\ count' = [count EXCEPT ![w] = KeepAliveMax]
  /\ UNCHANGED <<vars, clientVars, conn, closing>>

\* w waits in keep_alive for a request on its connection.
Waiting(w) ==
  /\ serving[w] # Nothing
  /\ ~closing[w]
  /\ pc[w] = "idle"
  /\ reply[w] = NoReply

\* Mutant of ReadRequest: the body of the request stays in the stream.
ReadRequestTwice(w) ==
  LET c == serving[w]
  IN  /\ Waiting(w)
      /\ wire[c] \in Keys
      /\ Request(w, wire[c])
      /\ count' = [count EXCEPT ![w] = @ - 1]
      /\ UNCHANGED <<jobs, conn, clientVars, serving, closing>>

\* Mutant of ReadRequest: a body that does not parse is routed all the same.
ReadRequestUnparsed(w) ==
  LET c == serving[w]
  IN  /\ Waiting(w)
      /\ wire[c] # Nothing
      /\ wire' = [wire EXCEPT ![c] = Nothing]
      /\ Request(w, wire[c])
      /\ count' = [count EXCEPT ![w] = @ - 1]
      /\ UNCHANGED <<jobs, conn, asked, serving, closing, sent>>

\* process_request has read a request and routes it. A body that does not
\* parse throws before the storage is asked. The step is the end of the
\* reading, a loop of reads that each have a timeout; the loop has none, and
\* with a client that sends a byte now and then the step may never be taken.
ReadRequest(w) ==
  LET c == serving[w]
  IN  /\ Waiting(w)
      /\ wire[c] # Nothing
      /\ wire' = [wire EXCEPT ![c] = Nothing]
      /\ \/ wire[c] \in Keys /\ Request(w, wire[c])
         \/ /\ wire[c] = Malformed
            /\ reply' = [reply EXCEPT ![w] = Failure]
            /\ UNCHANGED <<pc, key, mutex, body, pub, tmp, data, view>>
      /\ count' = [count EXCEPT ![w] = @ - 1]
      /\ UNCHANGED <<jobs, conn, asked, serving, closing, sent>>

\* The time of one read is up, or the client is gone, before the request has
\* come whole. Without its first line the connection is closed; otherwise the
\* answer is a failure, and what the client still sends is taken as lost.
ReadFails(w) ==
  LET c == serving[w]
  IN  /\ Waiting(w)
      /\ wire[c] # Nothing
      /\ wire' = [wire EXCEPT ![c] = Nothing]
      /\ \/ /\ closing' = [closing EXCEPT ![w] = TRUE]
            /\ UNCHANGED <<reply, count>>
         \/ /\ reply' = [reply EXCEPT ![w] = Failure]
            /\ count' = [count EXCEPT ![w] = @ - 1]
            /\ UNCHANGED closing
      /\ UNCHANGED <<pc, key, mutex, body, pub, tmp, data, view, jobs, conn,
                     asked, serving, sent>>

\* The response is written; it is lost if the client has closed. The client
\* may have sent Connection: close.
WriteResponse(w) ==
  LET c == serving[w]
  IN  /\ pc[w] = "idle"
      /\ reply[w] # NoReply
      /\ reply' = [reply EXCEPT ![w] = NoReply]
      /\ asked' = [asked EXCEPT ![c] = Nothing]
      /\ \E close \in BOOLEAN :
           closing' = [closing EXCEPT ![w] =
                         close \/ count[w] = 0 \/ conn[c] = "closed"]
      /\ UNCHANGED <<pc, key, mutex, body, pub, tmp, data, view, poolVars,
                     wire, sent>>

\* Mutant of KeepAliveEnds: no timeout, only a client that closes ends it.
KeepAliveForEver(w) ==
  /\ Waiting(w)
  /\ wire[serving[w]] = Nothing
  /\ conn[serving[w]] = "closed"
  /\ closing' = [closing EXCEPT ![w] = TRUE]
  /\ UNCHANGED <<vars, poolVars, clientVars>>

\* keep_alive finds nothing to read and the time is up, or the client has
\* closed. A request may still come before the socket is closed.
KeepAliveEnds(w) ==
  /\ Waiting(w)
  /\ wire[serving[w]] = Nothing
  /\ closing' = [closing EXCEPT ![w] = TRUE]
  /\ UNCHANGED <<vars, poolVars, clientVars>>

\* process_and_close_socket ends; a request not read yet is lost with it.
Close(w) ==
  LET c == serving[w]
  IN  /\ closing[w]
      /\ closing' = [closing EXCEPT ![w] = FALSE]
      /\ serving' = [serving EXCEPT ![w] = Nothing]
      /\ conn' = [conn EXCEPT ![c] = "closed"]
      /\ asked' = [asked EXCEPT ![c] = Nothing]
      /\ wire' = [wire EXCEPT ![c] = Nothing]
      /\ count' = [count EXCEPT ![w] = 0]
      /\ UNCHANGED <<vars, jobs, sent>>

Handle(w) == Work(w) /\ UNCHANGED <<poolVars, clientVars, closing>>

\* The connections of a process that dies are reset.
ServerCrash ==
  /\ Crash
  /\ jobs' = <<>>
  /\ conn' = [c \in Conns |-> IF conn[c] = "new" THEN "new" ELSE "closed"]
  /\ asked' = [c \in Conns |-> Nothing]
  /\ wire' = [c \in Conns |-> Nothing]
  /\ serving' = [w \in Workers |-> Nothing]
  /\ count' = [w \in Workers |-> 0]
  /\ closing' = [w \in Workers |-> FALSE]
  /\ UNCHANGED sent

Thread(w) ==
  \/ Dequeue(w) \/ ReadRequest(w) \/ ReadFails(w) \/ WriteResponse(w)
  \/ KeepAliveEnds(w) \/ Close(w) \/ Handle(w)

ServerNext ==
  \/ \E c \in Conns : Connect(c) \/ GiveUp(c)
  \/ \E c \in Conns, r \in Keys \union {Malformed} : Send(c, r)
  \/ \E w \in Workers : Thread(w)
  \/ ServerCrash

\* w reads a request, writes a response or downloads a body: it goes on when
\* its peer does. The peer that sends nothing runs into a timeout; the one that
\* sends a byte before each of them keeps the thread.
Exchanging(w) ==
  \/ Waiting(w) /\ wire[serving[w]] # Nothing
  \/ pc[w] = "idle" /\ reply[w] # NoReply
  \/ pc[w] = "get"

\* A thread that can run and waits for no peer runs. Nothing is assumed of the
\* clients and of the symbol server, whose exchanges may last for ever, nor
\* that std::mutex or the queue of the pool is fair to a thread that waits.
Fairness == \A w \in Workers : WF_serverVars(~Exchanging(w) /\ Thread(w))

ServerSpec == ServerInit /\ [][ServerNext]_serverVars /\ Fairness

-----------------------------------------------------------------------------

ServerTypeOK ==
  /\ TypeOK
  /\ jobs \in Seq(Conns)
  /\ conn \in [Conns -> {"new", "open", "closed"}]
  /\ asked \in [Conns -> Keys \union {Malformed, Nothing}]
  /\ wire \in [Conns -> Keys \union {Malformed, Nothing}]
  /\ serving \in [Workers -> Conns \union {Nothing}]
  /\ count \in [Workers -> 0 .. KeepAliveMax]
  /\ closing \in [Workers -> BOOLEAN]
  /\ sent \in 0 .. MaxRequests

\* A connection accepted is in the queue or with one thread, and with no other
\* until that thread has closed it: no socket is leaked, served by two threads
\* or closed under the thread that serves it.
Holders(c) == {w \in Workers : serving[w] = c}

Queued(c) == {n \in DOMAIN jobs : jobs[n] = c}

EveryConnectionHasOneHolder ==
  \A c \in Conns :
    /\ Cardinality(Holders(c)) + Cardinality(Queued(c)) <= 1
    /\ conn[c] = "open" => Holders(c) # {} \/ Queued(c) # {}

\* What a thread works on is what the client at the other end of its
\* connection waits for, if it still waits: neither keep-alive, the failure of
\* an earlier request nor a client that gave up makes it answer another one.
AnswersWhatWasAsked ==
  \A w \in Workers : key[w] # Nothing =>
    /\ serving[w] # Nothing
    /\ \/ asked[serving[w]] = key[w] /\ conn[serving[w]] = "open"
       \/ asked[serving[w]] = Nothing /\ conn[serving[w]] = "closed"

\* The clients are served as QueryService promises: the response under way to
\* a client is the one of the thread that has its connection. A response is
\* therefore written once, to the request it answers, from a content that was
\* valid for that request, although the thread, its connection and the file it
\* read may each have changed hands since the request was sent.
Answering == [c \in Conns |->
  IF Holders(c) = {} THEN NoReply ELSE reply[CHOOSE w \in Holders(c) : TRUE]]

Service == INSTANCE QueryService WITH
  Requests <- Keys \union {Malformed},
  Accepted <- {e \in Keys \X Contents : CanPass(e[1], e[2])},
  answer <- Answering

ImplementsQueryService == Service!ServiceSpec

\* The hypothesis of the two properties below, about clients and symbol server:
\* no exchange with them lasts for ever. The code does not see to it.
PeersKeepUp == \A w \in Workers : []<>~Exchanging(w)

\* If no peer drags an exchange out for ever, a client that waits, however
\* long, is answered or sees its connection closed: no failure of a download
\* leaves mutex_ locked, and threads that wait for mutex_ or for idle clients
\* do not starve the queue for ever.
EveryRequestEnds ==
  PeersKeepUp => \A c \in Conns : []<>(asked[c] = Nothing)

\* Only a peer that drags an exchange out for ever can keep a thread of the
\* pool for ever: a client that sends nothing, or goes away, or stays
\* connected cannot, nor can a failing download or another thread.
ThreadsComeBack ==
  PeersKeepUp => \A w \in Workers : []<>(serving[w] = Nothing)
=============================================================================
