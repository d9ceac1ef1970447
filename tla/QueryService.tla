---------------------------- MODULE QueryService ----------------------------
(***************************************************************************)
(* What the clients of query-pdb are promised, whatever the threads, the   *)
(* queue, keep-alive, the storage and the crashes of the server do: a      *)
(* request is answered at most once, with the failure or with a content    *)
(* that is valid for the very request the client waits for, or its         *)
(* connection is closed; and a connection, once closed, stays closed.      *)
(*                                                                         *)
(* Nothing here knows of a thread, of a queue or of the storage: module    *)
(* QueryServer implements this specification.                              *)
(***************************************************************************)

CONSTANTS
  Conns,        \* connections, each used once
  Requests,     \* what a client may ask
  Contents,     \* classes of file contents
  Accepted,     \* pairs <<r, c>>: request r may be answered from content c
  Nothing       \* no request, no content

VARIABLES
  conn,         \* conn[c]: "new", "open", or "closed" by either side
  asked,        \* asked[c]: the request the client waits for, or Nothing
  answer        \* answer[c]: the response under way to the client

serviceVars == <<conn, asked, answer>>

NoReply == [status |-> 0, of |-> Nothing]
Failure == [status |-> 500, of |-> Nothing]
Success(x) == [status |-> 200, of |-> x]

\* The responses to request r.
Answers(r) == {Failure} \union {Success(x) : x \in {y \in Contents : <<r, y>> \in Accepted}}

ServiceInit ==
  /\ conn = [c \in Conns |-> "new"]
  /\ asked = [c \in Conns |-> Nothing]
  /\ answer = [c \in Conns |-> NoReply]

Arrive(c) ==
  /\ conn[c] = "new"
  /\ conn' = [conn EXCEPT ![c] = "open"]
  /\ UNCHANGED <<asked, answer>>

Ask(c, r) ==
  /\ conn[c] = "open"
  /\ asked[c] = Nothing
  /\ asked' = [asked EXCEPT ![c] = r]
  /\ UNCHANGED <<conn, answer>>

\* The client does not wait any longer.
Leave(c) ==
  /\ conn[c] = "open"
  /\ conn' = [conn EXCEPT ![c] = "closed"]
  /\ asked' = [asked EXCEPT ![c] = Nothing]
  /\ UNCHANGED answer

\* The service settles the response: to what the client waits for, or to what
\* a client that has left waited for.
Answer(c, a) ==
  /\ answer[c] = NoReply
  /\ \/ conn[c] = "open" /\ a \in Answers(asked[c]) /\ asked[c] # Nothing
     \/ conn[c] = "closed"
  /\ answer' = [answer EXCEPT ![c] = a]
  /\ UNCHANGED <<conn, asked>>

\* The client has the response, or has left.
Deliver(c) ==
  /\ answer[c] # NoReply
  /\ asked' = [asked EXCEPT ![c] = Nothing]
  /\ answer' = [answer EXCEPT ![c] = NoReply]
  /\ UNCHANGED conn

\* The service closes the connection, with no response under way.
HangUp(c) ==
  /\ conn[c] # "new"
  /\ answer[c] = NoReply
  /\ conn' = [conn EXCEPT ![c] = "closed"]
  /\ asked' = [asked EXCEPT ![c] = Nothing]
  /\ UNCHANGED answer

\* The process dies and is started again.
Restart ==
  /\ conn' = [c \in Conns |-> IF conn[c] = "new" THEN "new" ELSE "closed"]
  /\ asked' = [c \in Conns |-> Nothing]
  /\ answer' = [c \in Conns |-> NoReply]

ServiceNext ==
  \/ \E c \in Conns : Arrive(c) \/ Leave(c) \/ Deliver(c) \/ HangUp(c)
  \/ \E c \in Conns, r \in Requests : Ask(c, r)
  \/ \E c \in Conns, a \in {Failure} \union {Success(x) : x \in Contents} : Answer(c, a)
  \/ Restart

ServiceSpec == ServiceInit /\ [][ServiceNext]_serviceVars
=============================================================================
