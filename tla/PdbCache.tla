------------------------------ MODULE PdbCache ------------------------------
(***************************************************************************)
(* What the storage of query-pdb promises the request handlers, whatever   *)
(* the interleaving of the handlers, the failures of the symbol server and *)
(* the crashes of the process: a PDB file is either absent or there with a *)
(* content that passed validation, it never disappears, and a query is     *)
(* answered from one such content, unchanged for as long as it is read.    *)
(*                                                                         *)
(* Nothing here knows of the mutex, of the temporary file or of the file   *)
(* system: module Downloader implements this specification.                *)
(***************************************************************************)

CONSTANTS
  Workers,      \* threads that run request handlers
  Paths,        \* cache entries, one per relative path name/guid+age/name
  Contents,     \* classes of file contents
  Accepted,     \* pairs <<p, c>>: content c may be served as entry p
  Nothing       \* no entry, no request, no content

VARIABLES
  entry,        \* entry[p]: the content stored for p, or Nothing
  want,         \* want[w]: the entry the request of w asks for, or Nothing
  view,         \* view[w]: the content w reads its answer from, or Nothing
  reply         \* reply[w]: the last HTTP answer of w

cacheVars == <<entry, want, view, reply>>

NoReply == [status |-> 0, of |-> Nothing]
Failure == [status |-> 500, of |-> Nothing]
Success(c) == [status |-> 200, of |-> c]

CacheInit ==
  /\ entry = [p \in Paths |-> Nothing]
  /\ want = [w \in Workers |-> Nothing]
  /\ view = [w \in Workers |-> Nothing]
  /\ reply = [w \in Workers |-> NoReply]

Ask(w, p) ==
  /\ want[w] = Nothing
  /\ want' = [want EXCEPT ![w] = p]
  /\ reply' = [reply EXCEPT ![w] = NoReply]
  /\ UNCHANGED <<entry, view>>

\* An accepted content becomes entry p, for the sake of some request for p.
\* It may take the place of another accepted content.
Store(p, c) ==
  /\ \E w \in Workers : want[w] = p
  /\ <<p, c>> \in Accepted
  /\ entry' = [entry EXCEPT ![p] = c]
  /\ UNCHANGED <<want, view, reply>>

\* The request of w settles for the content the entry has now.
Look(w) ==
  /\ want[w] # Nothing
  /\ view[w] = Nothing
  /\ entry[want[w]] # Nothing
  /\ view' = [view EXCEPT ![w] = entry[want[w]]]
  /\ UNCHANGED <<entry, want, reply>>

Done(w, r) ==
  /\ want[w] # Nothing
  /\ want' = [want EXCEPT ![w] = Nothing]
  /\ view' = [view EXCEPT ![w] = Nothing]
  /\ reply' = [reply EXCEPT ![w] = r]
  /\ UNCHANGED entry

Serve(w) == view[w] # Nothing /\ Done(w, Success(view[w]))

Refuse(w) == Done(w, Failure)

\* The process dies and is started again: the requests are lost, the
\* entries are not.
Restart ==
  /\ want' = [w \in Workers |-> Nothing]
  /\ view' = [w \in Workers |-> Nothing]
  /\ reply' = [w \in Workers |-> NoReply]
  /\ UNCHANGED entry

CacheNext ==
  \/ \E w \in Workers, p \in Paths : Ask(w, p)
  \/ \E p \in Paths, c \in Contents : Store(p, c)
  \/ \E w \in Workers : Look(w) \/ Serve(w) \/ Refuse(w)
  \/ Restart

CacheSpec == CacheInit /\ [][CacheNext]_cacheVars
=============================================================================
