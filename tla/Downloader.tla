----------------------------- MODULE Downloader -----------------------------
(***************************************************************************)
(* The PDB storage of the server (server/downloader.cpp) as the request    *)
(* handlers of main.cpp use it from the threads of the HTTP server: look   *)
(* the file up, download it under the mutex if it is not there, map it and *)
(* answer the query from the mapping.                                      *)
(*                                                                         *)
(* One action is what a thread does between two accesses of something it   *)
(* shares: the mutex, the directory tree under path_, or the contents of a *)
(* file. Files are inodes, as mmap, rename and an open stream see them.    *)
(***************************************************************************)
EXTENDS FiniteSets, Naturals

CONSTANTS
  Workers,      \* threads of the pool
  Ids,          \* guid and age of a PDB, as one value
  Keys,         \* the pairs of a name and an id that requests ask for
  Upstream,     \* the kinds of body the symbol server may send
  DiskFull,     \* whether the disk may be too full for a file
  Inodes,       \* files of the file system
  Nothing       \* no key, no inode, no body

(***************************************************************************)
(* Names. Of a file name only two things matter: whether it is, but for    *)
(* the case of its letters, the name of a kernel's PDB, and whether it is  *)
(* written in lower case.                                                  *)
(***************************************************************************)
Names == [base : {"kernel", "other"}, case : {"lower", "upper"}]

ASSUME KeysAssumption == Keys \subseteq [name : Names, id : Ids]

\* The lowered copy is computed and dropped: the argument is returned.
ToLower(name) == name

\* The comparison with the two kernel names, which are in lower case.
IsKernelName(name) == ToLower(name) = [base |-> "kernel", case |-> "lower"]

\* get_relative_path_str, which is both the URL and the place of the file.
\* to_upper on the guid is the identity too, so id stands for both.
Path(k) == [k EXCEPT !.name = ToLower(k.name)]

Paths == {Path(k) : k \in Keys}

(***************************************************************************)
(* Contents of a file. A body of the symbol server is not a PDB at all, a  *)
(* PDB without type records, or a PDB with some. A file a write did not    *)
(* complete is empty or a proper prefix of its body.                       *)
(***************************************************************************)
Bodies == {"garbage", "untyped", "typed"}

ASSUME UpstreamAssumption == Upstream \subseteq Bodies
ASSUME DiskAssumption == DiskFull \in BOOLEAN

Contents == Bodies \union {"empty", "cut untyped", "cut typed"}

ASSUME NothingAssumption ==
  /\ Nothing \notin Workers
  /\ Nothing \notin Inodes
  /\ Nothing \notin Keys
  /\ Nothing \notin Paths
  /\ Nothing \notin Contents

\* What a write that falls short leaves of body b.
Cut(b) == CASE b = "typed"   -> "cut typed"
            [] b = "untyped" -> "cut untyped"
            [] OTHER         -> b

\* What may be in a file after a write of body b.
Written(b) == {b} \union (IF DiskFull THEN {Cut(b), "empty"} ELSE {})

\* is_valid_pdb: what a file may be when it returns true. The parser looks
\* at the headers of the streams it needs, so a cut file may well pass.
CanPass(k, c) ==
  \/ c \in {"typed", "cut typed"}
  \/ c \in {"untyped", "cut untyped"} /\ ~IsKernelName(k.name)

\* It returns false or throws, or the parser does when a query uses it.
CanFail(k, c) ==
  \/ c \in {"garbage", "empty", "cut untyped", "cut typed"}
  \/ c = "untyped" /\ IsKernelName(k.name)

VARIABLES
  pc,           \* pc[w]: what w does next in the handler
  key,          \* key[w]: the key of the request w handles, or Nothing
  mutex,        \* the owner of downloader::mutex_, or Nothing
  body,         \* body[w]: the response body w holds, or Nothing
  pub,          \* pub[p]: the inode named p under path_, or Nothing
  tmp,          \* tmp[p]: the inode named p with the extension .tmp
  data,         \* data[i]: the contents of inode i
  view,         \* view[w]: the inode the parser of w has mapped, or Nothing
  reply         \* reply[w]: the last HTTP answer of w

vars == <<pc, key, mutex, body, pub, tmp, data, view, reply>>

Steps == {"idle", "lookup", "lock", "get", "create", "write", "validate",
          "rename", "open", "query"}

\* The steps taken with mutex_ locked.
Locked == {"get", "create", "write", "validate", "rename"}

NoReply == [status |-> 0, of |-> Nothing]
Failure == [status |-> 500, of |-> Nothing]
Success(c) == [status |-> 200, of |-> c]

Replies == {NoReply, Failure} \union {Success(c) : c \in Contents}

\* The path of the request of w.
Asked(w) == Path(key[w])

\* Inodes with a name or a mapping. The others have been deleted.
Reachable == {i \in Inodes : \/ \E p \in Paths : i \in {pub[p], tmp[p]}
                             \/ \E w \in Workers : view[w] = i}

\* A file that is created gets an inode nobody can reach; which one is of no
\* consequence.
FreeInode == CHOOSE i \in Inodes : i \notin Reachable

Init ==
  /\ pc = [w \in Workers |-> "idle"]
  /\ key = [w \in Workers |-> Nothing]
  /\ mutex = Nothing
  /\ body = [w \in Workers |-> Nothing]
  /\ pub = [p \in Paths |-> Nothing]
  /\ tmp = [p \in Paths |-> Nothing]
  /\ data = [i \in Inodes |-> "empty"]
  /\ view = [w \in Workers |-> Nothing]
  /\ reply = [w \in Workers |-> NoReply]

Goto(w, step) == pc' = [pc EXCEPT ![w] = step]

\* Mutant of Finish: mutex_.lock() and unlock() by hand, and an early return
\* in between.
FinishKeepsLock(w, r) ==
  /\ Goto(w, "idle")
  /\ key' = [key EXCEPT ![w] = Nothing]
  /\ body' = [body EXCEPT ![w] = Nothing]
  /\ view' = [view EXCEPT ![w] = Nothing]
  /\ reply' = [reply EXCEPT ![w] = r]
  /\ UNCHANGED mutex

\* The handler returns or throws: the destructors of lock_guard, string and
\* pdb_parser run, and the exception handler of main.cpp answers 500.
Finish(w, r) ==
  /\ Goto(w, "idle")
  /\ key' = [key EXCEPT ![w] = Nothing]
  /\ mutex' = IF mutex = w THEN Nothing ELSE mutex
  /\ body' = [body EXCEPT ![w] = Nothing]
  /\ view' = [view EXCEPT ![w] = Nothing]
  /\ reply' = [reply EXCEPT ![w] = r]

\* A handler gets a request it can parse.
Request(w, k) ==
  /\ pc[w] = "idle"
  /\ Goto(w, "lookup")
  /\ key' = [key EXCEPT ![w] = k]
  /\ reply' = [reply EXCEPT ![w] = NoReply]
  /\ UNCHANGED <<mutex, body, pub, tmp, data, view>>

\* exists(path), which may throw; mutex_ is not held.
Lookup(w) ==
  /\ pc[w] = "lookup"
  /\ \/ /\ Goto(w, IF pub[Asked(w)] # Nothing THEN "open" ELSE "lock")
        /\ UNCHANGED <<key, mutex, body, view, reply>>
     \/ Finish(w, Failure)
  /\ UNCHANGED <<pub, tmp, data>>

\* Mutant of Lock: the lock_guard is a temporary, gone at the semicolon.
LockAtOnceReleased(w) ==
  /\ pc[w] = "lock"
  /\ mutex = Nothing
  /\ Goto(w, "get")
  /\ UNCHANGED <<key, mutex, body, pub, tmp, data, view, reply>>

\* lock_guard lock(mutex_). Whether the file is there is not asked again.
Lock(w) ==
  /\ pc[w] = "lock"
  /\ mutex = Nothing
  /\ mutex' = w
  /\ Goto(w, "get")
  /\ UNCHANGED <<key, body, pub, tmp, data, view, reply>>

\* Mutant of Get: the body was moved out of the response before it is written.
GetLosesBody(w) ==
  /\ pc[w] = "get"
  /\ Goto(w, "create") \/ Goto(w, "idle")
  /\ UNCHANGED <<key, mutex, body, pub, tmp, data, view, reply>>

\* client.Get: no response, a status other than 200 or a Content-Length that
\* is missing or not the size of the body fail the request. The step is the
\* end of the exchange, which may never come: each read has a timeout, and the
\* body as a whole has none.
Get(w) ==
  /\ pc[w] = "get"
  /\ \/ \E b \in Upstream :
          /\ body' = [body EXCEPT ![w] = b]
          /\ Goto(w, "create")
          /\ UNCHANGED <<key, mutex, view, reply>>
     \/ Finish(w, Failure)
  /\ UNCHANGED <<pub, tmp, data>>

\* create_directories and the ofstream, which truncates the temporary file if
\* there is one. Either may fail.
Create(w) ==
  /\ pc[w] = "create"
  /\ \/ /\ \/ /\ tmp[Asked(w)] # Nothing
              /\ data' = [data EXCEPT ![tmp[Asked(w)]] = "empty"]
              /\ UNCHANGED tmp
           \/ /\ tmp[Asked(w)] = Nothing
              /\ Inodes \ Reachable # {}
              /\ tmp' = [tmp EXCEPT ![Asked(w)] = FreeInode]
              /\ data' = [data EXCEPT ![FreeInode] = "empty"]
        /\ Goto(w, "write")
        /\ UNCHANGED <<key, mutex, body, view, reply>>
     \/ Finish(w, Failure) /\ UNCHANGED <<tmp, data>>
  /\ UNCHANGED pub

\* Mutant of Write: the file gets its name before it is validated.
WriteThenRename(w) ==
  /\ pc[w] = "write"
  /\ \E c \in Written(body[w]) :
       data' = [data EXCEPT ![tmp[Asked(w)]] = c]
  /\ Goto(w, "rename")
  /\ UNCHANGED <<key, mutex, body, pub, tmp, view, reply>>

\* f.write and f.close. Their failures go unnoticed.
Write(w) ==
  /\ pc[w] = "write"
  /\ \E c \in Written(body[w]) :
       data' = [data EXCEPT ![tmp[Asked(w)]] = c]
  /\ Goto(w, "validate")
  /\ UNCHANGED <<key, mutex, body, pub, tmp, view, reply>>

\* is_valid_pdb on the temporary file, which stays where it is on failure.
Validate(w) ==
  /\ pc[w] = "validate"
  /\ \/ /\ CanPass(key[w], data[tmp[Asked(w)]])
        /\ Goto(w, "rename")
        /\ UNCHANGED <<key, mutex, body, view, reply>>
     \/ /\ CanFail(key[w], data[tmp[Asked(w)]])
        /\ Finish(w, Failure)
  /\ UNCHANGED <<pub, tmp, data>>

\* Mutant of Rename: a hard link, with the temporary name left behind.
RenameLinks(w) ==
  /\ pc[w] = "rename"
  /\ pub' = [pub EXCEPT ![Asked(w)] = tmp[Asked(w)]]
  /\ mutex' = Nothing
  /\ body' = [body EXCEPT ![w] = Nothing]
  /\ Goto(w, "open")
  /\ UNCHANGED <<key, tmp, data, view, reply>>

\* rename(tmp_path, path) replaces the file, whose inode lives on while it is
\* mapped; the lock_guard goes out of scope.
Rename(w) ==
  /\ pc[w] = "rename"
  /\ pub' = [pub EXCEPT ![Asked(w)] = tmp[Asked(w)]]
  /\ tmp' = [tmp EXCEPT ![Asked(w)] = Nothing]
  /\ mutex' = Nothing
  /\ body' = [body EXCEPT ![w] = Nothing]
  /\ Goto(w, "open")
  /\ UNCHANGED <<key, data, view, reply>>

\* rename throws: a file that is mapped is not replaced on Windows, and a file
\* system may refuse for reasons of its own. Both names stay what they were.
RenameFails(w) ==
  /\ pc[w] = "rename"
  /\ Finish(w, Failure)
  /\ UNCHANGED <<pub, tmp, data>>

\* pdb_parser parser(path): open and mmap, which may fail.
Open(w) ==
  /\ pc[w] = "open"
  /\ \/ /\ pub[Asked(w)] # Nothing
        /\ view' = [view EXCEPT ![w] = pub[Asked(w)]]
        /\ Goto(w, "query")
        /\ UNCHANGED <<key, mutex, body, reply>>
     \/ Finish(w, Failure)
  /\ UNCHANGED <<pub, tmp, data>>

\* Mutant of Query: the file is opened by name once more for the query.
QueryReopens(w) ==
  /\ pc[w] = "query"
  /\ Finish(w, Success(data[pub[Asked(w)]]))
  /\ UNCHANGED <<pub, tmp, data>>

\* The query and its JSON answer; a cut file may make the parser throw.
Query(w) ==
  /\ pc[w] = "query"
  /\ \/ Finish(w, Success(data[view[w]]))
     \/ CanFail(key[w], data[view[w]]) /\ Finish(w, Failure)
  /\ UNCHANGED <<pub, tmp, data>>

\* The process is killed, or reads a cut file beyond its end, and is started
\* again: the files stay as they are.
Crash ==
  /\ pc' = [w \in Workers |-> "idle"]
  /\ key' = [w \in Workers |-> Nothing]
  /\ mutex' = Nothing
  /\ body' = [w \in Workers |-> Nothing]
  /\ view' = [w \in Workers |-> Nothing]
  /\ reply' = [w \in Workers |-> NoReply]
  /\ UNCHANGED <<pub, tmp, data>>

Work(w) ==
  \/ Lookup(w) \/ Lock(w) \/ Get(w) \/ Create(w) \/ Write(w) \/ Validate(w)
  \/ Rename(w) \/ RenameFails(w) \/ Open(w) \/ Query(w)

Next ==
  \/ \E w \in Workers, k \in Keys : Request(w, k)
  \/ \E w \in Workers : Work(w)
  \/ Crash

Spec == Init /\ [][Next]_vars

-----------------------------------------------------------------------------

TypeOK ==
  /\ pc \in [Workers -> Steps]
  /\ key \in [Workers -> Keys \union {Nothing}]
  /\ mutex \in Workers \union {Nothing}
  /\ body \in [Workers -> Bodies \union {Nothing}]
  /\ pub \in [Paths -> Inodes \union {Nothing}]
  /\ tmp \in [Paths -> Inodes \union {Nothing}]
  /\ data \in [Inodes -> Contents]
  /\ view \in [Workers -> Inodes \union {Nothing}]
  /\ reply \in [Workers -> Replies]

\* Downloads are serialised: a thread between lock_guard and the end of its
\* scope owns mutex_, so there is one at most; and no failure, exception or
\* crash leaves it locked by a thread that is not there any more.
DownloadsSerialised ==
  \A w \in Workers : pc[w] \in Locked <=> mutex = w

\* The verdict of is_valid_pdb is about the body this thread downloaded (or
\* what the disk took of it): never about what a download that failed or was
\* killed left in the temporary file, nor about the file of another thread.
ValidatesOwnDownload ==
  \A w \in Workers : pc[w] \in {"validate", "rename"} =>
    /\ tmp[Asked(w)] # Nothing
    /\ data[tmp[Asked(w)]] \in Written(body[w])

\* Whatever has the name of a PDB has passed is_valid_pdb for that name:
\* neither a half written file, nor garbage, nor a rejected kernel PDB can be
\* found by exists(path).
PublishedIsValid ==
  \A p \in Paths : pub[p] # Nothing => CanPass(p, data[pub[p]])

\* No file is written while a request can find it or has it mapped: a query
\* reads the same bytes to its end, whatever is downloaded meanwhile.
MappedFilesAreStable ==
  [][\A i \in Inodes :
       (\E p \in Paths : pub[p] = i) \/ (\E w \in Workers : view[w] = i)
         => data'[i] = data[i]]_vars

\* The storage keeps the promises of PdbCache: the file behind a name is the
\* entry, the file a parser has mapped is what its request has settled for.
Cache == INSTANCE PdbCache WITH
  Accepted <- {e \in Paths \X Contents : CanPass(e[1], e[2])},
  entry <- [p \in Paths |-> IF pub[p] = Nothing THEN Nothing
                                               ELSE data[pub[p]]],
  want <- [w \in Workers |-> IF key[w] = Nothing THEN Nothing
                                                ELSE Asked(w)],
  view <- [w \in Workers |-> IF view[w] = Nothing THEN Nothing
                                                 ELSE data[view[w]]]

ImplementsPdbCache == Cache!CacheSpec
=============================================================================
