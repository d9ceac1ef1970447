-------------------------- MODULE QueryServer_proofs --------------------------
(***************************************************************************)
(* What is proved of Downloader, for any number of threads, keys and       *)
(* inodes: its types, the serialisation of downloads, the validity of the  *)
(* published files, the stability of the files that can be read, and that  *)
(* it implements PdbCache; and of QueryServer, for any number of           *)
(* connections too: its types, that a connection has one holder, that a    *)
(* thread works on what its client waits for, that the storage is as safe  *)
(* below the server as it is alone, and that the server implements         *)
(* QueryService.                                                           *)
(***************************************************************************)
EXTENDS QueryServer, FiniteSetTheorems, SequenceTheorems, TLAPS

\* A request is being handled exactly when its thread is not idle.
BusyInv == \A w \in Workers : pc[w] = "idle" <=> key[w] = Nothing

\* A thread holds a response body while it stores it.
BodyInv ==
  \A w \in Workers : pc[w] \in {"create", "write", "validate", "rename"}
                       => body[w] \in Bodies

\* A thread has a mapping exactly while it answers the query.
ViewInv == \A w \in Workers : pc[w] = "query" <=> view[w] # Nothing

\* The temporary file is there while it is written and validated.
TmpInv ==
  \A w \in Workers : pc[w] \in {"write", "validate", "rename"}
                       => tmp[Asked(w)] # Nothing

\* What is renamed has been validated.
RenameInv ==
  \A w \in Workers : pc[w] = "rename"
                       => CanPass(Asked(w), data[tmp[Asked(w)]])

\* An inode with a temporary name has that name alone, and nobody maps it.
TmpIsPrivate ==
  \A p \in Paths : tmp[p] # Nothing =>
    /\ \A q \in Paths : pub[q] # tmp[p]
    /\ \A q \in Paths : q # p => tmp[q] # tmp[p]
    /\ \A w \in Workers : view[w] # tmp[p]

\* The inductive invariant.
IInv ==
  /\ TypeOK
  /\ DownloadsSerialised
  /\ BusyInv
  /\ BodyInv
  /\ ViewInv
  /\ TmpInv
  /\ TmpIsPrivate
  /\ RenameInv
  /\ ValidatesOwnDownload
  /\ PublishedIsValid

-----------------------------------------------------------------------------
(***************************************************************************)
(* The data.                                                               *)
(***************************************************************************)

\* Every body, and what a write leaves of it, is a content of a file.
LEMMA WrittenContents ==
  /\ Bodies \subseteq Contents
  /\ \A b \in Bodies : Written(b) \subseteq Contents
BY DEF Bodies, Contents, Written, Cut

\* The path of a key is a path, and its name is judged as the key's is.
LEMMA PathOfKey ==
  ASSUME NEW k \in Keys
  PROVE  /\ Path(k) \in Paths
         /\ \A c \in Contents : CanPass(k, c) <=> CanPass(Path(k), c)
<1>1. Path(k) \in Paths
  BY DEF Paths
<1>2. Path(k).name = k.name
  BY KeysAssumption DEF Path, ToLower
<1>3. QED
  BY <1>1, <1>2 DEF CanPass, IsKernelName

\* The inode of a new file is one nobody can reach.
LEMMA FreeInodeIsFree ==
  ASSUME Inodes \ Reachable # {}
  PROVE  FreeInode \in Inodes /\ FreeInode \notin Reachable
BY DEF FreeInode

\* The answers of the handlers are replies.
LEMMA ReplyTypes ==
  /\ NoReply \in Replies
  /\ Failure \in Replies
  /\ \A c \in Contents : Success(c) \in Replies
BY DEF Replies

-----------------------------------------------------------------------------
(***************************************************************************)
(* Types.                                                                  *)
(***************************************************************************)

\* What Finish changes keeps its type.
LEMMA FinishTypes ==
  ASSUME TypeOK, NEW w \in Workers, NEW r \in Replies, Finish(w, r)
  PROVE  /\ pc' \in [Workers -> Steps]
         /\ key' \in [Workers -> Keys \union {Nothing}]
         /\ mutex' \in Workers \union {Nothing}
         /\ body' \in [Workers -> Bodies \union {Nothing}]
         /\ view' \in [Workers -> Inodes \union {Nothing}]
         /\ reply' \in [Workers -> Replies]
BY DEF TypeOK, Finish, Goto, Steps

\* In the steps that have a request, its path is a path.
LEMMA AskedIsPath ==
  ASSUME TypeOK, BusyInv, NEW w \in Workers, pc[w] # "idle"
  PROVE  /\ key[w] \in Keys
         /\ Asked(w) \in Paths
<1>1. key[w] \in Keys
  BY DEF TypeOK, BusyInv
<1>2. QED
  BY <1>1, PathOfKey DEF Asked

LEMMA InitIInv == Init => IInv
<1> SUFFICES ASSUME Init PROVE IInv
  OBVIOUS
<1> USE DEF Init
<1>1. TypeOK
  BY ReplyTypes DEF TypeOK, Steps, Contents
<1>2. DownloadsSerialised
  BY NothingAssumption DEF DownloadsSerialised, Locked
<1>3. BusyInv /\ BodyInv /\ ViewInv
  BY DEF BusyInv, BodyInv, ViewInv
<1>4. TmpInv /\ RenameInv /\ ValidatesOwnDownload
  BY DEF TmpInv, RenameInv, ValidatesOwnDownload
<1>5. TmpIsPrivate /\ PublishedIsValid
  BY DEF TmpIsPrivate, PublishedIsValid
<1>6. QED
  BY <1>1, <1>2, <1>3, <1>4, <1>5 DEF IInv

\* Every step keeps the types.
LEMMA StepTypes == IInv /\ [Next]_vars => TypeOK'
<1> SUFFICES ASSUME IInv, [Next]_vars PROVE TypeOK'
  OBVIOUS
<1>0. TypeOK /\ BusyInv
  BY DEF IInv
<1>1. ASSUME NEW w \in Workers, NEW k \in Keys, Request(w, k) PROVE TypeOK'
  BY <1>0, <1>1, ReplyTypes DEF TypeOK, Request, Goto, Steps
<1>2. ASSUME NEW w \in Workers, Lookup(w) PROVE TypeOK'
  <2>1. CASE Finish(w, Failure)
    BY <1>0, <1>2, <2>1, FinishTypes, ReplyTypes DEF TypeOK, Lookup
  <2>2. CASE ~Finish(w, Failure)
    BY <1>0, <1>2, <2>2 DEF TypeOK, Lookup, Goto, Steps
  <2>3. QED
    BY <2>1, <2>2
<1>3. ASSUME NEW w \in Workers, Lock(w) PROVE TypeOK'
  BY <1>0, <1>3 DEF TypeOK, Lock, Goto, Steps
<1>4. ASSUME NEW w \in Workers, Get(w) PROVE TypeOK'
  <2>1. CASE Finish(w, Failure)
    BY <1>0, <1>4, <2>1, FinishTypes, ReplyTypes DEF TypeOK, Get
  <2>2. CASE ~Finish(w, Failure)
    BY <1>0, <1>4, <2>2, UpstreamAssumption DEF TypeOK, Get, Goto, Steps
  <2>3. QED
    BY <2>1, <2>2
<1>5. ASSUME NEW w \in Workers, Create(w) PROVE TypeOK'
  <2>0. Asked(w) \in Paths
    BY <1>0, <1>5, AskedIsPath DEF Create
  <2>1. CASE Finish(w, Failure) /\ UNCHANGED <<tmp, data>>
    BY <1>0, <1>5, <2>1, FinishTypes, ReplyTypes DEF TypeOK, Create
  <2>2. CASE /\ tmp[Asked(w)] # Nothing
             /\ data' = [data EXCEPT ![tmp[Asked(w)]] = "empty"]
             /\ Goto(w, "write")
             /\ UNCHANGED <<key, mutex, body, pub, tmp, view, reply>>
    BY <1>0, <2>0, <2>2 DEF TypeOK, Goto, Steps, Contents
  <2>3. CASE /\ Inodes \ Reachable # {}
             /\ tmp' = [tmp EXCEPT ![Asked(w)] = FreeInode]
             /\ data' = [data EXCEPT ![FreeInode] = "empty"]
             /\ Goto(w, "write")
             /\ UNCHANGED <<key, mutex, body, pub, view, reply>>
    BY <1>0, <2>0, <2>3, FreeInodeIsFree DEF TypeOK, Goto, Steps, Contents
  <2>4. QED
    BY <1>5, <2>1, <2>2, <2>3 DEF Create
<1>6. ASSUME NEW w \in Workers, Write(w) PROVE TypeOK'
  <2>1. body[w] \in Bodies
    BY <1>6 DEF IInv, BodyInv, Write
  <2>2. PICK c \in Contents : data' = [data EXCEPT ![tmp[Asked(w)]] = c]
    BY <1>6, <2>1, WrittenContents DEF Write
  <2>3. QED
    BY <1>0, <1>6, <2>2 DEF TypeOK, Write, Goto, Steps
<1>7. ASSUME NEW w \in Workers, Validate(w) PROVE TypeOK'
  <2>1. CASE Finish(w, Failure)
    BY <1>0, <1>7, <2>1, FinishTypes, ReplyTypes DEF TypeOK, Validate
  <2>2. CASE ~Finish(w, Failure)
    BY <1>0, <1>7, <2>2 DEF TypeOK, Validate, Goto, Steps
  <2>3. QED
    BY <2>1, <2>2
<1>8. ASSUME NEW w \in Workers, Rename(w) PROVE TypeOK'
  <2>0. Asked(w) \in Paths
    BY <1>0, <1>8, AskedIsPath DEF Rename
  <2>1. QED
    BY <1>0, <1>8, <2>0 DEF TypeOK, Rename, Goto, Steps
<1>9. ASSUME NEW w \in Workers, RenameFails(w) PROVE TypeOK'
  BY <1>0, <1>9, FinishTypes, ReplyTypes DEF TypeOK, RenameFails
<1>10. ASSUME NEW w \in Workers, Open(w) PROVE TypeOK'
  <2>0. Asked(w) \in Paths
    BY <1>0, <1>10, AskedIsPath DEF Open
  <2>1. CASE Finish(w, Failure)
    BY <1>0, <1>10, <2>1, FinishTypes, ReplyTypes DEF TypeOK, Open
  <2>2. CASE ~Finish(w, Failure)
    BY <1>0, <1>10, <2>0, <2>2 DEF TypeOK, Open, Goto, Steps
  <2>3. QED
    BY <2>1, <2>2
<1>11. ASSUME NEW w \in Workers, Query(w) PROVE TypeOK'
  <2>1. view[w] \in Inodes
    BY <1>0, <1>11 DEF IInv, ViewInv, TypeOK, Query
  <2>2. PICK r \in Replies : Finish(w, r)
    BY <1>0, <1>11, <2>1, ReplyTypes DEF Query, TypeOK
  <2>3. QED
    BY <1>0, <1>11, <2>2, FinishTypes DEF TypeOK, Query
<1>12. ASSUME Crash PROVE TypeOK'
  BY <1>0, <1>12, ReplyTypes DEF TypeOK, Crash, Steps
<1>13. ASSUME UNCHANGED vars PROVE TypeOK'
  BY <1>0, <1>13 DEF TypeOK, vars
<1>14. QED
  BY <1>1, <1>2, <1>3, <1>4, <1>5, <1>6, <1>7, <1>8, <1>9, <1>10, <1>11,
     <1>12, <1>13 DEF Next, Work

-----------------------------------------------------------------------------
(***************************************************************************)
(* Who holds the mutex, a request, a body and a mapping.                   *)
(***************************************************************************)

Holding == DownloadsSerialised /\ BusyInv /\ BodyInv /\ ViewInv

\* A handler that ends lets go of all it held.
LEMMA FinishHolding ==
  ASSUME IInv, NEW w \in Workers, NEW r, Finish(w, r)
  PROVE  Holding'
<1> USE DEF IInv, TypeOK, Finish, Goto
<1>1. DownloadsSerialised'
  BY NothingAssumption DEF DownloadsSerialised, Locked
<1>2. BusyInv' /\ BodyInv' /\ ViewInv'
  BY DEF BusyInv, BodyInv, ViewInv
<1>3. QED
  BY <1>1, <1>2 DEF Holding

\* Every step keeps Holding.
LEMMA StepHolding == IInv /\ [Next]_vars => Holding'
<1> SUFFICES ASSUME IInv, [Next]_vars PROVE Holding'
  OBVIOUS
<1> USE DEF IInv, TypeOK, Holding, DownloadsSerialised, Locked, BusyInv,
            BodyInv, ViewInv, Goto
<1>1. ASSUME NEW w \in Workers, NEW k \in Keys, Request(w, k) PROVE Holding'
  BY <1>1, NothingAssumption DEF Request
<1>2. ASSUME NEW w \in Workers, Lookup(w) PROVE Holding'
  <2>1. CASE Finish(w, Failure)
    BY <2>1, FinishHolding
  <2>2. CASE ~Finish(w, Failure)
    BY <1>2, <2>2 DEF Lookup
  <2>3. QED
    BY <2>1, <2>2
<1>3. ASSUME NEW w \in Workers, Lock(w) PROVE Holding'
  BY <1>3, NothingAssumption DEF Lock
<1>4. ASSUME NEW w \in Workers, Get(w) PROVE Holding'
  <2>1. CASE Finish(w, Failure)
    BY <2>1, FinishHolding
  <2>2. CASE ~Finish(w, Failure)
    BY <1>4, <2>2, UpstreamAssumption DEF Get
  <2>3. QED
    BY <2>1, <2>2
<1>5. ASSUME NEW w \in Workers, Create(w) PROVE Holding'
  <2>1. CASE Finish(w, Failure)
    BY <2>1, FinishHolding
  <2>2. CASE ~Finish(w, Failure)
    BY <1>5, <2>2 DEF Create
  <2>3. QED
    BY <2>1, <2>2
<1>6. ASSUME NEW w \in Workers, Write(w) PROVE Holding'
  BY <1>6 DEF Write
<1>7. ASSUME NEW w \in Workers, Validate(w) PROVE Holding'
  <2>1. CASE Finish(w, Failure)
    BY <2>1, FinishHolding
  <2>2. CASE ~Finish(w, Failure)
    BY <1>7, <2>2 DEF Validate
  <2>3. QED
    BY <2>1, <2>2
<1>8. ASSUME NEW w \in Workers, Rename(w) PROVE Holding'
  BY <1>8, NothingAssumption DEF Rename
<1>9. ASSUME NEW w \in Workers, RenameFails(w) PROVE Holding'
  BY <1>9, FinishHolding DEF RenameFails
<1>10. ASSUME NEW w \in Workers, Open(w) PROVE Holding'
  <2>1. CASE Finish(w, Failure)
    BY <2>1, FinishHolding
  <2>2. CASE ~Finish(w, Failure)
    BY <1>10, <2>2 DEF Open
  <2>3. QED
    BY <2>1, <2>2
<1>11. ASSUME NEW w \in Workers, Query(w) PROVE Holding'
  BY <1>11, FinishHolding DEF Query
<1>12. ASSUME Crash PROVE Holding'
  BY <1>12, NothingAssumption DEF Crash
<1>13. ASSUME UNCHANGED vars PROVE Holding'
  BY <1>13 DEF vars
<1>14. QED
  BY <1>1, <1>2, <1>3, <1>4, <1>5, <1>6, <1>7, <1>8, <1>9, <1>10, <1>11,
     <1>12, <1>13 DEF Next, Work

-----------------------------------------------------------------------------
(***************************************************************************)
(* What is in the files.                                                   *)
(***************************************************************************)

Files ==
  /\ TmpInv
  /\ TmpIsPrivate
  /\ RenameInv
  /\ ValidatesOwnDownload
  /\ PublishedIsValid

\* A step that leaves the files alone, starts no new download step and maps no
\* file but published ones keeps Files.
LEMMA SameFiles ==
  ASSUME IInv,
         UNCHANGED <<pub, tmp, data>>,
         \A w \in Workers : pc'[w] \in {"write", "validate", "rename"} =>
           /\ pc'[w] = pc[w]
           /\ key'[w] = key[w]
           /\ body'[w] = body[w],
         \A w \in Workers : \/ view'[w] \in {view[w], Nothing}
                            \/ \E p \in Paths : view'[w] = pub[p]
  PROVE  Files'
<1>1. TmpInv' /\ RenameInv' /\ ValidatesOwnDownload'
  BY DEF IInv, TmpInv, RenameInv, ValidatesOwnDownload, Asked
<1>2. PublishedIsValid'
  BY DEF IInv, PublishedIsValid
<1>3. TmpIsPrivate'
  BY DEF IInv, TmpIsPrivate
<1>4. QED
  BY <1>1, <1>2, <1>3 DEF Files

LEMMA FinishFiles ==
  ASSUME IInv, NEW w \in Workers, NEW r, Finish(w, r),
         UNCHANGED <<pub, tmp, data>>
  PROVE  Files'
BY SameFiles DEF IInv, TypeOK, Finish, Goto

\* A download step of one thread is the only one there is.
LEMMA OneDownload ==
  ASSUME IInv, NEW w \in Workers, pc[w] \in Locked,
         NEW v \in Workers, v # w
  PROVE  pc[v] \notin Locked
BY DEF IInv, DownloadsSerialised

\* A new content of a file with a temporary name disturbs no published file.
LEMMA WriteKeepsPublished ==
  ASSUME IInv, NEW i \in Inodes, NEW c,
         \A p \in Paths : pub[p] # i,
         data' = [data EXCEPT ![i] = c],
         UNCHANGED pub
  PROVE  PublishedIsValid'
BY DEF IInv, TypeOK, PublishedIsValid

LEMMA CreateFiles ==
  ASSUME IInv, NEW w \in Workers, Create(w)
  PROVE  Files'
<1>0. Asked(w) \in Paths /\ key[w] \in Keys
  BY AskedIsPath DEF IInv, Create
<1>1. CASE Finish(w, Failure) /\ UNCHANGED <<tmp, data>>
  BY <1>1, FinishFiles DEF Create
<1>2. CASE /\ pc[w] = "create"
           /\ \/ /\ tmp[Asked(w)] # Nothing
                 /\ data' = [data EXCEPT ![tmp[Asked(w)]] = "empty"]
                 /\ UNCHANGED tmp
              \/ /\ tmp[Asked(w)] = Nothing
                 /\ Inodes \ Reachable # {}
                 /\ tmp' = [tmp EXCEPT ![Asked(w)] = FreeInode]
                 /\ data' = [data EXCEPT ![FreeInode] = "empty"]
           /\ Goto(w, "write")
           /\ UNCHANGED <<key, mutex, body, pub, view, reply>>
  <2> DEFINE i == tmp'[Asked(w)]
  <2>1. /\ i \in Inodes
        /\ tmp' = [tmp EXCEPT ![Asked(w)] = i]
        /\ data' = [data EXCEPT ![i] = "empty"]
        /\ \A p \in Paths : pub[p] # i
        /\ \A q \in Paths \ {Asked(w)} : tmp[q] # i
        /\ \A v \in Workers : view[v] # i
    <3>1. CASE tmp[Asked(w)] # Nothing
      BY <1>0, <1>2, <3>1 DEF IInv, TypeOK, TmpIsPrivate
    <3>2. CASE tmp[Asked(w)] = Nothing
      <4>1. FreeInode \in Inodes /\ FreeInode \notin Reachable
        BY <1>2, <3>2, FreeInodeIsFree
      <4>2. /\ \A p \in Paths : pub[p] # FreeInode /\ tmp[p] # FreeInode
            /\ \A v \in Workers : view[v] # FreeInode
        BY <4>1 DEF Reachable
      <4>3. QED
        BY <1>0, <1>2, <3>2, <4>1, <4>2 DEF IInv, TypeOK
    <3>3. QED
      BY <3>1, <3>2
  <2> HIDE DEF i
  <2>2. \A v \in Workers \ {w} : pc'[v] \notin Locked
    BY <1>2, OneDownload DEF Locked, Goto, IInv, TypeOK
  <2>3. pc'[w] = "write" /\ i # Nothing
    BY <1>2, <2>1, NothingAssumption DEF Goto, IInv, TypeOK
  <2>4. TmpInv'
    BY <1>0, <1>2, <2>1, <2>2, <2>3
    DEF TmpInv, Asked, Locked, IInv, TypeOK
  <2>5. RenameInv' /\ ValidatesOwnDownload'
    BY <2>2, <2>3 DEF RenameInv, ValidatesOwnDownload, Locked
  <2>6. TmpIsPrivate'
    BY <1>0, <1>2, <2>1 DEF TmpIsPrivate, IInv, TypeOK
  <2>7. PublishedIsValid'
    BY <1>2, <2>1, WriteKeepsPublished
  <2>8. QED
    BY <2>4, <2>5, <2>6, <2>7 DEF Files
<1>3. QED
  BY <1>1, <1>2 DEF Create

LEMMA WriteFiles ==
  ASSUME IInv, NEW w \in Workers, Write(w)
  PROVE  Files'
<1>0. Asked(w) \in Paths /\ key[w] \in Keys
  BY AskedIsPath DEF IInv, Write
<1> DEFINE i == tmp[Asked(w)]
<1>1. /\ i \in Inodes
      /\ \A p \in Paths : pub[p] # i
      /\ \A q \in Paths \ {Asked(w)} : tmp[q] # i
  BY <1>0 DEF IInv, TypeOK, TmpInv, TmpIsPrivate, Write
<1>2. PICK c \in Written(body[w]) : data' = [data EXCEPT ![i] = c]
  BY DEF Write
<1>3. data'[i] = c
  BY <1>1, <1>2 DEF IInv, TypeOK
<1>4. /\ pc'[w] = "validate"
      /\ \A v \in Workers \ {w} : pc'[v] \notin Locked
  BY OneDownload DEF Locked, Goto, IInv, TypeOK, Write
<1>5. TmpInv'
  BY <1>4 DEF TmpInv, Asked, Locked, IInv, Write
<1>6. RenameInv'
  BY <1>4 DEF RenameInv, Locked
<1>7. ValidatesOwnDownload'
  BY <1>1, <1>3, <1>4, NothingAssumption
  DEF ValidatesOwnDownload, Asked, Locked, Write
<1>8. TmpIsPrivate'
  BY DEF TmpIsPrivate, IInv, Write
<1>9. PublishedIsValid'
  BY <1>1, <1>2, WriteKeepsPublished DEF Write
<1>10. QED
  BY <1>5, <1>6, <1>7, <1>8, <1>9 DEF Files

LEMMA ValidateFiles ==
  ASSUME IInv, NEW w \in Workers, Validate(w)
  PROVE  Files'
<1>0. Asked(w) \in Paths /\ key[w] \in Keys
  BY AskedIsPath DEF IInv, Validate
<1>1. CASE Finish(w, Failure)
  BY <1>1, FinishFiles DEF Validate
<1>2. CASE /\ CanPass(key[w], data[tmp[Asked(w)]])
           /\ Goto(w, "rename")
           /\ UNCHANGED <<key, mutex, body, view, reply>>
  <2>1. data[tmp[Asked(w)]] \in Contents
    BY <1>0 DEF IInv, TypeOK, TmpInv, Validate
  <2>2. CanPass(Asked(w), data[tmp[Asked(w)]])
    BY <1>0, <1>2, <2>1, PathOfKey DEF Asked
  <2>3. TmpInv' /\ ValidatesOwnDownload'
    BY <1>2 DEF IInv, TypeOK, TmpInv, ValidatesOwnDownload, Asked, Goto,
                Validate
  <2>4. RenameInv'
    BY <1>2, <2>2 DEF IInv, TypeOK, RenameInv, Asked, Goto, Validate
  <2>5. TmpIsPrivate' /\ PublishedIsValid'
    BY <1>2 DEF IInv, TmpIsPrivate, PublishedIsValid, Validate
  <2>6. QED
    BY <2>3, <2>4, <2>5 DEF Files
<1>3. QED
  BY <1>1, <1>2 DEF Validate

LEMMA RenameFiles ==
  ASSUME IInv, NEW w \in Workers, Rename(w)
  PROVE  Files'
<1>0. Asked(w) \in Paths /\ key[w] \in Keys
  BY AskedIsPath DEF IInv, Rename
<1>1. \A v \in Workers : pc'[v] \notin Locked
  BY OneDownload DEF Locked, Goto, IInv, TypeOK, Rename
<1>2. TmpInv' /\ RenameInv' /\ ValidatesOwnDownload'
  BY <1>1 DEF TmpInv, RenameInv, ValidatesOwnDownload, Locked
<1>3. TmpIsPrivate'
  BY <1>0 DEF IInv, TypeOK, TmpIsPrivate, Rename
<1>4. PublishedIsValid'
  BY <1>0 DEF IInv, TypeOK, RenameInv, PublishedIsValid, Rename
<1>5. QED
  BY <1>2, <1>3, <1>4 DEF Files

\* Every step keeps Files.
LEMMA StepFiles == IInv /\ [Next]_vars => Files'
<1> SUFFICES ASSUME IInv, [Next]_vars PROVE Files'
  OBVIOUS
<1>0. TypeOK /\ BusyInv
  BY DEF IInv
<1> USE DEF Goto
<1>1. ASSUME NEW w \in Workers, NEW k \in Keys, Request(w, k) PROVE Files'
  BY <1>0, <1>1, SameFiles DEF Request, TypeOK
<1>2. ASSUME NEW w \in Workers, Lookup(w) PROVE Files'
  <2>1. CASE Finish(w, Failure)
    BY <1>2, <2>1, FinishFiles DEF Lookup
  <2>2. CASE ~Finish(w, Failure)
    BY <1>0, <1>2, <2>2, SameFiles DEF Lookup, TypeOK
  <2>3. QED
    BY <2>1, <2>2
<1>3. ASSUME NEW w \in Workers, Lock(w) PROVE Files'
  BY <1>0, <1>3, SameFiles DEF Lock, TypeOK
<1>4. ASSUME NEW w \in Workers, Get(w) PROVE Files'
  <2>1. CASE Finish(w, Failure)
    BY <1>4, <2>1, FinishFiles DEF Get
  <2>2. CASE ~Finish(w, Failure)
    BY <1>0, <1>4, <2>2, SameFiles DEF Get, TypeOK
  <2>3. QED
    BY <2>1, <2>2
<1>5. ASSUME NEW w \in Workers, RenameFails(w) PROVE Files'
  BY <1>5, FinishFiles DEF RenameFails
<1>6. ASSUME NEW w \in Workers, Open(w) PROVE Files'
  <2>1. CASE Finish(w, Failure)
    BY <1>6, <2>1, FinishFiles DEF Open
  <2>2. CASE ~Finish(w, Failure)
    <3>1. Asked(w) \in Paths
      BY <1>0, <1>6, AskedIsPath DEF Open
    <3>2. QED
      BY <1>0, <1>6, <2>2, <3>1, SameFiles DEF Open, TypeOK
  <2>3. QED
    BY <2>1, <2>2
<1>7. ASSUME NEW w \in Workers, Query(w) PROVE Files'
  BY <1>7, FinishFiles DEF Query
<1>8. ASSUME Crash PROVE Files'
  BY <1>8, SameFiles DEF Crash
<1>9. ASSUME UNCHANGED vars PROVE Files'
  BY <1>9, SameFiles DEF vars
<1>10. QED
  BY <1>1, <1>2, <1>3, <1>4, <1>5, <1>6, <1>7, <1>8, <1>9, CreateFiles,
     WriteFiles, ValidateFiles, RenameFiles DEF Next, Work

-----------------------------------------------------------------------------
(***************************************************************************)
(* The theorems.                                                           *)
(***************************************************************************)

LEMMA StepIInv == IInv /\ [Next]_vars => IInv'
BY StepTypes, StepHolding, StepFiles DEF IInv, Holding, Files

\* The inductive invariant holds in every state.
THEOREM Invariance == Spec => []IInv
<1>1. QED
  BY InitIInv, StepIInv, PTL DEF Spec

\* Every variable keeps its type, whatever the threads, files and failures.
THEOREM TypeCorrectness == Spec => []TypeOK
<1>1. IInv => TypeOK
  BY DEF IInv
<1>2. QED
  BY Invariance, <1>1, PTL

\* At most one thread is between the lock_guard of download_impl and the end of
\* its scope, and mutex_ is locked exactly while one is.
THEOREM MutualExclusion == Spec => []DownloadsSerialised
<1>1. IInv => DownloadsSerialised
  BY DEF IInv
<1>2. QED
  BY Invariance, <1>1, PTL

\* What is_valid_pdb judges and rename publishes is what the same thread has
\* downloaded, in spite of what earlier downloads left behind.
THEOREM OwnDownload == Spec => []ValidatesOwnDownload
<1>1. IInv => ValidatesOwnDownload
  BY DEF IInv
<1>2. QED
  BY Invariance, <1>1, PTL

\* A file that exists(path) finds has passed is_valid_pdb for its name.
THEOREM PublishedValidity == Spec => []PublishedIsValid
<1>1. IInv => PublishedIsValid
  BY DEF IInv
<1>2. QED
  BY Invariance, <1>1, PTL

\* An inode that has the name of a PDB, or that a thread has mapped, is not
\* written by any step.
LEMMA StepStable ==
  ASSUME IInv, [Next]_vars, NEW i \in Inodes,
         \/ \E p \in Paths : pub[p] = i
         \/ \E w \in Workers : view[w] = i
  PROVE  data'[i] = data[i]
<1>0. /\ TypeOK /\ BusyInv
      /\ \A p \in Paths : tmp[p] # i
  BY NothingAssumption DEF IInv, TmpIsPrivate
<1>1. ASSUME NEW w \in Workers, Create(w) PROVE data'[i] = data[i]
  <2>1. Asked(w) \in Paths
    BY <1>0, <1>1, AskedIsPath DEF Create
  <2>2. CASE data' = [data EXCEPT ![tmp[Asked(w)]] = "empty"]
    BY <1>0, <2>1, <2>2 DEF TypeOK
  <2>3. CASE /\ Inodes \ Reachable # {}
             /\ data' = [data EXCEPT ![FreeInode] = "empty"]
    <3>1. FreeInode # i
      BY <2>3, FreeInodeIsFree DEF Reachable
    <3>2. QED
      BY <1>0, <2>3, <3>1 DEF TypeOK
  <2>4. QED
    BY <1>1, <2>2, <2>3 DEF Create
<1>2. ASSUME NEW w \in Workers, Write(w) PROVE data'[i] = data[i]
  <2>1. Asked(w) \in Paths
    BY <1>0, <1>2, AskedIsPath DEF Write
  <2>2. PICK c : data' = [data EXCEPT ![tmp[Asked(w)]] = c]
    BY <1>2 DEF Write
  <2>3. QED
    BY <1>0, <2>1, <2>2 DEF TypeOK
<1>3. CASE UNCHANGED data
  BY <1>3
<1>4. QED
  BY <1>1, <1>2, <1>3 DEF Next, Work, vars, Request, Lookup, Lock, Get,
     Validate, Rename, RenameFails, Open, Query, Crash

\* No file is written while it can be found by name or is mapped: a query sees
\* one content from the mmap to the last byte it reads.
THEOREM Stability == Spec => MappedFilesAreStable
<1>1. ASSUME IInv, [Next]_vars
      PROVE  [\A i \in Inodes :
                (\E p \in Paths : pub[p] = i) \/ (\E w \in Workers : view[w] = i)
                  => data'[i] = data[i]]_vars
  BY <1>1, StepStable
<1>2. QED
  BY Invariance, <1>1, PTL DEF Spec, MappedFilesAreStable

-----------------------------------------------------------------------------

\* Downloader implements PdbCache. The mapping is that of Cache in module
\* Downloader: an entry is what is in the file with its name, a view is what is
\* in the file a parser has mapped. Renames map to Store, Open to Look, the end
\* of a request to Serve or Refuse; the steps of a download map to stutters
\* because they only touch a file no one can reach by a name of a PDB.

Entry == [p \in Paths |-> IF pub[p] = Nothing THEN Nothing ELSE data[pub[p]]]
Want == [w \in Workers |-> IF key[w] = Nothing THEN Nothing ELSE Asked(w)]
View == [w \in Workers |-> IF view[w] = Nothing THEN Nothing ELSE data[view[w]]]

LEMMA InitRefines == Init => Cache!CacheInit
BY DEF Init, Cache!CacheInit, Cache!NoReply, NoReply

\* As long as published and mapped files keep their contents, entries and views
\* depend on the names and mappings only.
LEMMA SameContents ==
  ASSUME IInv, [Next]_vars
  PROVE  /\ \A p \in Paths : pub[p] # Nothing => data'[pub[p]] = data[pub[p]]
         /\ \A w \in Workers : view[w] # Nothing => data'[view[w]] = data[view[w]]
BY StepStable DEF IInv, TypeOK

LEMMA SameEntry ==
  ASSUME IInv, [Next]_vars, UNCHANGED pub
  PROVE  Entry' = Entry
BY SameContents DEF Entry

LEMMA SameView ==
  ASSUME IInv, [Next]_vars, UNCHANGED view
  PROVE  View' = View
BY SameContents DEF View

LEMMA SameWant ==
  ASSUME UNCHANGED key
  PROVE  Want' = Want
BY DEF Want, Asked

LEMMA Stutter ==
  ASSUME IInv, [Next]_vars, UNCHANGED <<pub, view, key, reply>>
  PROVE  UNCHANGED Cache!cacheVars
<1>1. Entry' = Entry /\ View' = View /\ Want' = Want
  BY SameEntry, SameView, SameWant
<1>2. QED
  BY <1>1 DEF Cache!cacheVars, Entry, View, Want

\* The end of a request, however it ends.
LEMMA FinishIsDone ==
  ASSUME IInv, [Next]_vars, NEW w \in Workers, NEW r, Finish(w, r),
         pc[w] # "idle", UNCHANGED pub
  PROVE  Cache!Done(w, r)
<1>1. Entry' = Entry
  BY SameEntry
<1>2. Want[w] # Nothing
  BY AskedIsPath, NothingAssumption DEF IInv, Want
<1>3. Want' = [Want EXCEPT ![w] = Nothing]
  BY DEF Want, Asked, Finish, IInv, TypeOK
<1>4. View' = [View EXCEPT ![w] = Nothing]
  BY SameContents DEF View, Finish, IInv, TypeOK
<1>5. reply' = [reply EXCEPT ![w] = r]
  BY DEF Finish
<1>6. QED
  BY <1>1, <1>2, <1>3, <1>4, <1>5 DEF Cache!Done, Entry, View, Want

LEMMA FailureIsRefuse ==
  ASSUME IInv, [Next]_vars, NEW w \in Workers, Finish(w, Failure),
         pc[w] # "idle", UNCHANGED pub
  PROVE  Cache!CacheNext
BY FinishIsDone DEF Cache!CacheNext, Cache!Refuse, Cache!Failure, Failure

LEMMA RequestIsAsk ==
  ASSUME IInv, [Next]_vars, NEW w \in Workers, NEW k \in Keys, Request(w, k)
  PROVE  Cache!Ask(w, Path(k))
<1>1. Entry' = Entry /\ View' = View
  BY SameEntry, SameView DEF Request
<1>2. Want[w] = Nothing
  BY DEF Want, Request, IInv, BusyInv
<1>3. Want' = [Want EXCEPT ![w] = Path(k)]
  BY NothingAssumption DEF Want, Asked, Request, IInv, TypeOK
<1>4. reply' = [reply EXCEPT ![w] = Cache!NoReply]
  BY DEF Request, NoReply, Cache!NoReply
<1>5. QED
  BY <1>1, <1>2, <1>3, <1>4 DEF Cache!Ask, Entry, View, Want

LEMMA RenameIsStore ==
  ASSUME IInv, [Next]_vars, NEW w \in Workers, Rename(w)
  PROVE  \E p \in Paths, c \in Contents : Cache!Store(p, c)
<1>0. Asked(w) \in Paths /\ key[w] \in Keys
  BY AskedIsPath DEF IInv, Rename
<1>1. PICK p \in Paths : p = Asked(w)
  BY <1>0
<1>2. tmp[p] \in Inodes /\ CanPass(p, data[tmp[p]])
  BY <1>0, <1>1 DEF IInv, TypeOK, TmpInv, RenameInv, Rename
<1>3. PICK c \in Contents : c = data[tmp[p]]
  BY <1>2 DEF IInv, TypeOK
<1>4. View' = View /\ Want' = Want
  BY SameView, SameWant DEF Rename
<1>5. Entry' = [Entry EXCEPT ![p] = c]
  BY <1>1, <1>2, <1>3, NothingAssumption DEF Entry, Rename, IInv, TypeOK
<1>6. Want[w] = p
  BY <1>0, <1>1, NothingAssumption DEF Want
<1>7. <<p, c>> \in {e \in Paths \X Contents : CanPass(e[1], e[2])}
  BY <1>2, <1>3
<1>8. UNCHANGED reply
  BY DEF Rename
<1>9. Cache!Store(p, c)
  BY <1>4, <1>5, <1>6, <1>7, <1>8 DEF Cache!Store, Entry, View, Want
<1>10. QED
  BY <1>9

LEMMA OpenIsLook ==
  ASSUME IInv, [Next]_vars, NEW w \in Workers, Open(w), ~Finish(w, Failure)
  PROVE  Cache!Look(w)
<1>1. /\ Asked(w) \in Paths /\ key[w] \in Keys
      /\ pub[Asked(w)] # Nothing
      /\ view' = [view EXCEPT ![w] = pub[Asked(w)]]
      /\ UNCHANGED <<key, reply, pub, data>>
  BY AskedIsPath DEF IInv, Open
<1>2. Entry' = Entry /\ Want' = Want
  BY <1>1, SameEntry, SameWant
<1>3. Want[w] = Asked(w) /\ Want[w] # Nothing
  BY <1>1, NothingAssumption DEF Want
<1>4. View[w] = Nothing
  BY DEF View, IInv, ViewInv, Open
<1>5. Entry[Want[w]] = data[pub[Asked(w)]] /\ Entry[Want[w]] # Nothing
  BY <1>1, <1>3, NothingAssumption DEF Entry, IInv, TypeOK
<1>6. View' = [View EXCEPT ![w] = Entry[Want[w]]]
  BY <1>1, <1>5 DEF View, IInv, TypeOK
<1>7. QED
  BY <1>1, <1>2, <1>3, <1>4, <1>5, <1>6 DEF Cache!Look, Entry, View, Want

LEMMA QueryRefines ==
  ASSUME IInv, [Next]_vars, NEW w \in Workers, Query(w)
  PROVE  Cache!CacheNext
<1>1. CASE Finish(w, Failure)
  BY <1>1, FailureIsRefuse DEF Query
<1>2. CASE Finish(w, Success(data[view[w]]))
  <2>1. /\ View[w] = data[view[w]] /\ View[w] # Nothing
        /\ data[view[w]] \in Contents
    BY NothingAssumption DEF View, IInv, ViewInv, TypeOK, Query
  <2>2. PICK c \in Contents : c = data[view[w]]
    BY <2>1
  <2>3. Cache!Done(w, Success(c))
    BY <1>2, <2>2, FinishIsDone DEF Query
  <2>4. Cache!Serve(w)
    BY <2>1, <2>2, <2>3 DEF Cache!Serve, Cache!Done, Cache!Success, Success,
                            View
  <2>5. QED
    BY <2>4 DEF Cache!CacheNext
<1>3. QED
  BY <1>1, <1>2 DEF Query

LEMMA CrashIsRestart ==
  ASSUME IInv, [Next]_vars, Crash
  PROVE  Cache!Restart
<1>1. Entry' = Entry
  BY SameEntry DEF Crash
<1>2. /\ Want' = [w \in Workers |-> Nothing]
      /\ View' = [w \in Workers |-> Nothing]
  BY DEF Want, View, Crash
<1>3. reply' = [w \in Workers |-> Cache!NoReply]
  BY DEF Crash, NoReply, Cache!NoReply
<1>4. QED
  BY <1>1, <1>2, <1>3 DEF Cache!Restart, Entry, View, Want

\* Every step of Downloader is a step of PdbCache or a stutter of it.
LEMMA StepRefines ==
  ASSUME IInv, [Next]_vars
  PROVE  [Cache!CacheNext]_(Cache!cacheVars)
<1>1. ASSUME NEW w \in Workers, NEW k \in Keys, Request(w, k)
      PROVE  Cache!CacheNext
  BY <1>1, RequestIsAsk, PathOfKey DEF Cache!CacheNext
<1>2. ASSUME NEW w \in Workers,
             Lookup(w) \/ Get(w) \/ Create(w) \/ Validate(w) \/ RenameFails(w)
      PROVE  Cache!CacheNext \/ UNCHANGED Cache!cacheVars
  <2>1. CASE Finish(w, Failure)
    BY <1>2, <2>1, FailureIsRefuse
    DEF Lookup, Get, Create, Validate, RenameFails
  <2>2. CASE ~Finish(w, Failure)
    BY <1>2, <2>2, Stutter DEF Lookup, Get, Create, Validate, RenameFails
  <2>3. QED
    BY <2>1, <2>2
<1>3. ASSUME NEW w \in Workers, Lock(w) \/ Write(w)
      PROVE  UNCHANGED Cache!cacheVars
  BY <1>3, Stutter DEF Lock, Write
<1>4. ASSUME NEW w \in Workers, Rename(w)
      PROVE  Cache!CacheNext
  BY <1>4, RenameIsStore DEF Cache!CacheNext
<1>5. ASSUME NEW w \in Workers, Open(w)
      PROVE  Cache!CacheNext
  <2>1. CASE Finish(w, Failure)
    BY <1>5, <2>1, FailureIsRefuse DEF Open
  <2>2. CASE ~Finish(w, Failure)
    BY <1>5, <2>2, OpenIsLook DEF Cache!CacheNext
  <2>3. QED
    BY <2>1, <2>2
<1>6. ASSUME NEW w \in Workers, Query(w)
      PROVE  Cache!CacheNext
  BY <1>6, QueryRefines
<1>7. ASSUME Crash
      PROVE  Cache!CacheNext
  BY <1>7, CrashIsRestart DEF Cache!CacheNext
<1>8. ASSUME UNCHANGED vars
      PROVE  UNCHANGED Cache!cacheVars
  BY <1>8, Stutter DEF vars
<1>9. QED
  BY <1>1, <1>2, <1>3, <1>4, <1>5, <1>6, <1>7, <1>8 DEF Next, Work

\* The storage keeps the promises of PdbCache: only accepted contents become
\* entries, an entry never disappears, not even when the process dies, and an
\* answer is drawn from one content the entry had while the request was open.
THEOREM Refinement == Spec => ImplementsPdbCache
<1>1. QED
  BY InitRefines, StepRefines, Invariance, PTL
  DEF Spec, ImplementsPdbCache, Cache!CacheSpec

-----------------------------------------------------------------------------

\* A thread has a request, or the answer to one.
Busy(w) == key[w] # Nothing \/ reply[w] # NoReply

\* No connection is with two threads, twice in the queue, or in both, and one
\* that nobody has made yet is in neither.
Alone ==
  /\ \A v, w \in Workers : serving[v] = serving[w] /\ serving[w] # Nothing => v = w
  /\ \A m, n \in DOMAIN jobs : jobs[m] = jobs[n] => m = n
  /\ \A w \in Workers, n \in DOMAIN jobs : serving[w] # jobs[n]
  /\ \A w \in Workers : serving[w] # Nothing => conn[serving[w]] # "new"
  /\ \A n \in DOMAIN jobs : conn[jobs[n]] # "new"

Held ==
  \A c \in Conns : conn[c] = "open" =>
    \/ \E w \in Workers : serving[w] = c
    \/ \E n \in DOMAIN jobs : jobs[n] = c

\* A request that has not been read is the one its client waits for; a client
\* that has gone waits for none.
Unread ==
  \A c \in Conns :
    /\ wire[c] # Nothing => conn[c] # "new" /\ (conn[c] = "open" => asked[c] = wire[c])
    /\ conn[c] # "open" => asked[c] = Nothing

\* The client of a busy thread waits for its answer, and has not sent another
\* request, unless it has gone.
AtWork ==
  \A w \in Workers : Busy(w) =>
    /\ serving[w] # Nothing /\ ~closing[w]
    /\ conn[serving[w]] = "open" =>
         asked[serving[w]] # Nothing /\ wire[serving[w]] = Nothing

\* A thread that goes on with a connection may read another request.
Counting ==
  \A w \in Workers : serving[w] # Nothing /\ ~closing[w] /\ ~Busy(w) => count[w] > 0

ServerInv ==
  /\ IInv /\ ServerTypeOK
  /\ Alone /\ Held /\ Unread /\ AtWork /\ Counting /\ AnswersWhatWasAsked

-----------------------------------------------------------------------------
(***************************************************************************)
(* The storage below the server.                                           *)
(***************************************************************************)

\* Whether a response is to be written is no matter to the storage.
LEMMA ReplyOnly ==
  ASSUME IInv, UNCHANGED <<pc, key, mutex, body, pub, tmp, data, view>>,
         reply' \in [Workers -> Replies]
  PROVE  IInv'
<1>1. TypeOK'
  BY DEF IInv, TypeOK
<1>2. DownloadsSerialised' /\ BusyInv' /\ BodyInv' /\ ViewInv'
  BY DEF IInv, DownloadsSerialised, BusyInv, BodyInv, ViewInv
<1>3. TmpInv' /\ TmpIsPrivate' /\ RenameInv' /\ ValidatesOwnDownload' /\ PublishedIsValid'
  BY DEF IInv, TmpInv, TmpIsPrivate, RenameInv, ValidatesOwnDownload, PublishedIsValid, Asked
<1> QED
  BY <1>1, <1>2, <1>3 DEF IInv

LEMMA StorageStep == IInv /\ [ServerNext]_serverVars => IInv'
<1> SUFFICES ASSUME IInv, [ServerNext]_serverVars PROVE IInv'
  OBVIOUS
<1>1. CASE UNCHANGED vars
  BY <1>1, StepIInv
<1>2. ASSUME NEW w \in Workers, ReadRequest(w) PROVE IInv'
  <2>1. CASE wire[serving[w]] \in Keys /\ Request(w, wire[serving[w]])
    BY <2>1, StepIInv DEF Next
  <2>2. CASE /\ reply' = [reply EXCEPT ![w] = Failure]
             /\ UNCHANGED <<pc, key, mutex, body, pub, tmp, data, view>>
    BY <2>2, ReplyOnly, ReplyTypes DEF IInv, TypeOK
  <2> QED
    BY <1>2, <2>1, <2>2 DEF ReadRequest
<1>3. ASSUME NEW w \in Workers, WriteResponse(w) \/ ReadFails(w) PROVE IInv'
  BY <1>3, ReplyOnly, ReplyTypes DEF WriteResponse, ReadFails, IInv, TypeOK
<1>4. ASSUME NEW w \in Workers, Handle(w) PROVE IInv'
  BY <1>4, StepIInv DEF Handle, Next
<1>5. CASE ServerCrash
  BY <1>5, StepIInv DEF ServerCrash, Next
<1>6. CASE \E c \in Conns : Connect(c) \/ GiveUp(c) \/ \E r \in Keys \union {Malformed} : Send(c, r)
  BY <1>1, <1>6 DEF Connect, GiveUp, Send
<1>7. ASSUME NEW w \in Workers, Dequeue(w) \/ KeepAliveEnds(w) \/ Close(w) PROVE IInv'
  BY <1>1, <1>7 DEF Dequeue, KeepAliveEnds, Close
<1> QED
  BY <1>1, <1>2, <1>3, <1>4, <1>5, <1>6, <1>7 DEF ServerNext, Thread, serverVars

\* A step of the storage by thread w goes on with its request or ends it with a
\* response.
LEMMA WorkEffect ==
  ASSUME NEW w \in Workers, TypeOK, BusyInv, Work(w)
  PROVE  /\ key[w] # Nothing
         /\ \/ UNCHANGED <<key, reply>>
            \/ /\ key' = [key EXCEPT ![w] = Nothing]
               /\ \E r : r # NoReply /\ reply' = [reply EXCEPT ![w] = r]
<1>1. Failure # NoReply /\ \A c : Success(c) # NoReply
  BY DEF Failure, NoReply, Success
<1>2. ASSUME NEW r, r # NoReply, Finish(w, r)
      PROVE  /\ key' = [key EXCEPT ![w] = Nothing]
             /\ \E s : s # NoReply /\ reply' = [reply EXCEPT ![w] = s]
  BY <1>2 DEF Finish
<1>3. pc[w] # "idle"
  BY DEF Work, Lookup, Lock, Get, Create, Write, Validate, Rename, RenameFails, Open, Query
<1>4. key[w] # Nothing
  BY <1>3 DEF BusyInv
<1>5. UNCHANGED <<key, reply>> \/ \E r : r # NoReply /\ Finish(w, r)
  BY <1>1
     DEF Work, Lookup, Lock, Get, Create, Write, Validate, Rename, RenameFails, Open, Query
<1> QED
  BY <1>2, <1>4, <1>5

-----------------------------------------------------------------------------
(***************************************************************************)
(* The queue.                                                              *)
(***************************************************************************)

LEMMA AppendJob ==
  ASSUME jobs \in Seq(Conns), NEW c \in Conns, jobs' = Append(jobs, c)
  PROVE  /\ jobs' \in Seq(Conns)
         /\ \A n \in DOMAIN jobs' : (n \in DOMAIN jobs /\ jobs'[n] = jobs[n]) \/ jobs'[n] = c
         /\ \A m, n \in DOMAIN jobs' : m = n \/ m \in DOMAIN jobs \/ n \in DOMAIN jobs
         /\ \A n \in DOMAIN jobs : n \in DOMAIN jobs' /\ jobs'[n] = jobs[n]
         /\ \E n \in DOMAIN jobs' : jobs'[n] = c
<1>1. /\ Len(jobs) \in Nat /\ DOMAIN jobs = 1 .. Len(jobs)
      /\ Len(jobs') = Len(jobs) + 1 /\ DOMAIN jobs' = 1 .. Len(jobs')
      /\ jobs' \in Seq(Conns)
  OBVIOUS
<1>2. \A n \in 1 .. Len(jobs) : jobs'[n] = jobs[n]
  OBVIOUS
<1>3. jobs'[Len(jobs) + 1] = c
  OBVIOUS
<1> QED
  BY <1>1, <1>2, <1>3

LEMMA TailJobs ==
  ASSUME jobs \in Seq(Conns), jobs # <<>>, jobs' = Tail(jobs)
  PROVE  /\ Head(jobs) = jobs[1] /\ jobs[1] \in Conns /\ 1 \in DOMAIN jobs
         /\ jobs' \in Seq(Conns)
         /\ \A n \in DOMAIN jobs' :
              n \in Nat /\ n + 1 \in DOMAIN jobs /\ n + 1 # 1 /\ jobs'[n] = jobs[n + 1]
         /\ \A n \in DOMAIN jobs : n = 1 \/ \E m \in DOMAIN jobs' : jobs'[m] = jobs[n]
<1>1. /\ Len(jobs) \in Nat \ {0} /\ DOMAIN jobs = 1 .. Len(jobs)
      /\ Len(jobs') = Len(jobs) - 1 /\ DOMAIN jobs' = 1 .. Len(jobs')
      /\ jobs' \in Seq(Conns)
      /\ Head(jobs) = jobs[1]
  OBVIOUS
<1>2. \A n \in 1 .. Len(jobs) - 1 : jobs'[n] = jobs[n + 1]
  OBVIOUS
<1>3. ASSUME NEW n \in DOMAIN jobs, n # 1
      PROVE  \E m \in DOMAIN jobs' : jobs'[m] = jobs[n]
  <2>1. n - 1 \in 1 .. Len(jobs) - 1 /\ (n - 1) + 1 = n
    BY <1>1, <1>3
  <2>2. jobs'[n - 1] = jobs[n]
    BY <1>2, <2>1
  <2> QED
    BY <1>1, <2>1, <2>2
<1>4. jobs[1] \in Conns /\ 1 \in DOMAIN jobs
  BY <1>1
<1> QED
  BY <1>1, <1>2, <1>3, <1>4

LEMMA JobType ==
  ASSUME ServerTypeOK
  PROVE  \A n \in DOMAIN jobs : jobs[n] \in Conns /\ jobs[n] # Nothing
BY ConnsAssumption DEF ServerTypeOK

-----------------------------------------------------------------------------
(***************************************************************************)
(* Each step keeps the invariant.                                          *)
(***************************************************************************)

\* The types of all but the storage.
PoolTypeOK ==
  /\ jobs \in Seq(Conns)
  /\ conn \in [Conns -> {"new", "open", "closed"}]
  /\ asked \in [Conns -> Keys \union {Malformed, Nothing}]
  /\ wire \in [Conns -> Keys \union {Malformed, Nothing}]
  /\ serving \in [Workers -> Conns \union {Nothing}]
  /\ count \in [Workers -> 0 .. KeepAliveMax]
  /\ closing \in [Workers -> BOOLEAN]
  /\ sent \in 0 .. MaxRequests

Answers == Unread /\ AtWork /\ Counting /\ AnswersWhatWasAsked

PoolInv == PoolTypeOK /\ Alone /\ Held /\ Answers

LEMMA ServerInvParts == ServerInv <=> IInv /\ PoolInv
BY DEF ServerInv, PoolInv, PoolTypeOK, ServerTypeOK, Answers, IInv

LEMMA Types ==
  ASSUME ServerInv
  PROVE  /\ TypeOK /\ BusyInv /\ PoolInv /\ PoolTypeOK /\ ServerTypeOK
         /\ key \in [Workers -> Keys \union {Nothing}] /\ reply \in [Workers -> Replies]
BY ServerInvParts DEF ServerInv, IInv, TypeOK, PoolInv

LEMMA ConnectStep ==
  ASSUME ServerInv, NEW c \in Conns, Connect(c)
  PROVE  PoolInv'
<1>1. /\ conn[c] = "new" /\ conn' = [conn EXCEPT ![c] = "open"] /\ jobs' = Append(jobs, c)
      /\ UNCHANGED <<vars, clientVars, serving, count, closing>>
  BY DEF Connect
<1>2. PoolTypeOK /\ Alone /\ Held /\ Answers
  BY Types DEF PoolInv
<1>3. /\ jobs' \in Seq(Conns)
      /\ \A n \in DOMAIN jobs' : (n \in DOMAIN jobs /\ jobs'[n] = jobs[n]) \/ jobs'[n] = c
      /\ \A m, n \in DOMAIN jobs' : m = n \/ m \in DOMAIN jobs \/ n \in DOMAIN jobs
      /\ \A n \in DOMAIN jobs : n \in DOMAIN jobs' /\ jobs'[n] = jobs[n]
      /\ \E n \in DOMAIN jobs' : jobs'[n] = c
  BY <1>1, <1>2, AppendJob DEF PoolTypeOK
<1>4. PoolTypeOK'
  BY <1>1, <1>2, <1>3 DEF PoolTypeOK, clientVars
<1>5. Alone'
  <2>1. \A n \in DOMAIN jobs : jobs[n] # c
    BY <1>1, <1>2 DEF Alone
  <2>2. \A w \in Workers : serving[w] # c \/ serving[w] = Nothing
    BY <1>1, <1>2 DEF Alone
  <2>3. \A w \in Workers : serving[w] # c
    BY <2>2, ConnsAssumption
  <2> QED
    BY <1>1, <1>2, <1>3, <2>1, <2>3 DEF Alone, PoolTypeOK
<1>6. Held'
  BY <1>1, <1>2, <1>3 DEF Held, PoolTypeOK
<1>7. Answers'
  <2>1. \A w \in Workers : serving[w] # c
    BY <1>1, <1>2, ConnsAssumption DEF Alone
  <2>2. UNCHANGED <<key, reply, asked, wire, serving, count, closing>>
    BY <1>1 DEF vars, clientVars
  <2>3. wire[c] = Nothing /\ asked[c] = Nothing
    BY <1>1, <1>2 DEF Answers, Unread
  <2>4. \A d \in Conns \ {c} : conn'[d] = conn[d]
    BY <1>1, <1>2 DEF PoolTypeOK
  <2>5. \A w \in Workers : serving[w] # Nothing => conn'[serving[w]] = conn[serving[w]]
    BY <1>2, <2>1, <2>4 DEF PoolTypeOK
  <2>6. Unread'
    BY <1>2, <2>2, <2>3, <2>4 DEF Answers, Unread
  <2>7. AtWork' /\ Counting' /\ AnswersWhatWasAsked'
    BY <1>2, <2>2, <2>5 DEF Answers, AtWork, Counting, AnswersWhatWasAsked, Busy
  <2> QED
    BY <2>6, <2>7 DEF Answers
<1> QED
  BY <1>4, <1>5, <1>6, <1>7 DEF PoolInv

LEMMA SendStep ==
  ASSUME ServerInv, NEW c \in Conns, NEW r \in Keys \union {Malformed}, Send(c, r)
  PROVE  PoolInv'
<1>1. /\ conn[c] = "open" /\ asked[c] = Nothing /\ sent < MaxRequests
      /\ asked' = [asked EXCEPT ![c] = r] /\ wire' = [wire EXCEPT ![c] = r]
      /\ sent' = sent + 1
      /\ UNCHANGED <<jobs, conn, serving, count, closing, key, reply>>
  BY DEF Send, vars, poolVars
<1>2. PoolTypeOK /\ Alone /\ Held /\ Answers
  BY Types DEF PoolInv
<1>3. PoolTypeOK'
  BY <1>1, <1>2, MaxRequestsAssumption DEF PoolTypeOK
<1>4. Alone' /\ Held'
  BY <1>1, <1>2 DEF Alone, Held
<1>5. r # Nothing
  BY NothingAssumption, MalformedAssumption
<1>6. \A w \in Workers : Busy(w) => serving[w] # c
  BY <1>1, <1>2 DEF Answers, AtWork
<1>7. Unread'
  BY <1>1, <1>2, <1>5 DEF Answers, Unread, PoolTypeOK
<1>8. AtWork' /\ Counting' /\ AnswersWhatWasAsked'
  <2>1. \A w \in Workers : Busy(w)' <=> Busy(w)
    BY <1>1 DEF Busy
  <2>2. AtWork'
    BY <1>1, <1>2, <1>6, <2>1 DEF Answers, AtWork, PoolTypeOK
  <2>3. Counting'
    BY <1>1, <1>2, <2>1 DEF Answers, Counting
  <2>4. AnswersWhatWasAsked'
    BY <1>1, <1>2, <1>6 DEF Answers, AnswersWhatWasAsked, PoolTypeOK, Busy
  <2> QED
    BY <2>2, <2>3, <2>4
<1> QED
  BY <1>3, <1>4, <1>7, <1>8 DEF PoolInv, Answers

LEMMA GiveUpStep ==
  ASSUME ServerInv, NEW c \in Conns, GiveUp(c)
  PROVE  PoolInv'
<1>1. /\ conn[c] = "open" /\ conn' = [conn EXCEPT ![c] = "closed"]
      /\ asked' = [asked EXCEPT ![c] = Nothing]
      /\ UNCHANGED <<jobs, serving, count, closing, wire, sent, key, reply>>
  BY DEF GiveUp, vars
<1>2. PoolTypeOK /\ Alone /\ Held /\ Answers
  BY Types DEF PoolInv
<1>3. PoolTypeOK'
  BY <1>1, <1>2 DEF PoolTypeOK
<1>4. Alone'
  BY <1>1, <1>2 DEF Alone, PoolTypeOK
<1>5. Held'
  BY <1>1, <1>2 DEF Held, PoolTypeOK
<1>6. Unread'
  BY <1>1, <1>2 DEF Answers, Unread, PoolTypeOK
<1>7. AtWork' /\ Counting' /\ AnswersWhatWasAsked'
  BY <1>1, <1>2 DEF Answers, AtWork, Counting, AnswersWhatWasAsked, PoolTypeOK, Busy
<1> QED
  BY <1>3, <1>4, <1>5, <1>6, <1>7 DEF PoolInv, Answers

LEMMA DequeueStep ==
  ASSUME ServerInv, NEW w \in Workers, Dequeue(w)
  PROVE  PoolInv'
<1>1. /\ serving[w] = Nothing /\ jobs # <<>>
      /\ serving' = [serving EXCEPT ![w] = Head(jobs)]
      /\ jobs' = Tail(jobs)
      /\ count' = [count EXCEPT ![w] = KeepAliveMax]
      /\ UNCHANGED <<asked, wire, sent, conn, closing, key, reply>>
  BY DEF Dequeue, vars, clientVars
<1>2. PoolTypeOK /\ Alone /\ Held /\ Answers
  BY Types DEF PoolInv
<1> DEFINE c == jobs[1]
<1>3. /\ Head(jobs) = c /\ c \in Conns /\ 1 \in DOMAIN jobs
      /\ jobs' \in Seq(Conns)
      /\ \A n \in DOMAIN jobs' :
           n \in Nat /\ n + 1 \in DOMAIN jobs /\ n + 1 # 1 /\ jobs'[n] = jobs[n + 1]
      /\ \A n \in DOMAIN jobs : n = 1 \/ \E m \in DOMAIN jobs' : jobs'[m] = jobs[n]
  BY <1>1, <1>2, TailJobs DEF PoolTypeOK
<1>4. \A n \in DOMAIN jobs : jobs[n] = c => n = 1
  BY <1>2, <1>3 DEF Alone
<1>5. conn[c] # "new" /\ \A v \in Workers : serving[v] # c
  BY <1>2, <1>3 DEF Alone
<1> HIDE DEF c
<1>6. PoolTypeOK'
  BY <1>1, <1>2, <1>3, KeepAliveAssumption DEF PoolTypeOK
<1>7. /\ serving'[w] = c /\ c # Nothing
      /\ \A v \in Workers \ {w} : serving'[v] = serving[v]
  BY <1>1, <1>2, <1>3, ConnsAssumption DEF PoolTypeOK
<1>8. Alone'
  <2>1. \A n \in DOMAIN jobs' : jobs'[n] # c
    BY <1>3, <1>4
  <2>2. \A m, n \in DOMAIN jobs' : jobs'[m] = jobs'[n] => m = n
    <3> SUFFICES ASSUME NEW m \in DOMAIN jobs', NEW n \in DOMAIN jobs', jobs'[m] = jobs'[n]
                 PROVE  m = n
      OBVIOUS
    <3>1. m + 1 \in DOMAIN jobs /\ n + 1 \in DOMAIN jobs /\ jobs[m + 1] = jobs[n + 1]
      BY <1>3
    <3>2. m + 1 = n + 1
      BY <1>2, <3>1 DEF Alone
    <3> QED
      BY <1>3, <3>2
  <2>3. \A v \in Workers, n \in DOMAIN jobs' : serving'[v] # jobs'[n]
    BY <1>2, <1>3, <1>7, <2>1 DEF Alone
  <2>4. \A u, v \in Workers : serving'[u] = serving'[v] /\ serving'[u] # Nothing => u = v
    BY <1>2, <1>5, <1>7 DEF Alone
  <2>5. \A v \in Workers : serving'[v] # Nothing => conn[serving'[v]] # "new"
    BY <1>2, <1>5, <1>7 DEF Alone
  <2>6. \A n \in DOMAIN jobs' : conn[jobs'[n]] # "new"
    BY <1>2, <1>3 DEF Alone
  <2> QED
    BY <1>1, <2>2, <2>3, <2>4, <2>5, <2>6 DEF Alone
<1>9. Held'
  <2> SUFFICES ASSUME NEW d \in Conns, conn[d] = "open"
               PROVE  \/ \E v \in Workers : serving'[v] = d
                      \/ \E n \in DOMAIN jobs' : jobs'[n] = d
    BY <1>1 DEF Held
  <2>1. CASE d = c
    BY <1>7, <2>1
  <2>2. ASSUME NEW v \in Workers, serving[v] = d
        PROVE  serving'[v] = d
    BY <1>1, <1>7, <2>2, ConnsAssumption
  <2>3. ASSUME NEW n \in DOMAIN jobs, jobs[n] = d, d # c
        PROVE  \E m \in DOMAIN jobs' : jobs'[m] = d
    BY <1>3, <2>3 DEF c
  <2> QED
    BY <1>2, <2>1, <2>2, <2>3 DEF Held
<1>10. Answers'
  <2>1. ~Busy(w) /\ \A v \in Workers : Busy(v)' <=> Busy(v)
    BY <1>1, <1>2 DEF Answers, AtWork, Busy
  <2>2. key[w] = Nothing
    BY <2>1 DEF Busy
  <2>3. Unread'
    BY <1>1, <1>2 DEF Answers, Unread
  <2>4. AtWork'
    BY <1>1, <1>2, <1>7, <2>1 DEF Answers, AtWork
  <2>5. count'[w] = KeepAliveMax /\ \A v \in Workers \ {w} : count'[v] = count[v]
    BY <1>1, <1>2 DEF PoolTypeOK
  <2>6. Counting'
    BY <1>1, <1>2, <1>7, <2>1, <2>5, KeepAliveAssumption DEF Answers, Counting
  <2>7. AnswersWhatWasAsked'
    BY <1>1, <1>2, <1>7, <2>2 DEF Answers, AnswersWhatWasAsked
  <2> QED
    BY <2>3, <2>4, <2>6, <2>7 DEF Answers
<1> QED
  BY <1>6, <1>8, <1>9, <1>10 DEF PoolInv

\* A thread that waits has nothing to do.
LEMMA WaitingIsIdle ==
  ASSUME ServerInv, NEW w \in Workers, Waiting(w)
  PROVE  /\ ~Busy(w) /\ serving[w] \in Conns /\ ~closing[w] /\ count[w] \in 1 .. KeepAliveMax
         /\ key[w] = Nothing /\ reply[w] = NoReply
<1>1. PoolTypeOK /\ Answers /\ BusyInv
  BY Types DEF PoolInv
<1>2. key[w] = Nothing /\ reply[w] = NoReply /\ serving[w] # Nothing /\ ~closing[w]
  BY <1>1 DEF Waiting, BusyInv
<1>3. ~Busy(w)
  BY <1>2 DEF Busy
<1>4. count[w] > 0 /\ count[w] \in 0 .. KeepAliveMax
  BY <1>1, <1>2, <1>3 DEF Answers, Counting, PoolTypeOK
<1>5. count[w] \in 1 .. KeepAliveMax
  BY <1>4, KeepAliveAssumption
<1> QED
  BY <1>1, <1>2, <1>3, <1>5 DEF PoolTypeOK

\* A request that is taken from the wire is routed or answered with a failure.
TakesRequest(w) ==
  /\ Waiting(w)
  /\ wire[serving[w]] # Nothing
  /\ wire' = [wire EXCEPT ![serving[w]] = Nothing]
  /\ \/ Request(w, wire[serving[w]])
     \/ reply' = [reply EXCEPT ![w] = Failure] /\ UNCHANGED key
  /\ count' = [count EXCEPT ![w] = @ - 1]
  /\ UNCHANGED <<jobs, conn, asked, serving, closing, sent>>

LEMMA TakesRequestStep ==
  ASSUME ServerInv, NEW w \in Workers, TakesRequest(w)
  PROVE  PoolInv'
<1> DEFINE c == serving[w]
<1>1. /\ Waiting(w) /\ wire[c] # Nothing
      /\ wire' = [wire EXCEPT ![c] = Nothing]
      /\ count' = [count EXCEPT ![w] = @ - 1]
      /\ UNCHANGED <<jobs, conn, asked, serving, closing, sent>>
  BY DEF TakesRequest
<1>2. PoolTypeOK /\ Alone /\ Held /\ Answers
  BY Types DEF PoolInv
<1>3. /\ c \in Conns /\ ~closing[w] /\ count[w] \in 1 .. KeepAliveMax
      /\ key[w] = Nothing /\ c # Nothing
  BY <1>1, WaitingIsIdle, ConnsAssumption
<1>4. /\ key'[w] \in {wire[c], Nothing}
      /\ \A v \in Workers \ {w} : key'[v] = key[v] /\ reply'[v] = reply[v]
  BY <1>3, Types DEF TakesRequest, Request
<1>5. \A v \in Workers \ {w} : serving[v] # c
  BY <1>2, <1>3 DEF Alone
<1> HIDE DEF c
<1>6. \A v \in Workers \ {w} : count'[v] = count[v] /\ (Busy(v)' <=> Busy(v))
  BY <1>1, <1>2, <1>4 DEF PoolTypeOK, Busy
<1>7. PoolTypeOK'
  <2>1. count[w] - 1 \in 0 .. KeepAliveMax
    BY <1>3, KeepAliveAssumption
  <2> QED
    BY <1>1, <1>2, <1>3, <2>1 DEF PoolTypeOK
<1>8. Alone' /\ Held'
  BY <1>1, <1>2 DEF Alone, Held
<1>9. Unread'
  BY <1>1, <1>2, <1>3 DEF Answers, Unread, PoolTypeOK
<1>10. wire'[c] = Nothing /\ \A d \in Conns \ {c} : wire'[d] = wire[d]
  BY <1>1, <1>2, <1>3 DEF PoolTypeOK
<1>11. /\ conn[c] = "open" => asked[c] = wire[c]
       /\ conn[c] # "open" => asked[c] = Nothing /\ conn[c] = "closed"
  BY <1>1, <1>2, <1>3 DEF Answers, Unread, PoolTypeOK
<1>12. AtWork'
  <2> SUFFICES ASSUME NEW v \in Workers, Busy(v)'
               PROVE  /\ serving[v] # Nothing /\ ~closing[v]
                      /\ conn[serving[v]] = "open" =>
                           asked[serving[v]] # Nothing /\ wire'[serving[v]] = Nothing
    BY <1>1 DEF AtWork
  <2>1. CASE v = w
    BY <1>1, <1>3, <1>10, <1>11, <2>1 DEF c
  <2>2. CASE v # w
    BY <1>2, <1>5, <1>6, <1>10, <2>2 DEF Answers, AtWork, PoolTypeOK
  <2> QED
    BY <2>1, <2>2
<1>13. Counting'
  <2>1. Busy(w)'
    <3>1. CASE Request(w, wire[c])
      BY <1>1, <1>3, <3>1, Types DEF Busy, Request
    <3>2. CASE reply' = [reply EXCEPT ![w] = Failure]
      BY <3>2, Types DEF Busy, Failure, NoReply
    <3> QED
      BY <3>1, <3>2 DEF TakesRequest, c
  <2> QED
    BY <1>1, <1>2, <1>6, <2>1 DEF Answers, Counting
<1>14. AnswersWhatWasAsked'
  <2>1. \A v \in Workers \ {w} : key'[v] = key[v]
    BY <1>4
  <2> QED
    BY <1>1, <1>2, <1>3, <1>4, <1>11, <2>1 DEF Answers, AnswersWhatWasAsked, c
<1> QED
  BY <1>7, <1>8, <1>9, <1>12, <1>13, <1>14 DEF PoolInv, Answers

LEMMA ReadRequestStep ==
  ASSUME ServerInv, NEW w \in Workers, ReadRequest(w)
  PROVE  PoolInv'
BY TakesRequestStep DEF ReadRequest, TakesRequest

LEMMA ReadFailsStep ==
  ASSUME ServerInv, NEW w \in Workers, ReadFails(w)
  PROVE  PoolInv'
<1> DEFINE c == serving[w]
<1>1. /\ Waiting(w) /\ wire[c] # Nothing
      /\ wire' = [wire EXCEPT ![c] = Nothing]
      /\ UNCHANGED <<key, jobs, conn, asked, serving, sent>>
  BY DEF ReadFails
<1>2. CASE reply' = [reply EXCEPT ![w] = Failure] /\ count' = [count EXCEPT ![w] = @ - 1] /\ UNCHANGED closing
  BY <1>1, <1>2, TakesRequestStep DEF TakesRequest
<1>3. CASE closing' = [closing EXCEPT ![w] = TRUE] /\ UNCHANGED <<reply, count>>
  <2>1. PoolTypeOK /\ Alone /\ Held /\ Answers
    BY Types DEF PoolInv
  <2>2. ~Busy(w) /\ \A v \in Workers : Busy(v)' <=> Busy(v)
    BY <1>1, <1>3, WaitingIsIdle DEF Busy
  <2>3. closing'[w] /\ \A v \in Workers \ {w} : closing'[v] = closing[v]
    BY <1>3, <2>1 DEF PoolTypeOK
  <2>4. \A d \in Conns : wire'[d] \in {wire[d], Nothing}
    BY <1>1, <2>1 DEF PoolTypeOK
  <2>5. PoolTypeOK'
    BY <1>1, <1>3, <2>1 DEF PoolTypeOK
  <2>6. Alone' /\ Held' /\ AnswersWhatWasAsked'
    BY <1>1, <2>1 DEF Alone, Held, Answers, AnswersWhatWasAsked
  <2>7. Unread'
    BY <1>1, <2>1, <2>4 DEF Answers, Unread
  <2>8. AtWork' /\ Counting'
    BY <1>1, <1>3, <2>1, <2>2, <2>3, <2>4 DEF Answers, AtWork, Counting, PoolTypeOK
  <2> QED
    BY <2>5, <2>6, <2>7, <2>8 DEF PoolInv, Answers
<1> QED
  BY <1>2, <1>3 DEF ReadFails

LEMMA WriteResponseStep ==
  ASSUME ServerInv, NEW w \in Workers, WriteResponse(w)
  PROVE  PoolInv'
<1> DEFINE c == serving[w]
<1>1. /\ pc[w] = "idle" /\ reply[w] # NoReply
      /\ reply' = [reply EXCEPT ![w] = NoReply]
      /\ asked' = [asked EXCEPT ![c] = Nothing]
      /\ UNCHANGED <<key, jobs, conn, serving, count, wire, sent>>
  BY DEF WriteResponse, poolVars
<1>2. PICK close \in BOOLEAN :
        closing' = [closing EXCEPT ![w] = close \/ count[w] = 0 \/ conn[c] = "closed"]
  BY DEF WriteResponse
<1>3. PoolTypeOK /\ Alone /\ Held /\ Answers /\ BusyInv
  BY Types DEF PoolInv
<1>4. key[w] = Nothing /\ Busy(w)
  BY <1>1, <1>3 DEF BusyInv, Busy
<1>5. /\ c \in Conns /\ c # Nothing
      /\ conn[c] = "open" => wire[c] = Nothing
  BY <1>3, <1>4 DEF Answers, AtWork, PoolTypeOK
<1>6. \A v \in Workers \ {w} : serving[v] # c
  BY <1>3, <1>5 DEF Alone
<1> HIDE DEF c
<1>7. /\ ~Busy(w)'
      /\ \A v \in Workers \ {w} : Busy(v)' <=> Busy(v)
  BY <1>1, <1>4, Types DEF Busy
<1>8. /\ \A v \in Workers \ {w} : closing'[v] = closing[v]
      /\ ~closing'[w] => count[w] # 0
      /\ closing' \in [Workers -> BOOLEAN]
  BY <1>2, <1>3 DEF PoolTypeOK
<1>9. /\ asked'[c] = Nothing /\ \A d \in Conns \ {c} : asked'[d] = asked[d]
      /\ asked' \in [Conns -> Keys \union {Malformed, Nothing}]
  BY <1>1, <1>3, <1>5 DEF PoolTypeOK
<1>10. PoolTypeOK'
  BY <1>1, <1>3, <1>8, <1>9 DEF PoolTypeOK
<1>11. Alone' /\ Held'
  BY <1>1, <1>3 DEF Alone, Held
<1>12. Unread'
  BY <1>1, <1>3, <1>5, <1>9 DEF Answers, Unread
<1>13. AtWork'
  BY <1>1, <1>3, <1>6, <1>7, <1>8, <1>9 DEF Answers, AtWork, PoolTypeOK
<1>14. Counting'
  <2>1. count[w] # 0 => count[w] > 0
    BY <1>3, KeepAliveAssumption DEF PoolTypeOK
  <2> QED
    BY <1>1, <1>3, <1>7, <1>8, <2>1 DEF Answers, Counting
<1>15. AnswersWhatWasAsked'
  BY <1>1, <1>3, <1>4, <1>6, <1>9 DEF Answers, AnswersWhatWasAsked, PoolTypeOK
<1> QED
  BY <1>10, <1>11, <1>12, <1>13, <1>14, <1>15 DEF PoolInv, Answers

LEMMA KeepAliveEndsStep ==
  ASSUME ServerInv, NEW w \in Workers, KeepAliveEnds(w)
  PROVE  PoolInv'
<1>1. /\ closing' = [closing EXCEPT ![w] = TRUE]
      /\ UNCHANGED <<key, reply, jobs, conn, serving, count, asked, wire, sent>>
  BY DEF KeepAliveEnds, vars, poolVars, clientVars
<1>2. PoolTypeOK /\ Alone /\ Held /\ Answers
  BY Types DEF PoolInv
<1>3. ~Busy(w) /\ \A v \in Workers : Busy(v)' <=> Busy(v)
  BY <1>1, WaitingIsIdle DEF KeepAliveEnds, Busy
<1>4. closing'[w] /\ \A v \in Workers \ {w} : closing'[v] = closing[v]
  BY <1>1, <1>2 DEF PoolTypeOK
<1>5. PoolTypeOK'
  BY <1>1, <1>2 DEF PoolTypeOK
<1>6. Alone' /\ Held' /\ Unread' /\ AnswersWhatWasAsked'
  BY <1>1, <1>2 DEF Alone, Held, Answers, Unread, AnswersWhatWasAsked
<1>7. AtWork' /\ Counting'
  BY <1>1, <1>2, <1>3, <1>4 DEF Answers, AtWork, Counting
<1> QED
  BY <1>5, <1>6, <1>7 DEF PoolInv, Answers

LEMMA CloseStep ==
  ASSUME ServerInv, NEW w \in Workers, Close(w)
  PROVE  PoolInv'
<1> DEFINE c == serving[w]
<1>1. /\ closing[w] /\ closing' = [closing EXCEPT ![w] = FALSE]
      /\ serving' = [serving EXCEPT ![w] = Nothing]
      /\ conn' = [conn EXCEPT ![c] = "closed"]
      /\ asked' = [asked EXCEPT ![c] = Nothing]
      /\ wire' = [wire EXCEPT ![c] = Nothing]
      /\ count' = [count EXCEPT ![w] = 0]
      /\ UNCHANGED <<key, reply, jobs, sent>>
  BY DEF Close, vars
<1>2. PoolTypeOK /\ Alone /\ Held /\ Answers
  BY Types DEF PoolInv
<1>3. /\ \A v \in Workers : Busy(v)' <=> Busy(v)
      /\ ~Busy(w) /\ key[w] = Nothing
  BY <1>1, <1>2 DEF Answers, AtWork, Busy
<1>4. \A v \in Workers \ {w} : serving[v] # c \/ serving[v] = Nothing
  BY <1>2 DEF Alone
<1>5. \A n \in DOMAIN jobs : jobs[n] # c
  BY <1>2 DEF Alone
<1>6. c \in Conns \union {Nothing}
  BY <1>2 DEF PoolTypeOK
<1> HIDE DEF c
<1>7. \A v \in Workers \ {w} : /\ serving'[v] = serving[v] /\ closing'[v] = closing[v]
                               /\ count'[v] = count[v]
  BY <1>1, <1>2 DEF PoolTypeOK
<1>8. serving'[w] = Nothing
  BY <1>1, <1>2 DEF PoolTypeOK
<1>9. \A d \in Conns \ {c} : conn'[d] = conn[d] /\ asked'[d] = asked[d] /\ wire'[d] = wire[d]
  BY <1>1, <1>2 DEF PoolTypeOK
<1>10. c \in Conns => conn'[c] = "closed" /\ asked'[c] = Nothing /\ wire'[c] = Nothing
  BY <1>1, <1>2 DEF PoolTypeOK
<1>11. PoolTypeOK'
  <2>1. count' \in [Workers -> 0 .. KeepAliveMax]
    <3>1. 0 \in 0 .. KeepAliveMax /\ count \in [Workers -> 0 .. KeepAliveMax]
      BY <1>2, KeepAliveAssumption DEF PoolTypeOK
    <3> QED
      BY <1>1, <3>1
  <2>2. serving' \in [Workers -> Conns \union {Nothing}] /\ closing' \in [Workers -> BOOLEAN]
    BY <1>1, <1>2 DEF PoolTypeOK
  <2>3. conn' \in [Conns -> {"new", "open", "closed"}]
    BY <1>1, <1>2 DEF PoolTypeOK
  <2>4. /\ asked' \in [Conns -> Keys \union {Malformed, Nothing}]
        /\ wire' \in [Conns -> Keys \union {Malformed, Nothing}]
    BY <1>1, <1>2 DEF PoolTypeOK
  <2>5. jobs' \in Seq(Conns) /\ sent' \in 0 .. MaxRequests
    BY <1>1, <1>2 DEF PoolTypeOK
  <2> QED
    BY <2>1, <2>2, <2>3, <2>4, <2>5 DEF PoolTypeOK
<1>12. \A v \in Workers : serving'[v] # Nothing =>
          v # w /\ serving'[v] = serving[v] /\ serving[v] \in Conns \ {c}
  BY <1>2, <1>4, <1>7, <1>8 DEF PoolTypeOK
<1>13. Alone'
  <2>1. \A n \in DOMAIN jobs : jobs[n] \in Conns \ {c} /\ jobs[n] # Nothing
    BY <1>5, JobType, Types
  <2>2. \A u, v \in Workers : serving'[u] = serving'[v] /\ serving'[u] # Nothing => u = v
    BY <1>2, <1>12 DEF Alone
  <2>3. \A v \in Workers, n \in DOMAIN jobs : serving'[v] # jobs[n]
    BY <1>2, <1>12, <2>1 DEF Alone
  <2>4. \A v \in Workers : serving'[v] # Nothing => conn'[serving'[v]] # "new"
    BY <1>2, <1>9, <1>12 DEF Alone
  <2>5. \A n \in DOMAIN jobs : conn'[jobs[n]] # "new"
    BY <1>2, <1>9, <2>1 DEF Alone
  <2> QED
    BY <1>1, <1>2, <2>2, <2>3, <2>4, <2>5 DEF Alone
<1>14. Held'
  <2> SUFFICES ASSUME NEW d \in Conns, conn'[d] = "open"
               PROVE  \/ \E v \in Workers : serving'[v] = d
                      \/ \E n \in DOMAIN jobs : jobs[n] = d
    BY <1>1 DEF Held
  <2>1. d # c /\ conn[d] = "open"
    BY <1>9, <1>10
  <2>2. ASSUME NEW v \in Workers, serving[v] = d PROVE serving'[v] = d
    BY <1>7, <2>1, <2>2 DEF c
  <2> QED
    BY <1>2, <2>1, <2>2 DEF Held
<1>15. Unread'
  BY <1>2, <1>9, <1>10 DEF Answers, Unread
<1>16. AtWork'
  <2> SUFFICES ASSUME NEW v \in Workers, Busy(v)
               PROVE  /\ serving'[v] # Nothing /\ ~closing'[v]
                      /\ conn'[serving'[v]] = "open" =>
                           asked'[serving'[v]] # Nothing /\ wire'[serving'[v]] = Nothing
    BY <1>3 DEF AtWork
  <2>1. v # w /\ serving[v] # Nothing
    BY <1>2, <1>3 DEF Answers, AtWork
  <2>2. serving'[v] = serving[v] /\ serving[v] \in Conns \ {c} /\ closing'[v] = closing[v]
    BY <1>7, <1>12, <2>1
  <2> QED
    BY <1>2, <1>9, <2>1, <2>2 DEF Answers, AtWork
<1>17. Counting'
  BY <1>2, <1>3, <1>7, <1>8 DEF Answers, Counting
<1>18. AnswersWhatWasAsked'
  <2> SUFFICES ASSUME NEW v \in Workers, key[v] # Nothing
               PROVE  /\ serving'[v] # Nothing
                      /\ \/ asked'[serving'[v]] = key[v] /\ conn'[serving'[v]] = "open"
                         \/ asked'[serving'[v]] = Nothing /\ conn'[serving'[v]] = "closed"
    BY <1>1 DEF AnswersWhatWasAsked
  <2>1. v # w /\ serving[v] # Nothing
    BY <1>2, <1>3 DEF Answers, AnswersWhatWasAsked
  <2>2. serving'[v] = serving[v] /\ serving[v] \in Conns \ {c}
    BY <1>7, <1>12, <2>1
  <2> QED
    BY <1>2, <1>9, <2>1, <2>2 DEF Answers, AnswersWhatWasAsked
<1> QED
  BY <1>11, <1>13, <1>14, <1>15, <1>16, <1>17, <1>18 DEF PoolInv, Answers

LEMMA HandleStep ==
  ASSUME ServerInv, NEW w \in Workers, Handle(w)
  PROVE  PoolInv'
<1>1. UNCHANGED <<jobs, conn, serving, count, asked, wire, sent, closing>> /\ Work(w)
  BY DEF Handle, poolVars, clientVars
<1>2. PoolTypeOK /\ Alone /\ Held /\ Answers
  BY Types DEF PoolInv
<1>3. /\ key[w] # Nothing
      /\ \/ UNCHANGED <<key, reply>>
         \/ /\ key' = [key EXCEPT ![w] = Nothing]
            /\ \E r : r # NoReply /\ reply' = [reply EXCEPT ![w] = r]
  BY <1>1, WorkEffect, Types
<1>4. \A v \in Workers : key'[v] \in {key[v], Nothing} /\ (Busy(v)' <=> Busy(v))
  BY <1>3, Types DEF Busy
<1>5. PoolTypeOK' /\ Alone' /\ Held' /\ Unread'
  BY <1>1, <1>2 DEF PoolTypeOK, Alone, Held, Answers, Unread
<1>6. AtWork' /\ Counting' /\ AnswersWhatWasAsked'
  BY <1>1, <1>2, <1>4 DEF Answers, AtWork, Counting, AnswersWhatWasAsked
<1> QED
  BY <1>5, <1>6 DEF PoolInv, Answers

LEMMA CrashStep ==
  ASSUME ServerInv, ServerCrash
  PROVE  PoolInv'
<1>1. PoolTypeOK
  BY Types
<1>2. /\ jobs' = <<>> /\ sent' = sent
      /\ conn' = [c \in Conns |-> IF conn[c] = "new" THEN "new" ELSE "closed"]
      /\ asked' = [c \in Conns |-> Nothing] /\ wire' = [c \in Conns |-> Nothing]
      /\ serving' = [w \in Workers |-> Nothing] /\ count' = [w \in Workers |-> 0]
      /\ closing' = [w \in Workers |-> FALSE]
      /\ key' = [w \in Workers |-> Nothing] /\ reply' = [w \in Workers |-> NoReply]
  BY DEF ServerCrash, Crash
<1>3. jobs' \in Seq(Conns) /\ DOMAIN jobs' = {}
  BY <1>2
<1>4. PoolTypeOK'
  BY <1>1, <1>2, <1>3, KeepAliveAssumption DEF PoolTypeOK
<1>5. Alone' /\ Held'
  BY <1>2, <1>3 DEF Alone, Held
<1>6. Answers'
  BY <1>2 DEF Answers, Unread, AtWork, Counting, AnswersWhatWasAsked, Busy
<1> QED
  BY <1>4, <1>5, <1>6 DEF PoolInv

-----------------------------------------------------------------------------
(***************************************************************************)
(* The theorems.                                                           *)
(***************************************************************************)

LEMMA InitServerInv == ServerInit => ServerInv
<1> SUFFICES ASSUME ServerInit PROVE ServerInv
  OBVIOUS
<1>1. IInv
  BY InitIInv DEF ServerInit
<1>2. /\ jobs = <<>> /\ jobs \in Seq(Conns) /\ DOMAIN jobs = {} /\ sent = 0
      /\ conn = [c \in Conns |-> "new"]
      /\ asked = [c \in Conns |-> Nothing] /\ wire = [c \in Conns |-> Nothing]
      /\ serving = [w \in Workers |-> Nothing] /\ count = [w \in Workers |-> 0]
      /\ closing = [w \in Workers |-> FALSE]
      /\ key = [w \in Workers |-> Nothing] /\ reply = [w \in Workers |-> NoReply]
  BY DEF ServerInit, Init
<1>3. PoolTypeOK
  BY <1>2, KeepAliveAssumption, MaxRequestsAssumption DEF PoolTypeOK
<1>4. Alone /\ Held
  BY <1>2 DEF Alone, Held
<1>5. Answers
  BY <1>2 DEF Answers, Unread, AtWork, Counting, AnswersWhatWasAsked, Busy
<1> QED
  BY <1>1, <1>3, <1>4, <1>5, ServerInvParts DEF PoolInv

LEMMA NextServerInv == ServerInv /\ [ServerNext]_serverVars => ServerInv'
<1> SUFFICES ASSUME ServerInv, [ServerNext]_serverVars PROVE ServerInv'
  OBVIOUS
<1>1. IInv'
  BY StorageStep DEF ServerInv
<1>2. CASE UNCHANGED serverVars
  <2>1. PoolInv
    BY Types
  <2>2. UNCHANGED <<key, reply, jobs, conn, serving, count, asked, wire, sent, closing>>
    BY <1>2 DEF serverVars, vars, poolVars, clientVars
  <2>3. PoolInv'
    BY <2>1, <2>2
       DEF PoolInv, PoolTypeOK, Alone, Held, Answers, Unread, AtWork, Counting, Busy,
           AnswersWhatWasAsked
  <2> QED
    BY <1>1, <2>3 DEF PoolInv, ServerInv, PoolTypeOK, ServerTypeOK, Answers, IInv
<1>3. CASE ServerNext
  <2>1. PoolInv'
    BY <1>3, ConnectStep, GiveUpStep, SendStep, DequeueStep, ReadRequestStep, ReadFailsStep,
       WriteResponseStep, KeepAliveEndsStep, CloseStep, HandleStep, CrashStep
       DEF ServerNext, Thread
  <2> QED
    BY <1>1, <2>1 DEF PoolInv, ServerInv, PoolTypeOK, ServerTypeOK, Answers, IInv
<1> QED
  BY <1>2, <1>3

LEMMA ServerInvariance == ServerSpec => []ServerInv
BY InitServerInv, NextServerInv, PTL DEF ServerSpec

\* Every variable of the server keeps its type; in particular no thread reads
\* more requests on a connection than keep-alive allows.
THEOREM ServerTypeCorrectness == ServerSpec => []ServerTypeOK
<1>1. ServerInv => ServerTypeOK
  BY DEF ServerInv
<1> QED
  BY <1>1, ServerInvariance, PTL

\* Every connection that has been accepted and not closed is in the queue or
\* with a thread, and in one place only.
THEOREM OneHolder == ServerSpec => []EveryConnectionHasOneHolder
<1>1. ServerInv => EveryConnectionHasOneHolder
  <2> SUFFICES ASSUME ServerInv, NEW c \in Conns
               PROVE  /\ Cardinality(Holders(c)) + Cardinality(Queued(c)) <= 1
                      /\ conn[c] = "open" => Holders(c) # {} \/ Queued(c) # {}
    BY DEF EveryConnectionHasOneHolder
  <2>1. Alone /\ Held /\ c # Nothing
    BY ConnsAssumption DEF ServerInv
  <2>2. conn[c] = "open" => Holders(c) # {} \/ Queued(c) # {}
    BY <2>1 DEF Held, Holders, Queued
  <2>3. Holders(c) = {} \/ Queued(c) = {}
    BY <2>1 DEF Alone, Holders, Queued
  <2>4. Holders(c) = {} \/ \E w : Holders(c) = {w}
    BY <2>1 DEF Alone, Holders
  <2>5. Queued(c) = {} \/ \E n : Queued(c) = {n}
    BY <2>1 DEF Alone, Queued
  <2>6. Cardinality({}) = 0 /\ \A x : Cardinality({x}) = 1
    BY FS_EmptySet, FS_Singleton
  <2>7. Cardinality(Holders(c)) + Cardinality(Queued(c)) <= 1
    <3>1. \/ Cardinality(Holders(c)) = 0
          \/ Cardinality(Holders(c)) = 1
      BY <2>4, <2>6, Zenon
    <3>2. \/ Cardinality(Queued(c)) = 0
          \/ Cardinality(Queued(c)) = 1
      BY <2>5, <2>6, Zenon
    <3>3. Cardinality(Holders(c)) = 0 \/ Cardinality(Queued(c)) = 0
      BY <2>3, <2>6, Zenon
    <3> QED
      BY <3>1, <3>2, <3>3
  <2> QED
    BY <2>2, <2>7
<1> QED
  BY <1>1, ServerInvariance, PTL

\* A thread works on the request that the client at the other end waits for,
\* unless that client has gone.
THEOREM AnswersTheClient == ServerSpec => []AnswersWhatWasAsked
<1>1. ServerInv => AnswersWhatWasAsked
  BY DEF ServerInv
<1> QED
  BY <1>1, ServerInvariance, PTL

\* Whatever clients, queue and keep-alive do, the storage below the server
\* serialises its downloads, judges what it has itself downloaded, and publishes
\* nothing that is not valid.
THEOREM StorageIsSafeBelow ==
  ServerSpec => [](DownloadsSerialised /\ ValidatesOwnDownload /\ PublishedIsValid)
<1>1. ServerInv => DownloadsSerialised /\ ValidatesOwnDownload /\ PublishedIsValid
  BY DEF ServerInv, IInv
<1> QED
  BY <1>1, ServerInvariance, PTL

-----------------------------------------------------------------------------
(***************************************************************************)
(* QueryServer implements QueryService.                                    *)
(***************************************************************************)

\* A file that is mapped is valid for the request that maps it, also after
\* another file has taken its name.
ViewIsValid ==
  \A w \in Workers : view[w] # Nothing => CanPass(key[w], data[view[w]])

\* A mapping a thread has after a step is the one it had, for the same request,
\* or that of the file which now has the name.
LEMMA ViewAfterStep ==
  ASSUME IInv, [Next]_vars, NEW w \in Workers, view'[w] # Nothing
  PROVE  \/ view'[w] = view[w] /\ key'[w] = key[w]
         \/ /\ view'[w] = pub[Asked(w)] /\ pub[Asked(w)] # Nothing
            /\ pc[w] = "open" /\ UNCHANGED <<key, data>>
<1>1. TypeOK /\ BusyInv /\ ViewInv
  BY DEF IInv
<1>2. ASSUME NEW v \in Workers, NEW r, Finish(v, r)
      PROVE  view'[w] = view[w] /\ key'[w] = key[w]
  BY <1>1, <1>2 DEF Finish, TypeOK
<1>3. ASSUME NEW v \in Workers, NEW k \in Keys, Request(v, k)
      PROVE  view'[w] = view[w] /\ key'[w] = key[w]
  BY <1>1, <1>3 DEF Request, TypeOK, ViewInv
<1>4. ASSUME NEW v \in Workers, Open(v), ~Finish(v, Failure)
      PROVE  \/ view'[w] = view[w] /\ key'[w] = key[w]
             \/ /\ view'[w] = pub[Asked(w)] /\ pub[Asked(w)] # Nothing
                /\ pc[w] = "open" /\ UNCHANGED <<key, data>>
  BY <1>1, <1>4 DEF Open, TypeOK
<1>5. ASSUME NEW v \in Workers, Work(v), ~\E r : Finish(v, r), ~Open(v)
      PROVE  view' = view /\ key' = key
  BY <1>5 DEF Work, Lookup, Lock, Get, Create, Write, Validate, Rename, RenameFails, Query
<1>6. CASE Crash
  BY <1>6 DEF Crash
<1>7. CASE UNCHANGED vars
  BY <1>7 DEF vars
<1> QED
  BY <1>2, <1>3, <1>4, <1>5, <1>6, <1>7 DEF Next

LEMMA StepViewIsValid ==
  ASSUME IInv, ViewIsValid, [Next]_vars
  PROVE  ViewIsValid'
<1> SUFFICES ASSUME NEW w \in Workers, view'[w] # Nothing
             PROVE  CanPass(key'[w], data'[view'[w]])
  BY DEF ViewIsValid
<1>1. CASE view'[w] = view[w] /\ key'[w] = key[w]
  <2>1. data'[view[w]] = data[view[w]]
    BY <1>1, SameContents
  <2> QED
    BY <1>1, <2>1 DEF ViewIsValid
<1>2. CASE /\ view'[w] = pub[Asked(w)] /\ pub[Asked(w)] # Nothing
           /\ pc[w] = "open" /\ UNCHANGED <<key, data>>
  <2>1. key[w] \in Keys /\ Asked(w) \in Paths
    BY <1>2, AskedIsPath DEF IInv
  <2>2. CanPass(Asked(w), data[pub[Asked(w)]]) /\ data[pub[Asked(w)]] \in Contents
    BY <1>2, <2>1 DEF IInv, PublishedIsValid, TypeOK
  <2> QED
    BY <1>2, <2>1, <2>2, PathOfKey DEF Asked
<1> QED
  BY <1>1, <1>2, ViewAfterStep

LEMMA ServerViewIsValid ==
  ASSUME ServerInv, ViewIsValid, [ServerNext]_serverVars
  PROVE  ViewIsValid'
<1>1. IInv
  BY DEF ServerInv
<1>2. CASE UNCHANGED <<key, data, view>>
  BY <1>2 DEF ViewIsValid
<1>3. CASE [Next]_vars
  BY <1>1, <1>3, StepViewIsValid
<1>4. ASSUME NEW w \in Workers, ReadRequest(w) PROVE ViewIsValid'
  <2>1. CASE wire[serving[w]] \in Keys /\ Request(w, wire[serving[w]])
    BY <1>3, <2>1 DEF Next
  <2> QED
    BY <1>2, <1>4, <2>1 DEF ReadRequest
<1>5. ASSUME NEW w \in Workers, WriteResponse(w) \/ ReadFails(w) PROVE ViewIsValid'
  BY <1>2, <1>5 DEF WriteResponse, ReadFails
<1>6. ASSUME NEW w \in Workers, Handle(w) PROVE ViewIsValid'
  BY <1>3, <1>6 DEF Handle, Next
<1>7. CASE ServerCrash
  BY <1>3, <1>7 DEF ServerCrash, Next
<1>8. CASE \E c \in Conns : Connect(c) \/ GiveUp(c) \/ \E r \in Keys \union {Malformed} : Send(c, r)
  BY <1>3, <1>8 DEF Connect, GiveUp, Send
<1>9. ASSUME NEW w \in Workers, Dequeue(w) \/ KeepAliveEnds(w) \/ Close(w) PROVE ViewIsValid'
  BY <1>3, <1>9 DEF Dequeue, KeepAliveEnds, Close
<1>10. CASE UNCHANGED serverVars
  BY <1>3, <1>10 DEF serverVars
<1> QED
  BY <1>4, <1>5, <1>6, <1>7, <1>8, <1>9, <1>10 DEF ServerNext, Thread

\* A thread that works on a request has no response yet.
Unanswered == \A w \in Workers : key[w] # Nothing => reply[w] = NoReply

LEMMA ServerUnanswered ==
  ASSUME ServerInv, Unanswered, [ServerNext]_serverVars
  PROVE  Unanswered'
<1>1. key \in [Workers -> Keys \union {Nothing}] /\ reply \in [Workers -> Replies]
  BY Types
<1>2. CASE UNCHANGED <<key, reply>>
  BY <1>2 DEF Unanswered
<1>3. ASSUME NEW w \in Workers, ReadRequest(w) PROVE Unanswered'
  <2>1. key[w] = Nothing
    BY <1>3, WaitingIsIdle DEF ReadRequest
  <2>2. CASE Request(w, wire[serving[w]])
    BY <1>1, <2>2 DEF Request, Unanswered
  <2>3. CASE reply' = [reply EXCEPT ![w] = Failure] /\ UNCHANGED key
    BY <1>1, <2>1, <2>3 DEF Unanswered
  <2> QED
    BY <1>3, <2>2, <2>3 DEF ReadRequest
<1>4. ASSUME NEW w \in Workers, WriteResponse(w) \/ ReadFails(w) PROVE Unanswered'
  <2>1. CASE WriteResponse(w)
    BY <1>1, <2>1 DEF WriteResponse, Unanswered
  <2>2. CASE ReadFails(w)
    <3>1. key[w] = Nothing /\ UNCHANGED key
      BY <2>2, WaitingIsIdle DEF ReadFails
    <3>2. reply' = reply \/ reply' = [reply EXCEPT ![w] = Failure]
      BY <2>2 DEF ReadFails
    <3> QED
      BY <1>1, <3>1, <3>2 DEF Unanswered
  <2> QED
    BY <1>4, <2>1, <2>2
<1>5. ASSUME NEW w \in Workers, Handle(w) PROVE Unanswered'
  <2>1. \/ UNCHANGED <<key, reply>>
        \/ /\ key' = [key EXCEPT ![w] = Nothing]
           /\ \E r : reply' = [reply EXCEPT ![w] = r]
    BY <1>5, WorkEffect, Types DEF Handle
  <2> QED
    BY <1>1, <2>1 DEF Unanswered
<1>6. CASE ServerCrash
  BY <1>6 DEF ServerCrash, Crash, Unanswered
<1>7. CASE \E c \in Conns : Connect(c) \/ GiveUp(c) \/ \E r \in Keys \union {Malformed} : Send(c, r)
  BY <1>2, <1>7 DEF Connect, GiveUp, Send, vars
<1>8. ASSUME NEW w \in Workers, Dequeue(w) \/ KeepAliveEnds(w) \/ Close(w) PROVE Unanswered'
  BY <1>2, <1>8 DEF Dequeue, KeepAliveEnds, Close, vars
<1>9. CASE UNCHANGED serverVars
  BY <1>2, <1>9 DEF serverVars, vars
<1> QED
  BY <1>3, <1>4, <1>5, <1>6, <1>7, <1>8, <1>9 DEF ServerNext, Thread

\* The response under way on a connection is that of the thread that holds it.
HolderAnswers ==
  \A c \in Conns :
    /\ \A w \in Workers : serving[w] = c => Answering[c] = reply[w]
    /\ (\A w \in Workers : serving[w] # c) => Answering[c] = NoReply

LEMMA AnsweringIsOfHolder == Alone => HolderAnswers
<1> SUFFICES ASSUME Alone, NEW c \in Conns
             PROVE  /\ \A w \in Workers : serving[w] = c => Answering[c] = reply[w]
                    /\ (\A w \in Workers : serving[w] # c) => Answering[c] = NoReply
  BY DEF HolderAnswers
<1>1. ASSUME NEW w \in Workers, serving[w] = c
      PROVE  Answering[c] = reply[w]
  <2>1. Holders(c) = {w}
    BY <1>1, ConnsAssumption DEF Alone, Holders
  <2>2. (CHOOSE v \in Holders(c) : TRUE) = w
    BY <2>1
  <2> QED
    BY <1>1, <2>1, <2>2 DEF Answering
<1>2. ASSUME \A w \in Workers : serving[w] # c
      PROVE  Answering[c] = NoReply
  BY <1>2 DEF Answering, Holders
<1> QED
  BY <1>1, <1>2

LEMMA AnsweringIsOfHolderNext == Alone' => HolderAnswers'
BY AnsweringIsOfHolder, PTL

\* A step after which the threads answer as before is none of the client's.
LEMMA SameAnswers ==
  ASSUME ServerInv, ServerInv',
         \A w \in Workers : \/ serving'[w] = serving[w] /\ reply'[w] = reply[w]
                            \/ reply[w] = NoReply /\ reply'[w] = NoReply
  PROVE  Answering' = Answering
<1>1. HolderAnswers /\ HolderAnswers'
  BY AnsweringIsOfHolder, AnsweringIsOfHolderNext DEF ServerInv
<1>2. ASSUME NEW c \in Conns PROVE Answering'[c] = Answering[c]
  <2>1. CASE \E w \in Workers : serving[w] = c /\ serving'[w] = c
    BY <1>1, <2>1 DEF HolderAnswers
  <2>2. CASE ~\E w \in Workers : serving[w] = c /\ serving'[w] = c
    <3>1. \A w \in Workers : serving[w] = c => reply[w] = NoReply
      BY <2>2
    <3>2. \A w \in Workers : serving'[w] = c => reply'[w] = NoReply
      BY <2>2
    <3>3. Answering[c] = NoReply
      BY <1>1, <3>1 DEF HolderAnswers
    <3>4. Answering'[c] = NoReply
      BY <1>1, <3>2 DEF HolderAnswers
    <3> QED
      BY <3>3, <3>4
  <2> QED
    BY <2>1, <2>2
<1> QED
  BY <1>2 DEF Answering

\* A step that changes the answer of one thread changes that of its connection.
LEMMA OneAnswerChanges ==
  ASSUME ServerInv, ServerInv', NEW w \in Workers, serving[w] \in Conns,
         serving' = serving, NEW r, reply' = [reply EXCEPT ![w] = r]
  PROVE  /\ Answering[serving[w]] = reply[w]
         /\ Answering' = [Answering EXCEPT ![serving[w]] = r]
<1>1. HolderAnswers /\ HolderAnswers'
  BY AnsweringIsOfHolder, AnsweringIsOfHolderNext DEF ServerInv
<1>2. reply'[w] = r /\ \A v \in Workers \ {w} : reply'[v] = reply[v]
  BY Types
<1>3. Answering[serving[w]] = reply[w] /\ Answering'[serving[w]] = r
  BY <1>1, <1>2 DEF HolderAnswers
<1>4. ASSUME NEW c \in Conns, c # serving[w] PROVE Answering'[c] = Answering[c]
  <2>1. CASE \E v \in Workers : serving[v] = c
    BY <1>1, <1>2, <1>4, <2>1 DEF HolderAnswers
  <2>2. CASE \A v \in Workers : serving[v] # c
    BY <1>1, <2>2 DEF HolderAnswers
  <2> QED
    BY <2>1, <2>2
<1> QED
  BY <1>3, <1>4 DEF Answering

LEMMA InitServes == ServerInit => Service!ServiceInit
<1> SUFFICES ASSUME ServerInit PROVE Service!ServiceInit
  OBVIOUS
<1>1. /\ conn = [c \in Conns |-> "new"] /\ asked = [c \in Conns |-> Nothing]
      /\ serving = [w \in Workers |-> Nothing]
  BY DEF ServerInit
<1>2. Answering = [c \in Conns |-> NoReply]
  BY <1>1, ConnsAssumption DEF Answering, Holders
<1> QED
  BY <1>1, <1>2 DEF Service!ServiceInit, Service!NoReply, NoReply

\* A response is only ever on its way on a connection, made and not being closed.
LEMMA RepliesHaveClients ==
  ASSUME ServerInv, NEW w \in Workers
  PROVE  /\ serving[w] \in Conns \union {Nothing}
         /\ reply[w] # NoReply => serving[w] # Nothing /\ ~closing[w]
BY DEF ServerInv, ServerTypeOK, AtWork, Busy

\* A thread that settles its response settles that of its connection.
LEMMA SettlesAnswer ==
  ASSUME ServerInv, ServerInv', NEW w \in Workers, NEW r,
         serving[w] \in Conns, reply[w] = NoReply,
         reply' = [reply EXCEPT ![w] = r], UNCHANGED <<conn, asked, serving>>,
         r \in {Failure} \union {Success(x) : x \in Contents},
         conn[serving[w]] = "open" => /\ asked[serving[w]] # Nothing
                                      /\ r \in Service!Answers(asked[serving[w]])
  PROVE  Service!ServiceNext
<1> DEFINE c == serving[w]
<1>1. Answering[c] = NoReply /\ Answering' = [Answering EXCEPT ![c] = r]
  BY OneAnswerChanges
<1>2. conn[c] \in {"open", "closed"}
  BY ConnsAssumption DEF ServerInv, ServerTypeOK, Alone
<1>3. Service!Answer(c, r)
  BY <1>1, <1>2 DEF Service!Answer, Service!NoReply, NoReply
<1>4. r \in {Service!Failure} \union {Service!Success(x) : x \in Contents}
  BY DEF Service!Failure, Service!Success, Failure, Success
<1> HIDE DEF c
<1>5. c \in Conns
  BY DEF c
<1> QED
  BY <1>3, <1>4, <1>5 DEF Service!ServiceNext

LEMMA ReadRequestServes ==
  ASSUME ServerInv, ServerInv', NEW w \in Workers, ReadRequest(w)
  PROVE  Service!ServiceNext \/ UNCHANGED Service!serviceVars
<1> DEFINE c == serving[w]
<1>1. /\ Waiting(w) /\ wire[c] # Nothing /\ UNCHANGED <<conn, asked, serving>>
      /\ reply[w] = NoReply
  BY DEF ReadRequest, Waiting
<1>2. c \in Conns
  BY <1>1, WaitingIsIdle
<1>3. CASE Request(w, wire[c])
  <2>1. reply'[w] = NoReply /\ \A v \in Workers \ {w} : reply'[v] = reply[v]
    BY <1>3, Types DEF Request
  <2>2. Answering' = Answering
    BY <1>1, <2>1, SameAnswers
  <2> QED
    BY <1>1, <2>2 DEF Service!serviceVars
<1>4. CASE wire[c] = Malformed /\ reply' = [reply EXCEPT ![w] = Failure]
  <2>1. conn[c] = "open" => asked[c] # Nothing
    BY <1>1, <1>2 DEF ServerInv, Unread
  <2>2. Failure \in Service!Answers(asked[c])
    BY DEF Service!Answers, Service!Failure, Failure
  <2> QED
    BY <1>1, <1>2, <1>4, <2>1, <2>2, SettlesAnswer
<1> QED
  BY <1>3, <1>4 DEF ReadRequest

LEMMA ReadFailsServes ==
  ASSUME ServerInv, ServerInv', NEW w \in Workers, ReadFails(w)
  PROVE  Service!ServiceNext \/ UNCHANGED Service!serviceVars
<1> DEFINE c == serving[w]
<1>1. /\ Waiting(w) /\ wire[c] # Nothing /\ UNCHANGED <<conn, asked, serving>>
      /\ reply[w] = NoReply
  BY DEF ReadFails, Waiting
<1>2. c \in Conns
  BY <1>1, WaitingIsIdle
<1>3. CASE UNCHANGED reply
  BY <1>1, <1>3, SameAnswers DEF Service!serviceVars
<1>4. CASE reply' = [reply EXCEPT ![w] = Failure]
  <2>1. conn[c] = "open" => asked[c] # Nothing
    BY <1>1, <1>2 DEF ServerInv, Unread
  <2>2. Failure \in Service!Answers(asked[c])
    BY DEF Service!Answers, Service!Failure, Failure
  <2> QED
    BY <1>1, <1>2, <1>4, <2>1, <2>2, SettlesAnswer
<1> QED
  BY <1>3, <1>4 DEF ReadFails

LEMMA WriteResponseServes ==
  ASSUME ServerInv, ServerInv', NEW w \in Workers, WriteResponse(w)
  PROVE  Service!ServiceNext
<1> DEFINE c == serving[w]
<1>1. /\ reply[w] # NoReply /\ reply' = [reply EXCEPT ![w] = NoReply]
      /\ asked' = [asked EXCEPT ![c] = Nothing] /\ UNCHANGED <<conn, serving>>
  BY DEF WriteResponse, poolVars
<1>2. c \in Conns
  BY <1>1, RepliesHaveClients
<1>3. Answering[c] = reply[w] /\ Answering' = [Answering EXCEPT ![c] = NoReply]
  BY <1>1, <1>2, OneAnswerChanges
<1>4. Service!Deliver(c)
  BY <1>1, <1>3 DEF Service!Deliver, Service!NoReply, NoReply
<1> QED
  BY <1>2, <1>4 DEF Service!ServiceNext

LEMMA CloseServes ==
  ASSUME ServerInv, ServerInv', NEW w \in Workers, Close(w)
  PROVE  Service!ServiceNext \/ UNCHANGED Service!serviceVars
<1> DEFINE c == serving[w]
<1>1. /\ closing[w] /\ serving' = [serving EXCEPT ![w] = Nothing]
      /\ conn' = [conn EXCEPT ![c] = "closed"]
      /\ asked' = [asked EXCEPT ![c] = Nothing] /\ UNCHANGED reply
  BY DEF Close, vars
<1>2. reply[w] = NoReply
  BY <1>1, RepliesHaveClients
<1>3. Answering' = Answering
  <2>1. \A v \in Workers \ {w} : serving'[v] = serving[v]
    BY <1>1 DEF ServerInv, ServerTypeOK
  <2> QED
    BY <1>1, <1>2, <2>1, SameAnswers
<1>4. CASE c \in Conns
  <2>1. conn[c] # "new"
    BY <1>4, ConnsAssumption DEF ServerInv, Alone
  <2>2. Answering[c] = NoReply
    BY <1>2, <1>4, AnsweringIsOfHolder DEF ServerInv, HolderAnswers
  <2>3. Service!HangUp(c)
    BY <1>1, <1>3, <2>1, <2>2 DEF Service!HangUp, Service!NoReply, NoReply
  <2> QED
    BY <1>4, <2>3 DEF Service!ServiceNext
<1>5. CASE c = Nothing
  <2>1. conn' = conn /\ asked' = asked
    BY <1>1, <1>5, ConnsAssumption DEF ServerInv, ServerTypeOK
  <2> QED
    BY <1>3, <2>1 DEF Service!serviceVars
<1> QED
  BY <1>4, <1>5, RepliesHaveClients

\* A handler that ends has failed, or has read a file that is valid for its key.
LEMMA WorkEnds ==
  ASSUME IInv, ViewIsValid, NEW w \in Workers, Work(w)
  PROVE  \/ UNCHANGED reply
         \/ \E r \in Service!Answers(key[w]) : reply' = [reply EXCEPT ![w] = r]
<1>1. Failure \in Service!Answers(key[w])
  BY DEF Service!Answers, Service!Failure, Failure
<1>2. CASE Finish(w, Failure)
  BY <1>1, <1>2 DEF Finish
<1>3. CASE pc[w] = "query" /\ Finish(w, Success(data[view[w]]))
  <2>1. view[w] # Nothing /\ CanPass(key[w], data[view[w]]) /\ data[view[w]] \in Contents
    BY <1>3 DEF IInv, ViewInv, TypeOK, ViewIsValid
  <2>2. key[w] \in Keys
    BY <1>3, AskedIsPath DEF IInv
  <2>3. Success(data[view[w]]) \in Service!Answers(key[w])
    BY <2>1, <2>2 DEF Service!Answers, Service!Success, Success
  <2> QED
    BY <1>3, <2>3 DEF Finish
<1> QED
  BY <1>2, <1>3
     DEF Work, Lookup, Lock, Get, Create, Write, Validate, Rename, RenameFails, Open, Query

LEMMA AnswersAreReplies ==
  ASSUME NEW q
  PROVE  \A r \in Service!Answers(q) : r \in {Failure} \union {Success(x) : x \in Contents}
<1> SUFFICES ASSUME NEW r \in Service!Answers(q)
             PROVE  r \in {Failure} \union {Success(x) : x \in Contents}
  OBVIOUS
<1>1. /\ Service!Failure = Failure
      /\ \A x : Service!Success(x) = Success(x)
  BY DEF Service!Failure, Service!Success, Failure, Success
<1>2. r = Service!Failure \/ \E x \in Contents : r = Service!Success(x)
  BY Zenon DEF Service!Answers
<1> QED
  BY <1>1, <1>2

LEMMA HandleServes ==
  ASSUME ServerInv, ServerInv', ViewIsValid, Unanswered, NEW w \in Workers, Handle(w)
  PROVE  Service!ServiceNext \/ UNCHANGED Service!serviceVars
<1> DEFINE c == serving[w]
<1>1. Work(w) /\ UNCHANGED <<conn, asked, serving>>
  BY DEF Handle, poolVars, clientVars
<1>2. key[w] # Nothing /\ pc[w] # "idle"
  BY <1>1, WorkEffect, Types DEF BusyInv
<1>3. c \in Conns /\ (conn[c] = "open" => asked[c] = key[w] /\ asked[c] # Nothing)
  BY <1>2, RepliesHaveClients DEF ServerInv, AnswersWhatWasAsked
<1>4. CASE UNCHANGED reply
  BY <1>1, <1>4, SameAnswers DEF Service!serviceVars
<1>5. CASE \E r \in Service!Answers(key[w]) : reply' = [reply EXCEPT ![w] = r]
  <2>1. PICK r \in Service!Answers(key[w]) : reply' = [reply EXCEPT ![w] = r]
    BY <1>5
  <2>2. reply[w] = NoReply
    BY <1>2 DEF Unanswered
  <2> QED
    BY <1>1, <1>3, <2>1, <2>2, SettlesAnswer, AnswersAreReplies
<1> QED
  BY <1>1, <1>4, <1>5, WorkEnds DEF ServerInv

LEMMA ServerCrashRestarts ==
  ASSUME ServerInv', ServerCrash
  PROVE  Service!Restart
<1>1. /\ conn' = [c \in Conns |-> IF conn[c] = "new" THEN "new" ELSE "closed"]
      /\ asked' = [c \in Conns |-> Nothing]
      /\ serving' = [w \in Workers |-> Nothing]
  BY DEF ServerCrash
<1>2. Answering' = [c \in Conns |-> NoReply]
  BY <1>1, ConnsAssumption DEF Answering, Holders
<1> QED
  BY <1>1, <1>2 DEF Service!Restart, Service!NoReply, NoReply

\* What clients do, and what threads do without an answer.
LEMMA ClientServes ==
  ASSUME ServerInv, ServerInv', NEW c \in Conns,
         Connect(c) \/ GiveUp(c) \/ \E r \in Keys \union {Malformed} : Send(c, r)
  PROVE  Service!ServiceNext
<1>1. UNCHANGED <<reply, serving>>
  BY DEF Connect, GiveUp, Send, vars, poolVars
<1>2. Answering' = Answering
  BY <1>1, SameAnswers
<1>3. CASE Connect(c)
  BY <1>2, <1>3 DEF Connect, clientVars, Service!Arrive, Service!ServiceNext
<1>4. CASE GiveUp(c)
  BY <1>2, <1>4 DEF GiveUp, Service!Leave, Service!ServiceNext
<1>5. ASSUME NEW r \in Keys \union {Malformed}, Send(c, r) PROVE Service!ServiceNext
  BY <1>2, <1>5 DEF Send, poolVars, Service!Ask, Service!ServiceNext
<1> QED
  BY <1>3, <1>4, <1>5

LEMMA QueueServes ==
  ASSUME ServerInv, ServerInv', NEW w \in Workers, Dequeue(w) \/ KeepAliveEnds(w)
  PROVE  UNCHANGED Service!serviceVars
<1>1. UNCHANGED <<conn, asked, reply>>
  BY DEF Dequeue, KeepAliveEnds, vars, poolVars, clientVars
<1>2. \A v \in Workers : serving'[v] = serving[v] \/ reply[v] = NoReply
  <2>1. CASE Dequeue(w)
    <3>1. serving[w] = Nothing /\ \A v \in Workers \ {w} : serving'[v] = serving[v]
      BY <2>1 DEF Dequeue, ServerInv, ServerTypeOK
    <3> QED
      BY <3>1, RepliesHaveClients
  <2>2. CASE KeepAliveEnds(w)
    BY <2>2 DEF KeepAliveEnds, poolVars
  <2> QED
    BY <2>1, <2>2
<1>3. Answering' = Answering
  BY <1>1, <1>2, SameAnswers
<1> QED
  BY <1>1, <1>3 DEF Service!serviceVars

\* Every step of the server is a step of QueryService or a stutter of it.
LEMMA StepServes ==
  ASSUME ServerInv, ServerInv', ViewIsValid, Unanswered, [ServerNext]_serverVars
  PROVE  [Service!ServiceNext]_(Service!serviceVars)
<1>1. CASE UNCHANGED serverVars
  BY <1>1, SameAnswers DEF serverVars, vars, poolVars, clientVars, Service!serviceVars
<1>2. ASSUME NEW w \in Workers, Thread(w)
      PROVE  Service!ServiceNext \/ UNCHANGED Service!serviceVars
  BY <1>2, QueueServes, ReadRequestServes, ReadFailsServes, WriteResponseServes,
     CloseServes, HandleServes
     DEF Thread
<1>3. CASE ServerCrash
  BY <1>3, ServerCrashRestarts DEF Service!ServiceNext
<1> QED
  BY <1>1, <1>2, <1>3, ClientServes DEF ServerNext

\* A file that a thread reads is valid for the request it answers, and a
\* request is answered once.
LEMMA ServedInvariance == ServerSpec => [](ViewIsValid /\ Unanswered)
<1>1. ServerInit => ViewIsValid /\ Unanswered
  BY DEF ServerInit, Init, ViewIsValid, Unanswered
<1>2. ServerInv /\ ViewIsValid /\ Unanswered /\ [ServerNext]_serverVars
        => (ViewIsValid /\ Unanswered)'
  BY ServerViewIsValid, ServerUnanswered
<1> QED
  BY <1>1, <1>2, ServerInvariance, PTL DEF ServerSpec

\* The server keeps the promises of QueryService: a request is answered once at
\* most, and a client that waits gets the failure or an answer from a file that
\* is valid for what it asked, never the answer to another request.
THEOREM ServiceRefinement == ServerSpec => ImplementsQueryService
<1>1. ServerInv /\ ServerInv' /\ ViewIsValid /\ Unanswered /\ [ServerNext]_serverVars
        => [Service!ServiceNext]_(Service!serviceVars)
  BY StepServes
<1> QED
  BY <1>1, InitServes, ServerInvariance, ServedInvariance, PTL
     DEF ServerSpec, ImplementsQueryService, Service!ServiceSpec

=============================================================================
