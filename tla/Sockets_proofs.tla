---------------------------- MODULE Sockets_proofs ----------------------------
(***************************************************************************)
(* Proofs about the sockets of module Sockets.                             *)
(***************************************************************************)
EXTENDS Sockets, TLAPS

\* What a thread knows about its call, wherever it is in it.
Proper(r) ==
  /\ r.pc # "idle" =>
       r.call \in DOMAIN Requests /\ r.step \in 1 .. Len(Requests[r.call])
  /\ r.pc # "idle" /\ r.call \notin DOMAIN Creations => r.fd \in Descriptors
  /\ r.pc \in {"issue", "wait", "result", "index", "increment", "store"} =>
       r.sock \in Pool
  /\ r.pc = "reset" => r.call \notin DOMAIN Creations
  /\ r.pc \in {"index", "increment", "store"} =>
       r.call \in DOMAIN Creations \union {"accept"}
  /\ r.pc = "store" => r.fd \in Descriptors
  /\ r.pc = "clear" => r.call = "closesocket" /\ r.sock = NULL

Shape == TypeOK /\ \A t \in Threads : Proper(th[t])

-----------------------------------------------------------------------------

\* Every call asks the provider for something, once or twice.
LEMMA RequestsType ==
  \A call \in DOMAIN Requests :
    /\ 1 \in 1 .. Len(Requests[call]) /\ Len(Requests[call]) \in {1, 2}
    /\ \A n \in 1 .. Len(Requests[call]) : Requests[call][n] \in AllRequests
<1>1. \A call \in DOMAIN Requests :
        /\ Len(Requests[call]) \in 1 .. 2
        /\ \A n \in 1 .. Len(Requests[call]) : Requests[call][n] \in AllRequests
  BY DEF Requests, AllRequests
<1>2. \A n \in 1 .. 2 : 1 \in 1 .. n /\ n \in {1, 2}
  OBVIOUS
<1> QED
  BY <1>1, <1>2, Zenon

\* A call on a descriptor is one of those, and makes no socket.
LEMMA CallsType ==
  /\ \A kind \in Kinds : Calls[kind] \subseteq DOMAIN Requests \ DOMAIN Creations
  /\ DOMAIN Creations \subseteq DOMAIN Requests
  /\ \A call \in DOMAIN Creations : Creations[call] \in Kinds
  /\ {"accept", "closesocket"} \subseteq DOMAIN Requests \ DOMAIN Creations
BY DEF Kinds, Calls, Requests, Creations

Thread == [pc : {"idle", "reset", "issue", "wait", "result", "index", "increment",
                "store", "clear"},
           call : DOMAIN Requests \union {"none"}, kind : Kinds, step : 1 .. 2,
           fd : 0 .. SOCKETFD_MAX, sock : Pool \union {NULL}, ok : BOOLEAN,
           index : 0 .. SOCKETFD_MAX - 1]

Block == [irp : {"free", "missing", "idle", "pending", "done"}, ok : BOOLEAN,
          request : AllRequests \union {"none"}, event : BOOLEAN]

Descriptor == [by : Threads, fd : Descriptors, sock : Pool, kind : Kinds,
               newer : 0 .. SOCKETFD_MAX]

LEMMA IdleType == Idle \in Thread
BY RingAssumption DEF Idle, Thread, Kinds

LEMMA BlockType == Free \in Block /\ Allocated \in Block /\ NoIrp \in Block
<1>1. Free \in Block
  BY DEF Free, Block
<1>2. Allocated \in Block
  BY DEF Free, Block, Allocated
<1>3. NoIrp \in Block
  BY DEF Free, Block, NoIrp
<1> QED
  BY <1>1, <1>2, <1>3

\* A step of thread t changes what thread t is doing, and no other.
Alone(t) ==
  /\ th' \in [Threads -> Thread]
  /\ \A u \in Threads : Proper(th'[u])
  /\ \A u \in Threads \ {t} : th'[u] = th[u]

LEMMA AloneIf ==
  ASSUME NEW t \in Threads, NEW r \in Thread, Shape, Proper(r), th' = [th EXCEPT ![t] = r]
  PROVE  Alone(t) /\ th'[t] = r
<1>1. th \in [Threads -> Thread]
  BY DEF Shape, TypeOK, Thread
<1>2. \A u \in Threads : Proper(th[u])
  BY DEF Shape
<1> QED
  BY <1>1, <1>2 DEF Alone

LEMMA ThreadType ==
  ASSUME NEW t \in Threads, Shape
  PROVE  th[t] \in Thread /\ Proper(th[t]) /\ th \in [Threads -> Thread]
BY DEF Shape, TypeOK, Thread

LEMMA IdleProper == Proper(Idle) /\ Idle.pc = "idle" /\ Idle.sock = NULL
BY DEF Proper, Idle

\* Enter, as far as the thread is concerned, and so for the other actions.
LEMMA EnterThread ==
  ASSUME NEW t \in Threads, Shape, Enter(t)
  PROVE  /\ Alone(t)
         /\ th[t].pc = "idle"
         /\ th'[t].pc = "reset" /\ th'[t].call \notin DOMAIN Creations
         /\ \E h \in held :
              h.by = t /\ th'[t].fd = h.fd /\ th'[t].sock = KsArray[h.fd]
<1>0. PICK h \in held :
        /\ h.by = t
        /\ \E call \in Calls[h.kind] \intersect Used :
             th' = [th EXCEPT ![t] = [Idle EXCEPT
                    !.pc = "reset", !.call = call, !.kind = h.kind,
                    !.fd = h.fd, !.sock = KsArray[h.fd]]]
  BY DEF Enter
<1>1. PICK call \in Calls[h.kind] \intersect Used :
        th' = [th EXCEPT ![t] = [Idle EXCEPT
                    !.pc = "reset", !.call = call, !.kind = h.kind,
                    !.fd = h.fd, !.sock = KsArray[h.fd]]]
  BY <1>0
<1> DEFINE r == [Idle EXCEPT !.pc = "reset", !.call = call, !.kind = h.kind,
                             !.fd = h.fd, !.sock = KsArray[h.fd]]
<1>2. h \in Descriptor /\ KsArray \in [Descriptors -> Pool \union {NULL}]
  BY DEF Shape, TypeOK, Descriptor
<1>3. call \in DOMAIN Requests \ DOMAIN Creations /\ h.kind \in Kinds
  BY <1>1, <1>2, CallsType DEF Descriptor
<1>4. h.fd \in 0 .. SOCKETFD_MAX /\ KsArray[h.fd] \in Pool \union {NULL}
  BY <1>2, RingAssumption DEF Descriptor, Descriptors
<1>5. r \in Thread
  BY <1>3, <1>4, IdleType DEF Thread
<1>6. /\ r.pc = "reset" /\ r.call = call /\ r.step = 1
      /\ r.fd = h.fd /\ r.sock = KsArray[h.fd]
  BY IdleType DEF Thread, Idle
<1> HIDE DEF r
<1>7. Proper(r)
  <2>1. r.call \in DOMAIN Requests /\ r.call \notin DOMAIN Creations
    BY <1>3, <1>6
  <2>2. 1 \in 1 .. Len(Requests[r.call])
    BY <2>1, RequestsType
  <2>3. r.fd \in Descriptors
    BY <1>2, <1>6 DEF Descriptor
  <2> QED
    BY <1>6, <2>1, <2>2, <2>3 DEF Proper
<1>8. Alone(t) /\ th'[t] = r
  BY <1>1, <1>5, <1>7, AloneIf DEF r
<1> QED
  BY <1>0, <1>3, <1>6, <1>8 DEF Enter, At

LEMMA ReturnThread ==
  ASSUME NEW t \in Threads, Shape, Return(t)
  PROVE  Alone(t) /\ th'[t].pc = "idle"
BY IdleType, IdleProper, AloneIf DEF Return

LEMMA CreateThread ==
  ASSUME NEW t \in Threads, Shape, NEW b \in Pool,
         NEW call \in DOMAIN Creations \intersect Used,
         th' = [th EXCEPT ![t] = [Idle EXCEPT
                  !.pc = "issue", !.call = call, !.kind = Creations[call], !.sock = b]]
  PROVE  /\ Alone(t)
         /\ th'[t].pc = "issue" /\ th'[t].call \in DOMAIN Creations /\ th'[t].sock = b
<1> DEFINE r == [Idle EXCEPT !.pc = "issue", !.call = call, !.kind = Creations[call],
                             !.sock = b]
<1>1. call \in DOMAIN Requests /\ Creations[call] \in Kinds
  BY CallsType
<1>2. r \in Thread
  BY <1>1, IdleType DEF Thread
<1>3. r.pc = "issue" /\ r.call = call /\ r.step = 1 /\ r.sock = b
  BY IdleType DEF Thread, Idle
<1> HIDE DEF r
<1>4. 1 \in 1 .. Len(Requests[call])
  BY <1>1, RequestsType
<1>5. Proper(r)
  BY <1>1, <1>3, <1>4 DEF Proper
<1>6. Alone(t) /\ th'[t] = r
  BY <1>2, <1>5, AloneIf DEF r
<1> QED
  BY <1>3, <1>6

\* Steps that go on within a call.
LEMMA GotoThread ==
  ASSUME NEW t \in Threads, Shape,
         \/ th[t].pc = "reset" /\ Sock(t) \in Pool /\ Goto(t, "issue")
         \/ th[t].pc = "issue" /\ Goto(t, "wait")
         \/ th[t].pc = "result" /\ th[t].call \in DOMAIN Creations /\ Goto(t, "index")
  PROVE  /\ Alone(t)
         /\ th'[t] = [th[t] EXCEPT !.pc = th'[t].pc]
         /\ th[t].pc = "reset" => th'[t].pc = "issue"
         /\ th[t].pc = "issue" => th'[t].pc = "wait"
         /\ th[t].pc = "result" => th'[t].pc = "index"
<1>1. PICK pc \in {"issue", "wait", "index"} :
        /\ th' = [th EXCEPT ![t].pc = pc]
        /\ \/ th[t].pc = "reset" /\ th[t].sock \in Pool /\ pc = "issue"
           \/ th[t].pc = "issue" /\ pc = "wait"
           \/ th[t].pc = "result" /\ th[t].call \in DOMAIN Creations /\ pc = "index"
  BY DEF Goto, Sock
<1> DEFINE r == [th[t] EXCEPT !.pc = pc]
<1>2. r \in Thread /\ th' = [th EXCEPT ![t] = r]
  BY <1>1, ThreadType DEF Thread
<1>3. /\ r.pc = pc /\ r.call = th[t].call /\ r.step = th[t].step
      /\ r.fd = th[t].fd /\ r.sock = th[t].sock
  BY ThreadType DEF Thread
<1> HIDE DEF r
<1>4. Proper(r)
  BY <1>1, <1>3, ThreadType DEF Proper
<1>5. Alone(t) /\ th'[t] = r
  BY <1>2, <1>4, AloneIf
<1> QED
  BY <1>1, <1>3, <1>5 DEF r

LEMMA ResultThread ==
  ASSUME NEW t \in Threads, Shape,
         NEW ok \in BOOLEAN, th[t].pc \in {"issue", "wait"},
         th' = [th EXCEPT ![t].pc = "result", ![t].ok = ok]
  PROVE  /\ Alone(t)
         /\ th'[t].pc = "result" /\ th'[t].ok = ok /\ th'[t].call = th[t].call
         /\ th'[t].fd = th[t].fd /\ th'[t].sock = th[t].sock
<1> DEFINE r == [th[t] EXCEPT !.pc = "result", !.ok = ok]
<1>1. r \in Thread /\ th' = [th EXCEPT ![t] = r]
  BY ThreadType DEF Thread
<1>2. /\ r.pc = "result" /\ r.ok = ok /\ r.call = th[t].call /\ r.step = th[t].step
      /\ r.fd = th[t].fd /\ r.sock = th[t].sock
  BY ThreadType DEF Thread
<1> HIDE DEF r
<1>3. Proper(r)
  BY <1>2, ThreadType DEF Proper
<1>4. Alone(t) /\ th'[t] = r
  BY <1>1, <1>3, AloneIf
<1> QED
  BY <1>2, <1>4

LEMMA AgainThread ==
  ASSUME NEW t \in Threads, Shape,
         th[t].pc = "result", th[t].call \notin DOMAIN Creations, More(t),
         th' = [th EXCEPT ![t].pc = "reset", ![t].step = @ + 1]
  PROVE  /\ Alone(t)
         /\ th'[t].pc = "reset" /\ th'[t].call = th[t].call
         /\ th'[t].fd = th[t].fd /\ th'[t].sock = th[t].sock
<1> DEFINE r == [th[t] EXCEPT !.pc = "reset", !.step = @ + 1]
<1>1. th[t].call \in DOMAIN Requests
  BY ThreadType DEF Proper
<1>2. th[t].step + 1 \in 1 .. Len(Requests[th[t].call]) /\ th[t].step + 1 \in 1 .. 2
  <2>1. PICK n \in {1, 2} : n = Len(Requests[th[t].call])
    BY <1>1, RequestsType
  <2>2. th[t].step \in 1 .. n /\ th[t].step < n
    BY <2>1, ThreadType DEF Proper, More
  <2>3. th[t].step + 1 \in 1 .. n /\ th[t].step + 1 \in 1 .. 2
    BY <2>2
  <2> QED
    BY <2>1, <2>3
<1>3. r \in Thread /\ th' = [th EXCEPT ![t] = r]
  BY <1>1, <1>2, ThreadType DEF Thread
<1>4. /\ r.pc = "reset" /\ r.call = th[t].call /\ r.step = th[t].step + 1
      /\ r.fd = th[t].fd /\ r.sock = th[t].sock
  BY ThreadType DEF Thread
<1> HIDE DEF r
<1>5. Proper(r)
  BY <1>1, <1>2, <1>4, ThreadType DEF Proper
<1>6. Alone(t) /\ th'[t] = r
  BY <1>3, <1>5, AloneIf
<1> QED
  BY <1>4, <1>6

LEMMA AcceptedThread ==
  ASSUME NEW t \in Threads, Shape,
         NEW b \in Pool, th[t].pc = "result", th[t].call = "accept",
         th' = [th EXCEPT ![t].pc = "index", ![t].kind = "connection", ![t].sock = b]
  PROVE  /\ Alone(t)
         /\ th'[t].pc = "index" /\ th'[t].call = "accept" /\ th'[t].sock = b
<1> DEFINE r == [th[t] EXCEPT !.pc = "index", !.kind = "connection", !.sock = b]
<1>1. "connection" \in Kinds
  BY DEF Kinds
<1>2. r \in Thread /\ th' = [th EXCEPT ![t] = r]
  BY <1>1, ThreadType DEF Thread
<1>3. /\ r.pc = "index" /\ r.call = th[t].call /\ r.step = th[t].step
      /\ r.fd = th[t].fd /\ r.sock = b
  BY ThreadType DEF Thread
<1> HIDE DEF r
<1>4. Proper(r)
  BY <1>1, <1>3, ThreadType DEF Proper
<1>5. Alone(t) /\ th'[t] = r
  BY <1>2, <1>4, AloneIf
<1> QED
  BY <1>3, <1>5

LEMMA IndexReadThread ==
  ASSUME NEW t \in Threads, Shape,
         KsIndex \in 0 .. SOCKETFD_MAX - 1, th[t].pc = "index",
         th' = [th EXCEPT ![t].pc = "increment", ![t].index = KsIndex]
  PROVE  /\ Alone(t)
         /\ th'[t].pc = "increment" /\ th'[t].index = KsIndex /\ th'[t].call = th[t].call
         /\ th'[t].fd = th[t].fd /\ th'[t].sock = th[t].sock
<1> DEFINE r == [th[t] EXCEPT !.pc = "increment", !.index = KsIndex]
<1>1. r \in Thread /\ th' = [th EXCEPT ![t] = r]
  BY ThreadType DEF Thread
<1>2. /\ r.pc = "increment" /\ r.index = KsIndex /\ r.call = th[t].call /\ r.step = th[t].step
      /\ r.fd = th[t].fd /\ r.sock = th[t].sock
  BY ThreadType DEF Thread
<1> HIDE DEF r
<1>3. Proper(r)
  BY <1>2, ThreadType DEF Proper
<1>4. Alone(t) /\ th'[t] = r
  BY <1>1, <1>3, AloneIf
<1> QED
  BY <1>2, <1>4

LEMMA IndexWriteThread ==
  ASSUME NEW t \in Threads, Shape,
         NEW fd \in Descriptors, th[t].pc = "increment",
         th' = [th EXCEPT ![t].pc = "store", ![t].fd = fd, ![t].index = 0]
  PROVE  /\ Alone(t)
         /\ th'[t].pc = "store" /\ th'[t].fd = fd /\ th'[t].sock = th[t].sock
<1> DEFINE r == [th[t] EXCEPT !.pc = "store", !.fd = fd, !.index = 0]
<1>1. fd \in 0 .. SOCKETFD_MAX /\ 0 \in 0 .. SOCKETFD_MAX - 1
  BY RingAssumption DEF Descriptors
<1>2. r \in Thread /\ th' = [th EXCEPT ![t] = r]
  BY <1>1, ThreadType DEF Thread
<1>3. /\ r.pc = "store" /\ r.call = th[t].call /\ r.step = th[t].step
      /\ r.fd = fd /\ r.sock = th[t].sock
  BY ThreadType DEF Thread
<1> HIDE DEF r
<1>4. Proper(r)
  BY <1>1, <1>3, ThreadType DEF Proper
<1>5. Alone(t) /\ th'[t] = r
  BY <1>2, <1>4, AloneIf
<1> QED
  BY <1>3, <1>5

LEMMA CloseThread ==
  ASSUME NEW t \in Threads, Shape,
         th[t].pc = "result", th[t].call = "closesocket",
         th' = [th EXCEPT ![t].pc = "clear", ![t].sock = NULL]
  PROVE  /\ Alone(t)
         /\ th'[t].pc = "clear" /\ th'[t].fd = th[t].fd
<1> DEFINE r == [th[t] EXCEPT !.pc = "clear", !.sock = NULL]
<1>1. "closesocket" \notin DOMAIN Creations
  BY CallsType
<1>2. r \in Thread /\ th' = [th EXCEPT ![t] = r]
  BY <1>1, ThreadType DEF Thread
<1>3. /\ r.pc = "clear" /\ r.call = th[t].call /\ r.step = th[t].step
      /\ r.fd = th[t].fd /\ r.sock = NULL
  BY ThreadType DEF Thread
<1> HIDE DEF r
<1>4. Proper(r)
  BY <1>1, <1>3, ThreadType DEF Proper
<1>5. Alone(t) /\ th'[t] = r
  BY <1>2, <1>4, AloneIf
<1> QED
  BY <1>3, <1>5

-----------------------------------------------------------------------------
\* Each action keeps the types.

LEMMA ShapeType ==
  ASSUME Shape
  PROVE  /\ KsArray \in [Descriptors -> Pool \union {NULL}]
         /\ KsIndex \in 0 .. SOCKETFD_MAX - 1
         /\ ks \in [Pool -> Block]
         /\ th \in [Threads -> Thread] /\ \A t \in Threads : Proper(th[t])
         /\ held \subseteq Descriptor
         /\ leaked \subseteq Pool /\ misused \in BOOLEAN /\ crashed \in BOOLEAN
BY DEF Shape, TypeOK, Thread, Block, Descriptor

LEMMA ShapeIf ==
  ASSUME /\ KsArray' \in [Descriptors -> Pool \union {NULL}]
         /\ KsIndex' \in 0 .. SOCKETFD_MAX - 1
         /\ ks' \in [Pool -> Block]
         /\ th' \in [Threads -> Thread] /\ \A t \in Threads : Proper(th'[t])
         /\ held' \subseteq Descriptor
         /\ leaked' \subseteq Pool /\ misused' \in BOOLEAN /\ crashed' \in BOOLEAN
  PROVE  Shape'
BY DEF Shape, TypeOK, Thread, Block, Descriptor

LEMMA BlockUpdate ==
  ASSUME Shape, NEW b \in Pool, NEW k \in Block, ks' = [ks EXCEPT ![b] = k]
  PROVE  /\ ks' \in [Pool -> Block]
         /\ ks'[b] = k
         /\ \A c \in Pool \ {b} : ks'[c] = ks[c]
BY ShapeType

LEMMA CrashStep ==
  ASSUME Shape, Crash
  PROVE  Shape'
BY ShapeType, ShapeIf DEF Crash

LEMMA EnterStep ==
  ASSUME NEW t \in Threads, Shape, Enter(t)
  PROVE  Shape' /\ UNCHANGED <<KsArray, KsIndex, ks, held, leaked, misused, crashed>>
<1>1. UNCHANGED <<KsArray, KsIndex, ks, held, leaked, misused, crashed>>
  BY DEF Enter
<1> QED
  BY <1>1, EnterThread, ShapeType, ShapeIf DEF Alone

\* Create, when the structure gets its IRP and when it does not.
LEMMA CreateStep ==
  ASSUME NEW t \in Threads, Shape, Create(t)
  PROVE  /\ Shape'
         /\ th[t].pc = "idle"
         /\ UNCHANGED <<KsArray, KsIndex, held, misused, crashed>>
         /\ \E b \in FreeBlocks :
              /\ \A c \in Pool \ {b} : ks'[c] = ks[c]
              /\ \/ /\ ks'[b] = Allocated /\ UNCHANGED leaked
                    /\ Alone(t) /\ th'[t].pc = "issue" /\ th'[t].sock = b
                    /\ th'[t].call \in DOMAIN Creations
                 \/ /\ ks'[b] = NoIrp /\ leaked' = leaked \union {b}
                    /\ UNCHANGED th
<1>1. th[t].pc = "idle" /\ UNCHANGED <<KsArray, KsIndex, held, misused, crashed>>
  BY DEF Create, At
<1>2. PICK b \in FreeBlocks :
        \/ /\ ks' = [ks EXCEPT ![b] = Allocated]
           /\ \E call \in DOMAIN Creations \intersect Used :
                th' = [th EXCEPT ![t] = [Idle EXCEPT
                         !.pc = "issue", !.call = call, !.kind = Creations[call],
                         !.sock = b]]
           /\ UNCHANGED leaked
        \/ /\ ks' = [ks EXCEPT ![b] = NoIrp]
           /\ leaked' = leaked \union {b}
           /\ UNCHANGED th
  BY DEF Create
<1>3. b \in Pool
  BY DEF FreeBlocks
<1>4. CASE /\ ks' = [ks EXCEPT ![b] = Allocated] /\ UNCHANGED leaked
           /\ \E call \in DOMAIN Creations \intersect Used :
                th' = [th EXCEPT ![t] = [Idle EXCEPT
                         !.pc = "issue", !.call = call, !.kind = Creations[call],
                         !.sock = b]]
  <2>1. ks' \in [Pool -> Block] /\ ks'[b] = Allocated /\ \A c \in Pool \ {b} : ks'[c] = ks[c]
    BY <1>3, <1>4, BlockUpdate, BlockType
  <2>2. /\ Alone(t) /\ th'[t].pc = "issue" /\ th'[t].sock = b
        /\ th'[t].call \in DOMAIN Creations
    BY <1>3, <1>4, CreateThread
  <2>3. Shape'
    BY <1>1, <1>4, <2>1, <2>2, ShapeType, ShapeIf DEF Alone
  <2> QED
    BY <1>1, <1>4, <2>1, <2>2, <2>3
<1>5. CASE ks' = [ks EXCEPT ![b] = NoIrp] /\ leaked' = leaked \union {b} /\ UNCHANGED th
  <2>1. ks' \in [Pool -> Block] /\ ks'[b] = NoIrp /\ \A c \in Pool \ {b} : ks'[c] = ks[c]
    BY <1>3, <1>5, BlockUpdate, BlockType
  <2>2. Shape'
    BY <1>1, <1>3, <1>5, <2>1, ShapeType, ShapeIf
  <2> QED
    BY <1>1, <1>5, <2>1, <2>2
<1> QED
  BY <1>2, <1>4, <1>5

LEMMA ResetStep ==
  ASSUME NEW t \in Threads, Shape, Reset(t), ~Crash
  PROVE  /\ Shape' /\ Alone(t)
         /\ UNCHANGED <<KsArray, KsIndex, held, leaked, misused, crashed>>
         /\ th[t].pc = "reset" /\ th'[t] = [th[t] EXCEPT !.pc = "issue"]
         /\ Usable(t) /\ ks'[Sock(t)] = Allocated
         /\ \A c \in Pool \ {Sock(t)} : ks'[c] = ks[c]
<1>1. /\ UNCHANGED <<KsArray, KsIndex, held, leaked, misused, crashed>>
      /\ th[t].pc = "reset" /\ Usable(t) /\ Goto(t, "issue")
      /\ ks' = [ks EXCEPT ![Sock(t)] = Allocated]
  BY DEF Reset, At
<1>2. Sock(t) \in Pool
  BY <1>1 DEF Usable
<1>3. /\ ks' \in [Pool -> Block] /\ ks'[Sock(t)] = Allocated
      /\ \A c \in Pool \ {Sock(t)} : ks'[c] = ks[c]
  BY <1>1, <1>2, BlockUpdate, BlockType
<1>4. Alone(t) /\ th'[t] = [th[t] EXCEPT !.pc = "issue"]
  BY <1>1, <1>2, GotoThread
<1>5. Shape'
  BY <1>1, <1>3, <1>4, ShapeType, ShapeIf DEF Alone
<1> QED
  BY <1>1, <1>3, <1>4, <1>5

LEMMA IssueStep ==
  ASSUME NEW t \in Threads, Shape, Issue(t), ~Crash
  PROVE  /\ Shape' /\ Alone(t)
         /\ UNCHANGED <<KsArray, KsIndex, held, leaked, misused, crashed>>
         /\ th[t].pc = "issue" /\ Usable(t)
         /\ th'[t].call = th[t].call /\ th'[t].fd = th[t].fd /\ th'[t].sock = th[t].sock
         /\ \A c \in Pool \ {Sock(t)} : ks'[c] = ks[c]
         /\ \/ /\ th'[t].pc = "wait" /\ ks'[Sock(t)].irp = "pending"
               /\ ks'[Sock(t)].event = ks[Sock(t)].event
            \/ /\ th'[t].pc = "result" /\ ks'[Sock(t)].irp = "done"
               /\ ks'[Sock(t)].ok = th'[t].ok
<1>1. /\ UNCHANGED <<KsArray, KsIndex, held, leaked, misused, crashed>>
      /\ th[t].pc = "issue" /\ Usable(t)
      /\ \/ /\ ks' = [ks EXCEPT ![Sock(t)].irp = "pending",
                                ![Sock(t)].request = Requests[th[t].call][th[t].step]]
            /\ Goto(t, "wait")
         \/ \E ok \in BOOLEAN :
              /\ ks' = [ks EXCEPT ![Sock(t)].irp = "done", ![Sock(t)].ok = ok,
                                  ![Sock(t)].event = TRUE]
              /\ th' = [th EXCEPT ![t].pc = "result", ![t].ok = ok]
  BY DEF Issue, At
<1>2. Sock(t) \in Pool /\ ks[Sock(t)] \in Block /\ ks \in [Pool -> Block]
  BY <1>1, ShapeType DEF Usable
<1>3. CASE /\ ks' = [ks EXCEPT ![Sock(t)].irp = "pending",
                              ![Sock(t)].request = Requests[th[t].call][th[t].step]]
           /\ Goto(t, "wait")
  <2> DEFINE k == [ks[Sock(t)] EXCEPT !.irp = "pending",
                                      !.request = Requests[th[t].call][th[t].step]]
  <2>1. Requests[th[t].call][th[t].step] \in AllRequests
    BY <1>1, ThreadType, RequestsType DEF Proper
  <2>2. k \in Block /\ ks' = [ks EXCEPT ![Sock(t)] = k]
    BY <1>2, <1>3, <2>1 DEF Block
  <2>3. k.irp = "pending" /\ k.event = ks[Sock(t)].event
    BY <1>2 DEF Block
  <2> HIDE DEF k
  <2>4. /\ ks' \in [Pool -> Block] /\ ks'[Sock(t)] = k
        /\ \A c \in Pool \ {Sock(t)} : ks'[c] = ks[c]
    BY <1>2, <2>2, BlockUpdate
  <2>5. Alone(t) /\ th'[t] = [th[t] EXCEPT !.pc = "wait"]
    BY <1>1, <1>3, GotoThread
  <2>6. /\ th'[t].pc = "wait" /\ th'[t].call = th[t].call /\ th'[t].fd = th[t].fd
        /\ th'[t].sock = th[t].sock
    BY <2>5, ThreadType DEF Thread
  <2>7. Shape'
    BY <1>1, <2>4, <2>5, ShapeType, ShapeIf DEF Alone
  <2> QED
    BY <1>1, <2>3, <2>4, <2>5, <2>6, <2>7
<1>4. ASSUME NEW ok \in BOOLEAN,
             ks' = [ks EXCEPT ![Sock(t)].irp = "done", ![Sock(t)].ok = ok,
                              ![Sock(t)].event = TRUE],
             th' = [th EXCEPT ![t].pc = "result", ![t].ok = ok]
      PROVE  /\ Shape' /\ Alone(t)
             /\ th'[t].call = th[t].call /\ th'[t].fd = th[t].fd
             /\ th'[t].sock = th[t].sock
             /\ \A c \in Pool \ {Sock(t)} : ks'[c] = ks[c]
             /\ th'[t].pc = "result" /\ ks'[Sock(t)].irp = "done"
             /\ ks'[Sock(t)].ok = th'[t].ok
  <2> DEFINE k == [ks[Sock(t)] EXCEPT !.irp = "done", !.ok = ok, !.event = TRUE]
  <2>1. k \in Block /\ ks' = [ks EXCEPT ![Sock(t)] = k]
    BY <1>2, <1>4 DEF Block
  <2>2. k.irp = "done" /\ k.ok = ok
    BY <1>2 DEF Block
  <2> HIDE DEF k
  <2>3. /\ ks' \in [Pool -> Block] /\ ks'[Sock(t)] = k
        /\ \A c \in Pool \ {Sock(t)} : ks'[c] = ks[c]
    BY <1>2, <2>1, BlockUpdate
  <2>4. /\ Alone(t) /\ th'[t].pc = "result" /\ th'[t].ok = ok
        /\ th'[t].call = th[t].call /\ th'[t].fd = th[t].fd /\ th'[t].sock = th[t].sock
    BY <1>1, <1>4, ResultThread
  <2>5. Shape'
    BY <1>1, <2>3, <2>4, ShapeType, ShapeIf DEF Alone
  <2> QED
    BY <2>2, <2>3, <2>4, <2>5
<1> QED
  BY <1>1, <1>3, <1>4

LEMMA CompleteStep ==
  ASSUME NEW b \in Pool, Shape, Complete(b)
  PROVE  /\ Shape'
         /\ UNCHANGED <<KsArray, KsIndex, th, held, leaked, misused, crashed>>
         /\ ks[b].irp = "pending" /\ ks'[b].irp = "done"
         /\ \A c \in Pool \ {b} : ks'[c] = ks[c]
<1>1. /\ UNCHANGED <<KsArray, KsIndex, th, held, leaked, misused, crashed>>
      /\ ks[b].irp = "pending"
  BY DEF Complete
<1>2. PICK ok \in BOOLEAN :
        ks' = [ks EXCEPT ![b] = [irp |-> "done", ok |-> ok, request |-> "none",
                                 event |-> TRUE]]
  BY DEF Complete
<1> DEFINE k == [irp |-> "done", ok |-> ok, request |-> "none", event |-> TRUE]
<1>3. k \in Block /\ k.irp = "done"
  BY DEF Block
<1> HIDE DEF k
<1>4. ks' = [ks EXCEPT ![b] = k]
  BY <1>2 DEF k
<1>5. ks' \in [Pool -> Block] /\ ks'[b] = k /\ \A c \in Pool \ {b} : ks'[c] = ks[c]
  BY <1>3, <1>4, BlockUpdate
<1>6. Shape'
  BY <1>1, <1>5, ShapeType, ShapeIf
<1> QED
  BY <1>1, <1>3, <1>5, <1>6

LEMMA WaitStep ==
  ASSUME NEW t \in Threads, Shape, Wait(t)
  PROVE  /\ Shape' /\ Alone(t)
         /\ UNCHANGED <<KsArray, KsIndex, held, leaked, misused, crashed>>
         /\ th[t].pc = "wait" /\ Sock(t) \in Pool /\ ks[Sock(t)].event
         /\ th'[t].pc = "result" /\ th'[t].call = th[t].call /\ th'[t].fd = th[t].fd
         /\ th'[t].sock = th[t].sock
         /\ \A c \in Pool \ {Sock(t)} : ks'[c] = ks[c]
         /\ ks'[Sock(t)].irp = ks[Sock(t)].irp /\ ks'[Sock(t)].ok = th'[t].ok
         /\ ~ks'[Sock(t)].event
<1>1. /\ UNCHANGED <<KsArray, KsIndex, held, leaked, misused, crashed>>
      /\ th[t].pc = "wait" /\ Sock(t) \in Pool /\ ks[Sock(t)].event
      /\ ks' = [ks EXCEPT ![Sock(t)].event = FALSE]
      /\ th' = [th EXCEPT ![t].pc = "result", ![t].ok = ks[Sock(t)].ok]
  BY DEF Wait, At
<1>2. ks[Sock(t)] \in Block /\ ks \in [Pool -> Block] /\ ks[Sock(t)].ok \in BOOLEAN
  BY <1>1, ShapeType DEF Block
<1> DEFINE k == [ks[Sock(t)] EXCEPT !.event = FALSE]
<1>3. k \in Block /\ ks' = [ks EXCEPT ![Sock(t)] = k]
  BY <1>1, <1>2 DEF Block
<1>4. k.irp = ks[Sock(t)].irp /\ k.ok = ks[Sock(t)].ok /\ k.event = FALSE
  BY <1>2 DEF Block
<1> HIDE DEF k
<1>5. /\ ks' \in [Pool -> Block] /\ ks'[Sock(t)] = k
      /\ \A c \in Pool \ {Sock(t)} : ks'[c] = ks[c]
  BY <1>1, <1>3, BlockUpdate
<1>6. /\ Alone(t) /\ th'[t].pc = "result" /\ th'[t].ok = ks[Sock(t)].ok
      /\ th'[t].call = th[t].call /\ th'[t].fd = th[t].fd /\ th'[t].sock = th[t].sock
  BY <1>1, <1>2, ResultThread
<1>7. Shape'
  BY <1>1, <1>5, <1>6, ShapeType, ShapeIf DEF Alone
<1> QED
  BY <1>1, <1>4, <1>5, <1>6, <1>7

LEMMA DoneStep ==
  ASSUME NEW t \in Threads, Shape, Done(t)
  PROVE  /\ Shape' /\ Alone(t)
         /\ UNCHANGED <<KsArray, KsIndex, ks, held, leaked, misused, crashed>>
         /\ th[t].pc = "result"
         /\ th[t].call \notin DOMAIN Creations \union {"accept", "closesocket"}
         /\ \/ /\ th'[t].pc = "reset" /\ th'[t].call = th[t].call
               /\ th'[t].fd = th[t].fd /\ th'[t].sock = th[t].sock
            \/ th'[t].pc = "idle"
<1>1. /\ UNCHANGED <<KsArray, KsIndex, ks, held, leaked, misused, crashed>>
      /\ th[t].pc = "result"
      /\ th[t].call \notin DOMAIN Creations \union {"accept", "closesocket"}
      /\ \/ More(t) /\ th' = [th EXCEPT ![t].pc = "reset", ![t].step = @ + 1]
         \/ Return(t)
  BY DEF Done, At
<1>2. /\ Alone(t)
      /\ \/ /\ th'[t].pc = "reset" /\ th'[t].call = th[t].call
            /\ th'[t].fd = th[t].fd /\ th'[t].sock = th[t].sock
         \/ th'[t].pc = "idle"
  BY <1>1, AgainThread, ReturnThread
<1>3. Shape'
  BY <1>1, <1>2, ShapeType, ShapeIf DEF Alone
<1> QED
  BY <1>1, <1>2, <1>3

LEMMA CreatedStep ==
  ASSUME NEW t \in Threads, Shape, Created(t)
  PROVE  /\ Shape' /\ Alone(t)
         /\ UNCHANGED <<KsArray, KsIndex, ks, held, misused, crashed>>
         /\ th[t].pc = "result" /\ th[t].call \in DOMAIN Creations
         /\ \/ /\ th'[t].pc = "index" /\ th'[t].call = th[t].call
               /\ th'[t].fd = th[t].fd /\ th'[t].sock = th[t].sock /\ UNCHANGED leaked
            \/ th'[t].pc = "idle" /\ leaked' = leaked \union {Sock(t)}
<1>1. /\ UNCHANGED <<KsArray, KsIndex, ks, held, misused, crashed>>
      /\ th[t].pc = "result" /\ th[t].call \in DOMAIN Creations
      /\ \/ Goto(t, "index") /\ UNCHANGED leaked
         \/ Return(t) /\ leaked' = leaked \union {Sock(t)}
  BY DEF Created, At
<1>2. Sock(t) \in Pool
  BY <1>1, ThreadType DEF Proper, Sock
<1>3. CASE Goto(t, "index") /\ UNCHANGED leaked
  <2>1. Alone(t) /\ th'[t] = [th[t] EXCEPT !.pc = "index"]
    BY <1>1, <1>3, GotoThread
  <2>2. /\ th'[t].pc = "index" /\ th'[t].call = th[t].call /\ th'[t].fd = th[t].fd
        /\ th'[t].sock = th[t].sock
    BY <2>1, ThreadType DEF Thread
  <2>3. Shape'
    BY <1>1, <1>3, <2>1, ShapeType, ShapeIf DEF Alone
  <2> QED
    BY <1>1, <1>3, <2>1, <2>2, <2>3
<1>4. CASE Return(t) /\ leaked' = leaked \union {Sock(t)}
  <2>1. Alone(t) /\ th'[t].pc = "idle"
    BY <1>4, ReturnThread
  <2>2. Shape'
    BY <1>1, <1>2, <1>4, <2>1, ShapeType, ShapeIf DEF Alone
  <2> QED
    BY <1>1, <1>4, <2>1, <2>2
<1> QED
  BY <1>1, <1>3, <1>4

LEMMA AcceptedStep ==
  ASSUME NEW t \in Threads, Shape, Accepted(t)
  PROVE  /\ Shape' /\ Alone(t)
         /\ UNCHANGED <<KsArray, KsIndex, held, leaked, misused, crashed>>
         /\ th[t].pc = "result" /\ th[t].call = "accept"
         /\ \/ \E b \in FreeBlocks :
                 /\ ks'[b] \in {Allocated, NoIrp}
                 /\ \A c \in Pool \ {b} : ks'[c] = ks[c]
                 /\ th'[t].pc = "index" /\ th'[t].call = "accept" /\ th'[t].sock = b
            \/ th'[t].pc = "idle" /\ UNCHANGED ks
<1>1. /\ UNCHANGED <<KsArray, KsIndex, held, leaked, misused, crashed>>
      /\ th[t].pc = "result" /\ th[t].call = "accept"
      /\ \/ \E b \in FreeBlocks :
              /\ ks' = [ks EXCEPT ![b] = Allocated] \/ ks' = [ks EXCEPT ![b] = NoIrp]
              /\ th' = [th EXCEPT ![t].pc = "index", ![t].kind = "connection",
                                  ![t].sock = b]
         \/ Return(t) /\ UNCHANGED ks
  BY DEF Accepted, At
<1>2. ASSUME NEW b \in FreeBlocks, NEW k \in {Allocated, NoIrp},
             ks' = [ks EXCEPT ![b] = k],
             th' = [th EXCEPT ![t].pc = "index", ![t].kind = "connection", ![t].sock = b]
      PROVE  /\ Shape' /\ Alone(t)
             /\ ks'[b] = k /\ \A c \in Pool \ {b} : ks'[c] = ks[c]
             /\ th'[t].pc = "index" /\ th'[t].call = "accept" /\ th'[t].sock = b
  <2>1. b \in Pool
    BY DEF FreeBlocks
  <2>2. ks' \in [Pool -> Block] /\ ks'[b] = k /\ \A c \in Pool \ {b} : ks'[c] = ks[c]
    BY <1>2, <2>1, BlockUpdate, BlockType
  <2>3. Alone(t) /\ th'[t].pc = "index" /\ th'[t].call = "accept" /\ th'[t].sock = b
    BY <1>1, <1>2, <2>1, AcceptedThread
  <2>4. Shape'
    BY <1>1, <2>2, <2>3, ShapeType, ShapeIf DEF Alone
  <2> QED
    BY <2>2, <2>3, <2>4
<1>3. CASE Return(t) /\ UNCHANGED ks
  <2>1. Alone(t) /\ th'[t].pc = "idle"
    BY <1>3, ReturnThread
  <2>2. Shape'
    BY <1>1, <1>3, <2>1, ShapeType, ShapeIf DEF Alone
  <2> QED
    BY <1>1, <1>3, <2>1, <2>2
<1>4. CASE \E b \in FreeBlocks :
             /\ ks' = [ks EXCEPT ![b] = Allocated] \/ ks' = [ks EXCEPT ![b] = NoIrp]
             /\ th' = [th EXCEPT ![t].pc = "index", ![t].kind = "connection",
                                 ![t].sock = b]
  <2>1. PICK b \in FreeBlocks :
          /\ ks' = [ks EXCEPT ![b] = Allocated] \/ ks' = [ks EXCEPT ![b] = NoIrp]
          /\ th' = [th EXCEPT ![t].pc = "index", ![t].kind = "connection", ![t].sock = b]
    BY <1>4
  <2>2. PICK k \in {Allocated, NoIrp} : ks' = [ks EXCEPT ![b] = k]
    BY <2>1
  <2>3. /\ Shape' /\ Alone(t)
        /\ ks'[b] = k /\ \A c \in Pool \ {b} : ks'[c] = ks[c]
        /\ th'[t].pc = "index" /\ th'[t].call = "accept" /\ th'[t].sock = b
    BY <1>2, <2>1, <2>2
  <2> QED
    BY <1>1, <2>3
<1> QED
  BY <1>1, <1>3, <1>4

LEMMA IndexReadStep ==
  ASSUME NEW t \in Threads, Shape, IndexRead(t)
  PROVE  /\ Shape' /\ Alone(t)
         /\ UNCHANGED <<KsArray, KsIndex, ks, held, leaked, crashed>>
         /\ th[t].pc = "index" /\ th'[t].pc = "increment" /\ th'[t].index = KsIndex
         /\ th'[t].call = th[t].call /\ th'[t].fd = th[t].fd /\ th'[t].sock = th[t].sock
         /\ ~misused' => ~misused /\ \A u \in Threads : th[u].pc # "increment"
<1>1. /\ UNCHANGED <<KsArray, KsIndex, ks, held, leaked, crashed>>
      /\ th[t].pc = "index"
      /\ th' = [th EXCEPT ![t].pc = "increment", ![t].index = KsIndex]
      /\ misused' = (misused \/ \E u \in Threads : th[u].pc = "increment")
  BY DEF IndexRead, At
<1>2. /\ Alone(t) /\ th'[t].pc = "increment" /\ th'[t].index = KsIndex
      /\ th'[t].call = th[t].call /\ th'[t].fd = th[t].fd /\ th'[t].sock = th[t].sock
  BY <1>1, ShapeType, IndexReadThread
<1>3. misused' \in BOOLEAN
  BY <1>1, ShapeType
<1>4. Shape'
  BY <1>1, <1>2, <1>3, ShapeType, ShapeIf DEF Alone
<1> QED
  BY <1>1, <1>2, <1>4

\* A descriptor when one more has been given out.
Aged(h) == [h EXCEPT !.newer = IF @ = SOCKETFD_MAX THEN @ ELSE @ + 1]

LEMMA AgedType ==
  ASSUME NEW h \in Descriptor
  PROVE  /\ Aged(h) \in Descriptor
         /\ Aged(h).by = h.by /\ Aged(h).fd = h.fd /\ Aged(h).sock = h.sock
         /\ h.newer < SOCKETFD_MAX => Aged(h).newer = h.newer + 1
         /\ Aged(h).newer = SOCKETFD_MAX \/ Aged(h).newer = h.newer + 1
<1> DEFINE n == IF h.newer = SOCKETFD_MAX THEN h.newer ELSE h.newer + 1
<1>1. h.newer \in 0 .. SOCKETFD_MAX
  BY DEF Descriptor
<1>2. n \in 0 .. SOCKETFD_MAX
  BY <1>1, RingAssumption
<1>3. /\ h.newer < SOCKETFD_MAX => n = h.newer + 1
      /\ n = SOCKETFD_MAX \/ n = h.newer + 1
  BY <1>1, RingAssumption
<1>4. Aged(h) = [h EXCEPT !.newer = n]
  BY DEF Aged, Descriptor
<1> HIDE DEF n
<1>5. /\ [h EXCEPT !.newer = n] \in Descriptor
      /\ [h EXCEPT !.newer = n].by = h.by /\ [h EXCEPT !.newer = n].fd = h.fd
      /\ [h EXCEPT !.newer = n].sock = h.sock /\ [h EXCEPT !.newer = n].newer = n
  BY <1>2 DEF Descriptor
<1> QED
  BY <1>3, <1>4, <1>5

LEMMA IndexWriteStep ==
  ASSUME NEW t \in Threads, Shape, IndexWrite(t)
  PROVE  /\ Shape' /\ Alone(t)
         /\ UNCHANGED <<KsArray, ks, leaked, crashed>>
         /\ th[t].pc = "increment" /\ th'[t].pc = "store"
         /\ KsIndex' = (th[t].index + 1) % SOCKETFD_MAX
         /\ th'[t].fd = th[t].index + 1 /\ th'[t].sock = th[t].sock
         /\ ~misused' => ~misused /\ \A h \in held : Aged(h).newer # SOCKETFD_MAX
         /\ \A h \in held : Aged(h) \in held'
         /\ \E n \in held' :
              /\ n.by = t /\ n.fd = th'[t].fd /\ n.sock = Sock(t) /\ n.newer = 0
              /\ \A g \in held' : g = n \/ \E h \in held : g = Aged(h)
<1> DEFINE fd == th[t].index + 1
           n == [by |-> t, fd |-> fd, sock |-> Sock(t), kind |-> th[t].kind, newer |-> 0]
<1>1. /\ UNCHANGED <<KsArray, ks, leaked, crashed>>
      /\ th[t].pc = "increment"
      /\ KsIndex' = (th[t].index + 1) % SOCKETFD_MAX
      /\ th' = [th EXCEPT ![t].pc = "store", ![t].fd = fd, ![t].index = 0]
      /\ held' = Older \union {n}
      /\ misused' = (misused \/ \E h \in Older : h.newer = SOCKETFD_MAX)
  BY DEF IndexWrite, At
<1>2. th[t].index \in 0 .. SOCKETFD_MAX - 1 /\ th[t].kind \in Kinds /\ Sock(t) \in Pool
  BY <1>1, ThreadType DEF Thread, Proper, Sock
<1>3. fd \in Descriptors
  BY <1>2, RingAssumption DEF Descriptors
<1> HIDE DEF fd
<1>4. n \in Descriptor
  BY <1>2, <1>3, RingAssumption DEF Descriptor
<1>5. Older = {Aged(h) : h \in held}
  BY DEF Older, Aged
<1>6. Older \subseteq Descriptor
  BY <1>5, AgedType, ShapeType
<1>7. /\ Alone(t) /\ th'[t].pc = "store" /\ th'[t].fd = fd /\ th'[t].sock = th[t].sock
  BY <1>1, <1>3, IndexWriteThread
<1>8. KsIndex' \in 0 .. SOCKETFD_MAX - 1
  BY <1>1, <1>2, RingAssumption
<1>9. Shape'
  <2>1. held' \subseteq Descriptor
    BY <1>1, <1>4, <1>6
  <2>2. misused' \in BOOLEAN
    BY <1>1, ShapeType
  <2> QED
    BY <1>1, <1>7, <1>8, <2>1, <2>2, ShapeType, ShapeIf DEF Alone
<1>10. /\ n.by = t /\ n.fd = fd /\ n.sock = Sock(t) /\ n.newer = 0 /\ n \in held'
       /\ \A g \in held' : g = n \/ \E h \in held : g = Aged(h)
  BY <1>1, <1>5
<1> HIDE DEF n
<1>11. \A h \in held : Aged(h) \in held'
  BY <1>1, <1>5
<1>12. ~misused' => ~misused /\ \A h \in held : Aged(h).newer # SOCKETFD_MAX
  BY <1>1, <1>5, ShapeType
<1> QED
  BY <1>1, <1>7, <1>9, <1>10, <1>11, <1>12 DEF fd

LEMMA StoreStep ==
  ASSUME NEW t \in Threads, Shape, Store(t)
  PROVE  /\ Shape' /\ Alone(t)
         /\ UNCHANGED <<KsIndex, ks, held, leaked, misused, crashed>>
         /\ th[t].pc = "store" /\ th'[t].pc = "idle"
         /\ th[t].fd \in Descriptors /\ KsArray'[th[t].fd] = Sock(t)
         /\ \A fd \in Descriptors \ {th[t].fd} : KsArray'[fd] = KsArray[fd]
<1>1. /\ UNCHANGED <<KsIndex, ks, held, leaked, misused, crashed>>
      /\ th[t].pc = "store" /\ Return(t)
      /\ KsArray' = [KsArray EXCEPT ![th[t].fd] = Sock(t)]
  BY DEF Store, At
<1>2. th[t].fd \in Descriptors /\ Sock(t) \in Pool
  BY <1>1, ThreadType DEF Proper, Sock
<1>3. /\ KsArray' \in [Descriptors -> Pool \union {NULL}]
      /\ KsArray'[th[t].fd] = Sock(t)
      /\ \A fd \in Descriptors \ {th[t].fd} : KsArray'[fd] = KsArray[fd]
  BY <1>1, <1>2, ShapeType
<1>4. Alone(t) /\ th'[t].pc = "idle"
  BY <1>1, ReturnThread
<1>5. Shape'
  BY <1>1, <1>3, <1>4, ShapeType, ShapeIf DEF Alone
<1> QED
  BY <1>1, <1>2, <1>3, <1>4, <1>5

LEMMA CloseStep ==
  ASSUME NEW t \in Threads, Shape, Close(t), ~Crash
  PROVE  /\ Shape' /\ Alone(t)
         /\ UNCHANGED <<KsArray, KsIndex, held, leaked, misused, crashed>>
         /\ th[t].pc = "result" /\ th[t].call \notin DOMAIN Creations
         /\ th'[t].pc = "clear" /\ th'[t].fd = th[t].fd
         /\ Sock(t) \in Pool /\ ks'[Sock(t)] = Free
         /\ \A c \in Pool \ {Sock(t)} : ks'[c] = ks[c]
<1>1. /\ UNCHANGED <<KsArray, KsIndex, held, leaked, misused, crashed>>
      /\ th[t].pc = "result" /\ th[t].call = "closesocket"
      /\ ks' = [ks EXCEPT ![Sock(t)] = Free]
      /\ th' = [th EXCEPT ![t].pc = "clear", ![t].sock = NULL]
  BY DEF Close, At
<1>2. Sock(t) \in Pool /\ th[t].call \notin DOMAIN Creations
  BY <1>1, ThreadType, CallsType DEF Proper, Sock
<1>3. /\ ks' \in [Pool -> Block] /\ ks'[Sock(t)] = Free
      /\ \A c \in Pool \ {Sock(t)} : ks'[c] = ks[c]
  BY <1>1, <1>2, BlockUpdate, BlockType
<1>4. Alone(t) /\ th'[t].pc = "clear" /\ th'[t].fd = th[t].fd
  BY <1>1, CloseThread
<1>5. Shape'
  BY <1>1, <1>3, <1>4, ShapeType, ShapeIf DEF Alone
<1> QED
  BY <1>1, <1>2, <1>3, <1>4, <1>5

LEMMA ClearStep ==
  ASSUME NEW t \in Threads, Shape, Clear(t)
  PROVE  /\ Shape' /\ Alone(t)
         /\ UNCHANGED <<KsIndex, ks, leaked, misused, crashed>>
         /\ th[t].pc = "clear" /\ th'[t].pc = "idle" /\ Sock(t) = NULL
         /\ held' = {h \in held : ~(h.by = t /\ h.fd = th[t].fd)}
         /\ \A fd \in Descriptors \ {th[t].fd} : KsArray'[fd] = KsArray[fd]
<1>1. /\ UNCHANGED <<KsIndex, ks, leaked, misused, crashed>>
      /\ th[t].pc = "clear" /\ Return(t)
      /\ KsArray' = [KsArray EXCEPT ![th[t].fd] = NULL]
      /\ held' = {h \in held : ~(h.by = t /\ h.fd = th[t].fd)}
  BY DEF Clear, At
<1>2. Sock(t) = NULL
  BY <1>1, ThreadType DEF Proper, Sock
<1>3. /\ KsArray' \in [Descriptors -> Pool \union {NULL}]
      /\ \A fd \in Descriptors \ {th[t].fd} : KsArray'[fd] = KsArray[fd]
  BY <1>1, ShapeType
<1>4. Alone(t) /\ th'[t].pc = "idle"
  BY <1>1, ReturnThread
<1>5. held' \subseteq Descriptor
  BY <1>1, ShapeType
<1>6. Shape'
  BY <1>1, <1>3, <1>4, <1>5, ShapeType, ShapeIf DEF Alone
<1> QED
  BY <1>1, <1>2, <1>3, <1>4, <1>6

-----------------------------------------------------------------------------
\* Type correctness.

LEMMA InitShape == Init => Shape
<1> SUFFICES ASSUME Init PROVE Shape
  OBVIOUS
<1>1. /\ KsArray \in [Descriptors -> Pool \union {NULL}]
      /\ KsIndex \in 0 .. SOCKETFD_MAX - 1
      /\ held = {} /\ leaked = {} /\ misused = FALSE /\ crashed = FALSE
  BY RingAssumption DEF Init
<1>2. ks \in [Pool -> Block]
  BY BlockType DEF Init
<1>3. th \in [Threads -> Thread] /\ \A t \in Threads : Proper(th[t])
  BY IdleType, IdleProper DEF Init
<1> QED
  BY <1>1, <1>2, <1>3 DEF Shape, TypeOK, Thread, Block

LEMMA NextShape == Shape /\ [Next]_vars => Shape'
<1> SUFFICES ASSUME Shape, [Next]_vars PROVE Shape'
  OBVIOUS
<1>1. CASE Crash
  BY <1>1, CrashStep
<1>2. ASSUME NEW t \in Threads, Enter(t) PROVE Shape'
  BY <1>2, EnterStep
<1>3. ASSUME NEW t \in Threads, Create(t) PROVE Shape'
  BY <1>3, CreateStep
<1>4. ASSUME NEW t \in Threads, Step(t), ~Crash PROVE Shape'
  BY <1>4, ResetStep, IssueStep, WaitStep, DoneStep, CreatedStep, AcceptedStep,
     IndexReadStep, IndexWriteStep, StoreStep, CloseStep, ClearStep DEF Step
<1>5. ASSUME NEW b \in Pool, Complete(b) PROVE Shape'
  BY <1>5, CompleteStep
<1>6. CASE UNCHANGED vars
  BY <1>6 DEF vars, Shape, TypeOK, Proper
<1> QED
  BY <1>1, <1>2, <1>3, <1>4, <1>5, <1>6 DEF Next

\* Every variable keeps its type, whatever the calls and however many threads
\* make them at a time.
THEOREM TypeCorrectness == Spec => []TypeOK
<1>1. Shape => TypeOK
  BY DEF Shape
<1> QED
  BY InitShape, NextShape, <1>1, PTL DEF Spec

-----------------------------------------------------------------------------
\* What keeps descriptors and sockets apart.

\* Thread t has a socket that has no descriptor yet.
Making(t) ==
  \/ th[t].pc \in {"index", "increment"}
  \/ th[t].pc \in {"issue", "wait", "result"} /\ th[t].call \in DOMAIN Creations

\* Thread t works on a descriptor and its socket.
Working(t) ==
  \/ th[t].pc = "store"
  \/ th[t].pc \in {"reset", "issue", "wait", "result"} /\ th[t].call \notin DOMAIN Creations

\* The socket of h has been freed.
Clearing(h) == th[h.by].pc = "clear" /\ th[h.by].fd = h.fd

Taken(b) == ks[b].irp # "free"

\* One thread at a time is in KsIndex++.
OneIncrement ==
  \A t \in Threads : th[t].pc = "increment" =>
    th[t].index = KsIndex /\ \A u \in Threads : th[u].pc = "increment" => u = t

\* A descriptor that has h.newer younger ones is that far behind KsIndex.
Positions ==
  \A h \in held :
    /\ h.newer < SOCKETFD_MAX
    /\ h.fd + h.newer = KsIndex \/ h.fd + h.newer = KsIndex + SOCKETFD_MAX

OwnFd == \A g, h \in held : g.fd = h.fd => g = h

Entries == \A h \in held : ~InBetween(h) => KsArray[h.fd] = h.sock

\* The socket of a descriptor has its memory to itself.
LiveTaken == \A h \in held : ~Clearing(h) => Taken(h.sock)

OwnSock ==
  \A g, h \in held : ~Clearing(g) /\ ~Clearing(h) /\ g.sock = h.sock => g = h

\* So has one that is being made.
OwnMade ==
  \A t \in Threads : Making(t) =>
    /\ Taken(Sock(t))
    /\ \A h \in held : ~Clearing(h) => h.sock # Sock(t)
    /\ \A u \in Threads : Making(u) /\ Sock(u) = Sock(t) => u = t

\* A thread works on what it has been given.
Given ==
  \A t \in Threads :
    /\ Working(t) => \E h \in held : h.by = t /\ h.fd = th[t].fd /\ h.sock = Sock(t)
    /\ th[t].pc = "clear" => \E h \in held : h.by = t /\ h.fd = th[t].fd

Apart ==
  Positions /\ OwnFd /\ Entries /\ LiveTaken /\ OwnSock /\ OwnMade /\ Given

\* The IRP is where thread t thinks it is.
Stage(t) ==
  /\ th[t].pc = "reset" => ks[Sock(t)].irp # "pending"
  /\ th[t].pc = "issue" => ks[Sock(t)].irp = "idle"
  /\ th[t].pc = "wait" => ks[Sock(t)].irp \in {"pending", "done"}
  /\ th[t].pc = "result" => ks[Sock(t)].irp = "done" /\ th[t].ok = ks[Sock(t)].ok

Stages == \A t \in Threads : Stage(t)

Events == \A b \in Pool : ks[b].event => ks[b].irp = "done"

Waited == \A b \in Pool : ks[b].irp = "pending" =>
            \E t \in Threads : th[t].pc = "wait" /\ Sock(t) = b

Reached ==
  \A b \in Pool : Taken(b) =>
    \/ b \in leaked
    \/ \E h \in held : ~Clearing(h) /\ h.sock = b
    \/ \E t \in Threads : th[t].pc # "idle" /\ Sock(t) = b

CrashedOnMissing == crashed => \E t \in Threads : WithoutIrp(t)

Kept == OneIncrement /\ Apart /\ Stages /\ Events /\ Waited /\ Reached /\ CrashedOnMissing

IInv == Shape /\ (~misused => Kept)

-----------------------------------------------------------------------------
\* What follows from the invariant in one state.

LEMMA HeldType ==
  ASSUME Shape
  PROVE  \A h \in held : /\ h.by \in Threads /\ h.fd \in Descriptors /\ h.sock \in Pool
                         /\ h.newer \in 0 .. SOCKETFD_MAX
BY ShapeType DEF Descriptor

\* A thread in a call has a socket that is being made or that of a descriptor.
LEMMA Busy ==
  ASSUME NEW t \in Threads, Shape, th[t].pc \notin {"idle", "clear"}
  PROVE  Making(t) \/ Working(t)
BY ThreadType DEF Thread, Proper, Making, Working

LEMMA OwnBlock ==
  ASSUME NEW t \in Threads, Shape, Apart, th[t].pc \notin {"idle", "clear"}
  PROVE  /\ Sock(t) \in Pool /\ Taken(Sock(t))
         /\ \A u \in Threads \ {t} : th[u].pc # "idle" => Sock(u) # Sock(t)
<1>1. ASSUME NEW u \in Threads, Making(u)
      PROVE  Sock(u) \in Pool /\ Taken(Sock(u))
  BY <1>1, ThreadType DEF Making, Proper, Sock, Apart, OwnMade
<1>2. ASSUME NEW u \in Threads, Working(u)
      PROVE  \E h \in held : h.by = u /\ ~Clearing(h) /\ h.sock = Sock(u)
  <2>1. PICK h \in held : h.by = u /\ h.fd = th[u].fd /\ h.sock = Sock(u)
    BY <1>2 DEF Apart, Given
  <2>2. th[u].pc # "clear"
    BY <1>2 DEF Working
  <2> QED
    BY <2>1, <2>2 DEF Clearing
<1>3. Sock(t) \in Pool /\ Taken(Sock(t))
  BY <1>1, <1>2, Busy, HeldType DEF Apart, LiveTaken
<1>4. ASSUME NEW u \in Threads \ {t}, th[u].pc # "idle", Sock(u) = Sock(t)
      PROVE  FALSE
  <2>1. th[u].pc # "clear"
    BY <1>3, <1>4, ThreadType, NullAssumption DEF Proper, Sock
  <2>2. Making(u) \/ Working(u)
    BY <1>4, <2>1, Busy
  <2>3. Making(t) \/ Working(t)
    BY Busy
  <2>4. ~(Making(t) /\ Making(u))
    BY <1>4 DEF Apart, OwnMade
  <2>5. ~(Making(t) /\ Working(u)) /\ ~(Working(t) /\ Making(u))
    BY <1>2, <1>4 DEF Apart, OwnMade
  <2>6. ~(Working(t) /\ Working(u))
    BY <1>2, <1>4 DEF Apart, OwnSock
  <2> QED
    BY <2>2, <2>3, <2>4, <2>5, <2>6
<1> QED
  BY <1>3, <1>4

\* The descriptor that a thread works on.
LEMMA OwnHeld ==
  ASSUME NEW t \in Threads, Shape, Apart, Working(t)
  PROVE  \E h \in held :
           /\ h.by = t /\ h.fd = th[t].fd /\ h.sock = Sock(t) /\ ~Clearing(h)
           /\ \A g \in held : g.fd = th[t].fd => g = h
<1>1. PICK h \in held : h.by = t /\ h.fd = th[t].fd /\ h.sock = Sock(t)
  BY DEF Apart, Given
<1>2. th[t].pc # "clear"
  BY DEF Working
<1> QED
  BY <1>1, <1>2 DEF Clearing, Apart, OwnFd

-----------------------------------------------------------------------------
\* What a step leaves as it is.

\* Thread t enters neither of the stages between two writes, nor leaves one.
Still(t) ==
  th[t].pc \in {"store", "clear"} \/ th'[t].pc \in {"store", "clear"} => th'[t] = th[t]

\* It gets no socket to make, and no descriptor to work on.
MakesNoMore(t) == Making(t)' => Making(t) /\ th'[t].sock = th[t].sock
WorksNoMore(t) ==
  Working(t)' => Working(t) /\ th'[t].fd = th[t].fd /\ th'[t].sock = th[t].sock

Descend == Positions /\ OwnFd /\ Entries /\ LiveTaken /\ OwnSock

LEMMA StillHeld ==
  ASSUME Shape, Descend, UNCHANGED <<KsArray, KsIndex, held>>,
         \A t \in Threads : Still(t), \A b \in Pool : Taken(b) => Taken(b)'
  PROVE  Descend' /\ \A h \in held : Clearing(h)' <=> Clearing(h)
<1>1. \A h \in held : Clearing(h)' <=> Clearing(h)
  BY HeldType DEF Clearing, Still
<1>2. \A h \in held : InBetween(h)' <=> InBetween(h)
  BY HeldType DEF InBetween, WorksOn, Still
<1>3. Positions' /\ OwnFd'
  BY DEF Descend, Positions, OwnFd
<1>4. Entries'
  BY <1>2 DEF Descend, Entries
<1>5. LiveTaken'
  BY <1>1, HeldType DEF Descend, LiveTaken
<1>6. OwnSock'
  BY <1>1 DEF Descend, OwnSock
<1> QED
  BY <1>1, <1>3, <1>4, <1>5, <1>6 DEF Descend

LEMMA StillMade ==
  ASSUME Shape, OwnMade, UNCHANGED held, \A h \in held : Clearing(h)' <=> Clearing(h),
         \A t \in Threads : MakesNoMore(t), \A b \in Pool : Taken(b) => Taken(b)'
  PROVE  OwnMade'
<1>1. \A t \in Threads : Making(t)' => Making(t) /\ Sock(t)' = Sock(t) /\ Sock(t) \in Pool
  BY ThreadType DEF MakesNoMore, Making, Proper, Sock
<1> SUFFICES ASSUME NEW t \in Threads, Making(t)'
             PROVE  /\ Taken(Sock(t))'
                    /\ \A h \in held' : ~Clearing(h)' => h.sock # Sock(t)'
                    /\ \A u \in Threads : Making(u)' /\ Sock(u)' = Sock(t)' => u = t
  BY DEF OwnMade
<1>2. Taken(Sock(t)) /\ Sock(t) \in Pool /\ Sock(t)' = Sock(t)
  BY <1>1 DEF OwnMade
<1>3. Taken(Sock(t))'
  BY <1>2 DEF Taken
<1> QED
  BY <1>1, <1>2, <1>3 DEF OwnMade

LEMMA StillGiven ==
  ASSUME Given, UNCHANGED held, NEW T \in SUBSET Threads,
         \A t \in T : WorksNoMore(t) /\ Still(t)
  PROVE  \A t \in T :
           /\ Working(t)' => \E h \in held' : h.by = t /\ h.fd = th'[t].fd /\ h.sock = Sock(t)'
           /\ th'[t].pc = "clear" => \E h \in held' : h.by = t /\ h.fd = th'[t].fd
BY DEF Given, WorksNoMore, Still, Sock

LEMMA StillApart ==
  ASSUME Shape, Apart, UNCHANGED <<KsArray, KsIndex, held>>,
         \A t \in Threads : Still(t) /\ MakesNoMore(t) /\ WorksNoMore(t),
         \A b \in Pool : Taken(b) => Taken(b)'
  PROVE  Apart' /\ \A h \in held : Clearing(h)' <=> Clearing(h)
<1>1. Descend' /\ \A h \in held : Clearing(h)' <=> Clearing(h)
  BY StillHeld DEF Apart, Descend
<1>2. OwnMade'
  BY <1>1, StillMade DEF Apart
<1>3. Given'
  BY StillGiven DEF Apart, Given
<1> QED
  BY <1>1, <1>2, <1>3 DEF Apart, Descend

\* A step of thread t, as far as the other threads are concerned.
LEMMA OthersStill ==
  ASSUME NEW t \in Threads, Alone(t)
  PROVE  \A u \in Threads \ {t} : Still(u) /\ MakesNoMore(u) /\ WorksNoMore(u)
BY DEF Alone, Still, MakesNoMore, WorksNoMore, Making, Working

LEMMA StillIncrement ==
  ASSUME OneIncrement, UNCHANGED KsIndex,
         \A t \in Threads : th'[t].pc = "increment" => th'[t] = th[t]
  PROVE  OneIncrement'
BY DEF OneIncrement

\* A step of thread t that changes no block but its own leaves the others' stages.
LEMMA OtherStages ==
  ASSUME NEW t \in Threads, Shape, Apart, Stages, Alone(t),
         \A b \in Pool : ks'[b] = ks[b] \/ ~Taken(b) \/ (th[t].pc # "idle" /\ b = Sock(t)),
         Stage(t)'
  PROVE  Stages'
<1> SUFFICES ASSUME NEW u \in Threads \ {t} PROVE Stage(u)'
  BY DEF Stages
<1>1. th'[u] = th[u] /\ Stage(u)
  BY DEF Alone, Stages
<1>2. CASE th[u].pc \in {"reset", "issue", "wait", "result"}
  <2>1. Sock(u) \in Pool /\ ks'[Sock(u)] = ks[Sock(u)]
    BY <1>2, OwnBlock
  <2> QED
    BY <1>1, <2>1 DEF Stage, Sock
<1>3. CASE th[u].pc \notin {"reset", "issue", "wait", "result"}
  BY <1>1, <1>3 DEF Stage
<1> QED
  BY <1>2, <1>3

\* Who waits goes on doing so as long as the IRP is pending.
LEMMA StillWaited ==
  ASSUME NEW t \in Threads, Waited, Alone(t),
         \A b \in Pool : ks'[b].irp = "pending" =>
           \/ ks[b].irp = "pending" /\ (th[t].pc = "wait" => Sock(t) # b)
           \/ th'[t].pc = "wait" /\ th'[t].sock = b
  PROVE  Waited'
BY DEF Waited, Alone, Sock

\* Nothing that belongs to somebody is lost by a step of thread t that keeps its
\* socket, or that has one of a descriptor.
LEMMA StillReached ==
  ASSUME NEW t \in Threads, Shape, Apart, Reached, Alone(t), UNCHANGED held,
         \A h \in held : Clearing(h)' => Clearing(h),
         leaked \subseteq leaked',
         \A b \in Pool : Taken(b)' =>
           Taken(b) \/ b \in leaked' \/ (th'[t].pc # "idle" /\ th'[t].sock = b),
         \/ th[t].pc = "idle" \/ Working(t) \/ Sock(t) \in leaked'
         \/ th'[t].pc # "idle" /\ th'[t].sock = th[t].sock
  PROVE  Reached'
<1> SUFFICES ASSUME NEW b \in Pool, Taken(b)'
             PROVE  \/ b \in leaked'
                    \/ \E h \in held' : ~Clearing(h)' /\ h.sock = b
                    \/ \E u \in Threads : th'[u].pc # "idle" /\ Sock(u)' = b
  BY DEF Reached
<1>1. CASE ~Taken(b)
  BY <1>1 DEF Sock
<1>2. CASE b \in leaked \/ \E h \in held : ~Clearing(h) /\ h.sock = b
  BY <1>2
<1>3. ASSUME NEW u \in Threads \ {t}, th[u].pc # "idle", Sock(u) = b
      PROVE  \E v \in Threads : th'[v].pc # "idle" /\ Sock(v)' = b
  BY <1>3 DEF Alone, Sock
<1>4. CASE th[t].pc # "idle" /\ Sock(t) = b
  BY <1>4, OwnHeld DEF Sock
<1> QED
  BY <1>1, <1>2, <1>3, <1>4 DEF Reached

-----------------------------------------------------------------------------
\* Each action keeps it.

LEMMA EnterKept ==
  ASSUME NEW t \in Threads, Shape, Kept, Enter(t)
  PROVE  Kept'
<1>1. UNCHANGED <<KsArray, KsIndex, ks, held, leaked, misused, crashed>> /\ ~crashed
  BY EnterStep DEF Enter, At
<1>2. PICK h \in held :
        /\ Alone(t) /\ th[t].pc = "idle"
        /\ th'[t].pc = "reset" /\ th'[t].call \notin DOMAIN Creations
        /\ h.by = t /\ th'[t].fd = h.fd /\ th'[t].sock = KsArray[h.fd]
  BY EnterThread
<1>3. ~InBetween(h) /\ ~Clearing(h)
  BY <1>2 DEF InBetween, Clearing
<1>4. th'[t].sock = h.sock /\ Taken(h.sock) /\ h.sock \in Pool
  BY <1>2, <1>3, HeldType DEF Kept, Apart, Entries, LiveTaken
<1>5. \A b \in Pool : Taken(b)' <=> Taken(b)
  BY <1>1 DEF Taken
<1>6. Still(t) /\ MakesNoMore(t)
  BY <1>2 DEF Still, MakesNoMore, Making
<1>7. Apart' /\ \A g \in held : Clearing(g)' <=> Clearing(g)
  <2>1. Descend' /\ \A g \in held : Clearing(g)' <=> Clearing(g)
    BY <1>1, <1>2, <1>5, <1>6, OthersStill, StillHeld DEF Kept, Apart, Descend
  <2>2. OwnMade'
    BY <1>1, <1>2, <1>5, <1>6, <2>1, OthersStill, StillMade DEF Kept, Apart
  <2>3. \A u \in Threads \ {t} :
           /\ Working(u)' => \E g \in held' : g.by = u /\ g.fd = th'[u].fd /\ g.sock = Sock(u)'
           /\ th'[u].pc = "clear" => \E g \in held' : g.by = u /\ g.fd = th'[u].fd
    BY <1>1, <1>2, OthersStill, StillGiven DEF Kept, Apart
  <2>4. Given'
    BY <1>1, <1>2, <1>4, <2>3 DEF Given, Sock
  <2> QED
    BY <2>1, <2>2, <2>4 DEF Apart, Descend
<1>8. Stages'
  <2>1. ks[h.sock].irp # "pending"
    <3>1. SUFFICES ASSUME ks[h.sock].irp = "pending" PROVE FALSE
      OBVIOUS
    <3>2. PICK u \in Threads : th[u].pc = "wait" /\ Sock(u) = h.sock
      BY <1>4, <3>1 DEF Kept, Waited
    <3>3. Making(u) \/ Working(u)
      BY <3>2, Busy
    <3>4. ~Making(u)
      BY <1>3, <3>2 DEF Kept, Apart, OwnMade
    <3>5. ~Working(u)
      BY <1>2, <1>3, <3>2, OwnHeld DEF Kept, Apart, OwnSock
    <3> QED
      BY <3>3, <3>4, <3>5
  <2>2. Stage(t)'
    BY <1>1, <1>2, <1>4, <2>1 DEF Stage, Sock
  <2> QED
    BY <1>1, <1>2, <2>2, OtherStages DEF Kept
<1>9. OneIncrement'
  BY <1>1, <1>2, StillIncrement DEF Kept, Alone
<1>10. Events'
  BY <1>1 DEF Kept, Events
<1>11. Waited'
  BY <1>1, <1>2, StillWaited DEF Kept
<1>12. Reached'
  <2>1. leaked \subseteq leaked' /\ UNCHANGED held /\ Reached /\ Apart
    BY <1>1 DEF Kept
  <2>2. \A g \in held : Clearing(g)' => Clearing(g)
    BY <1>7 DEF Clearing
  <2> QED
    BY <1>2, <1>5, <2>1, <2>2, StillReached
<1> QED
  BY <1>1, <1>7, <1>8, <1>9, <1>10, <1>11, <1>12 DEF Kept, CrashedOnMissing

\* What a block is that has just been allocated.
LEMMA NewBlock ==
  /\ Free.irp = "free" /\ ~Free.event
  /\ Allocated.irp = "idle" /\ ~Allocated.event
  /\ NoIrp.irp = "missing" /\ ~NoIrp.event
BY DEF Free, Allocated, NoIrp

\* Thread t gets a socket of its own, in a block that was free.
LEMMA MadeApart ==
  ASSUME NEW t \in Threads, NEW b \in FreeBlocks, Shape, Apart, Alone(t),
         UNCHANGED <<KsArray, KsIndex, held>>, Still(t), ~Working(t)',
         th'[t].sock = b, ks'[b].irp # "free", \A c \in Pool \ {b} : ks'[c] = ks[c]
  PROVE  Apart' /\ \A h \in held : Clearing(h)' <=> Clearing(h)
<1>1. b \in Pool /\ ~Taken(b) /\ \A c \in Pool : Taken(c)' <=> (Taken(c) \/ c = b)
  BY DEF FreeBlocks, Taken
<1>2. Descend' /\ \A h \in held : Clearing(h)' <=> Clearing(h)
  BY <1>1, OthersStill, StillHeld DEF Apart, Descend
<1>3. \A u \in Threads \ {t} : Making(u)' =>
        Making(u) /\ th'[u].sock = th[u].sock /\ Sock(u) \in Pool /\ Taken(Sock(u))
  BY OthersStill, ThreadType DEF Apart, OwnMade, MakesNoMore, Making, Proper, Sock
<1>4. \A h \in held : ~Clearing(h) => Taken(h.sock) /\ h.sock \in Pool
  BY HeldType DEF Apart, LiveTaken
<1>5. OwnMade'
  <2> SUFFICES ASSUME NEW u \in Threads, Making(u)'
               PROVE  /\ Taken(Sock(u))'
                      /\ \A h \in held' : ~Clearing(h)' => h.sock # Sock(u)'
                      /\ \A v \in Threads : Making(v)' /\ Sock(v)' = Sock(u)' => v = u
    BY DEF OwnMade
  <2>1. CASE u = t
    <3>1. Sock(u)' = b
      BY <2>1 DEF Sock
    <3>2. Taken(Sock(u))'
      BY <3>1 DEF Taken
    <3> QED
      BY <1>1, <1>2, <1>3, <1>4, <2>1, <3>1, <3>2 DEF Sock
  <2>2. CASE u # t
    <3>1. Making(u) /\ Sock(u)' = Sock(u) /\ Sock(u) # b /\ Sock(u) \in Pool
      BY <1>1, <1>3, <2>2 DEF Sock
    <3>2. Taken(Sock(u))'
      BY <1>3, <2>2, <3>1 DEF Taken
    <3>3. \A v \in Threads : Making(v)' /\ Sock(v)' = Sock(u)' => v = u
      BY <1>3, <3>1 DEF Apart, OwnMade, Sock
    <3> QED
      BY <1>2, <3>1, <3>2, <3>3 DEF Apart, OwnMade
  <2> QED
    BY <2>1, <2>2
<1>6. Given'
  <2>1. \A u \in Threads \ {t} :
           /\ Working(u)' => \E h \in held' : h.by = u /\ h.fd = th'[u].fd /\ h.sock = Sock(u)'
           /\ th'[u].pc = "clear" => \E h \in held' : h.by = u /\ h.fd = th'[u].fd
    BY OthersStill, StillGiven DEF Apart
  <2>2. th'[t].pc = "clear" => \E h \in held' : h.by = t /\ h.fd = th'[t].fd
    BY DEF Still, Apart, Given
  <2> QED
    BY <2>1, <2>2 DEF Given
<1> QED
  BY <1>2, <1>5, <1>6 DEF Apart, Descend

LEMMA CreateKept ==
  ASSUME NEW t \in Threads, Shape, Kept, Create(t)
  PROVE  Kept'
<1>1. /\ th[t].pc = "idle" /\ ~crashed
      /\ UNCHANGED <<KsArray, KsIndex, held, misused, crashed>>
  BY CreateStep DEF Create, At
<1>2. PICK b \in FreeBlocks :
        /\ \A c \in Pool \ {b} : ks'[c] = ks[c]
        /\ \/ /\ ks'[b] = Allocated /\ UNCHANGED leaked
              /\ Alone(t) /\ th'[t].pc = "issue" /\ th'[t].sock = b
              /\ th'[t].call \in DOMAIN Creations
           \/ /\ ks'[b] = NoIrp /\ leaked' = leaked \union {b}
              /\ UNCHANGED th
  BY CreateStep
<1>3. b \in Pool /\ ~Taken(b) /\ ks'[b].irp # "free" /\ Alone(t)
  <2>1. UNCHANGED th => Alone(t)
    BY ShapeType DEF Alone
  <2> QED
    BY <1>2, <2>1, NewBlock DEF FreeBlocks, Taken
<1>4. Apart' /\ \A h \in held : Clearing(h)' <=> Clearing(h)
  <2>1. CASE th'[t].pc = "issue" /\ th'[t].sock = b /\ th'[t].call \in DOMAIN Creations
    <3>1. Still(t) /\ ~Working(t)'
      BY <1>1, <2>1 DEF Still, Working
    <3> QED
      BY <1>1, <1>2, <1>3, <2>1, <3>1, MadeApart DEF Kept
  <2>2. CASE UNCHANGED th
    <3>1. \A u \in Threads : Still(u) /\ MakesNoMore(u) /\ WorksNoMore(u)
      BY <2>2 DEF Still, MakesNoMore, WorksNoMore, Making, Working
    <3>2. \A c \in Pool : Taken(c) => Taken(c)'
      BY <1>2, <1>3 DEF Taken
    <3> QED
      BY <1>1, <3>1, <3>2, StillApart DEF Kept
  <2> QED
    BY <1>2, <2>1, <2>2
<1>5. Stages'
  <2>1. Stage(t)'
    BY <1>1, <1>2, NewBlock DEF Stage, Sock
  <2> QED
    BY <1>2, <1>3, <2>1, OtherStages DEF Kept
<1>6. OneIncrement'
  BY <1>1, <1>2, StillIncrement DEF Kept, Alone
<1>7. Events'
  BY <1>2, NewBlock DEF Kept, Events
<1>8. Waited'
  BY <1>1, <1>2, <1>3, NewBlock, StillWaited DEF Kept
<1>9. Reached'
  <2>1. \A c \in Pool : Taken(c)' =>
          Taken(c) \/ c \in leaked' \/ (th'[t].pc # "idle" /\ th'[t].sock = c)
    BY <1>2 DEF Taken
  <2>2. leaked \subseteq leaked' /\ UNCHANGED held /\ Reached /\ Apart
    BY <1>1, <1>2 DEF Kept
  <2>3. \A h \in held : Clearing(h)' => Clearing(h)
    BY <1>4 DEF Clearing
  <2> QED
    BY <1>1, <1>3, <2>1, <2>2, <2>3, StillReached
<1> QED
  BY <1>1, <1>4, <1>5, <1>6, <1>7, <1>8, <1>9 DEF Kept, CrashedOnMissing

LEMMA ResetKept ==
  ASSUME NEW t \in Threads, Shape, Kept, Reset(t), ~Crash
  PROVE  Kept'
<1>1. /\ UNCHANGED <<KsArray, KsIndex, held, leaked, misused, crashed>> /\ ~crashed
      /\ Alone(t) /\ th[t].pc = "reset" /\ th'[t] = [th[t] EXCEPT !.pc = "issue"]
      /\ Usable(t) /\ ks'[Sock(t)] = Allocated
      /\ \A c \in Pool \ {Sock(t)} : ks'[c] = ks[c]
  BY ResetStep DEF Reset, At
<1>2. /\ th'[t].pc = "issue" /\ th'[t].call = th[t].call /\ th'[t].fd = th[t].fd
      /\ th'[t].sock = th[t].sock /\ th[t].call \notin DOMAIN Creations
  BY <1>1, ThreadType DEF Thread, Proper
<1>3. Sock(t) \in Pool /\ \A b \in Pool : Taken(b) => Taken(b)'
  BY <1>1, NewBlock DEF Usable, Taken
<1>4. Still(t) /\ MakesNoMore(t) /\ WorksNoMore(t)
  BY <1>1, <1>2 DEF Still, MakesNoMore, WorksNoMore, Making, Working
<1>5. Apart' /\ \A h \in held : Clearing(h)' <=> Clearing(h)
  BY <1>1, <1>3, <1>4, OthersStill, StillApart DEF Kept
<1>6. Stages'
  <2>1. Stage(t)'
    BY <1>1, <1>2, <1>3, NewBlock DEF Stage, Sock
  <2> QED
    BY <1>1, <2>1, OtherStages DEF Kept
<1>7. OneIncrement'
  BY <1>1, <1>2, StillIncrement DEF Kept, Alone
<1>8. Events'
  BY <1>1, NewBlock DEF Kept, Events
<1>9. Waited'
  BY <1>1, NewBlock, StillWaited DEF Kept
<1>10. Reached'
  <2>1. \A b \in Pool : Taken(b)' => Taken(b)
    BY <1>1 DEF Usable, Taken
  <2>2. \A h \in held : Clearing(h)' => Clearing(h)
    BY <1>5 DEF Clearing
  <2> QED
    BY <1>1, <1>2, <2>1, <2>2, StillReached DEF Kept
<1> QED
  BY <1>1, <1>5, <1>6, <1>7, <1>8, <1>9, <1>10 DEF Kept, CrashedOnMissing

LEMMA IssueKept ==
  ASSUME NEW t \in Threads, Shape, Kept, Issue(t), ~Crash
  PROVE  Kept'
<1>1. /\ UNCHANGED <<KsArray, KsIndex, held, leaked, misused, crashed>> /\ ~crashed
      /\ Alone(t) /\ th[t].pc = "issue" /\ Usable(t)
      /\ th'[t].call = th[t].call /\ th'[t].fd = th[t].fd /\ th'[t].sock = th[t].sock
      /\ \A c \in Pool \ {Sock(t)} : ks'[c] = ks[c]
      /\ \/ /\ th'[t].pc = "wait" /\ ks'[Sock(t)].irp = "pending"
            /\ ks'[Sock(t)].event = ks[Sock(t)].event
         \/ /\ th'[t].pc = "result" /\ ks'[Sock(t)].irp = "done"
            /\ ks'[Sock(t)].ok = th'[t].ok
  BY IssueStep DEF Issue, At
<1>2. Sock(t) \in Pool /\ ks[Sock(t)].irp = "idle" /\ ~ks[Sock(t)].event
  BY <1>1, ShapeType DEF Usable, Kept, Stages, Stage, Events, Block
<1>3. \A b \in Pool : Taken(b)' <=> Taken(b)
  BY <1>1, <1>2 DEF Taken
<1>4. Still(t) /\ MakesNoMore(t) /\ WorksNoMore(t)
  BY <1>1 DEF Still, MakesNoMore, WorksNoMore, Making, Working
<1>5. Apart' /\ \A h \in held : Clearing(h)' <=> Clearing(h)
  BY <1>1, <1>3, <1>4, OthersStill, StillApart DEF Kept
<1>6. Stages'
  <2>1. Stage(t)'
    BY <1>1 DEF Stage, Sock
  <2> QED
    BY <1>1, <2>1, OtherStages DEF Kept
<1>7. OneIncrement'
  BY <1>1, StillIncrement DEF Kept, Alone
<1>8. Events'
  BY <1>1, <1>2 DEF Kept, Events
<1>9. Waited'
  BY <1>1, StillWaited DEF Kept, Sock
<1>10. Reached'
  <2>1. \A h \in held : Clearing(h)' => Clearing(h)
    BY <1>5 DEF Clearing
  <2> QED
    BY <1>1, <1>3, <2>1, StillReached DEF Kept
<1> QED
  BY <1>1, <1>5, <1>6, <1>7, <1>8, <1>9, <1>10 DEF Kept, CrashedOnMissing

LEMMA CompleteKept ==
  ASSUME NEW b \in Pool, Shape, Kept, Complete(b)
  PROVE  Kept'
<1>1. /\ UNCHANGED <<KsArray, KsIndex, th, held, leaked, misused, crashed>> /\ ~crashed
      /\ ks[b].irp = "pending" /\ ks'[b].irp = "done"
      /\ \A c \in Pool \ {b} : ks'[c] = ks[c]
  BY CompleteStep DEF Complete
<1>2. \A c \in Pool : Taken(c)' <=> Taken(c)
  BY <1>1 DEF Taken
<1>3. \A t \in Threads : Still(t) /\ MakesNoMore(t) /\ WorksNoMore(t)
  BY <1>1 DEF Still, MakesNoMore, WorksNoMore, Making, Working
<1>4. Apart' /\ \A h \in held : Clearing(h)' <=> Clearing(h)
  BY <1>1, <1>2, <1>3, StillApart DEF Kept
<1>5. Stages'
  <2> SUFFICES ASSUME NEW t \in Threads PROVE Stage(t)'
    BY DEF Stages
  <2>1. Stage(t)
    BY DEF Kept, Stages
  <2>2. th[t].pc \in {"reset", "issue", "wait", "result"} => Sock(t) \in Pool
    BY OwnBlock DEF Kept
  <2> QED
    BY <1>1, <2>1, <2>2 DEF Stage, Sock
<1>6. OneIncrement'
  BY <1>1, StillIncrement DEF Kept
<1>7. Events'
  BY <1>1 DEF Kept, Events
<1>8. Waited'
  BY <1>1 DEF Kept, Waited, Sock
<1>9. Reached'
  <2>1. \A h \in held : Clearing(h)' => Clearing(h)
    BY <1>4 DEF Clearing
  <2>2. \A c \in Pool : Taken(c)' => Taken(c)
    BY <1>2 DEF Taken
  <2> QED
    BY <1>1, <2>1, <2>2 DEF Kept, Reached, Sock
<1> QED
  BY <1>1, <1>4, <1>5, <1>6, <1>7, <1>8, <1>9 DEF Kept, CrashedOnMissing

LEMMA WaitKept ==
  ASSUME NEW t \in Threads, Shape, Kept, Wait(t)
  PROVE  Kept'
<1>1. /\ UNCHANGED <<KsArray, KsIndex, held, leaked, misused, crashed>> /\ ~crashed
      /\ Alone(t) /\ th[t].pc = "wait" /\ Sock(t) \in Pool /\ ks[Sock(t)].event
      /\ th'[t].pc = "result" /\ th'[t].call = th[t].call /\ th'[t].fd = th[t].fd
      /\ th'[t].sock = th[t].sock
      /\ \A c \in Pool \ {Sock(t)} : ks'[c] = ks[c]
      /\ ks'[Sock(t)].irp = ks[Sock(t)].irp /\ ks'[Sock(t)].ok = th'[t].ok
      /\ ~ks'[Sock(t)].event
  BY WaitStep DEF Wait, At
<1>2. ks[Sock(t)].irp = "done"
  BY <1>1 DEF Kept, Events
<1>3. \A b \in Pool : Taken(b)' <=> Taken(b)
  BY <1>1 DEF Taken
<1>4. Still(t) /\ MakesNoMore(t) /\ WorksNoMore(t)
  BY <1>1 DEF Still, MakesNoMore, WorksNoMore, Making, Working
<1>5. Apart' /\ \A h \in held : Clearing(h)' <=> Clearing(h)
  BY <1>1, <1>3, <1>4, OthersStill, StillApart DEF Kept
<1>6. Stages'
  <2>1. Stage(t)'
    BY <1>1, <1>2 DEF Stage, Sock
  <2> QED
    BY <1>1, <2>1, OtherStages DEF Kept
<1>7. OneIncrement'
  BY <1>1, StillIncrement DEF Kept, Alone
<1>8. Events'
  BY <1>1 DEF Kept, Events
<1>9. Waited'
  <2>1. \A b \in Pool : ks'[b].irp = "pending" => ks[b].irp = "pending" /\ Sock(t) # b
    BY <1>1, <1>2
  <2> QED
    BY <1>1, <2>1, StillWaited DEF Kept
<1>10. Reached'
  <2>1. \A h \in held : Clearing(h)' => Clearing(h)
    BY <1>5 DEF Clearing
  <2> QED
    BY <1>1, <1>3, <2>1, StillReached DEF Kept
<1> QED
  BY <1>1, <1>5, <1>6, <1>7, <1>8, <1>9, <1>10 DEF Kept, CrashedOnMissing

\* A step of thread t that only goes on.
LEMMA QuietKept ==
  ASSUME NEW t \in Threads, Shape, Kept, Alone(t), OneIncrement', Stage(t)', ~crashed,
         UNCHANGED <<KsArray, KsIndex, ks, held, crashed>>, leaked \subseteq leaked',
         Still(t), MakesNoMore(t), WorksNoMore(t), th[t].pc # "wait",
         \/ th[t].pc = "idle" \/ Working(t) \/ Sock(t) \in leaked'
         \/ th'[t].pc # "idle" /\ th'[t].sock = th[t].sock
  PROVE  Kept'
<1>1. \A b \in Pool : Taken(b)' <=> Taken(b)
  BY DEF Taken
<1>2. Apart' /\ \A h \in held : Clearing(h)' <=> Clearing(h)
  BY <1>1, OthersStill, StillApart DEF Kept
<1>3. Stages'
  BY OtherStages DEF Kept
<1>4. Events'
  BY DEF Kept, Events
<1>5. Waited'
  BY StillWaited DEF Kept
<1>6. Reached'
  <2>1. \A h \in held : Clearing(h)' => Clearing(h)
    BY <1>2 DEF Clearing
  <2> QED
    BY <1>1, <2>1, StillReached DEF Kept
<1> QED
  BY <1>2, <1>3, <1>4, <1>5, <1>6 DEF Kept, CrashedOnMissing

LEMMA DoneKept ==
  ASSUME NEW t \in Threads, Shape, Kept, Done(t)
  PROVE  Kept'
<1>1. /\ UNCHANGED <<KsArray, KsIndex, ks, held, leaked, misused, crashed>> /\ ~crashed
      /\ Alone(t) /\ th[t].pc = "result"
      /\ th[t].call \notin DOMAIN Creations
      /\ \/ /\ th'[t].pc = "reset" /\ th'[t].call = th[t].call
            /\ th'[t].fd = th[t].fd /\ th'[t].sock = th[t].sock
         \/ th'[t].pc = "idle"
  BY DoneStep DEF Done, At
<1>2. Working(t) /\ Still(t) /\ MakesNoMore(t) /\ WorksNoMore(t)
  BY <1>1 DEF Still, MakesNoMore, WorksNoMore, Making, Working
<1>3. OneIncrement'
  BY <1>1, StillIncrement DEF Kept, Alone
<1>4. Stage(t)'
  BY <1>1 DEF Kept, Stages, Stage, Sock
<1> QED
  BY <1>1, <1>2, <1>3, <1>4, QuietKept

LEMMA CreatedKept ==
  ASSUME NEW t \in Threads, Shape, Kept, Created(t)
  PROVE  Kept'
<1>1. /\ UNCHANGED <<KsArray, KsIndex, ks, held, misused, crashed>> /\ ~crashed
      /\ Alone(t) /\ th[t].pc = "result" /\ th[t].call \in DOMAIN Creations
      /\ \/ /\ th'[t].pc = "index" /\ th'[t].call = th[t].call
            /\ th'[t].fd = th[t].fd /\ th'[t].sock = th[t].sock /\ UNCHANGED leaked
         \/ th'[t].pc = "idle" /\ leaked' = leaked \union {Sock(t)}
  BY CreatedStep DEF Created, At
<1>2. Still(t) /\ MakesNoMore(t) /\ WorksNoMore(t)
  BY <1>1 DEF Still, MakesNoMore, WorksNoMore, Making, Working
<1>3. OneIncrement'
  BY <1>1, StillIncrement DEF Kept, Alone
<1>4. Stage(t)'
  BY <1>1 DEF Stage
<1> QED
  BY <1>1, <1>2, <1>3, <1>4, QuietKept

LEMMA IndexReadKept ==
  ASSUME NEW t \in Threads, Shape, Kept, IndexRead(t), ~misused'
  PROVE  Kept'
<1>1. /\ UNCHANGED <<KsArray, KsIndex, ks, held, leaked, crashed>> /\ ~crashed /\ Alone(t)
      /\ th[t].pc = "index" /\ th'[t].pc = "increment" /\ th'[t].index = KsIndex
      /\ th'[t].call = th[t].call /\ th'[t].fd = th[t].fd /\ th'[t].sock = th[t].sock
      /\ \A u \in Threads : th[u].pc # "increment"
  BY IndexReadStep DEF IndexRead, At
<1>2. Still(t) /\ MakesNoMore(t) /\ WorksNoMore(t)
  BY <1>1 DEF Still, MakesNoMore, WorksNoMore, Making, Working
<1>3. OneIncrement'
  BY <1>1 DEF OneIncrement, Alone
<1>4. Stage(t)'
  BY <1>1 DEF Stage
<1> QED
  BY <1>1, <1>2, <1>3, <1>4, QuietKept

LEMMA AcceptedKept ==
  ASSUME NEW t \in Threads, Shape, Kept, Accepted(t)
  PROVE  Kept'
<1>1. /\ UNCHANGED <<KsArray, KsIndex, held, leaked, misused, crashed>> /\ ~crashed
      /\ Alone(t) /\ th[t].pc = "result" /\ th[t].call = "accept"
      /\ \/ \E b \in FreeBlocks :
              /\ ks'[b] \in {Allocated, NoIrp}
              /\ \A c \in Pool \ {b} : ks'[c] = ks[c]
              /\ th'[t].pc = "index" /\ th'[t].call = "accept" /\ th'[t].sock = b
         \/ th'[t].pc = "idle" /\ UNCHANGED ks
  BY AcceptedStep DEF Accepted, At
<1>2. Working(t)
  BY <1>1, CallsType DEF Working
<1>3. OneIncrement'
  BY <1>1, StillIncrement DEF Kept, Alone
<1>4. Stage(t)'
  BY <1>1 DEF Stage
<1>5. CASE th'[t].pc = "idle" /\ UNCHANGED ks
  <2>1. Still(t) /\ MakesNoMore(t) /\ WorksNoMore(t)
    BY <1>1, <1>5 DEF Still, MakesNoMore, WorksNoMore, Making, Working
  <2> QED
    BY <1>1, <1>2, <1>3, <1>4, <1>5, <2>1, QuietKept
<1>6. ASSUME NEW b \in FreeBlocks, ks'[b] \in {Allocated, NoIrp},
             \A c \in Pool \ {b} : ks'[c] = ks[c],
             th'[t].pc = "index", th'[t].sock = b
      PROVE  Kept'
  <2>1. /\ b \in Pool /\ ~Taken(b) /\ ks'[b].irp # "free" /\ ks'[b].irp # "pending"
        /\ ~ks'[b].event
    BY <1>6, NewBlock DEF FreeBlocks, Taken
  <2>2. Still(t) /\ ~Working(t)'
    BY <1>1, <1>6 DEF Still, Working
  <2>3. Apart' /\ \A h \in held : Clearing(h)' <=> Clearing(h)
    BY <1>1, <1>6, <2>1, <2>2, MadeApart DEF Kept
  <2>4. Stages'
    BY <1>1, <1>4, <1>6, <2>1, OtherStages DEF Kept
  <2>5. Events'
    BY <1>6, <2>1 DEF Kept, Events
  <2>6. Waited'
    BY <1>1, <1>6, <2>1, StillWaited DEF Kept
  <2>7. Reached'
    <3>1. \A c \in Pool : Taken(c)' =>
            Taken(c) \/ c \in leaked' \/ (th'[t].pc # "idle" /\ th'[t].sock = c)
      BY <1>6 DEF Taken
    <3>2. \A h \in held : Clearing(h)' => Clearing(h)
      BY <2>3 DEF Clearing
    <3> QED
      BY <1>1, <1>2, <3>1, <3>2, StillReached DEF Kept
  <2> QED
    BY <1>1, <1>3, <2>3, <2>4, <2>5, <2>6, <2>7 DEF Kept, CrashedOnMissing
<1> QED
  BY <1>1, <1>5, <1>6

LEMMA IndexWriteApart ==
  ASSUME NEW t \in Threads, Shape, Kept, IndexWrite(t), ~misused'
  PROVE  Apart' /\ \A h \in held : Aged(h) \in held' /\ (~Clearing(h) => ~Clearing(Aged(h))')
<1>1. /\ UNCHANGED <<KsArray, ks, leaked, crashed>> /\ ~crashed /\ Alone(t)
      /\ th[t].pc = "increment" /\ th'[t].pc = "store"
      /\ KsIndex' = (th[t].index + 1) % SOCKETFD_MAX
      /\ th'[t].fd = th[t].index + 1 /\ th'[t].sock = th[t].sock
      /\ \A h \in held : Aged(h).newer # SOCKETFD_MAX /\ Aged(h) \in held'
  BY IndexWriteStep DEF IndexWrite, At
<1>2. PICK n \in held' :
        /\ n.by = t /\ n.fd = th'[t].fd /\ n.sock = Sock(t) /\ n.newer = 0
        /\ \A g \in held' : g = n \/ \E h \in held : g = Aged(h)
  BY IndexWriteStep
<1>3. th[t].index = KsIndex /\ KsIndex \in 0 .. SOCKETFD_MAX - 1
  BY <1>1, ShapeType DEF Kept, OneIncrement
<1>4. \A h \in held : /\ Aged(h).by = h.by /\ Aged(h).fd = h.fd /\ Aged(h).sock = h.sock
                      /\ Aged(h).newer = h.newer + 1 /\ h.newer + 1 < SOCKETFD_MAX
                      /\ h.by \in Threads /\ h.fd \in 1 .. SOCKETFD_MAX /\ h.sock \in Pool
                      /\ h.newer \in Nat
  <2> SUFFICES ASSUME NEW h \in held
               PROVE  /\ Aged(h).by = h.by /\ Aged(h).fd = h.fd /\ Aged(h).sock = h.sock
                      /\ Aged(h).newer = h.newer + 1 /\ h.newer + 1 < SOCKETFD_MAX
                      /\ h.by \in Threads /\ h.fd \in 1 .. SOCKETFD_MAX /\ h.sock \in Pool
                      /\ h.newer \in Nat
    OBVIOUS
  <2>1. h \in Descriptor /\ h.newer \in 0 .. SOCKETFD_MAX /\ Aged(h).newer # SOCKETFD_MAX
    BY <1>1, ShapeType, HeldType
  <2>2. Aged(h).newer = h.newer + 1 /\ Aged(h).newer \in 0 .. SOCKETFD_MAX
    BY <2>1, AgedType DEF Descriptor
  <2>3. h.newer + 1 < SOCKETFD_MAX
    BY <2>1, <2>2, RingAssumption
  <2> QED
    BY <2>1, <2>2, <2>3, AgedType, HeldType DEF Descriptors
<1>5. KsIndex' = IF KsIndex + 1 = SOCKETFD_MAX THEN 0 ELSE KsIndex + 1
  BY <1>1, <1>3, RingAssumption
<1>6. \A h \in held : h.fd + h.newer = KsIndex \/ h.fd + h.newer = KsIndex + SOCKETFD_MAX
  BY DEF Kept, Apart, Positions
<1>7. n.fd = KsIndex + 1
  BY <1>1, <1>2, <1>3
<1>8. \A h \in held : h.fd # n.fd
  BY <1>3, <1>4, <1>6, <1>7, RingAssumption
<1>9. \A h \in held : Clearing(Aged(h))' <=> Clearing(h)
  BY <1>1, <1>4 DEF Clearing, Alone
<1>10. ~Clearing(n)' /\ InBetween(n)'
  BY <1>1, <1>2 DEF Clearing, InBetween, WorksOn
<1>11. \A h \in held : InBetween(Aged(h))' \/ ~InBetween(h)
  BY <1>1, <1>4 DEF InBetween, WorksOn, Alone
<1>12. \A g \in held' : g # n => \E h \in held : g = Aged(h)
  BY <1>2
<1>13. Making(t) /\ Taken(Sock(t)) /\ \A h \in held : ~Clearing(h) => h.sock # Sock(t)
  BY <1>1 DEF Kept, Apart, OwnMade, Making
<1>14. Positions'
  <2> SUFFICES ASSUME NEW g \in held'
               PROVE  /\ g.newer < SOCKETFD_MAX
                      /\ \/ g.fd + g.newer = KsIndex'
                         \/ g.fd + g.newer = KsIndex' + SOCKETFD_MAX
    BY DEF Positions
  <2>1. CASE g = n
    BY <1>2, <1>3, <1>5, <1>7, <2>1, RingAssumption
  <2>2. ASSUME NEW h \in held, g = Aged(h)
        PROVE  /\ g.newer < SOCKETFD_MAX
               /\ \/ g.fd + g.newer = KsIndex'
                  \/ g.fd + g.newer = KsIndex' + SOCKETFD_MAX
    <3>1. g.newer = h.newer + 1 /\ g.fd = h.fd
      BY <1>4, <2>2
    <3>2. h.newer \in Nat /\ h.newer + 1 < SOCKETFD_MAX /\ h.fd \in 1 .. SOCKETFD_MAX
      BY <1>4
    <3>3. h.fd + h.newer = KsIndex \/ h.fd + h.newer = KsIndex + SOCKETFD_MAX
      BY <1>6
    <3> QED
      BY <1>3, <1>5, <3>1, <3>2, <3>3, RingAssumption
  <2> QED
    BY <1>12, <2>1, <2>2
<1>15. OwnFd'
  BY <1>4, <1>8, <1>12 DEF Kept, Apart, OwnFd
<1>16. Entries'
  <2> SUFFICES ASSUME NEW g \in held', ~InBetween(g)' PROVE KsArray'[g.fd] = g.sock
    BY DEF Entries
  <2>1. PICK h \in held : g = Aged(h)
    BY <1>10, <1>12
  <2>2. KsArray[h.fd] = h.sock
    BY <1>11, <2>1 DEF Kept, Apart, Entries
  <2> QED
    BY <1>1, <1>4, <2>1, <2>2
<1>17. LiveTaken'
  <2> SUFFICES ASSUME NEW g \in held', ~Clearing(g)' PROVE Taken(g.sock)'
    BY DEF LiveTaken
  <2>1. CASE g = n
    BY <1>1, <1>2, <1>13, <2>1 DEF Taken
  <2>2. ASSUME NEW h \in held, g = Aged(h) PROVE Taken(g.sock)'
    <3>1. Taken(h.sock)
      BY <1>9, <2>2 DEF Kept, Apart, LiveTaken
    <3> QED
      BY <1>1, <1>4, <2>2, <3>1 DEF Taken
  <2> QED
    BY <1>12, <2>1, <2>2
<1>18. OwnSock'
  <2> SUFFICES ASSUME NEW f \in held', NEW g \in held',
                      ~Clearing(f)', ~Clearing(g)', f.sock = g.sock
               PROVE  f = g
    BY DEF OwnSock
  <2>1. ASSUME NEW h \in held, NEW i \in held, f = Aged(h), g = Aged(i) PROVE f = g
    BY <1>4, <1>9, <2>1 DEF Kept, Apart, OwnSock
  <2>2. ASSUME NEW h \in held, f = Aged(h) PROVE g # n
    BY <1>2, <1>4, <1>9, <1>13, <2>2
  <2>3. ASSUME NEW h \in held, g = Aged(h) PROVE f # n
    BY <1>2, <1>4, <1>9, <1>13, <2>3
  <2> QED
    BY <1>12, <2>1, <2>2, <2>3
<1>19. OwnMade'
  <2> SUFFICES ASSUME NEW u \in Threads, Making(u)'
               PROVE  /\ Taken(Sock(u))'
                      /\ \A g \in held' : ~Clearing(g)' => g.sock # Sock(u)'
                      /\ \A v \in Threads : Making(v)' /\ Sock(v)' = Sock(u)' => v = u
    BY DEF OwnMade
  <2>1. \A v \in Threads : Making(v)' => v # t /\ Making(v) /\ Sock(v)' = Sock(v)
    BY <1>1, OthersStill DEF Making, MakesNoMore, Sock
  <2>2. Taken(Sock(u)) /\ Sock(u) # Sock(t)
    BY <1>13, <2>1 DEF Kept, Apart, OwnMade
  <2>3. Taken(Sock(u))'
    BY <1>1, <2>1, <2>2 DEF Taken
  <2>4. ASSUME NEW g \in held', ~Clearing(g)' PROVE g.sock # Sock(u)
    <3>1. CASE g = n
      BY <1>2, <2>2, <3>1
    <3>2. ASSUME NEW h \in held, g = Aged(h) PROVE g.sock # Sock(u)
      BY <1>4, <1>9, <2>1, <2>4, <3>2 DEF Kept, Apart, OwnMade
    <3> QED
      BY <1>12, <3>1, <3>2
  <2>5. \A v \in Threads : Making(v)' /\ Sock(v)' = Sock(u)' => v = u
    BY <2>1 DEF Kept, Apart, OwnMade
  <2> QED
    BY <2>1, <2>3, <2>4, <2>5
<1>20. Given'
  <2> SUFFICES ASSUME NEW u \in Threads
               PROVE  /\ Working(u)' => \E h \in held' : /\ h.by = u /\ h.fd = th'[u].fd
                                                         /\ h.sock = Sock(u)'
                      /\ th'[u].pc = "clear" => \E h \in held' : h.by = u /\ h.fd = th'[u].fd
    BY DEF Given
  <2>1. CASE u = t
    BY <1>1, <1>2, <2>1 DEF Sock
  <2>2. CASE u # t
    <3>1. th'[u] = th[u] /\ (Working(u)' <=> Working(u))
      BY <1>1, <2>2 DEF Alone, Working
    <3> QED
      BY <1>1, <1>4, <3>1 DEF Kept, Apart, Given, Sock
  <2> QED
    BY <2>1, <2>2
<1>21. \A h \in held : Aged(h) \in held' /\ (~Clearing(h) => ~Clearing(Aged(h))')
  BY <1>1, <1>9 DEF Clearing
<1> QED
  BY <1>14, <1>15, <1>16, <1>17, <1>18, <1>19, <1>20, <1>21 DEF Apart

LEMMA IndexWriteKept ==
  ASSUME NEW t \in Threads, Shape, Kept, IndexWrite(t), ~misused'
  PROVE  Kept'
<1>1. /\ UNCHANGED <<KsArray, ks, leaked, crashed>> /\ ~crashed /\ Alone(t)
      /\ th[t].pc = "increment" /\ th'[t].pc = "store" /\ th'[t].sock = th[t].sock
  BY IndexWriteStep DEF IndexWrite, At
<1>2. Apart' /\ \A h \in held : Aged(h) \in held' /\ (~Clearing(h) => ~Clearing(Aged(h))')
  BY IndexWriteApart
<1>3. OneIncrement'
  BY <1>1 DEF Kept, OneIncrement, Alone
<1>4. Stages'
  <2>1. Stage(t)'
    BY <1>1 DEF Stage
  <2> QED
    BY <1>1, <2>1, OtherStages DEF Kept
<1>5. Events'
  BY <1>1 DEF Kept, Events
<1>6. Waited'
  BY <1>1, StillWaited DEF Kept
<1>7. Reached'
  <2>1. \A h \in held : Aged(h).sock = h.sock
    BY ShapeType, AgedType
  <2>2. \A h \in held : ~Clearing(h) =>
          \E g \in held' : ~Clearing(g)' /\ g.sock = h.sock
    BY <1>2, <2>1 DEF Clearing
  <2>3. \A u \in Threads : th[u].pc # "idle" => th'[u].pc # "idle" /\ Sock(u)' = Sock(u)
    BY <1>1 DEF Alone, Sock
  <2>4. \A b \in Pool : Taken(b)' => Taken(b)
    BY <1>1 DEF Taken
  <2> QED
    BY <1>1, <2>2, <2>3, <2>4 DEF Kept, Reached
<1> QED
  BY <1>1, <1>2, <1>3, <1>4, <1>5, <1>6, <1>7 DEF Kept, CrashedOnMissing

LEMMA StoreKept ==
  ASSUME NEW t \in Threads, Shape, Kept, Store(t)
  PROVE  Kept'
<1>1. /\ UNCHANGED <<KsIndex, ks, held, leaked, misused, crashed>> /\ ~crashed /\ Alone(t)
      /\ th[t].pc = "store" /\ th'[t].pc = "idle"
      /\ th[t].fd \in Descriptors /\ KsArray'[th[t].fd] = Sock(t)
      /\ \A fd \in Descriptors \ {th[t].fd} : KsArray'[fd] = KsArray[fd]
  BY StoreStep DEF Store, At
<1>2. Working(t) /\ Apart
  BY <1>1 DEF Working, Kept
<1>3. PICK h \in held :
        /\ h.by = t /\ h.fd = th[t].fd /\ h.sock = Sock(t) /\ ~Clearing(h)
        /\ \A g \in held : g.fd = th[t].fd => g = h
  BY <1>2, OwnHeld
<1>4. \A g \in held : Clearing(g)' <=> Clearing(g)
  BY <1>1, HeldType DEF Clearing, Alone
<1>5. Apart'
  <2>1. Positions' /\ OwnFd'
    BY <1>1, <1>2 DEF Apart, Positions, OwnFd
  <2>2. Entries'
    <3> SUFFICES ASSUME NEW g \in held, ~InBetween(g)' PROVE KsArray'[g.fd] = g.sock
      BY <1>1 DEF Entries
    <3>1. CASE g.fd = th[t].fd
      BY <1>1, <1>3, <3>1
    <3>2. CASE g.fd # th[t].fd
      <4>1. ~InBetween(g)
        BY <1>1, <3>2, HeldType DEF InBetween, WorksOn, Alone
      <4>2. KsArray[g.fd] = g.sock
        BY <1>2, <4>1 DEF Apart, Entries
      <4> QED
        BY <1>1, <3>2, <4>2, HeldType
    <3> QED
      BY <3>1, <3>2
  <2>3. LiveTaken'
    BY <1>1, <1>2, <1>4 DEF Apart, LiveTaken, Taken
  <2>4. OwnSock'
    BY <1>1, <1>2, <1>4 DEF Apart, OwnSock
  <2>5. OwnMade'
    <3>1. MakesNoMore(t)
      BY <1>1 DEF MakesNoMore, Making
    <3>2. \A u \in Threads : MakesNoMore(u)
      BY <1>1, <3>1, OthersStill
    <3>3. \A b \in Pool : Taken(b) => Taken(b)'
      BY <1>1 DEF Taken
    <3> QED
      BY <1>1, <1>2, <1>4, <3>2, <3>3, StillMade DEF Apart
  <2>6. Given'
    <3>1. \A u \in Threads \ {t} :
             /\ Working(u)' => \E g \in held' : g.by = u /\ g.fd = th'[u].fd /\ g.sock = Sock(u)'
             /\ th'[u].pc = "clear" => \E g \in held' : g.by = u /\ g.fd = th'[u].fd
      BY <1>1, <1>2, OthersStill, StillGiven DEF Apart
    <3>2. ~Working(t)'
      BY <1>1 DEF Working
    <3> QED
      BY <1>1, <3>1, <3>2 DEF Given
  <2> QED
    BY <2>1, <2>2, <2>3, <2>4, <2>5, <2>6 DEF Apart
<1>6. Stages'
  <2>1. Stage(t)'
    BY <1>1 DEF Stage
  <2> QED
    BY <1>1, <2>1, OtherStages DEF Kept
<1>7. OneIncrement'
  BY <1>1, StillIncrement DEF Kept, Alone
<1>8. Events'
  BY <1>1 DEF Kept, Events
<1>9. Waited'
  BY <1>1, StillWaited DEF Kept
<1>10. Reached'
  <2>1. \A g \in held : Clearing(g)' => Clearing(g)
    BY <1>4 DEF Clearing
  <2>2. \A b \in Pool : Taken(b)' => Taken(b)
    BY <1>1 DEF Taken
  <2> QED
    BY <1>1, <1>2, <2>1, <2>2, StillReached DEF Kept
<1> QED
  BY <1>1, <1>5, <1>6, <1>7, <1>8, <1>9, <1>10 DEF Kept, CrashedOnMissing

LEMMA CloseKept ==
  ASSUME NEW t \in Threads, Shape, Kept, Close(t), ~Crash
  PROVE  Kept'
<1>1. /\ UNCHANGED <<KsArray, KsIndex, held, leaked, misused, crashed>> /\ ~crashed
      /\ Alone(t) /\ th[t].pc = "result" /\ th[t].call \notin DOMAIN Creations
      /\ th'[t].pc = "clear" /\ th'[t].fd = th[t].fd
      /\ Sock(t) \in Pool /\ ks'[Sock(t)] = Free
      /\ \A c \in Pool \ {Sock(t)} : ks'[c] = ks[c]
  BY CloseStep DEF Close, At
<1>2. Working(t) /\ Apart
  BY <1>1 DEF Working, Kept
<1>3. PICK h \in held :
        /\ h.by = t /\ h.fd = th[t].fd /\ h.sock = Sock(t) /\ ~Clearing(h)
        /\ \A g \in held : g.fd = th[t].fd => g = h
  BY <1>2, OwnHeld
<1>4. Clearing(h)' /\ \A g \in held : g # h => (Clearing(g)' <=> Clearing(g))
  BY <1>1, <1>3, HeldType DEF Clearing, Alone
<1>5. \A g \in held : ~Clearing(g)' => ~Clearing(g) /\ g # h /\ g.sock # Sock(t)
  BY <1>2, <1>3, <1>4 DEF Apart, OwnSock
<1>6. \A b \in Pool \ {Sock(t)} : Taken(b)' <=> Taken(b)
  BY <1>1 DEF Taken
<1>7. Apart'
  <2>1. Positions' /\ OwnFd'
    BY <1>1, <1>2 DEF Apart, Positions, OwnFd
  <2>2. Entries'
    <3>1. \A g \in held : InBetween(g) => InBetween(g)'
      BY <1>1, HeldType DEF InBetween, WorksOn, Alone
    <3> QED
      BY <1>1, <1>2, <3>1 DEF Apart, Entries, InBetween, WorksOn
  <2>3. LiveTaken'
    <3> SUFFICES ASSUME NEW g \in held, ~Clearing(g)' PROVE Taken(g.sock)'
      BY <1>1 DEF LiveTaken
    <3>1. Taken(g.sock) /\ g.sock \in Pool \ {Sock(t)}
      BY <1>2, <1>5, HeldType DEF Apart, LiveTaken
    <3> QED
      BY <1>1, <3>1 DEF Taken
  <2>4. OwnSock'
    BY <1>1, <1>2, <1>5 DEF Apart, OwnSock, Clearing
  <2>5. OwnMade'
    <3>1. \A u \in Threads : Making(u)' =>
            Making(u) /\ u # t /\ Sock(u)' = Sock(u) /\ Sock(u) \in Pool \ {Sock(t)}
      <4> SUFFICES ASSUME NEW u \in Threads, Making(u)'
                   PROVE  Making(u) /\ u # t /\ Sock(u)' = Sock(u)
                          /\ Sock(u) \in Pool \ {Sock(t)}
        OBVIOUS
      <4>1. Making(u) /\ u # t /\ Sock(u)' = Sock(u)
        BY <1>1, OthersStill DEF Making, MakesNoMore, Sock
      <4>2. Sock(u) # Sock(t)
        BY <1>2, <1>3, <4>1 DEF Apart, OwnMade
      <4>3. Sock(u) \in Pool
        BY <4>1, ThreadType DEF Making, Proper, Sock
      <4> QED
        BY <4>1, <4>2, <4>3
    <3> SUFFICES ASSUME NEW u \in Threads, Making(u)'
                 PROVE  /\ Taken(Sock(u))'
                        /\ \A g \in held : ~Clearing(g)' => g.sock # Sock(u)'
                        /\ \A v \in Threads : Making(v)' /\ Sock(v)' = Sock(u)' => v = u
      BY <1>1 DEF OwnMade
    <3>2. Taken(Sock(u)) /\ Sock(u)' = Sock(u) /\ Sock(u) \in Pool \ {Sock(t)}
      BY <1>2, <3>1 DEF Apart, OwnMade
    <3>3. Taken(Sock(u))'
      BY <1>1, <3>2 DEF Taken
    <3>4. \A g \in held : ~Clearing(g)' => g.sock # Sock(u)'
      BY <1>2, <1>5, <3>1, <3>2 DEF Apart, OwnMade
    <3>5. \A v \in Threads : Making(v)' /\ Sock(v)' = Sock(u)' => v = u
      BY <1>2, <3>1 DEF Apart, OwnMade
    <3> QED
      BY <3>3, <3>4, <3>5
  <2>6. Given'
    <3>1. \A u \in Threads \ {t} :
             /\ Working(u)' => \E g \in held' : g.by = u /\ g.fd = th'[u].fd /\ g.sock = Sock(u)'
             /\ th'[u].pc = "clear" => \E g \in held' : g.by = u /\ g.fd = th'[u].fd
      BY <1>1, <1>2, OthersStill, StillGiven DEF Apart
    <3>2. ~Working(t)'
      BY <1>1 DEF Working
    <3> QED
      BY <1>1, <1>3, <3>1, <3>2 DEF Given
  <2> QED
    BY <2>1, <2>2, <2>3, <2>4, <2>5, <2>6 DEF Apart
<1>8. Stages'
  <2>1. Stage(t)'
    BY <1>1 DEF Stage
  <2> QED
    BY <1>1, <2>1, OtherStages DEF Kept
<1>9. OneIncrement'
  BY <1>1, StillIncrement DEF Kept, Alone
<1>10. Events'
  BY <1>1, NewBlock DEF Kept, Events
<1>11. Waited'
  BY <1>1, NewBlock, StillWaited DEF Kept
<1>12. Reached'
  <2> SUFFICES ASSUME NEW b \in Pool, Taken(b)'
               PROVE  \/ b \in leaked
                      \/ \E g \in held : ~Clearing(g)' /\ g.sock = b
                      \/ \E u \in Threads : th'[u].pc # "idle" /\ Sock(u)' = b
    BY <1>1 DEF Reached
  <2>1. b # Sock(t) /\ Taken(b)
    BY <1>1, <1>6, NewBlock DEF Taken
  <2>2. ASSUME NEW g \in held, ~Clearing(g), g.sock = b
        PROVE  ~Clearing(g)'
    BY <1>3, <1>4, <2>1, <2>2
  <2>3. \A u \in Threads : th[u].pc # "idle" /\ Sock(u) = b =>
          th'[u].pc # "idle" /\ Sock(u)' = b
    BY <1>1, <2>1 DEF Alone, Sock
  <2> QED
    BY <2>1, <2>2, <2>3 DEF Kept, Reached
<1> QED
  BY <1>1, <1>7, <1>8, <1>9, <1>10, <1>11, <1>12 DEF Kept, CrashedOnMissing

LEMMA ClearKept ==
  ASSUME NEW t \in Threads, Shape, Kept, Clear(t)
  PROVE  Kept'
<1>1. /\ UNCHANGED <<KsIndex, ks, leaked, misused, crashed>> /\ ~crashed /\ Alone(t)
      /\ th[t].pc = "clear" /\ th'[t].pc = "idle" /\ Sock(t) = NULL
      /\ held' = {h \in held : ~(h.by = t /\ h.fd = th[t].fd)}
      /\ \A fd \in Descriptors \ {th[t].fd} : KsArray'[fd] = KsArray[fd]
  BY ClearStep DEF Clear, At
<1>2. Apart
  BY DEF Kept
<1>3. PICK h \in held : h.by = t /\ h.fd = th[t].fd
  BY <1>1, <1>2 DEF Apart, Given
<1>4. \A g \in held' : g \in held /\ g.fd # th[t].fd
  BY <1>1, <1>2, <1>3 DEF Apart, OwnFd
<1>5. \A g \in held' : Clearing(g)' <=> Clearing(g)
  BY <1>1, <1>4, HeldType DEF Clearing, Alone
<1>6. \A g \in held : g \in held' \/ Clearing(g)
  BY <1>1 DEF Clearing
<1>7. Apart'
  <2>1. Positions' /\ OwnFd'
    BY <1>1, <1>2, <1>4 DEF Apart, Positions, OwnFd
  <2>2. Entries'
    <3> SUFFICES ASSUME NEW g \in held', ~InBetween(g)' PROVE KsArray'[g.fd] = g.sock
      BY DEF Entries
    <3>1. ~InBetween(g)
      BY <1>1, <1>4, HeldType DEF InBetween, WorksOn, Alone
    <3>2. KsArray[g.fd] = g.sock
      BY <1>2, <1>4, <3>1 DEF Apart, Entries
    <3> QED
      BY <1>1, <1>4, <3>2, HeldType
  <2>3. LiveTaken'
    <3> SUFFICES ASSUME NEW g \in held', ~Clearing(g)' PROVE Taken(g.sock)'
      BY DEF LiveTaken
    <3>1. Taken(g.sock)
      BY <1>2, <1>4, <1>5 DEF Apart, LiveTaken
    <3> QED
      BY <1>1, <3>1 DEF Taken
  <2>4. OwnSock'
    BY <1>2, <1>4, <1>5 DEF Apart, OwnSock
  <2>5. OwnMade'
    <3>1. \A u \in Threads : Making(u)' => Making(u) /\ Sock(u)' = Sock(u)
      BY <1>1, OthersStill DEF Making, MakesNoMore, Sock
    <3> SUFFICES ASSUME NEW u \in Threads, Making(u)'
                 PROVE  /\ Taken(Sock(u))'
                        /\ \A g \in held' : ~Clearing(g)' => g.sock # Sock(u)'
                        /\ \A v \in Threads : Making(v)' /\ Sock(v)' = Sock(u)' => v = u
      BY DEF OwnMade
    <3>2. Taken(Sock(u)) /\ Sock(u)' = Sock(u)
      BY <1>2, <3>1 DEF Apart, OwnMade
    <3>3. Taken(Sock(u))'
      BY <1>1, <3>2 DEF Taken
    <3>4. \A g \in held' : ~Clearing(g)' => g.sock # Sock(u)'
      BY <1>2, <1>4, <1>5, <3>1 DEF Apart, OwnMade
    <3>5. \A v \in Threads : Making(v)' /\ Sock(v)' = Sock(u)' => v = u
      BY <1>2, <3>1 DEF Apart, OwnMade
    <3> QED
      BY <3>3, <3>4, <3>5
  <2>6. Given'
    <3>1. ~Working(t)'
      BY <1>1 DEF Working
    <3>2. ASSUME NEW u \in Threads \ {t}
          PROVE  /\ Working(u)' => \E g \in held' : /\ g.by = u /\ g.fd = th'[u].fd
                                                    /\ g.sock = Sock(u)'
                 /\ th'[u].pc = "clear" => \E g \in held' : g.by = u /\ g.fd = th'[u].fd
      <4>1. th'[u] = th[u] /\ (Working(u)' <=> Working(u))
        BY <1>1 DEF Alone, Working
      <4>2. \A g \in held : g.by = u => g \in held'
        BY <1>1
      <4> QED
        BY <1>2, <4>1, <4>2 DEF Apart, Given, Sock
    <3> QED
      BY <1>1, <3>1, <3>2 DEF Given
  <2> QED
    BY <2>1, <2>2, <2>3, <2>4, <2>5, <2>6 DEF Apart
<1>8. Stages'
  <2>1. Stage(t)'
    BY <1>1 DEF Stage
  <2> QED
    BY <1>1, <1>2, <2>1, OtherStages DEF Kept
<1>9. OneIncrement'
  BY <1>1, StillIncrement DEF Kept, Alone
<1>10. Events'
  BY <1>1 DEF Kept, Events
<1>11. Waited'
  BY <1>1, StillWaited DEF Kept
<1>12. Reached'
  <2> SUFFICES ASSUME NEW b \in Pool, Taken(b)'
               PROVE  \/ b \in leaked'
                      \/ \E g \in held' : ~Clearing(g)' /\ g.sock = b
                      \/ \E u \in Threads : th'[u].pc # "idle" /\ Sock(u)' = b
    BY DEF Reached
  <2>1. Taken(b) /\ b # NULL
    BY <1>1, NullAssumption DEF Taken
  <2>2. CASE b \in leaked
    BY <1>1, <2>2
  <2>3. ASSUME NEW g \in held, ~Clearing(g), g.sock = b
        PROVE  g \in held' /\ ~Clearing(g)'
    BY <1>5, <1>6, <2>3
  <2>4. \A u \in Threads : th[u].pc # "idle" /\ Sock(u) = b =>
          th'[u].pc # "idle" /\ Sock(u)' = b
    BY <1>1, <2>1 DEF Alone, Sock
  <2> QED
    BY <2>1, <2>2, <2>3, <2>4 DEF Kept, Reached
<1> QED
  BY <1>1, <1>7, <1>8, <1>9, <1>10, <1>11, <1>12 DEF Kept, CrashedOnMissing

\* An invalid address is used for want of an IRP only.
LEMMA CrashKept ==
  ASSUME NEW t \in Threads, Shape, Kept, Crash, Reset(t) \/ Issue(t) \/ Close(t)
  PROVE  Kept'
<1>1. UNCHANGED <<KsArray, KsIndex, ks, th, held, leaked, misused>>
  BY DEF Crash
<1>2. ASSUME th[t].pc = "reset", ~Usable(t) PROVE CrashedOnMissing'
  <2>1. Sock(t) \in Pool /\ Taken(Sock(t)) /\ ks[Sock(t)].irp # "pending"
    BY <1>2, OwnBlock DEF Kept, Stages, Stage
  <2>2. ks[Sock(t)].irp \in {"free", "missing", "idle", "pending", "done"}
    BY <2>1, ShapeType DEF Block
  <2>3. WithoutIrp(t)
    BY <1>2, <2>1, <2>2 DEF Usable, Taken, WithoutIrp
  <2> QED
    BY <1>1, <2>3 DEF CrashedOnMissing, WithoutIrp, Sock
<1>3. ~(th[t].pc = "issue" /\ ~Usable(t))
  BY OwnBlock DEF Kept, Stages, Stage, Usable
<1>4. ~(th[t].pc = "result" /\ ks[Sock(t)].irp = "free")
  BY DEF Kept, Stages, Stage
<1>5. CrashedOnMissing'
  <2>1. Reset(t) => th[t].pc = "reset" /\ ~Usable(t)
    BY DEF Reset, At, Crash
  <2>2. Issue(t) => th[t].pc = "issue" /\ ~Usable(t)
    BY DEF Issue, At, Crash
  <2>3. Close(t) => th[t].pc = "result" /\ ks[Sock(t)].irp = "free"
    BY DEF Close, At, Crash
  <2> QED
    BY <1>2, <1>3, <1>4, <2>1, <2>2, <2>3
<1>6. OneIncrement' /\ Apart' /\ Stages' /\ Events' /\ Waited' /\ Reached'
  <2>1. OneIncrement' /\ Stages' /\ Events' /\ Waited'
    BY <1>1 DEF Kept, OneIncrement, Stages, Stage, Events, Waited, Sock
  <2>2. Apart' /\ \A h \in held : Clearing(h)' <=> Clearing(h)
    <3>1. \A u \in Threads : Still(u) /\ MakesNoMore(u) /\ WorksNoMore(u)
      BY <1>1 DEF Still, MakesNoMore, WorksNoMore, Making, Working
    <3>2. \A b \in Pool : Taken(b) => Taken(b)'
      BY <1>1 DEF Taken
    <3> QED
      BY <1>1, <3>1, <3>2, StillApart DEF Kept
  <2>3. Reached'
    BY <1>1 DEF Kept, Reached, Taken, Clearing, Sock
  <2> QED
    BY <2>1, <2>2, <2>3
<1> QED
  BY <1>5, <1>6 DEF Kept

-----------------------------------------------------------------------------
\* The invariant.

LEMMA InitIInv == Init => IInv
<1> SUFFICES ASSUME Init PROVE IInv
  OBVIOUS
<1>1. Shape
  BY InitShape
<1>2. /\ \A t \in Threads : th[t].pc = "idle"
      /\ \A b \in Pool : ks[b].irp = "free" /\ ~ks[b].event
      /\ held = {} /\ crashed = FALSE
  BY IdleProper, NewBlock DEF Init
<1>3. Apart
  BY <1>2 DEF Apart, Positions, OwnFd, Entries, LiveTaken, OwnSock, OwnMade, Given,
     Making, Working
<1>4. Stages
  BY <1>2 DEF Stages, Stage
<1>5. OneIncrement /\ Events /\ Waited /\ Reached /\ CrashedOnMissing
  BY <1>2 DEF OneIncrement, Events, Waited, Reached, Taken, CrashedOnMissing
<1> QED
  BY <1>1, <1>3, <1>4, <1>5 DEF IInv, Kept

\* Misuse cannot be undone.
LEMMA StaysMisused ==
  ASSUME Shape, [Next]_vars, misused
  PROVE  misused'
<1>1. ASSUME NEW t \in Threads, Step(t) PROVE misused'
  BY <1>1, ShapeType
     DEF Step, Reset, Issue, Wait, Done, Created, Accepted, IndexRead, IndexWrite, Store,
         Close, Clear, Crash
<1>2. ASSUME NEW t \in Threads, Enter(t) \/ Create(t) PROVE misused'
  BY <1>2 DEF Enter, Create
<1>3. ASSUME NEW b \in Pool, Complete(b) PROVE misused'
  BY <1>3 DEF Complete
<1> QED
  BY <1>1, <1>2, <1>3 DEF Next, vars

LEMMA NextIInv == IInv /\ [Next]_vars => IInv'
<1> SUFFICES ASSUME IInv, [Next]_vars PROVE IInv'
  OBVIOUS
<1>1. Shape /\ Shape'
  BY NextShape DEF IInv
<1> SUFFICES ASSUME ~misused' PROVE Kept'
  BY <1>1 DEF IInv
<1>2. Kept
  BY <1>1, StaysMisused DEF IInv
<1>3. ASSUME NEW t \in Threads, Enter(t) PROVE Kept'
  BY <1>1, <1>2, <1>3, EnterKept
<1>4. ASSUME NEW t \in Threads, Create(t) PROVE Kept'
  BY <1>1, <1>2, <1>4, CreateKept
<1>5. ASSUME NEW t \in Threads, Step(t) PROVE Kept'
  <2>1. CASE Reset(t) \/ Issue(t) \/ Close(t)
    BY <1>1, <1>2, <2>1, CrashKept, ResetKept, IssueKept, CloseKept
  <2>2. CASE Wait(t) \/ Done(t) \/ Created(t) \/ Accepted(t)
    BY <1>1, <1>2, <2>2, WaitKept, DoneKept, CreatedKept, AcceptedKept
  <2>3. CASE IndexRead(t) \/ IndexWrite(t)
    BY <1>1, <1>2, <2>3, IndexReadKept, IndexWriteKept
  <2>4. CASE Store(t) \/ Clear(t)
    BY <1>1, <1>2, <2>4, StoreKept, ClearKept
  <2> QED
    BY <1>5, <2>1, <2>2, <2>3, <2>4 DEF Step
<1>6. ASSUME NEW b \in Pool, Complete(b) PROVE Kept'
  BY <1>1, <1>2, <1>6, CompleteKept
<1>7. CASE UNCHANGED vars
  BY <1>2, <1>7
     DEF vars, Kept, OneIncrement, Apart, Stages, Events, Waited, Reached, CrashedOnMissing,
         WithoutIrp, Positions, OwnFd, Entries, LiveTaken, OwnSock, OwnMade, Given, Stage, Making,
         Working, Clearing, Taken, InBetween, WorksOn, Sock
<1> QED
  BY <1>3, <1>4, <1>5, <1>6, <1>7 DEF Next

LEMMA Inductive == Spec => []IInv
BY InitIInv, NextIInv, PTL DEF Spec

\* As long as no two threads are in KsIndex++ at a time and no descriptor stays
\* open while SOCKETFD_MAX others are given out, a descriptor stands for the
\* socket it was given for, whatever the size of the ring.
THEOREM DescriptorsStandForTheirSockets == Spec => []OwnDescriptor
<1>1. IInv => OwnDescriptor
  <2> SUFFICES ASSUME Shape, Kept, NEW h \in held, ~InBetween(h)
               PROVE  KsArray[h.fd] = h.sock /\ ks[h.sock].irp # "free"
    BY DEF IInv, OwnDescriptor
  <2>1. ~Clearing(h)
    BY DEF InBetween, WorksOn, Clearing
  <2> QED
    BY <2>1 DEF Kept, Apart, Entries, LiveTaken, Taken
<1> QED
  BY <1>1, Inductive, PTL

\* Then no thread uses what is not a socket, but for one in a call on a socket
\* that was accepted when there was no memory for its IRP.
THEOREM CrashesOnlyWithoutIrp == Spec => []NoCrash
<1>1. IInv => NoCrash
  BY DEF IInv, Kept, CrashedOnMissing, NoCrash
<1> QED
  BY <1>1, Inductive, PTL

\* Then each pending IRP has one thread that waits for it, and no other thread
\* is in a call on its socket.
THEOREM OneThreadWaits == Spec => []OneWaits
<1>1. IInv => OneWaits
  <2> SUFFICES ASSUME Shape, Kept, NEW b \in Pool, ks[b].irp = "pending"
               PROVE  \E t \in Threads :
                        /\ th[t].pc = "wait" /\ Sock(t) = b
                        /\ \A u \in Threads \ {t} : th[u].pc # "idle" => Sock(u) # b
    BY DEF IInv, OneWaits
  <2>1. PICK t \in Threads : th[t].pc = "wait" /\ Sock(t) = b
    BY DEF Kept, Waited
  <2>2. \A u \in Threads \ {t} : th[u].pc # "idle" => Sock(u) # b
    BY <2>1, OwnBlock DEF Kept
  <2> QED
    BY <2>1, <2>2
<1> QED
  BY <1>1, Inductive, PTL

\* Then a result is used when the provider is done with what was asked, and it
\* is the result of that.
THEOREM ResultsAreComplete == Spec => []CompletedBeforeUse
<1>1. IInv => CompletedBeforeUse
  BY DEF IInv, Kept, Stages, Stage, CompletedBeforeUse
<1> QED
  BY <1>1, Inductive, PTL

\* Then only the sockets that could not be created are lost.
THEOREM OnlyFailuresLeak == Spec => []NothingElseLeaks
<1>1. IInv => NothingElseLeaks
  BY DEF IInv, Kept, Reached, Taken, NothingElseLeaks
<1> QED
  BY <1>1, Inductive, PTL
=============================================================================
