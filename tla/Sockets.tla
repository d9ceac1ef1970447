------------------------------- MODULE Sockets -------------------------------
(***************************************************************************)
(* The sockets of the driver client: berkeley.c, which gives out           *)
(* descriptors from a ring of SOCKETFD_MAX entries, and below it           *)
(* ksocket.c, where each socket has one IRP and one event, and each        *)
(* operation hands the IRP to the WSK provider and waits for the event.    *)
(*                                                                         *)
(* Threads call what berkeley.h declares. A thread makes the calls that    *)
(* the kind of its socket is for, on descriptors it has got and not        *)
(* closed; nothing else is assumed of it.                                  *)
(***************************************************************************)
EXTENDS Integers, Sequences, FiniteSets

CONSTANTS
  Threads,
  Pool,           \* the blocks of memory that a KSOCKET may be allocated in
  Used,           \* the calls that the threads make
  SOCKETFD_MAX,
  NULL

ASSUME RingAssumption == SOCKETFD_MAX \in Nat \ {0}
ASSUME NullAssumption == NULL \notin Pool

VARIABLES
  KsArray,        \* for each descriptor the KSOCKET it stands for, or NULL
  KsIndex,        \* see IndexWrite
  ks,             \* the KSOCKETs: for each block its IRP and event
  th,             \* what each thread is doing
  held,           \* the descriptors given out and not closed
  leaked,         \* (history) blocks whose socket could not be created
  misused,        \* (history) the callers have asked too much of the ring
  crashed         \* an invalid address was used, and the system has stopped

vars == <<KsArray, KsIndex, ks, th, held, leaked, misused, crashed>>

-----------------------------------------------------------------------------

Kinds == {"connection", "listen", "datagram"}

\* The calls on a socket. listen() does nothing.
Calls == [connection |-> {"bind", "connect", "send", "recv", "closesocket"},
          listen     |-> {"bind", "accept", "closesocket"},
          datagram   |-> {"bind", "sendto", "recvfrom", "closesocket"}]

\* The calls that make a socket.
Creations == [socket_connection |-> "connection", socket_listen |-> "listen",
              socket_datagram |-> "datagram"]

\* What each asks of the provider, one after the other. recvfrom asks for what
\* sendto does.
Requests == [socket_connection |-> <<"WskSocket">>,
             socket_listen |-> <<"WskSocket">>, socket_datagram |-> <<"WskSocket">>,
             bind |-> <<"WskBind">>,
             connect |-> <<"WskBind", "WskConnect">>, accept |-> <<"WskAccept">>,
             send |-> <<"WskSend">>, recv |-> <<"WskReceive">>,
             sendto |-> <<"WskSendTo">>, recvfrom |-> <<"WskSendTo">>,
             closesocket |-> <<"WskCloseSocket">>]

\* Those that end when another system does something, if it ever does.
PeerRequests == {"WskAccept", "WskReceive"}

AllRequests == {"WskSocket", "WskBind", "WskConnect", "WskAccept", "WskSend",
                "WskReceive", "WskSendTo", "WskCloseSocket"}

\* A block: whether its IRP is "idle", "pending" with the provider or "done",
\* "missing" in a KSOCKET that has none, or the block "free"; whether what was
\* asked succeeded; what is asked; whether the event is set.
Free == [irp |-> "free", ok |-> FALSE, request |-> "none", event |-> FALSE]

\* KspAsyncContextAllocate
Allocated == [Free EXCEPT !.irp = "idle"]
NoIrp == [Free EXCEPT !.irp = "missing"]

Idle == [pc |-> "idle", call |-> "none", kind |-> "connection", step |-> 1,
         fd |-> 0, sock |-> NULL, ok |-> FALSE, index |-> 0]

Descriptors == 1 .. SOCKETFD_MAX

FreeBlocks == {b \in Pool : ks[b].irp = "free"}

Init ==
  /\ KsArray = [fd \in Descriptors |-> NULL]
  /\ KsIndex = 0
  /\ ks = [b \in Pool |-> Free]
  /\ th = [t \in Threads |-> Idle]
  /\ held = {}
  /\ leaked = {}
  /\ misused = FALSE
  /\ crashed = FALSE

-----------------------------------------------------------------------------

At(t, pc) == ~crashed /\ th[t].pc = pc

Goto(t, pc) == th' = [th EXCEPT ![t].pc = pc]

Return(t) == th' = [th EXCEPT ![t] = Idle]

\* The KSOCKET that thread t works on.
Sock(t) == th[t].sock

\* There is one, with an IRP that may be used.
Usable(t) == Sock(t) \in Pool /\ ks[Sock(t)].irp \in {"idle", "done"}

Crash ==
  crashed' = TRUE /\ UNCHANGED <<KsArray, KsIndex, ks, th, held, leaked, misused>>

\* A call on a descriptor begins by looking it up. One that fails before it has
\* come to the socket, because a buffer cannot be locked, changes nothing.
Enter(t) ==
  /\ At(t, "idle")
  /\ \E h \in held :
       /\ h.by = t
       /\ \E call \in Calls[h.kind] \intersect Used :
            th' = [th EXCEPT ![t] = [Idle EXCEPT
                     !.pc = "reset", !.call = call, !.kind = h.kind,
                     !.fd = h.fd, !.sock = KsArray[h.fd]]]
  /\ UNCHANGED <<KsArray, KsIndex, ks, held, leaked, misused, crashed>>

\* Mutant of Create: what KspAsyncContextAllocate returns is not looked at.
CreateWithoutIrp(t) ==
  /\ At(t, "idle")
  /\ \E b \in FreeBlocks, call \in DOMAIN Creations \intersect Used :
       /\ ks' = [ks EXCEPT ![b] = Allocated] \/ ks' = [ks EXCEPT ![b] = NoIrp]
       /\ th' = [th EXCEPT ![t] = [Idle EXCEPT
                     !.pc = "issue", !.call = call, !.kind = Creations[call],
                     !.sock = b]]
  /\ UNCHANGED <<KsArray, KsIndex, held, leaked, misused, crashed>>

\* KsCreateSocket: the structure and the IRP are allocated. A structure that
\* gets no IRP is left behind.
Create(t) ==
  /\ At(t, "idle")
  /\ \E b \in FreeBlocks :
       \/ /\ ks' = [ks EXCEPT ![b] = Allocated]
          /\ \E call \in DOMAIN Creations \intersect Used :
               th' = [th EXCEPT ![t] = [Idle EXCEPT
                        !.pc = "issue", !.call = call, !.kind = Creations[call],
                        !.sock = b]]
          /\ UNCHANGED leaked
       \/ /\ ks' = [ks EXCEPT ![b] = NoIrp]
          /\ leaked' = leaked \union {b}
          /\ UNCHANGED th
  /\ UNCHANGED <<KsArray, KsIndex, held, misused, crashed>>

\* KspAsyncContextReset
Reset(t) ==
  /\ At(t, "reset")
  /\ \/ /\ Usable(t)
        /\ ks' = [ks EXCEPT ![Sock(t)] = Allocated]
        /\ Goto(t, "issue")
        /\ UNCHANGED <<KsArray, KsIndex, held, leaked, misused, crashed>>
     \/ ~Usable(t) /\ Crash

\* The call of the provider. It may end the request at once; then the completion
\* routine has been called before it returns.
Issue(t) ==
  /\ At(t, "issue")
  /\ \/ /\ Usable(t)
        /\ \/ /\ ks' = [ks EXCEPT ![Sock(t)].irp = "pending",
                                  ![Sock(t)].request =
                                     Requests[th[t].call][th[t].step]]
              /\ Goto(t, "wait")
           \/ \E ok \in BOOLEAN :
                /\ ks' = [ks EXCEPT ![Sock(t)].irp = "done", ![Sock(t)].ok = ok,
                                    ![Sock(t)].event = TRUE]
                /\ th' = [th EXCEPT ![t].pc = "result", ![t].ok = ok]
        /\ UNCHANGED <<KsArray, KsIndex, held, leaked, misused, crashed>>
     \/ ~Usable(t) /\ Crash

\* Mutant of Complete: InvokeOnError is FALSE.
CompleteOnSuccess(b) ==
  /\ ~crashed
  /\ ks[b].irp = "pending"
  /\ \E ok \in BOOLEAN :
       ks' = [ks EXCEPT ![b] = [irp |-> "done", ok |-> ok, request |-> "none",
                                event |-> ok]]
  /\ UNCHANGED <<KsArray, KsIndex, th, held, leaked, misused, crashed>>

\* The provider ends a request, and KspAsyncContextCompletionRoutine sets the
\* event.
Complete(b) ==
  /\ ~crashed
  /\ ks[b].irp = "pending"
  /\ \E ok \in BOOLEAN :
       ks' = [ks EXCEPT ![b] = [irp |-> "done", ok |-> ok, request |-> "none",
                                event |-> TRUE]]
  /\ UNCHANGED <<KsArray, KsIndex, th, held, leaked, misused, crashed>>

\* Mutant of Wait: STATUS_PENDING is taken for success.
WaitNot(t) ==
  /\ At(t, "wait")
  /\ th' = [th EXCEPT ![t].pc = "result", ![t].ok = TRUE]
  /\ UNCHANGED <<KsArray, KsIndex, ks, held, leaked, misused, crashed>>

\* KspAsyncContextWaitForCompletion after STATUS_PENDING: there is no timeout.
Wait(t) ==
  /\ At(t, "wait")
  /\ Sock(t) \in Pool /\ ks[Sock(t)].event
  /\ ks' = [ks EXCEPT ![Sock(t)].event = FALSE]
  /\ th' = [th EXCEPT ![t].pc = "result", ![t].ok = ks[Sock(t)].ok]
  /\ UNCHANGED <<KsArray, KsIndex, held, leaked, misused, crashed>>

More(t) == th[t].ok /\ th[t].step < Len(Requests[th[t].call])

\* Mutant of Done: the context is not reset again before WskConnect.
DoneWithoutReset(t) ==
  /\ At(t, "result")
  /\ th[t].call \notin DOMAIN Creations \union {"accept", "closesocket"}
  /\ \/ More(t) /\ th' = [th EXCEPT ![t].pc = "issue", ![t].step = @ + 1]
     \/ ~More(t) /\ Return(t)
  /\ UNCHANGED <<KsArray, KsIndex, ks, held, leaked, misused, crashed>>

\* Connect goes on from the bind; anything else but what follows is over.
Done(t) ==
  /\ At(t, "result")
  /\ th[t].call \notin DOMAIN Creations \union {"accept", "closesocket"}
  /\ \/ More(t) /\ th' = [th EXCEPT ![t].pc = "reset", ![t].step = @ + 1]
     \/ ~More(t) /\ Return(t)
  /\ UNCHANGED <<KsArray, KsIndex, ks, held, leaked, misused, crashed>>

\* A socket that could not be created is left behind with its IRP.
Created(t) ==
  /\ At(t, "result")
  /\ th[t].call \in DOMAIN Creations
  /\ \/ th[t].ok /\ Goto(t, "index") /\ UNCHANGED leaked
     \/ ~th[t].ok /\ Return(t) /\ leaked' = leaked \union {Sock(t)}
  /\ UNCHANGED <<KsArray, KsIndex, ks, held, misused, crashed>>

\* The structure of an accepted socket is used with or without an IRP.
Accepted(t) ==
  /\ At(t, "result")
  /\ th[t].call = "accept"
  /\ \/ /\ th[t].ok
        /\ \E b \in FreeBlocks :
             /\ ks' = [ks EXCEPT ![b] = Allocated] \/ ks' = [ks EXCEPT ![b] = NoIrp]
             /\ th' = [th EXCEPT ![t].pc = "index", ![t].kind = "connection",
                                 ![t].sock = b]
     \/ Return(t) /\ UNCHANGED ks
  /\ UNCHANGED <<KsArray, KsIndex, held, leaked, misused, crashed>>

\* KsIndex++ reads it and then writes it, with nothing to keep other threads
\* from doing so in between.
IndexRead(t) ==
  /\ At(t, "index")
  /\ th' = [th EXCEPT ![t].pc = "increment", ![t].index = KsIndex]
  /\ misused' = (misused \/ \E u \in Threads : th[u].pc = "increment")
  /\ UNCHANGED <<KsArray, KsIndex, ks, held, leaked, crashed>>

\* The descriptors, each with how many others have been given out since.
Older == {[h EXCEPT !.newer = IF @ = SOCKETFD_MAX THEN @ ELSE @ + 1] : h \in held}

\* Mutant of IndexWrite: TO_SOCKETFD without % SOCKETFD_MAX.
IndexWriteOn(t) ==
  /\ At(t, "increment")
  /\ KsIndex' = th[t].index + 1
  /\ LET fd == th[t].index + 1 IN
       /\ th' = [th EXCEPT ![t].pc = "store", ![t].fd = fd, ![t].index = 0]
       /\ held' = Older \union
            {[by |-> t, fd |-> fd, sock |-> Sock(t), kind |-> th[t].kind, newer |-> 0]}
  /\ misused' = (misused \/ \E h \in Older : h.newer = SOCKETFD_MAX)
  /\ UNCHANGED <<KsArray, ks, leaked, crashed>>

\* Of KsIndex no more is used than its remainder by SOCKETFD_MAX. That is 128,
\* which 2^32 is a multiple of, so that a wrap-around of KsIndex is no matter.
IndexWrite(t) ==
  /\ At(t, "increment")
  /\ KsIndex' = (th[t].index + 1) % SOCKETFD_MAX
  /\ LET fd == th[t].index + 1 IN
       /\ th' = [th EXCEPT ![t].pc = "store", ![t].fd = fd, ![t].index = 0]
       /\ held' = Older \union
            {[by |-> t, fd |-> fd, sock |-> Sock(t), kind |-> th[t].kind, newer |-> 0]}
  /\ misused' = (misused \/ \E h \in Older : h.newer = SOCKETFD_MAX)
  /\ UNCHANGED <<KsArray, ks, leaked, crashed>>

Store(t) ==
  /\ At(t, "store")
  /\ KsArray' = [KsArray EXCEPT ![th[t].fd] = Sock(t)]
  /\ Return(t)
  /\ UNCHANGED <<KsIndex, ks, held, leaked, misused, crashed>>

\* Mutant of Close: the socket is freed if WskCloseSocket succeeded.
CloseOnSuccess(t) ==
  /\ At(t, "result")
  /\ th[t].call = "closesocket"
  /\ ks' = [ks EXCEPT ![Sock(t)] = IF th[t].ok THEN Free ELSE @]
  /\ th' = [th EXCEPT ![t].pc = "clear", ![t].sock = NULL]
  /\ UNCHANGED <<KsArray, KsIndex, held, leaked, misused, crashed>>

\* KsCloseSocket frees the socket whatever came of it, if it has not been freed
\* by another.
Close(t) ==
  /\ At(t, "result")
  /\ th[t].call = "closesocket"
  /\ \/ /\ ks[Sock(t)].irp # "free"
        /\ ks' = [ks EXCEPT ![Sock(t)] = Free]
        /\ th' = [th EXCEPT ![t].pc = "clear", ![t].sock = NULL]
        /\ UNCHANGED <<KsArray, KsIndex, held, leaked, misused, crashed>>
     \/ ks[Sock(t)].irp = "free" /\ Crash

\* Mutant of Clear: the descriptor is taken for the index.
ClearNext(t) ==
  /\ At(t, "clear")
  /\ KsArray' = [KsArray EXCEPT ![(th[t].fd % SOCKETFD_MAX) + 1] = NULL]
  /\ held' = {h \in held : ~(h.by = t /\ h.fd = th[t].fd)}
  /\ Return(t)
  /\ UNCHANGED <<KsIndex, ks, leaked, misused, crashed>>

\* And closesocket clears the entry.
Clear(t) ==
  /\ At(t, "clear")
  /\ KsArray' = [KsArray EXCEPT ![th[t].fd] = NULL]
  /\ held' = {h \in held : ~(h.by = t /\ h.fd = th[t].fd)}
  /\ Return(t)
  /\ UNCHANGED <<KsIndex, ks, leaked, misused, crashed>>

Step(t) ==
  \/ Reset(t) \/ Issue(t) \/ Wait(t) \/ Done(t) \/ Created(t) \/ Accepted(t)
  \/ IndexRead(t) \/ IndexWrite(t) \/ Store(t) \/ Close(t) \/ Clear(t)

Next ==
  \/ \E t \in Threads : Enter(t) \/ Create(t) \/ Step(t)
  \/ \E b \in Pool : Complete(b)

Spec == Init /\ [][Next]_vars

\* A thread goes on with its call, and the provider ends what it can end itself:
\* connections that are not made time out.
Fairness ==
  /\ \A t \in Threads : WF_vars(Step(t))
  /\ \A b \in Pool : WF_vars(ks[b].request \notin PeerRequests /\ Complete(b))

FairSpec == Spec /\ Fairness

-----------------------------------------------------------------------------

TypeOK ==
  /\ KsArray \in [Descriptors -> Pool \union {NULL}]
  /\ KsIndex \in 0 .. SOCKETFD_MAX - 1
  /\ ks \in [Pool -> [irp : {"free", "missing", "idle", "pending", "done"},
                      ok : BOOLEAN, request : AllRequests \union {"none"},
                      event : BOOLEAN]]
  /\ th \in [Threads -> [pc : {"idle", "reset", "issue", "wait", "result",
                               "index", "increment", "store", "clear"},
                         call : DOMAIN Requests \union {"none"}, kind : Kinds,
                         step : 1 .. 2, fd : 0 .. SOCKETFD_MAX,
                         sock : Pool \union {NULL}, ok : BOOLEAN,
                         index : 0 .. SOCKETFD_MAX - 1]]
  /\ held \subseteq [by : Threads, fd : Descriptors, sock : Pool, kind : Kinds,
                     newer : 0 .. SOCKETFD_MAX]
  /\ leaked \subseteq Pool
  /\ misused \in BOOLEAN
  /\ crashed \in BOOLEAN

\* Thread t works on descriptor h.
WorksOn(t, h) == t = h.by /\ th[t].fd = h.fd

\* The entry of h has not been written yet, or its socket is freed already.
InBetween(h) == WorksOn(h.by, h) /\ th[h.by].pc \in {"store", "clear"}

\* As long as no two threads are in KsIndex++ at a time and no descriptor stays
\* open while SOCKETFD_MAX others are given out, a descriptor stands for the
\* socket that it was given for.
OwnDescriptor ==
  ~misused => \A h \in held :
    ~InBetween(h) => KsArray[h.fd] = h.sock /\ ks[h.sock].irp # "free"

\* t is about to reset an IRP that its socket does not have.
WithoutIrp(t) ==
  th[t].pc = "reset" /\ Sock(t) \in Pool /\ ks[Sock(t)].irp = "missing"

\* And no thread uses what is not a socket, but for one in a call on a socket
\* that was accepted when there was no memory for its IRP: nothing else, and no
\* other thread, may be what stops the system.
NoCrash ==
  crashed => misused \/ \E t \in Threads : WithoutIrp(t)

\* And for each IRP that the provider has there is one thread that waits for it.
OneWaits ==
  ~misused => \A b \in Pool : ks[b].irp = "pending" =>
    \E t \in Threads : /\ th[t].pc = "wait" /\ Sock(t) = b
                       /\ \A u \in Threads \ {t} : th[u].pc # "idle" => Sock(u) # b

\* A result is used when what was asked is done, and is the result of that.
CompletedBeforeUse ==
  ~misused => \A t \in Threads : th[t].pc = "result" =>
    ks[Sock(t)].irp = "done" /\ th[t].ok = ks[Sock(t)].ok

\* Only what could not be created is lost: any other block belongs to a
\* descriptor, or to a thread that is creating it.
NothingElseLeaks ==
  ~misused => \A b \in Pool : ks[b].irp # "free" =>
    \/ b \in leaked
    \/ \E h \in held : h.sock = b
    \/ \E t \in Threads : th[t].pc # "idle" /\ Sock(t) = b

\* A call returns, unless it waits for another system.
CallsReturn ==
  \A t \in Threads :
    th[t].pc # "idle" ~>
      \/ th[t].pc = "idle"
      \/ Sock(t) \in Pool /\ ks[Sock(t)].request \in PeerRequests
      \/ misused \/ crashed
=============================================================================
