# query-pdb, specified

This directory specifies query-pdb in TLA+: what its parts do, checked by TLC on
small instances, and what can be said of them for every instance, proved with
TLAPS. Every definition that stands for code is listed in `PROJECT.json` ("map")
with the lines it translates.

    tlc -config Downloader.cfg MCDownloader      # one of the runs below
    tlapm SymbolQuery_proofs.tla                 # one of the proof modules

## 1. The system

query-pdb answers questions about Windows PDB files over HTTP: the address of a
symbol, the offset of a member of a structure, the value of an enumerator. A
client sends the name, guid and age of a PDB and the names it wants; the server
downloads the PDB from a symbol server if it does not have it yet, keeps it on
disk, and answers from a mapping of the file.

    client ---HTTP---> thread pool ---> handler ---> downloader ---HTTP---> symbol server
    (user mode, or                         |             |
     driver over WSK)                      |         mutex_, files <path>/name/guid+age/name
                                           |             |
                                           +--> pdb_parser (mapping of the file)

### Components

| Component | State | Operations | Interacts with |
|---|---|---|---|
| PDB storage (`server/downloader.cpp`) | `mutex_`, the directory tree, `.tmp` files | `download`, `exists`, `download_impl`, `is_valid_pdb` | handlers call it; it calls the symbol server, the file system and the parser |
| HTTP server and handlers (`server/main.cpp`, httplib) | queue of connections, threads, keep-alive counts | accept, dequeue, read a request, answer, close | clients; storage; parser |
| PDB parser (`server/pdb_parser.*`, `pdb_helper.*`) | a mapping of one file; local maps of results | `get_symbols`, `get_struct`, `get_enum`, `get_stats` | called by handlers and by `is_valid_pdb`; reads through raw_pdb |
| Client library (`client/query_pdb.h`) | name, guid and age from the debug directory of an image | `get_symbol`, `get_struct`, `get_enum` | HTTP server |
| Driver client, queries (`client-drv/kquery_pdb.h`) | the same, in the kernel | the same | HTTP exchange |
| Driver client, HTTP exchange (`khttp.cpp`) | one socket, one parser | connect, send loop, receive loop | socket layer, response parser, URL parser |
| Driver client, response parser (`httpresponseparser.h`) | its state, counters of content and chunk sizes | `parse` on each piece received | fed by the exchange |
| Driver client, URL parser (`urlparser.h`) | state of one pass | `parse` | used by the exchange |
| Driver client, BSD sockets (`berkeley.c`) | ring `KsArray[128]`, `KsIndex` | `socket`, `connect`, `send`, `recv`, `closesocket`, `getaddrinfo`, ... | used by the exchange; calls the WSK layer |
| Driver client, WSK sockets (`ksocket.c`) | sockets, one IRP and event for each | `KsCreateSocket`, `KsSend`, `KsRecv`, `KsAccept`, ... | asynchronous completions by the WSK provider |

`httprequestparser.h` is vendored and used by nothing. The libraries below
`thirdparty/` and `json.hpp` are not the project's own; they are modelled only
where the server's behaviour depends on them (the thread pool and keep-alive of
httplib, the lists of records that raw_pdb returns).

### What is hard

- **Interleaving in the storage.** `exists` is asked outside of the mutex, files
  are replaced while other threads have them mapped, and the mutex is held during
  a network download.
- **Partial failure and crashes.** A write that fails goes unnoticed; validation
  throws with the mutex locked; the process may die between creating a temporary
  file and renaming it.
- **A pool of few threads** that serves idle keep-alive connections, clients that
  give up, and requests that wait for the mutex.
- **Walks by hand over variable-length records.** Structures and enumerations are
  lists of packed records whose lengths depend on numbers of variable width,
  method attributes and name lengths, with padding: one wrong length puts the walk
  in the middle of a record, and everything that follows is read at the wrong
  bytes.
- **The driver client**: a ring of 128 sockets shared without a lock, completions
  that may race with a wait, responses cut into pieces anywhere.

All of this is listed with its lines in `PROJECT.json` ("hazards"), with the
properties that cover each.

### What makes each component correct

- Storage: a PDB is published only after validation, what a query reads never
  changes under it, one download at a time and each validates what it has itself
  downloaded, and nothing leaves the mutex locked.
- Server: every connection has one holder, every request gets its own answer,
  every request ends, and no thread is kept for ever by anything but a peer that
  drags out an exchange, which the code does not prevent.
- Parser: an answer has exactly the names asked for, each with what the first
  definition in the file says of it, or -1 if there is none. The code gets there
  within limits, which the properties name and the findings below report.
- Driver client, exchange and parser: the server gets the whole request once; a
  response is taken for an answer exactly if it is complete, however it is cut
  and wherever the connection ends.
- Driver client, URL and image: the server that the URL names is looked up and no
  other, a plain URL is not turned down, and the request names the PDB that the
  image was linked with.
- Driver client, sockets: as long as callers ask no more of the ring than it can
  do, a descriptor stands for the socket it was given for; for each IRP one
  thread waits, and what it takes is the result of its own request; nothing but
  failed sockets is lost; a call that does not wait for another system returns.

## 2. The modules

    PdbCache                       what the storage promises (abstract)
      ^ refined by
    Downloader --> MCDownloader    the storage, one thread step at a time
      v
    QueryServer -> MCQueryServer   connections, thread pool and keep-alive around it
      |  \-> QueryServer_proofs    of the storage, the server and both refinements
      v refines
    QueryService                   what the clients are promised (abstract)

    StdMap                         std::map: insert, and the loop that fills in defaults
      |-> SymbolQuery -> MCSymbolQuery, SymbolQuery_proofs
      v
    FieldLists -> FieldLists_proofs        byte layout of the lists of fields
      |-> EnumQuery   -> MCEnumQuery,   EnumQuery_proofs
      |-> StructQuery -> MCStructQuery, StructQuery_proofs

    ResponseParser                 the driver client's parser, one byte at a time
      v
    HttpResponse                   what a proper response is, without a parser
    AddrInfo                       getaddrinfo and what it allocates
    UrlParser, PdbPath             the server's URL; the PDB of an image
      v
    Exchange -> MCExchange         a query of the driver client, from image to answer
      \-> UrlParser_proofs -> Exchange_proofs

    Sockets -> MCSockets           the ring of descriptors, IRPs and events
      \-> Sockets_proofs

### PdbCache and Downloader

`Downloader` is `downloader.cpp` as the handlers use it. A thread's `pc` goes
through the steps of a request; one action is what it does between two accesses of
something shared:

| Action | Code |
|---|---|
| `Request` | the handler has parsed a request |
| `Lookup` | `exists(path)`, without the mutex |
| `Lock` | `lock_guard lock(mutex_)`; the file is not looked up again |
| `Get` | the download, and the checks of status and Content-Length |
| `Create`, `Write` | `create_directories`, `ofstream`, `write`, `close` on the `.tmp` file |
| `Validate` | `is_valid_pdb`, which returns false or throws |
| `Rename`, `RenameFails` | `rename(tmp_path, path)`, which may throw for any reason, and the end of the lock's scope |
| `Open`, `Query` | `pdb_parser parser(path)` and the query |
| `Finish` | return or exception: all destructors, and the answer 500 |
| `Crash` | the process dies; files stay |

Files are inodes: `pub` and `tmp` are the directory entries, `data` the contents,
`view` the mappings. That is what tells the replacement of a file from writing to
it. Contents are classes: not a PDB, a PDB with or without type records, and what a
full disk leaves of each. Names are abstracted to whether they are a kernel's and
whether they are in lower case. `ToLower` is the identity because the code
computes the lowered string and returns its argument.

`PdbCache` knows neither mutex nor files: an entry is absent or has an accepted
content; a request looks at it once and is answered with that. The refinement maps
an entry to the contents of the file with its name and a view to the contents of
the mapping.

### QueryServer

The connections of clients, the queue of the pool, and for each thread the
connection it serves, its remaining keep-alive requests, and whether it is to
close. It composes with `Downloader`: `Handle(w)` is a step of the storage
by the thread. Clients send, wait, give up or never come; a request that arrives
between a keep-alive timeout and the close is lost, as it is in the code.

An exchange with a peer (`Exchanging`: reading a request, writing a response,
downloading a body) is a loop of reads or writes in httplib (`getline`, `read_headers`,
`read_content_with_length`), each with its own timeout and the loop with none. It is one
step here, at its end, or fails (`ReadFails`, and `Get` with no body) when one of the
timeouts expires or the peer goes away. Nothing forces that step: a
client that sends a byte now and then keeps its thread, and a symbol server that does
so keeps the thread and `mutex_`, in the model as in the code.

`QueryService` is the server as its clients see it, without threads, queue and
storage: a connection, the request its client waits for, and the response under way
to it. A request is answered at most once, with the failure or with a content that is
valid for that request, or its connection is closed. The refinement maps the response
under way on a connection to that of the thread which holds the connection
(`Answering`); reading a request, the steps of the storage and the queue are stutters,
the end of a handler is `Answer`, writing the response is `Deliver`. The property
relates both ends of the program: what a client is told of a PDB was validated for
the name in that client's request, whoever downloaded the file, and whatever has
since taken its name.

### FieldLists, EnumQuery and StructQuery

A list of fields is described by where each record, its name and its end are, by
its zero bytes and by its size: the walk reads a numeric leaf at a place, looks for
a zero, and rounds up to four. `Align`, `LeafSize` and `StringEnd` are the code's
arithmetic; `LaidOut` is the layout a compiler produces. `EnumQuery` and
`StructQuery` then are the scan over the type records (`Skip`, `Enter`, `Leave`,
`Finish`) and the walk (`Enumerator`; `Member`, `SkipNamed`, `SkipBase`), with the
position `i` in bytes as in the code. In particular

- `EnumQuery` reads the name at byte 6 and the value as the two bytes at 4,
  whatever the leaf, as `get_enum_single` does (`GetLeafName(..., 0)`, and a
  `GetLeafSize` that is given a type index and hence is always 2);
- `StructQuery` finds the name of a union behind two bytes of size, so that one of
  0x8000 bytes or more is passed over (`LargeUnion`);
- `StructQuery` takes an `LF_METHOD` for an `LF_ONEMETHOD`, cuts offsets to 16
  bits, and keeps `referenced_type` over the turns of the loop;
- a position that is no start of a field is, for `StructQuery`, of no supported
  kind, and ends the walk; for `EnumQuery` every position is taken for an enumerator.

### SymbolQuery

The streams of public symbols, global symbols and symbols of the modules, one scan
over all of them: each loop takes addresses of its own kinds of records only,
section 0 or an unknown section means no address, and the first address of a name
counts. Thunks of incremental linking all are "ILT".

### ResponseParser, AddrInfo, UrlParser, PdbPath and Exchange

`ResponseParser` is `consume()` of `httpresponseparser.h`: one action is one turn of
its loop. A byte is its class, with its value if it is a digit and what it spells
if it is in a header's name or value. Where the class of the byte alone decides,
the table `Moves` gives the next state, and `Scan` follows it, taking down what
the parser does (`Note`); a class that is not in the table is an error (`Fail`).
The states where a size decides are actions of their own (`EndOfHeaders`, `Post`,
`ChunkSizeNewLine`, `ChunkData`, `EndOfChunks`). `Atoi` reads spaces and a sign before
the digits of a Content-Length; a negative one is more than `reserve` can give. `EndOfPiece` is the return of
`parse` with everything read. What the parser keeps between pieces is `parser`.

`HttpResponse` says which bytes are a response that HTTP allows and this parser is
meant for (`Proper`): a status line, headers, a blank line, and a content of the
length a header says or in chunks, of less than 2^31 bytes, with the places of all of
them in the response, its status and its content. It does not know the parser: it is what the parser is
held against.

`UrlParser` is `parse_()` of `urlparser.h`, one `Turn` for each character, over one
character and more of every class that the parser tells apart: `Moves` has for each state what it accepts and where that leads, `Sort` the swaps by which what was
collected turns out to be a user, a host, a password or a port. The code's
`abort()` behind a `[` is an outcome; its assertions are defined to nothing.

`PdbPath` is `get_pdb_path_info` and `rva_to_offset`, the same in both clients: from
the address of the debug directory through the section table to a place in the
file. What is read at a wrong place is the data of another PDB, or garbage.

`AddrInfo` is `getaddrinfo` and `freeaddrinfo` of `berkeley.c` with the conversion in
both directions: one action for each allocation that may fail. `pool` is what is
allocated; `wild` is a free of `CanonicalNameAnsi` that was never set.

`Exchange` is a query of `kquery_pdb.h` through `http_impl` of `khttp.cpp`:

| Action | Code |
|---|---|
| `Construct` | the constructor of `kqpdb`: the server's URL, the file, `PdbPathInfo` |
| `Check` | `khttp`'s constructor with the URL, and the checks before the network |
| `Resolve` | the steps of `getaddrinfo` (`GetAddrInfo`), and what follows its return |
| `Socket`, `Connect` | `socket`, `connect` to the first address |
| `Send` | one turn of the loop around `send`, which may take a part |
| `Receive` | `recv` returns between one byte and a whole buffer |
| `Parse` | `parse` on what was received (`ParserNext`) |
| `ParseThrows` | `reserve` throws in the parser: no memory for the content, or a negative length |
| `Closed`, `Broken` | `recv` returns 0 or fails; `parse_result` is looked at |

`Finish` is the end of `http_impl`, with the guards that close the socket and free
the addresses, and what the query makes of the status: an answer if it is 200, else
an exception. The server may close the connection at any byte. `outcome` keeps the
result of the last piece only, as `parse_result` does.

### Sockets

`Sockets` is the rest of `berkeley.c` over `ksocket.c`, for any number of threads. A
call is a sequence of requests to the WSK provider (`Requests`), each of which
resets the IRP and the event, hands the IRP over, and waits:

| Action | Code |
|---|---|
| `Enter` | a call of `berkeley.h` looks up its descriptor in `KsArray` |
| `Create` | `KsCreateSocket` allocates the structure, and its IRP and event |
| `Reset` | `KspAsyncContextReset` |
| `Issue` | the call of the provider, which may end the request at once |
| `Complete` | the provider ends it; `KspAsyncContextCompletionRoutine` |
| `Wait` | `KspAsyncContextWaitForCompletion`, without a timeout |
| `Done` | the call returns, or `connect` goes on from the bind |
| `Created`, `Accepted` | the end of `KsCreateSocket` and `KsAccept` |
| `IndexRead`, `IndexWrite` | `KsIndex++` in `TO_SOCKETFD`, a read and a write |
| `Store` | the store into `KsArray` |
| `Close`, `Clear` | `KsCloseSocket` frees the structure; `closesocket` clears the entry |

Memory is `Pool`: a block is free, or a structure with or without an IRP that is idle,
pending or done. A freed block can be allocated again, so that a stale entry may
stand for another socket; the use of a freed block or of one without IRP stops the
system (`crashed`). The ring is shared without a lock, and callers can ask too much
of it: when two threads are in `KsIndex++` at a time, or a descriptor stays open
while `SOCKETFD_MAX` others are given out. `misused` remembers that, and the
properties say nothing from then on. That is not a rule of the interface but a defect
of the ring, which the code admits (berkeley.c:52, "ideally it should be replaced"):
the properties do not find it, they say what holds as long as it is not met, for every
interleaving, with the store and the clearing of an entry anywhere.

## 3. The runs

Runs that pass:

| Run | Instance | States | Properties |
|---|---|---|---|
| `storage` | 2 threads, 2 PDBs (one a kernel's), 5 inodes, every body, full disk, crashes | about 377 000 | `TypeOK`, `DownloadsSerialised`, `ValidatesOwnDownload`, `PublishedIsValid`, `MappedFilesAreStable`, `ImplementsPdbCache` |
| `server` | 3 connections, 2 threads, 1 PDB, a valid body or garbage, 2 requests, keep-alive of 2, crashes | about 185 000 | `ServerTypeOK`, `EveryConnectionHasOneHolder`, `AnswersWhatWasAsked`, `ImplementsQueryService`, `EveryRequestEnds`, `ThreadsComeBack` |
| `symbols` | up to 2 public and 2 global symbols, up to 2 modules of up to 1 symbol; every combination of 12 symbols | about 125 000 | `TypeOK`, `FindsSymbols` |
| `enums` | every list of up to 3 enumerators, 3 name lengths, 4 widths of values; streams of several records | about 3 700 | `TypeOK`, `InStep`, `FindsSmallEnumerators` |
| `structs` | every list of up to 3 fields of 18 shapes; streams of several records | about 29 900 | `TypeOK`, `InStep`, `FindsRegularMembers` |
| `exchange` | 56 responses in pieces of every size, a connection that ends anywhere; some 3 000 URLs; 14 images; 2 addresses | about 127 000 | `ExchangeTypeOK`, `RequestArrives`, `AsksForItsPdb`, `RefusesIncomplete`, `AnswersComplete`, `LooksUpTheServer`, `TakesPlainUrls`, `FreesAddresses` |
| `sockets` | 2 threads, memory for 2 sockets, a ring of 2, six of the calls | about 207 000 | `TypeOK`, `OwnDescriptor`, `NoCrash`, `OneWaits`, `CompletedBeforeUse`, `NothingElseLeaks`, `CallsReturn` |

Runs that find a disagreement with what the repository says of itself (each is a
finding in `PROJECT.json`):

| Run | What TLC finds |
|---|---|
| `cached_again` | A request that waited for the mutex downloads a PDB that is cached by then; README.md:65 says subsequent requests use the cached file. |
| `kernel_spelling` | With a capital letter in its name, a kernel PDB without type information is cached for ever; downloader.cpp:142 says it is ignored. |
| `enum_values` | An enumerator of 0x8000 or more, or below zero, gets a wrong value or -1; README.md:96 promises the correct result. |
| `large_types` | Four findings, on the same line and README.md:98 ("include union"): the members of a union of 0x8000 bytes or more get -1 (`U` in the trace), a member at 64 KB or more the low 16 bits of its offset (`S`), and members behind a virtual base class (`V`) or behind 17 overloads of a method (`W`) get -1. |
| `parser_failure` | A response that the parser has refused may be taken for complete after the next piece; khttp.cpp:167 says such a response failed to parse. |

### Bounds, and why they are enough

- **Two threads, two PDBs.** Every hazard of the storage is between one thread that
  downloads or replaces and one that looks up, waits or reads. Two keys show that
  requests for different files do not disturb each other. The proofs hold for
  any number of both.
- **Five inodes** are one more than two paths with a published and a temporary file
  each; a mapping can keep a replaced file besides. `Create` may fail, so that
  running out of inodes is the failure of a full file system.
- **Three connections on two threads** let one wait in the queue; a keep-alive of 2
  gives a second request on one connection and its limit. `MaxRequests` is finite
  because `std::mutex` promises no fairness: with unboundedly many requests one
  thread may get the mutex for ever before another, and no progress could be shown.
  All requests are for one PDB: whether a request for a cached one
  waits behind downloads of another is not seen here, only that it ends.
  Bodies are valid or garbage, so that an answer from a file that was not validated
  would show.
- **Lists of three records** have a record before and a record behind the one that
  goes wrong; name lengths of 1, 3 and 7 give different paddings, and each width
  of a number occurs. Names `x`, and whole structures, that are not in the file
  are asked for too.
- **The responses of `exchange`** have a Content-Length or chunks, each with contents
  of 0, 1, 2 and 3 bytes (line ends among them), other headers before and
  headers that go on in a second line, chunk extensions with and without value,
  and trailers; one has a chunk whose size is a hexadecimal digit, one a length with a sign, one a negative length, six have one byte
  that must not be there, three have bytes behind their end. Each is cut in every way, since a piece may be of any length. The
  buffer of 512 bytes is larger than each, so that it is never what cuts them.
  A request of 3 bytes can be sent in one, two and three parts.
- **The URLs** are every string of up to four of seven characters behind `http://`, some
  longer ones with user and password, and every string of up to three of four
  characters behind a scheme: each character occurs in each state that can be
  reached, in both roles of what stands before and behind a colon. **The images**
  have the debug directory at the first and at the last byte of each of three
  sections; two lie side by side in memory only. They and the URLs each meet one
  response, that is none: what they are about is over before it comes.
- **Two threads on a ring of two** with memory for two sockets is the smallest
  instance where a descriptor is given out again while another is open and a freed
  block is allocated again by another thread. `Used` leaves out `bind`, `send` and the
  calls on datagrams, which are one request like `recv`; the proofs have them all.
  The constraint `Kept` stops where `misused` begins, since nothing is claimed behind it.
- `CHECK_DEADLOCK FALSE` is set for the queries and the exchange, which end, and
  for the sockets, where the system stops when it has crashed.

### Fairness

The other runs assume none. `QueryServer` assumes weak fairness of each thread while
it waits for no peer, `WF(~Exchanging(w) /\ Thread(w))`: the operating system runs a
thread that can run, and keep-alive ends by its timeout. Nothing is assumed of
clients, of the symbol server or of the order in which a mutex or the queue wakes
threads. Both liveness properties therefore have a hypothesis, `PeersKeepUp`: each
thread is out of an exchange again and again. It leaves clients free to send
nothing, to go away, to stay connected or to send garbage, and the symbol server to
refuse, to fail or to send garbage. It excludes the peer that sends a few bytes before
each timeout: that one does keep a thread of the pool for as long as it likes, and if
it is the symbol server `mutex_` with it, so that every request for a PDB that is
not cached waits. The code does not bound an exchange, and nothing here says it does.

`Sockets` assumes weak fairness of what a thread does inside a call, `WF(Step(t))`, and
of the provider's end of every request but `WskAccept` and `WskReceive`: connections
that are not made time out, and what is sent leaves the buffers or fails. A call
that accepts or receives may wait for ever, as it may in the code, which has no
timeout; `CallsReturn` says that these are the only ones. No thread needs to make
a call.

## 4. What is proved

For every value of the constants that satisfies the named assumptions
(`KeysAssumption`, `UpstreamAssumption`, `DiskAssumption`, `NothingAssumption`;
`ConnsAssumption`, `KeepAliveAssumption`, `MaxRequestsAssumption`,
`MalformedAssumption`; `StreamsAssumption`; `PdbsAssumption`, `SectionsAssumption`;
`ExchangeAssumption`, `AddressesAssumption`; `RingAssumption`, `NullAssumption`):

- `QueryServer_proofs`, of the storage: `TypeCorrectness`, `MutualExclusion`, `OwnDownload`,
  `PublishedValidity`, `Stability`. What is to be shown is not inductive: that a
  published file stays valid depends on nobody writing to it, which depends on a
  temporary inode being reachable by no other name and by no mapping
  (`TmpIsPrivate`), and that what is renamed is valid depends on it having
  passed `Validate` and on the mutex keeping others from writing it in between
  (`RenameInv`). `IInv` adds these, and which step a thread has what at (`BusyInv`,
  `BodyInv`, `ViewInv`, `TmpInv`).
  `Refinement` is `Spec => Cache!CacheSpec`: under `IInv`, `Rename` maps to `Store`, `Open` to `Look`, the end of a request to `Serve` or
  `Refuse`, and each step of a download to a stutter.
- `FieldLists_proofs`: the lemmas on the layout. The end of a name is found from its
  first byte, or from any byte of it, at its last; from there, `Align` leads to the
  next record or to the end of the list.
- `EnumQuery_proofs`, `StructQuery_proofs`: `TypeCorrectness`, `StaysInStep` and
  `Correctness`. The inductive invariant has, besides `TypeOK`, where the walk is
  while it has met nothing irregular (`InStep`), what `fields` then has of the
  records behind it and lacks of the others (`FoundInv`), and what `result` has of
  the definitions the scan has passed (`AnsweredInv`). The goal is what these say
  at the end. For structures it excepts, by name, what the code does not find:
  definitions that a `LargeUnion` of their name comes first of, members at 64 KB or more, and
  what stands behind a field that the walk does not get past. "First definition" is taken
  from the kind, the forward reference and the list of a record (`Definition`), not from
  what the code recognises (`Wanted`).
- `SymbolQuery_proofs`: `TypeCorrectness` and `Correctness`, from an invariant
  that says of the symbols before the scan's place what the goal says of all.

- `QueryServer_proofs`, of the server: `ServerTypeCorrectness`, `OneHolder`,
  `AnswersTheClient` and `StorageIsSafeBelow`. That a thread works on what its client waits for is not
  inductive: it depends on no connection being with two threads, twice in the queue
  or in both (`Alone`), on a request that has not been read being the one its client
  waits for (`Unread`), and on a client whose request has been read sending no other
  before it is answered (`AtWork`). `Counting` is what keeps the count of keep-alive
  from going below zero. Each action of the server either is a step of the storage
  or changes of it the answers only (`StorageStep`, `ReplyOnly`), so that `IInv` of the
  storage carries over as it is.
  `ServiceRefinement` is `ServerSpec => Service!ServiceSpec`. It needs two invariants
  more: a file that is mapped is valid for the request that maps it (`ViewIsValid`), also
  after a rename has taken its name away, which `PublishedIsValid` does not say and
  `SameContents` carries over; and a thread that works on a request has no response yet
  (`Unanswered`), so that it settles one once. With `Alone`, the response under way on a
  connection is well defined (`AnsweringIsOfHolder`), and each action of the server is
  shown to be its action of `QueryService` or a stutter.
- `Sockets_proofs`: `TypeCorrectness`, and under `~misused` the other safety properties of
  the run, for any number of threads, any memory and any ring. The invariant is
  `Shape`, what a thread knows of its own call, which holds whatever callers do, and
  `~misused => Kept`: descriptors, and sockets in the making, stand for different
  entries and different blocks (`Apart`); a socket is in the stage that its thread's
  step says (`Stages`); an event is set only if its IRP is done (`Events`); each IRP
  that the provider has is waited for (`Waited`); no block is out of reach
  (`Reached`). That an entry is not taken by another descriptor rests on the count of
  the descriptors given out since (`newer`), which is its distance from `KsIndex` on
  the ring (`Positions`).

- `UrlParser_proofs`: for a URL of any length that ends with a slash, as `kqpdb` makes
  every server's, `Parsed` says that if the parser ends with a host, host and port are
  what `HostAndPort` finds without a parser, and `PlainParsed` that it does so for every
  plain URL. `UrlAt` is the invariant of the pass: where in the URL the parser is in
  each state, and that what it has collected for the host and the port are the pieces
  of the URL that begin there; `InPlain` the one for plain URLs. There are eleven
  states, and one lemma for what a character does in those before the server, in a
  user or a host, in a password, behind the user and behind the server.
- `Exchange_proofs`, for any responses, any sizes of pieces and of the request, and any
  number of addresses:
  - `RequestArrival`: what has been sent and what is left make up the request
    (`SentInv`), and nothing is sent or received before there is a connection (`QuietInv`).
  - `PdbOfTheImage`: `PdbPathInfo` finds the PDB of an image that is `Linked`
    (`PdbIsFound`).
  - `AddressesAreFreed`, from what is allocated at each step of `getaddrinfo` (`PoolInv`).
  - `ExchangeType`, from the types of the parser and of its bytes (`TypeInv`).
  - `IncompleteIsRefused` and `CompleteIsAnswered`, the two halves of what a query makes of
    a response. Their invariant is `Synced`: as long as less than a proper response has
    been looked at, the parser is in the state that belongs to that place (`InStep`: in
    the status line, between headers, in a new or a continued header, in the content,
    in a chunk's size line, in a chunk, in the trailers) and knows of it what the
    bytes before that place say (`Known`: status, length, chunked, and the
    content so far); with its last byte, and not before, it is over, and then has status
    and content of the response (`IsOver`). It does not mention pieces: `Receive` only
    moves bytes from `left` to `buf`, and `EndOfPiece` leaves the parser as it is. One
    byte is one turn, and one lemma for each of the places says where it leads.
  - `TheServerIsLookedUp` and `PlainUrlsAreTaken`, from the two results on the parser of URLs
    and the checks before the network (`ServerInv`).

What a recursive function is at every place of a string is proved here without an
induction theorem: a set of naturals has a least element (`LeastNumber`, from the
well-foundedness of inclusion on finite sets), so what is passed on from each place to
the next is everywhere (`Reaches`), and the recursion has a solution (`Recursive`).
TLC has checked each of these invariants (`InStep`, `Synced`, `UrlAt`, `InPlain`, `ViewIsValid`,
`ServerInv`, ...) before it was proved.

Only model-checked: the liveness properties of `QueryServer` and of `Sockets`
(`EveryRequestEnds` and `ThreadsComeBack`, under `PeersKeepUp`, and `CallsReturn`), since the prover does not reason
about fairness. Every other property of the runs that pass is a theorem. That the
layouts and the responses TLC builds satisfy the assumptions is evaluated by TLC for
the instances; for the proofs the assumptions are the definition of a well-formed file
and, with `HttpResponse`, of a proper response. The runs that find a disagreement
have no theorem.

## 5. What is not modelled, and assumptions

- Of the client library: httplib's client and the JSON text. How it finds the PDB of an
  image is `PdbPath`; what it sends and when it gives up are the clients of `QueryServer`.
- Of the sockets: `KsDestroy`, which a static object calls when the driver is
  unloaded; `IoAllocateMdl` returning null; what is in the buffers; byte order.
  `listen` does nothing, and `recvfrom` asks the provider for `WskSendTo`, as in the code.
  A descriptor is used by the thread that got it only, one call at a time: `recv` in one
  thread and `closesocket` of the same descriptor in another are not modelled.
  What the code loses or uses wrongly in `Sockets` and `AddrInfo` is excepted by name in
  the properties and listed with its line under "hazards": the ring (`misused`), the blocks
  of a socket that could not be created (`leaked`), an accepted socket without an IRP
  (`WithoutIrp`), and the addresses before one that could not be converted.
- Of the server: an error of `accept` other than for want of descriptors
  (httplib.h:5555), which ends the listening: after it, `Connect` is never taken again,
  which no property needs, but `main` then returns. The rest of a request that has been
  answered early, because its headers were no good, which the thread then takes for
  the next request.
- Of URLs: the port as a number, which nobody reads. A host in brackets ends in
  `abort()` at its first character, which the model has.
- Of the exchange: numbers that do not fit an int: a Content-Length, a chunk size or a
  status code of more digits, where `atoi` and `strtol` are not defined or saturate;
  `Proper` bounds the content. The text of the request (its length and the PDB it names only),
  `recv` that waits for ever (nothing here says that an exchange ends; `Sockets` says
  which calls do),
  `keepAlive`, which nobody reads, and the members of the parser that are for
  logging. A response is called proper if it is what HTTP allows and this parser
  is meant for, which `HttpResponse` defines: a header has a space behind its colon, a
  reason phrase is not empty, trailers are letters and digits; a length may have a plus sign, which
  HTTP does not allow and this parser takes. Bytes that come behind the content, in a piece of their own, make
  `contentSize` wrap around: such a response may be refused (`AnswersComplete` excepts
  it), but is not answered with anything else (`RefusesIncomplete` does not).
- `httprequestparser.h`, which no other file uses.
- Option parsing, logging, and the JSON text of requests and answers.
- A crash of the machine (files that were not synced before the rename): the model
  has crashes of the process only. The name of a PDB that itself ends in `.tmp`, so
  that it is the temporary file of another: names that clients send end in `.pdb`.
- `GetTypeName` with a type index that is not in the file or with the combination
  of a modifier and a procedure, bit-field or array, where it dereferences null:
  the types of members are plain or bit-fields.
- Continuations of a list of fields (`LF_INDEX`) are not followed by the code
  and end the walk here; type indices are below 2^16 in the instances.
- The text of garbage: what the code reads as a name where no name starts is
  taken not to be a name asked for, and a suffix of a name neither.
- Symbol records that are cut (`GetRecord` returns null), and the sum of a section's
  address and an offset wrapping around at 2^32.

## 6. Plan

Done: storage, server, the three queries, the driver client's query from the image
to the answer, and its sockets; proofs of every safety property of the runs and of both refinements. Left, in
this order:

1. `Exchange` over `Sockets` in place of its own outcomes of `socket`, `connect`, `send` and
   `recv`, as a refinement.
2. `GetTypeName` over chains of modifiers and pointers, with the dereferences of null
   that it is exposed to.
