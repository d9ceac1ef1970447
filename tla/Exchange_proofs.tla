--------------------------- MODULE Exchange_proofs ---------------------------
(***************************************************************************)
(* What is proved of Exchange for any images, servers, responses and sizes *)
(* of pieces.                                                              *)
(***************************************************************************)
EXTENDS UrlParser_proofs

-----------------------------------------------------------------------------

Before == {"construct", "check", "aborted", "resolve", "socket", "connect"}

\* Until there is a connection nothing is sent and nothing received.
QuietInv ==
  pc \in Before =>
    /\ request = <<>> /\ wire = <<>>
    /\ response = NoResponse /\ left = <<>>
    /\ parser = NewParser /\ buf = <<>> /\ outcome = "ParsingError"

\* What has been sent and what is left of the request make up the request.
SentInv ==
  \E n \in 0 .. RequestSize :
    /\ wire = SubSeq(RequestFor(info), 1, n)
    /\ pc \in {"send", "recv"} => request = SubSeq(RequestFor(info), n + 1, RequestSize)
    /\ pc = "recv" => n = RequestSize

InfoInv ==
  /\ given \in Cases
  /\ pc \in {"check", "resolve", "socket", "connect", "send", "recv"}
       => info = Pe!PdbPathInfo(given.image)
  /\ wire # <<>> => info = Pe!PdbPathInfo(given.image)

RequestInv == QuietInv /\ SentInv /\ InfoInv

-----------------------------------------------------------------------------

\* The PDB of an image is found if its linker has made it one.
LEMMA PdbIsFound ==
  ASSUME NEW image, Pe!Linked(image)
  PROVE  Pe!PdbPathInfo(image) = image.pdb
<1> DEFINE Within(i) == /\ image.debug >= image.sections[i].va
                        /\ image.debug < image.sections[i].va + image.sections[i].size
<1>1. PICK k \in DOMAIN image.sections :
        LET place == image.debug - image.sections[k].va + image.sections[k].raw
        IN  /\ \A i \in DOMAIN image.sections : Within(i) <=> i = k
            /\ place \in DOMAIN image.entries
            /\ image.entries[place] \in DOMAIN image.infos
            /\ image.infos[image.entries[place]] = image.pdb
  BY DEF Pe!Linked
<1>2. {i \in DOMAIN image.sections : Within(i)} = {k}
  BY <1>1
<1>3. k \in Nat
  BY <1>1 DEF Pe!Linked
<1>4. Pe!Min({k}) = k
  BY <1>3 DEF Pe!Min
<1>5. Pe!RvaToOffset(image, image.debug)
        = image.debug - image.sections[k].va + image.sections[k].raw
  BY <1>2, <1>4 DEF Pe!RvaToOffset
<1> QED
  BY <1>1, <1>5 DEF Pe!PdbPathInfo

LEMMA RequestType == \A pdb : /\ RequestFor(pdb) \in Seq({[pdb |-> pdb, byte |-> n] : n \in 1 .. RequestSize})
                              /\ Len(RequestFor(pdb)) = RequestSize
<1> SUFFICES ASSUME NEW pdb
             PROVE /\ RequestFor(pdb) \in Seq({[pdb |-> pdb, byte |-> n] : n \in 1 .. RequestSize})
                   /\ Len(RequestFor(pdb)) = RequestSize
  OBVIOUS
<1> DEFINE S == {[pdb |-> pdb, byte |-> n] : n \in 1 .. RequestSize}
<1>1. RequestFor(pdb) \in [1 .. RequestSize -> S]
  BY DEF RequestFor
<1>2. RequestSize \in Nat
  BY ExchangeAssumption
<1> HIDE DEF S
<1>3. RequestFor(pdb) \in Seq(S)
  BY <1>1, <1>2, IsASeq
<1> QED
  BY <1>1, <1>2, <1>3, LenProperties DEF S

LEMMA QuietStep == RequestInv /\ [Next]_vars => QuietInv'
<1> SUFFICES ASSUME RequestInv, [Next]_vars, pc' \in Before
             PROVE  /\ request' = <<>> /\ wire' = <<>>
                    /\ response' = NoResponse /\ left' = <<>>
                    /\ parser' = NewParser /\ buf' = <<>> /\ outcome' = "ParsingError"
  BY DEF QuietInv
<1> USE DEF RequestInv, QuietInv, Before
<1>1. CASE Construct
  BY <1>1 DEF Construct, GiveUp, Finish, parserVars, ioVars
<1>2. CASE Check
  BY <1>2 DEF Check, GiveUp, Finish, parserVars, ioVars
<1>3. CASE Resolve
  BY <1>3 DEF Resolve, GiveUp, Finish, parserVars, ioVars
<1>4. CASE Socket
  BY <1>4 DEF Socket, GiveUp, Finish, parserVars, ioVars
<1>5. CASE Connect
  BY <1>5 DEF Connect, GiveUp, Finish
<1>6. CASE Send
  BY <1>6 DEF Send, GiveUp, Finish
<1>7. CASE Receive
  BY <1>7 DEF Receive
<1>8. CASE Parse
  BY <1>8 DEF Parse
<1>9. CASE Closed
  BY <1>9 DEF Closed, Finish
<1>10. CASE Broken
  BY <1>10 DEF Broken, GiveUp, Finish
<1>12. CASE ParseThrows
  BY <1>12 DEF ParseThrows, GiveUp, Finish
<1>11. CASE UNCHANGED vars
  BY <1>11 DEF vars, parserVars, ioVars
<1> QED
  BY <1>1, <1>2, <1>3, <1>4, <1>5, <1>6, <1>7, <1>8, <1>9, <1>10, <1>11, <1>12 DEF Next

LEMMA InfoStep == RequestInv /\ [Next]_vars => InfoInv'
<1> SUFFICES ASSUME RequestInv, [Next]_vars PROVE InfoInv'
  OBVIOUS
<1> USE DEF RequestInv, InfoInv
<1>1. CASE Construct
  BY <1>1 DEF Construct, GiveUp, Finish, ioVars, QuietInv, Before
<1>2. CASE Check
  BY <1>2 DEF Check, GiveUp, Finish, ioVars
<1>3. CASE Resolve
  BY <1>3 DEF Resolve, GiveUp, Finish, ioVars, queryVars
<1>4. CASE Socket
  BY <1>4 DEF Socket, GiveUp, Finish, ioVars, queryVars
<1>5. CASE Connect
  BY <1>5 DEF Connect, GiveUp, Finish, queryVars, ioVars
<1>6. CASE Send
  BY <1>6 DEF Send, GiveUp, Finish, queryVars
<1>7. CASE Receive
  BY <1>7 DEF Receive, queryVars
<1>8. CASE Parse
  BY <1>8 DEF Parse, queryVars, ioVars
<1>9. CASE Closed
  BY <1>9 DEF Closed, Finish, queryVars, ioVars
<1>10. CASE Broken
  BY <1>10 DEF Broken, GiveUp, Finish, queryVars, ioVars
<1>12. CASE ParseThrows
  BY <1>12 DEF ParseThrows, GiveUp, Finish, queryVars, ioVars
<1>11. CASE UNCHANGED vars
  BY <1>11 DEF vars, queryVars, ioVars
<1> QED
  BY <1>1, <1>2, <1>3, <1>4, <1>5, <1>6, <1>7, <1>8, <1>9, <1>10, <1>11, <1>12 DEF Next

\* A piece of the request more is sent.
LEMMA SentMore ==
  ASSUME NEW pdb, NEW m \in 0 .. RequestSize, NEW n \in 0 .. RequestSize - m
  PROVE  LET sent == SubSeq(RequestFor(pdb), 1, m)
             rest == SubSeq(RequestFor(pdb), m + 1, RequestSize)
         IN  /\ Len(rest) = RequestSize - m
             /\ sent \o SubSeq(rest, 1, n) = SubSeq(RequestFor(pdb), 1, m + n)
             /\ SubSeq(rest, n + 1, Len(rest)) = SubSeq(RequestFor(pdb), m + n + 1, RequestSize)
<1> DEFINE whole == RequestFor(pdb)
           S == {[pdb |-> pdb, byte |-> k] : k \in 1 .. RequestSize}
           sent == SubSeq(whole, 1, m)
           rest == SubSeq(whole, m + 1, RequestSize)
<1>1. whole \in Seq(S) /\ Len(whole) = RequestSize /\ RequestSize \in Nat
  BY RequestType, ExchangeAssumption
<1> HIDE DEF whole, S
<1>2. rest \in Seq(S) /\ Len(rest) = RequestSize - m
  BY <1>1, SubSeqProperties
<1>3. SubSeq(rest, 1, n) = SubSeq(whole, m + 1, m + n)
  BY <1>1, <1>2
<1>4. sent \o SubSeq(whole, m + 1, m + n) = SubSeq(whole, 1, m + n)
  BY <1>1, ConcatAdjacentSubSeq
<1>5. SubSeq(rest, n + 1, Len(rest)) = SubSeq(whole, m + n + 1, RequestSize)
  BY <1>1, <1>2
<1> QED
  BY <1>2, <1>3, <1>4, <1>5 DEF whole

LEMMA SentStep == RequestInv /\ [Next]_vars => SentInv'
<1> SUFFICES ASSUME RequestInv, [Next]_vars PROVE SentInv'
  OBVIOUS
<1> USE ExchangeAssumption
<1>0. PICK m \in 0 .. RequestSize :
        /\ wire = SubSeq(RequestFor(info), 1, m)
        /\ pc \in {"send", "recv"} => request = SubSeq(RequestFor(info), m + 1, RequestSize)
        /\ pc = "recv" => m = RequestSize
  BY DEF RequestInv, SentInv
<1>1. ASSUME wire = <<>>, wire' = <<>>, pc' \notin {"send", "recv"}
      PROVE  SentInv'
  <2>1. SubSeq(RequestFor(info'), 1, 0) = <<>>
    BY RequestType, SubSeqEmpty
  <2> QED
    BY <1>1, <2>1 DEF SentInv, RequestFor
<1>2. ASSUME wire' = wire, info' = info, pc' \notin {"send", "recv"}
      PROVE  SentInv'
  BY <1>0, <1>2 DEF SentInv, RequestFor
<1>3. ASSUME UNCHANGED <<wire, info, pc, request>>
      PROVE  SentInv'
  BY <1>0, <1>3 DEF SentInv, RequestFor
<1>4. CASE Construct
  BY <1>1, <1>4 DEF Construct, GiveUp, Finish, ioVars, RequestInv, QuietInv, Before
<1>5. CASE Check
  BY <1>2, <1>5 DEF Check, GiveUp, Finish, ioVars
<1>6. CASE Resolve
  <2>1. CASE pc' = pc
    BY <1>2, <1>6, <2>1 DEF Resolve, ioVars, queryVars
  <2>2. CASE pc' # pc
    BY <1>2, <1>6, <2>2 DEF Resolve, GiveUp, Finish, ioVars, queryVars
  <2> QED BY <2>1, <2>2
<1>7. CASE Socket
  BY <1>2, <1>7 DEF Socket, GiveUp, Finish, ioVars, queryVars
<1>8. CASE Connect
  <2>1. CASE pc' = "done"
    BY <1>2, <1>8, <2>1 DEF Connect, GiveUp, Finish, ioVars, queryVars
  <2>2. CASE pc' = "send"
    <3>1. /\ wire' = <<>> /\ info' = info /\ request' = RequestFor(info)
      BY <1>8, <2>2 DEF Connect, GiveUp, Finish, queryVars, RequestInv, QuietInv, Before
    <3>2. SubSeq(RequestFor(info), 1, 0) = <<>>
      BY RequestType, SubSeqEmpty
    <3>3. SubSeq(RequestFor(info), 1, RequestSize) = RequestFor(info)
      <4>1. /\ RequestFor(info) \in Seq({[pdb |-> info, byte |-> n] : n \in 1 .. RequestSize})
            /\ Len(RequestFor(info)) = RequestSize
        BY RequestType
      <4> QED BY <4>1, SubSeqFull
    <3>4. RequestFor(info)' = RequestFor(info)
      BY <3>1 DEF RequestFor
    <3>5. /\ wire' = SubSeq(RequestFor(info)', 1, 0)
          /\ request' = SubSeq(RequestFor(info)', 0 + 1, RequestSize)
      BY <3>1, <3>2, <3>3, <3>4
    <3> QED BY <2>2, <3>5 DEF SentInv
  <2> QED BY <1>8, <2>1, <2>2 DEF Connect, GiveUp, Finish
<1>9. CASE Send
  <2>1. CASE pc' = "done"
    BY <1>2, <1>9, <2>1 DEF Send, GiveUp, Finish, queryVars
  <2>2. CASE pc' # "done"
    <3>1. PICK n \in 0 .. Len(request) :
            /\ wire' = wire \o SubSeq(request, 1, n)
            /\ request' = SubSeq(request, n + 1, Len(request))
            /\ pc' = IF n = Len(request) THEN "recv" ELSE "send"
      BY <1>9, <2>2 DEF Send, GiveUp, Finish
    <3>2. request = SubSeq(RequestFor(info), m + 1, RequestSize) /\ info' = info
      BY <1>0, <1>9 DEF Send, queryVars
    <3>3. Len(request) = RequestSize - m
      BY <3>2, SentMore
    <3>4. /\ wire' = SubSeq(RequestFor(info), 1, m + n)
          /\ request' = SubSeq(RequestFor(info), m + n + 1, RequestSize)
      BY <1>0, <3>1, <3>2, <3>3, SentMore
    <3>5. m + n \in 0 .. RequestSize /\ (pc' = "recv" => m + n = RequestSize)
      BY <3>1, <3>3
    <3> QED BY <3>2, <3>4, <3>5 DEF SentInv, RequestFor
  <2> QED BY <2>1, <2>2
<1>10. CASE Receive
  BY <1>3, <1>10 DEF Receive, queryVars
<1>11. CASE Parse
  BY <1>3, <1>11 DEF Parse, queryVars, ioVars
<1>12. CASE Closed
  BY <1>2, <1>12 DEF Closed, Finish, queryVars, ioVars
<1>13. CASE Broken
  BY <1>2, <1>13 DEF Broken, GiveUp, Finish, queryVars, ioVars
<1>15. CASE ParseThrows
  BY <1>2, <1>15 DEF ParseThrows, GiveUp, Finish, queryVars, ioVars
<1>14. CASE UNCHANGED vars
  BY <1>3, <1>14 DEF vars, queryVars, ioVars
<1> QED
  BY <1>4, <1>5, <1>6, <1>7, <1>8, <1>9, <1>10, <1>11, <1>12, <1>13, <1>14, <1>15 DEF Next

LEMMA InitRequest == Init => RequestInv
<1> SUFFICES ASSUME Init PROVE RequestInv
  OBVIOUS
<1>1. SubSeq(RequestFor(info), 1, 0) = <<>> /\ 0 \in 0 .. RequestSize
  BY RequestType, SubSeqEmpty, ExchangeAssumption
<1>2. SentInv
  BY <1>1 DEF Init, SentInv
<1> QED BY <1>2 DEF Init, ParserInit, RequestInv, QuietInv, InfoInv

LEMMA RequestInvariance == Spec => []RequestInv
<1>1. RequestInv /\ [Next]_vars => RequestInv'
  BY QuietStep, SentStep, InfoStep DEF RequestInv
<1> QED BY InitRequest, <1>1, PTL DEF Spec

\* The server gets the request of this image, whole when it answers, and no
\* byte of it twice or out of order, whatever pieces send takes.
THEOREM RequestArrival == Spec => []RequestArrives
<1>1. RequestInv => RequestArrives
  <2> SUFFICES ASSUME RequestInv PROVE RequestArrives
    OBVIOUS
  <2>1. PICK n \in 0 .. RequestSize :
          /\ wire = SubSeq(RequestFor(info), 1, n)
          /\ pc = "recv" => n = RequestSize
    BY DEF RequestInv, SentInv
  <2>2. /\ RequestFor(info) \in Seq({[pdb |-> info, byte |-> k] : k \in 1 .. RequestSize})
        /\ Len(RequestFor(info)) = RequestSize /\ RequestSize \in Nat
    BY RequestType, ExchangeAssumption
  <2>3. Len(wire) = n
    BY <2>1, <2>2, SubSeqProperties
  <2>4. SubSeq(wire, 1, n) = wire
    BY <2>1, <2>2, <2>3, SubSeqProperties, SubSeqFull
  <2>5. IsPrefix(wire, RequestFor(info))
    BY <2>1, <2>2, <2>3, <2>4 DEF IsPrefix
  <2>6. pc = "recv" => wire = RequestFor(info)
    BY <2>1, <2>2, SubSeqFull
  <2> QED BY <2>5, <2>6 DEF RequestArrives
<1> QED BY RequestInvariance, <1>1, PTL

\* The server is asked for the PDB that the debug directory of the image names,
\* wherever rva_to_offset has to look for it.
THEOREM PdbOfTheImage == Spec => []AsksForItsPdb
<1>1. RequestInv => AsksForItsPdb
  BY PdbIsFound, ExchangeAssumption DEF RequestInv, InfoInv, AsksForItsPdb
<1> QED BY RequestInvariance, <1>1, PTL

-----------------------------------------------------------------------------

\* What is allocated at each step of getaddrinfo.
Allocated ==
  /\ step \in {"node", "service", "hints", "ask", "convert", "ok", "failed", "unconverted"}
  /\ step \in {"node", "failed"} => pool = {}
  /\ step = "service" => pool = {Block("node")}
  /\ step = "hints" => pool = Names
  /\ step = "ask" => pool = Names \union {Block("hints")}
  /\ step = "convert" => pool = Names \union {Block("found")}
  /\ step = "ok" => pool \subseteq Names \union Converted(addresses)

\* A string that was never set is freed only if converting the addresses fails
\* behind the first.
Wild == wild => step = "unconverted" /\ addresses > 1

\* Where the query is in getaddrinfo, or before or behind it.
PoolInv ==
  /\ Allocated
  /\ Wild
  /\ addresses \in Nat
  /\ pc \in {"construct", "check"} => step = "node"
  /\ pc \in {"socket", "connect", "send", "recv"} => step = "ok"
  /\ pc = "done" => (step # "unconverted" => pool \subseteq Names)

LEMMA GetAddrInfoAllocates ==
  ASSUME Allocated, Wild, addresses \in Nat, GetAddrInfo
  PROVE  Allocated' /\ Wild' /\ addresses' \in Nat
<1> USE DEF Allocated, Refuse, Block, Names
<1>1. CASE Allocate("node", "service", Block("node"))
  BY <1>1 DEF Allocate, Wild
<1>2. CASE Allocate("service", "hints", Block("service"))
  BY <1>2 DEF Allocate, Wild
<1>3. CASE Allocate("hints", "ask", Block("hints"))
  BY <1>3 DEF Allocate, Wild
<1>4. CASE Ask
  BY <1>4, AddressesAssumption DEF Ask, Wild
<1>5. CASE Convert
  <2>1. CASE step' = "ok"
    BY <1>5, <2>1 DEF Convert, Wild, Converted
  <2>2. CASE step' = "unconverted"
    <3>1. PICK n \in 1 .. addresses : (wild' => n > 1) /\ addresses' = addresses
      BY <1>5, <2>2, Zenon DEF Convert
    <3>2. Wild'
      BY <2>2, <3>1 DEF Wild
    <3> QED BY <2>2, <3>1, <3>2
  <2> QED BY <1>5, <2>1, <2>2 DEF Convert
<1> QED BY <1>1, <1>2, <1>3, <1>4, <1>5 DEF GetAddrInfo

LEMMA GiveUpFrees ==
  ASSUME PoolInv, step \in {"node", "ok", "failed", "unconverted"},
         FreeAddrInfo, UNCHANGED <<step, addresses, wild>>, pc' = "done"
  PROVE  PoolInv'
<1>1. CASE step = "ok"
  <2>1. pool' = pool \ Converted(addresses) /\ step' = "ok"
    BY <1>1 DEF FreeAddrInfo
  <2>2. pool \subseteq Names \union Converted(addresses)
    BY <1>1 DEF PoolInv, Allocated
  <2>3. pool' \subseteq Names
    BY <2>1, <2>2
  <2>4. Allocated' /\ Wild' /\ (addresses \in Nat)'
    BY <1>1, <2>1, <2>3 DEF PoolInv, Allocated, Wild
  <2> QED BY <1>1, <2>3, <2>4 DEF PoolInv
<1>2. CASE step # "ok"
  <2>1. pool' = pool
    BY <1>2 DEF FreeAddrInfo
  <2>2. Allocated' /\ Wild' /\ (addresses \in Nat)'
    BY <1>2, <2>1 DEF PoolInv, Allocated, Wild
  <2> QED BY <1>2, <2>1, <2>2 DEF PoolInv, Allocated
<1> QED BY <1>1, <1>2

LEMMA PoolStep == PoolInv /\ [Next]_vars => PoolInv'
<1> SUFFICES ASSUME PoolInv, [Next]_vars PROVE PoolInv'
  OBVIOUS
<1>0. ASSUME UNCHANGED addrVars, pc' = pc
      PROVE  PoolInv'
  BY <1>0 DEF PoolInv, Allocated, Wild, addrVars
<1>1. CASE Construct
  <2>1. CASE pc' = "done"
    BY <1>1, <2>1, GiveUpFrees DEF Construct, GiveUp, Finish, PoolInv
  <2>2. CASE pc' = "check" /\ UNCHANGED addrVars
    BY <1>1, <2>2 DEF Construct, PoolInv, Allocated, Wild, addrVars
  <2> QED BY <1>1, <2>1, <2>2 DEF Construct, GiveUp, Finish
<1>2. CASE Check
  <2>1. CASE pc' = "done"
    BY <1>2, <2>1, GiveUpFrees DEF Check, GiveUp, Finish, PoolInv
  <2>2. CASE pc' \in {"resolve", "aborted"} /\ UNCHANGED addrVars
    BY <1>2, <2>2 DEF Check, PoolInv, Allocated, Wild, addrVars
  <2> QED BY <1>2, <2>1, <2>2 DEF Check, GiveUp, Finish
<1>3. CASE Resolve
  <2>1. CASE GetAddrInfo /\ pc' = pc
    BY <1>3, <2>1, GetAddrInfoAllocates DEF Resolve, PoolInv
  <2>2. CASE step = "ok" /\ pc' = "socket" /\ UNCHANGED addrVars
    BY <2>2 DEF PoolInv, Allocated, Wild, addrVars
  <2>3. CASE step \in {"failed", "unconverted"} /\ GiveUp("unused")
    BY <1>3, <2>3, GiveUpFrees DEF GiveUp, Finish
  <2> QED BY <1>3, <2>1, <2>2, <2>3 DEF Resolve
<1>4. CASE Socket
  <2>1. CASE pc' = "connect" /\ UNCHANGED addrVars
    BY <1>4, <2>1 DEF Socket, PoolInv, Allocated, Wild, addrVars
  <2>2. CASE GiveUp("unused")
    BY <1>4, <2>2, GiveUpFrees DEF Socket, GiveUp, Finish, PoolInv
  <2> QED BY <1>4, <2>1, <2>2 DEF Socket
<1>5. CASE Connect
  <2>1. CASE pc' = "send" /\ UNCHANGED addrVars
    BY <1>5, <2>1 DEF Connect, PoolInv, Allocated, Wild, addrVars
  <2>2. CASE GiveUp("unused")
    BY <1>5, <2>2, GiveUpFrees DEF Connect, GiveUp, Finish, PoolInv
  <2> QED BY <1>5, <2>1, <2>2 DEF Connect
<1>6. CASE Send
  <2>1. CASE pc' \in {"send", "recv"} /\ UNCHANGED addrVars
    BY <1>6, <2>1 DEF Send, PoolInv, Allocated, Wild, addrVars
  <2>2. CASE GiveUp("broken")
    BY <1>6, <2>2, GiveUpFrees DEF Send, GiveUp, Finish, PoolInv
  <2> QED BY <1>6, <2>1, <2>2 DEF Send
<1>7. CASE Receive
  BY <1>0, <1>7 DEF Receive
<1>8. CASE Parse
  BY <1>0, <1>8 DEF Parse
<1>9. CASE Closed
  BY <1>9, GiveUpFrees DEF Closed, Finish, PoolInv
<1>10. CASE Broken
  BY <1>10, GiveUpFrees DEF Broken, GiveUp, Finish, PoolInv
<1>12. CASE ParseThrows
  BY <1>12, GiveUpFrees DEF ParseThrows, GiveUp, Finish, PoolInv
<1>11. CASE UNCHANGED vars
  BY <1>0, <1>11 DEF vars
<1> QED
  BY <1>1, <1>2, <1>3, <1>4, <1>5, <1>6, <1>7, <1>8, <1>9, <1>10, <1>11, <1>12 DEF Next

LEMMA PoolInvariance == Spec => []PoolInv
<1>1. Init => PoolInv
  BY DEF Init, AddrInit, PoolInv, Allocated, Wild
<1> QED BY <1>1, PoolStep, PTL DEF Spec

\* When a query is over, it has freed what it has allocated but for both names
\* in Unicode, unless the addresses could not be converted, and it has freed
\* nothing that was never set if there is but one address.
THEOREM AddressesAreFreed == Spec => []FreesAddresses
<1>1. PoolInv => FreesAddresses
  BY DEF PoolInv, Wild, FreesAddresses
<1> QED BY PoolInvariance, <1>1, PTL

-----------------------------------------------------------------------------

LEMMA NumberIsNat ==
  ASSUME NEW base \in Nat, NEW str \in Seq(Bytes)
  PROVE  Number(base, str) \in Nat
<1> DEFINE T == {n \in 1 .. Len(str) : str[n].is \notin DigitsOf(base)}
           to == IF T # {} THEN Min(T) ELSE 0
           digits == IF to = 0 THEN str ELSE SubSeq(str, 1, to - 1)
           Values(f) == [n \in 0 .. Len(digits) |->
                          IF n = 0 THEN 0 ELSE base * f[n - 1] + digits[n].digit]
           value == CHOOSE f : f = Values(f)
<1>3. to \in 0 .. Len(str)
  <2>1. T \subseteq Nat
    OBVIOUS
  <2>2. T # {} => Min(T) \in T
    <3> HIDE DEF T
    <3> QED BY <2>1, MinIsLeast
  <2> QED BY <2>2
<1>4. digits \in Seq(Bytes)
  <2> HIDE DEF to
  <2> QED BY <1>3
<1>5. Number(base, str) = value[Len(digits)]
  BY DEF Number, SelectInSeq
<1> HIDE DEF digits
<1>6. Len(digits) \in Nat /\ \A n \in 1 .. Len(digits) : digits[n].digit \in Nat
  <2>1. \A b \in Bytes : b.digit \in Nat
    BY DEF Bytes
  <2>2. \A n \in 1 .. Len(digits) : digits[n] \in Bytes
    BY <1>4, ElementOfSeq
  <2> QED BY <1>4, <2>1, <2>2
<1> DEFINE Step == [p \in Nat \X (1 .. Len(digits)) |-> base * p[1] + digits[p[2]].digit]
<1>7. Step \in [Nat \X (1 .. Len(digits)) -> Nat]
  <2>1. \A p \in Nat \X (1 .. Len(digits)) : base * p[1] + digits[p[2]].digit \in Nat
    <3> SUFFICES ASSUME NEW x \in Nat, NEW n \in 1 .. Len(digits)
                 PROVE  base * x + digits[n].digit \in Nat
      OBVIOUS
    <3>1. base * x \in Nat
      OBVIOUS
    <3> QED BY <1>6, <3>1
  <2> QED BY <2>1
<1>8. PICK f \in [0 .. Len(digits) -> Nat] :
        f[0] = 0 /\ \A n \in 1 .. Len(digits) : f[n] = Step[<<f[n - 1], n>>]
  <2> DEFINE N == Len(digits)
  <2>1. N \in Nat /\ Step \in [Nat \X (1 .. N) -> Nat] /\ 0 \in Nat
    BY <1>6, <1>7
  <2> HIDE DEF Step, N
  <2>2. \E f \in [0 .. N -> Nat] : Recursion(f, N, 0, Step)
    BY <2>1, Recursive
  <2> QED BY <2>2 DEF N, Recursion
<1>9. \E g : g = Values(g)
  <2>1. \A n \in 1 .. Len(digits) : f[n] = base * f[n - 1] + digits[n].digit
    <3> SUFFICES ASSUME NEW n \in 1 .. Len(digits)
                 PROVE  f[n] = base * f[n - 1] + digits[n].digit
      OBVIOUS
    <3>1. <<f[n - 1], n>> \in Nat \X (1 .. Len(digits))
      <4>1. n - 1 \in 0 .. Len(digits)
        BY <1>6
      <4> QED BY <1>8, <4>1
    <3> QED BY <1>8, <3>1
  <2>2. f = Values(f)
    BY <1>6, <1>8, <2>1
  <2> QED BY <2>2
<1>10. value = Values(value)
  BY <1>9
<1> HIDE DEF value
<1>11. value[0] = 0 /\ \A n \in 1 .. Len(digits) : value[n] = base * value[n - 1] + digits[n].digit
  BY <1>6, <1>10
<1>12. 0 .. Len(digits) \subseteq {n \in 0 .. Len(digits) : value[n] \in Nat}
  <2> DEFINE G == {n \in 0 .. Len(digits) : value[n] \in Nat}
  <2>1. 0 \in G
    BY <1>6, <1>11
  <2>2. ASSUME NEW n \in 1 .. Len(digits), n - 1 \in G PROVE n \in G
    <3>1. value[n - 1] \in Nat /\ digits[n].digit \in Nat
      BY <1>6, <2>2
    <3>2. base * value[n - 1] \in Nat
      BY <3>1
    <3> QED BY <1>6, <1>11, <3>1, <3>2
  <2> HIDE DEF G
  <2>3. 0 .. Len(digits) \subseteq G
    BY <1>6, <2>1, <2>2, Reaches
  <2> QED BY <2>3 DEF G
<1> QED BY <1>5, <1>6, <1>12

LEMMA AtoiIsInt ==
  ASSUME NEW str \in Seq(Bytes)
  PROVE  Atoi(str) \in Int
<1> DEFINE F == {n \in 1 .. Len(str) : str[n].is # "sp"}
           from == IF F # {} THEN Min(F) ELSE 0
           rest == IF from = 0 THEN <<>> ELSE SubSeq(str, from, Len(str))
           sign == IF rest = <<>> THEN "" ELSE Head(rest).text
<1>1. from \in 0 .. Len(str)
  <2>1. F \subseteq Nat
    OBVIOUS
  <2>2. F # {} => Min(F) \in F
    <3> HIDE DEF F
    <3> QED BY <2>1, MinIsLeast
  <2> QED BY <2>2
<1>2. rest \in Seq(Bytes)
  <2> HIDE DEF from
  <2> QED BY <1>1
<1>3. Atoi(str) = CASE sign = "-" -> -Number(10, Tail(rest))
                    [] sign = "+" -> Number(10, Tail(rest))
                    [] OTHER      -> Number(10, rest)
  BY DEF Atoi, SelectInSeq
<1>4. rest # <<>> => Tail(rest) \in Seq(Bytes)
  <2> HIDE DEF rest
  <2> QED BY <1>2
<1>5. Number(10, rest) \in Nat
  <2> HIDE DEF rest
  <2> QED BY <1>2, NumberIsNat
<1>6. rest # <<>> => Number(10, Tail(rest)) \in Nat
  <2> HIDE DEF rest
  <2> QED BY <1>4, NumberIsNat
<1>7. sign \in {"-", "+"} => rest # <<>>
  OBVIOUS
<1> HIDE DEF rest, sign
<1>8. CASE sign = "-"
  BY <1>3, <1>6, <1>7, <1>8
<1>9. CASE sign = "+"
  BY <1>3, <1>6, <1>7, <1>9
<1>10. CASE sign # "-" /\ sign # "+"
  <2>1. Atoi(str) = Number(10, rest)
    BY <1>3, <1>10, Zenon
  <2> QED BY <1>5, <2>1
<1> QED BY <1>8, <1>9, <1>10

-----------------------------------------------------------------------------

States == DOMAIN Moves \union Counting

Parsers == [state : States, status : Nat, name : Seq(Bytes), value : Seq(Bytes),
            chunked : BOOLEAN, contentSize : Int, chunkSizeStr : Seq(Bytes),
            chunkSize : Nat, content : Seq(Bytes)]

\* A chunk is not over while its content is read.
ParserTypeOK ==
  /\ parser \in Parsers
  /\ parser.state = "ChunkData" => parser.chunkSize > 0
  /\ outcome \in Results \union {"parsing"}

\* How much of the response has been looked at, or dropped with its piece.
At == Len(response.bytes) - Len(left) - Len(buf)

\* The piece and what is left are the end of the response, and nothing is kept of
\* a piece when parse() returns.
BytesInv ==
  /\ outcome # "parsing" => buf = <<>>
  /\ response = NoResponse \/ response \in given.answers
  /\ buf \in Seq(Bytes) /\ left \in Seq(Bytes)
  /\ At \in Nat
  /\ \A n \in 1 .. Len(buf) : buf[n] = response.bytes[At + n]
  /\ \A n \in 1 .. Len(left) : left[n] = response.bytes[At + Len(buf) + n]

\* A query that is over has closed its socket, or never made one.
OverInv ==
  /\ pc \in Before \union {"send", "recv", "done"}
  /\ conn \in {"none", "open", "connected", "closed", "broken", "unused"}
  /\ pc = "done" <=> reply # NotYet
  /\ reply # NotYet => conn \in {"closed", "broken", "unused"}

LEMMA MovesAre ==
  /\ DOMAIN Moves = DOMAIN StatusMoves \union DOMAIN HeaderMoves \union DOMAIN ChunkMoves
  /\ \A s \in DOMAIN StatusMoves : Moves[s] = StatusMoves[s]
  /\ \A s \in DOMAIN HeaderMoves : Moves[s] = HeaderMoves[s]
  /\ \A s \in DOMAIN ChunkMoves : Moves[s] = ChunkMoves[s]
<1>1. /\ DOMAIN StatusMoves \intersect DOMAIN HeaderMoves = {}
      /\ DOMAIN StatusMoves \intersect DOMAIN ChunkMoves = {}
      /\ DOMAIN HeaderMoves \intersect DOMAIN ChunkMoves = {}
  BY DEF StatusMoves, HeaderMoves, ChunkMoves
<1> QED BY <1>1, Zenon DEF Moves

\* The states of the table.
LEMMA MovesFrom ==
  DOMAIN Moves =
    {"StatusStart", "StatusCodeStart", "StatusCode", "StatusTextStart",
     "StatusText", "NewLine", "HeaderLineStart", "HeaderLws", "HeaderName",
     "SpaceBeforeHeaderValue", "HeaderValue", "ExpectingNewline_2", "ChunkSize",
     "ChunkExtensionName", "ChunkExtensionValue", "ChunkSizeNewLine_2",
     "ChunkTrailerName", "ChunkTrailerValue", "ChunkDataNewLine_1",
     "ChunkDataNewLine_2"}
BY MovesAre DEF StatusMoves, HeaderMoves, ChunkMoves

LEMMA MovesStay ==
  \A s \in DOMAIN Moves : \A x \in Moves[s] : x[2] \in States \ {"ChunkData"}
<1>1. \A s \in DOMAIN StatusMoves : \A x \in Moves[s] : x[2] \in States \ {"ChunkData"}
  BY MovesAre, MovesFrom DEF StatusMoves, States, Counting
<1>2. \A s \in DOMAIN HeaderMoves : \A x \in Moves[s] : x[2] \in States \ {"ChunkData"}
  BY MovesAre, MovesFrom DEF HeaderMoves, States, Counting
<1>3. \A s \in DOMAIN ChunkMoves : \A x \in Moves[s] : x[2] \in States \ {"ChunkData"}
  BY MovesAre, MovesFrom DEF ChunkMoves, States, Counting
<1> QED BY <1>1, <1>2, <1>3, MovesAre

LEMMA HeadOfBytes ==
  ASSUME buf \in Seq(Bytes), buf # <<>>
  PROVE  Head(buf) \in Bytes /\ Tail(buf) \in Seq(Bytes)
BY HeadTailProperties

LEMMA TakeHeaderType ==
  ASSUME NEW p \in Parsers
  PROVE  TakeHeader(p) \in Parsers /\ TakeHeader(p).state = p.state
<1>1. Atoi(p.value) \in Int
  BY AtoiIsInt DEF Parsers
<1> QED BY <1>1 DEF TakeHeader, Parsers

LEMMA NoteType ==
  ASSUME NEW p \in Parsers, NEW b \in Bytes, NEW next
  PROVE  Note(p, b, next) \in Parsers
<1>1. <<b>> \in Seq(Bytes) /\ <<>> \in Seq(Bytes)
  OBVIOUS
<1>2. \A s \in Seq(Bytes) : Append(s, b) \in Seq(Bytes)
  BY AppendProperties
<1>3. 10 * p.status + b.digit \in Nat
  <2>1. p.status \in Nat
    BY DEF Parsers
  <2>2. b.digit \in 0 .. 15
    BY DEF Bytes
  <2> QED BY <2>1, <2>2
<1>4. p.name \in Seq(Bytes) /\ p.value \in Seq(Bytes) /\ p.chunkSizeStr \in Seq(Bytes)
  BY DEF Parsers
<1>5. [p EXCEPT !.status = 10 * @ + b.digit] \in Parsers
  BY <1>3 DEF Parsers
<1>6. [p EXCEPT !.name = <<b>>, !.value = <<>>] \in Parsers
  BY <1>1 DEF Parsers
<1>7. [p EXCEPT !.name = Append(@, b)] \in Parsers
  BY <1>2, <1>4 DEF Parsers
<1>8. [p EXCEPT !.value = Append(@, b)] \in Parsers
  BY <1>2, <1>4 DEF Parsers
<1>9. [p EXCEPT !.chunkSizeStr = Append(@, b)] \in Parsers
  BY <1>2, <1>4 DEF Parsers
<1> QED
  BY <1>5, <1>6, <1>7, <1>8, <1>9, TakeHeaderType DEF Note

LEMMA LessContent ==
  ASSUME NEW p \in Parsers, NEW m \in Int, NEW str \in Seq(Bytes)
  PROVE  [p EXCEPT !.contentSize = m, !.content = str] \in Parsers
BY DEF Parsers

LEMMA NewChunk ==
  ASSUME NEW p \in Parsers, NEW n \in Nat, NEW s \in States
  PROVE  [p EXCEPT !.chunkSize = n, !.chunkSizeStr = <<>>, !.state = s] \in Parsers
<1>1. <<>> \in Seq(Bytes)
  OBVIOUS
<1> QED BY <1>1 DEF Parsers

LEMMA LessOfChunk ==
  ASSUME NEW p \in Parsers, NEW n \in Nat, NEW str \in Seq(Bytes), NEW s \in States
  PROVE  [p EXCEPT !.chunkSize = n, !.content = str, !.state = s] \in Parsers
BY DEF Parsers

LEMMA ParserTypes ==
  ASSUME ParserTypeOK, buf \in Seq(Bytes), ParserNext
  PROVE  ParserTypeOK'
<1> USE DEF ParserTypeOK
<1>1. parser.content \in Seq(Bytes) /\ parser.chunkSizeStr \in Seq(Bytes)
  BY DEF Parsers
<1>2. ASSUME buf # <<>>
      PROVE  Append(parser.content, Head(buf)) \in Seq(Bytes)
  BY <1>1, <1>2, HeadOfBytes, AppendProperties
<1>3. CASE Scan
  <2>1. PICK next \in NextStates :
          /\ parser' = [Note(parser, Head(buf), next) EXCEPT !.state = next]
          /\ outcome' = outcome
    BY <1>3 DEF Scan, GoOn
  <2>2. next \in States \ {"ChunkData"}
    BY <1>3, MovesStay DEF Scan, InState, NextStates
  <2>3. Note(parser, Head(buf), next) \in Parsers
    BY <1>3, NoteType, HeadOfBytes DEF Scan, InState
  <2>4. parser' \in Parsers /\ parser'.state = next
    BY <2>1, <2>2, <2>3 DEF Parsers
  <2> QED BY <2>1, <2>2, <2>4
<1>4. CASE Fail
  BY <1>4 DEF Fail, Return, Results
<1>5. CASE EndOfHeaders
  BY <1>5, MovesFrom DEF EndOfHeaders, GoOn, Return, Results, Parsers, States, Counting
<1>6. CASE Post
  <2> DEFINE more == Append(parser.content, Head(buf))
             p == [parser EXCEPT !.contentSize = parser.contentSize - 1, !.content = more]
  <2>1. parser' = p /\ outcome' \in Results \union {"parsing"}
    BY <1>6 DEF Post, GoOn, Return, Results
  <2>2. more \in Seq(Bytes) /\ parser.contentSize - 1 \in Int
    BY <1>2, <1>6 DEF Post, InState, Parsers
  <2> DEFINE m == parser.contentSize - 1
  <2> HIDE DEF more, m
  <2>3. p \in Parsers
    <3>1. m \in Int /\ parser \in Parsers
      BY <2>2 DEF m
    <3>2. [parser EXCEPT !.contentSize = m, !.content = more] \in Parsers
      BY <2>2, <3>1, LessContent
    <3> QED BY <3>2 DEF m
  <2>4. p.state = parser.state /\ p.chunkSize = parser.chunkSize
    BY DEF Parsers
  <2> QED BY <2>1, <2>3, <2>4
<1>7. CASE ChunkSizeNewLine
  <2>1. Number(16, parser.chunkSizeStr) \in Nat
    BY <1>1, NumberIsNat
  <2>2. "ChunkSizeNewLine_2" \in States /\ "ChunkData" \in States
    BY MovesFrom DEF States, Counting
  <2> DEFINE size == Number(16, parser.chunkSizeStr)
             next == IF size = 0 THEN "ChunkSizeNewLine_2" ELSE "ChunkData"
  <2>3. /\ parser' = [parser EXCEPT !.chunkSize = size, !.chunkSizeStr = <<>>, !.state = next]
        /\ outcome' = outcome
    BY <1>7 DEF ChunkSizeNewLine, GoOn
  <2>4. next \in States /\ (next = "ChunkData" => size > 0)
    BY <2>1, <2>2
  <2> HIDE DEF size, next
  <2>5. size \in Nat /\ parser \in Parsers
    BY <2>1 DEF size
  <2>6. [parser EXCEPT !.chunkSize = size, !.chunkSizeStr = <<>>, !.state = next] \in Parsers
    BY <2>4, <2>5, <1>1, NewChunk
  <2>7. parser'.state = next /\ parser'.chunkSize = size
    BY <2>3, <2>5 DEF Parsers
  <2> QED BY <2>3, <2>4, <2>6, <2>7
<1>8. CASE ChunkData
  <2>1. "ChunkDataNewLine_1" \in States
    BY MovesFrom DEF States
  <2> DEFINE size == parser.chunkSize - 1
             next == IF size = 0 THEN "ChunkDataNewLine_1" ELSE parser.state
             more == Append(parser.content, Head(buf))
  <2>2. /\ parser' = [parser EXCEPT !.chunkSize = size, !.content = more, !.state = next]
        /\ outcome' = outcome
    BY <1>8 DEF ChunkData, GoOn
  <2>3. size \in Nat /\ next \in States /\ (next = "ChunkData" => size > 0)
    BY <1>8, <2>1 DEF ChunkData, InState, Parsers
  <2>4. more \in Seq(Bytes)
    BY <1>2, <1>8 DEF ChunkData, InState
  <2> HIDE DEF size, next, more
  <2>5. parser' \in Parsers
    <3>1. parser \in Parsers
      OBVIOUS
    <3>2. [parser EXCEPT !.chunkSize = size, !.content = more, !.state = next] \in Parsers
      BY <2>3, <2>4, <3>1, LessOfChunk
    <3> QED BY <2>2, <3>2
  <2>6. parser'.state = next /\ parser'.chunkSize = size
    BY <2>2 DEF Parsers
  <2> QED BY <2>2, <2>3, <2>5, <2>6
<1>9. CASE EndOfChunks
  BY <1>9 DEF EndOfChunks, Return, Results
<1>10. CASE EndOfPiece
  BY <1>10 DEF EndOfPiece, Return, Results
<1> QED BY <1>3, <1>4, <1>5, <1>6, <1>7, <1>8, <1>9, <1>10 DEF ParserNext

TypeInv == ParserTypeOK /\ BytesInv /\ OverInv

\* A turn of the loop looks at one byte, or leaves it and drops the piece.
LEMMA ParserTakes ==
  ASSUME ParserNext
  PROVE  /\ outcome = "parsing"
         /\ \/ buf # <<>> /\ buf' = Tail(buf) /\ outcome' = "parsing"
            \/ buf' = <<>> /\ outcome' \in Results
<1> USE DEF InState, GoOn, Return, Results
<1>1. CASE Scan
  BY <1>1 DEF Scan
<1>2. CASE Fail
  BY <1>2 DEF Fail
<1>3. CASE EndOfHeaders
  BY <1>3 DEF EndOfHeaders
<1>4. CASE Post
  <2> DEFINE p == [parser EXCEPT !.contentSize = @ - 1, !.content = Append(@, Head(buf))]
  <2>1. Return(p, "ParsingCompleted") \/ GoOn(p)
    BY <1>4 DEF Post
  <2> HIDE DEF p
  <2> QED BY <1>4, <2>1 DEF Post
<1>5. CASE ChunkSizeNewLine
  <2>1. \E p : GoOn(p)
    BY <1>5 DEF ChunkSizeNewLine
  <2> QED BY <1>5, <2>1 DEF ChunkSizeNewLine
<1>6. CASE ChunkData
  <2>1. \E p : GoOn(p)
    BY <1>6 DEF ChunkData
  <2> QED BY <1>6, <2>1 DEF ChunkData
<1>7. CASE EndOfChunks
  BY <1>7 DEF EndOfChunks
<1>8. CASE EndOfPiece
  BY <1>8 DEF EndOfPiece
<1> QED BY <1>1, <1>2, <1>3, <1>4, <1>5, <1>6, <1>7, <1>8 DEF ParserNext

LEMMA ResponseType ==
  ASSUME given \in Cases, response = NoResponse \/ response \in given.answers
  PROVE  /\ response.bytes \in Seq(Bytes)
         /\ response.proper => ResponseTypeOK(response) /\ Proper(response)
<1>1. <<>> \in Seq(Bytes) /\ NoResponse.bytes = <<>> /\ ~NoResponse.proper
  BY DEF NoResponse
<1> QED BY <1>1, ExchangeAssumption DEF ResponseTypeOK

LEMMA BytesStep == TypeInv /\ RequestInv /\ [Next]_vars => BytesInv'
<1> SUFFICES ASSUME TypeInv, RequestInv, [Next]_vars PROVE BytesInv'
  OBVIOUS
<1> USE DEF TypeInv, BytesInv
<1>0. given \in Cases /\ response.bytes \in Seq(Bytes)
  BY ResponseType DEF RequestInv, InfoInv
<1>1. ASSUME UNCHANGED <<given, response, left, buf, outcome>>
      PROVE  BytesInv'
  BY <1>1 DEF At
<1>2. CASE Construct
  BY <1>1, <1>2 DEF Construct, parserVars, ioVars
<1>3. CASE Check
  BY <1>1, <1>3 DEF Check, parserVars, ioVars
<1>4. CASE Resolve
  BY <1>1, <1>4 DEF Resolve, parserVars, ioVars, queryVars
<1>5. CASE Socket
  BY <1>1, <1>5 DEF Socket, parserVars, ioVars, queryVars
<1>6. CASE Connect
  <2>1. CASE UNCHANGED ioVars
    BY <1>1, <1>6, <2>1 DEF Connect, parserVars, queryVars, ioVars
  <2>2. CASE ~ UNCHANGED ioVars
    <3>1. /\ response' \in given.answers /\ left' = response'.bytes /\ given' = given
          /\ buf' = <<>> /\ outcome' = "ParsingError"
      BY <1>6, <2>2 DEF Connect, parserVars, queryVars, RequestInv, QuietInv, Before
    <3>2. left' \in Seq(Bytes)
      BY <1>0, <3>1, ExchangeAssumption DEF ResponseTypeOK
    <3>3. <<>> \in Seq(Bytes) /\ Len(<<>>) = 0
      OBVIOUS
    <3>4. At' = 0
      <4>1. Len(left') \in Nat /\ Len(response'.bytes) = Len(left') /\ Len(buf') = 0
        BY <3>1, <3>2, <3>3
      <4>2. At' = Len(response'.bytes) - Len(left') - Len(buf')
        BY DEF At
      <4> QED BY <4>1, <4>2
    <3> QED BY <3>1, <3>2, <3>3, <3>4
  <2> QED BY <2>1, <2>2
<1>7. CASE Send
  BY <1>1, <1>7 DEF Send, parserVars, queryVars
<1>8. CASE Receive
  <2>1. PICK n \in 1 .. Len(left) : /\ buf' = SubSeq(left, 1, n)
                                    /\ left' = SubSeq(left, n + 1, Len(left))
    BY <1>8 DEF Receive
  <2>2. buf = <<>> /\ Len(buf) = 0 /\ UNCHANGED <<given, response>> /\ outcome' = "parsing"
    BY <1>8 DEF Receive, queryVars
  <2>3. /\ buf' \in Seq(Bytes) /\ Len(buf') = n
        /\ left' \in Seq(Bytes) /\ Len(left') = Len(left) - n
    BY <2>1
  <2>4. At' = At
    BY <1>0, <2>2, <2>3 DEF At
  <2>5. \A k \in 1 .. Len(buf') : buf'[k] = left[k]
    BY <2>1, <2>3
  <2>6. \A k \in 1 .. Len(left') : left'[k] = left[n + k]
    BY <2>1, <2>3
  <2>7. \A k \in 1 .. Len(left') : left'[k] = response'.bytes[At' + Len(buf') + k]
    <3> SUFFICES ASSUME NEW k \in 1 .. Len(left')
                 PROVE  left'[k] = response'.bytes[At' + Len(buf') + k]
      OBVIOUS
    <3>1. n + k \in 1 .. Len(left)
      BY <2>3
    <3>2. left[n + k] = response.bytes[At + 0 + (n + k)]
      BY <2>2, <3>1
    <3>3. At + 0 + (n + k) = At' + Len(buf') + k
      BY <2>3, <2>4
    <3> QED BY <2>2, <2>6, <3>2, <3>3
  <2>8. \A k \in 1 .. Len(buf') : buf'[k] = response'.bytes[At' + k]
    <3> SUFFICES ASSUME NEW k \in 1 .. Len(buf')
                 PROVE  buf'[k] = response'.bytes[At' + k]
      OBVIOUS
    <3>1. k \in 1 .. Len(left)
      BY <2>3
    <3>2. left[k] = response.bytes[At + 0 + k]
      BY <2>2, <3>1
    <3> QED BY <2>2, <2>4, <2>5, <3>2
  <2> QED BY <2>2, <2>3, <2>4, <2>7, <2>8
<1>9. CASE Parse
  <2>0. UNCHANGED <<given, response, left>>
    BY <1>9 DEF Parse, queryVars, ioVars
  <2>1. CASE buf # <<>> /\ buf' = Tail(buf) /\ outcome' = "parsing"
    <3>1. /\ buf' \in Seq(Bytes) /\ Len(buf') = Len(buf) - 1
          /\ \A n \in 1 .. Len(buf') : buf'[n] = buf[n + 1]
      BY <2>1
    <3>2. At' = At + 1
      BY <1>0, <2>0, <3>1 DEF At
    <3>3. \A n \in 1 .. Len(buf') : buf'[n] = response.bytes[At + (n + 1)]
      BY <3>1
    <3>4. \A n \in 1 .. Len(buf') : At + (n + 1) = At' + n
      BY <3>1, <3>2
    <3>5. At' + Len(buf') = At + Len(buf)
      BY <3>1, <3>2
    <3> QED BY <2>0, <2>1, <3>1, <3>2, <3>3, <3>4, <3>5
  <2>2. CASE buf' = <<>>
    <3>1. At' = At + Len(buf) /\ Len(buf') = 0 /\ buf' \in Seq(Bytes)
      BY <1>0, <2>0, <2>2 DEF At
    <3> QED BY <2>0, <2>2, <3>1
  <2> QED BY <1>9, <2>1, <2>2, ParserTakes DEF Parse
<1>10. CASE Closed
  BY <1>1, <1>10 DEF Closed, parserVars, queryVars, ioVars
<1>11. CASE Broken
  BY <1>1, <1>11 DEF Broken, parserVars, queryVars, ioVars
<1>13. CASE ParseThrows
  BY <1>1, <1>13 DEF ParseThrows, parserVars, queryVars, ioVars
<1>12. CASE UNCHANGED vars
  BY <1>1, <1>12 DEF vars, parserVars, queryVars, ioVars
<1> QED
  BY <1>2, <1>3, <1>4, <1>5, <1>6, <1>7, <1>8, <1>9, <1>10, <1>11, <1>12, <1>13 DEF Next

LEMMA OverStep == OverInv /\ [Next]_vars => OverInv'
<1> SUFFICES ASSUME OverInv, [Next]_vars PROVE OverInv'
  OBVIOUS
<1> USE DEF OverInv, Before
<1>0. ASSUME NEW r, Finish(r), conn' \in {"closed", "broken", "unused"}
      PROVE  OverInv'
  BY <1>0 DEF Finish, NotYet, Thrown, Answer
<1>1. CASE Construct
  <2>1. CASE GiveUp("unused")
    BY <1>0, <2>1 DEF GiveUp
  <2> QED BY <1>1, <2>1 DEF Construct
<1>2. CASE Check
  <2>1. CASE GiveUp("unused")
    BY <1>0, <2>1 DEF GiveUp
  <2> QED BY <1>2, <2>1 DEF Check
<1>3. CASE Resolve
  <2>1. CASE GiveUp("unused")
    BY <1>0, <2>1 DEF GiveUp
  <2> QED BY <1>3, <2>1 DEF Resolve
<1>4. CASE Socket
  <2>1. CASE GiveUp("unused")
    BY <1>0, <2>1 DEF GiveUp
  <2> QED BY <1>4, <2>1 DEF Socket
<1>5. CASE Connect
  <2>1. CASE GiveUp("unused")
    BY <1>0, <2>1 DEF GiveUp
  <2> QED BY <1>5, <2>1 DEF Connect
<1>6. CASE Send
  <2>1. CASE GiveUp("broken")
    BY <1>0, <2>1 DEF GiveUp
  <2> QED BY <1>6, <2>1 DEF Send
<1>7. CASE Receive
  BY <1>7 DEF Receive
<1>8. CASE Parse
  BY <1>8 DEF Parse
<1>9. CASE Closed
  BY <1>0, <1>9 DEF Closed
<1>10. CASE Broken
  BY <1>0, <1>10 DEF Broken, GiveUp
<1>12. CASE ParseThrows
  BY <1>0, <1>12 DEF ParseThrows, GiveUp
<1>11. CASE UNCHANGED vars
  BY <1>11 DEF vars
<1> QED
  BY <1>1, <1>2, <1>3, <1>4, <1>5, <1>6, <1>7, <1>8, <1>9, <1>10, <1>11, <1>12 DEF Next

LEMMA TypeInvariance == Spec => [](RequestInv /\ TypeInv)
<1>1. Init => TypeInv
  <2> SUFFICES ASSUME Init PROVE TypeInv
    OBVIOUS
  <2>1. NewParser \in Parsers
    BY MovesFrom DEF NewParser, Parsers, States
  <2>2. ParserTypeOK
    BY <2>1 DEF Init, ParserInit, ParserTypeOK, Results, NewParser
  <2>3. BytesInv
    BY DEF Init, ParserInit, BytesInv, At, NoResponse
  <2>4. OverInv
    BY DEF Init, OverInv, Before
  <2> QED BY <2>2, <2>3, <2>4 DEF TypeInv
<1>2. TypeInv /\ RequestInv /\ [Next]_vars => TypeInv'
  <2> SUFFICES ASSUME TypeInv, RequestInv, [Next]_vars PROVE TypeInv'
    OBVIOUS
  <2>1. ParserTypeOK'
    <3>1. CASE Parse
      BY <3>1, ParserTypes DEF Parse, TypeInv, BytesInv
    <3>2. CASE Receive
      BY <3>2 DEF Receive, TypeInv, ParserTypeOK
    <3>3. CASE UNCHANGED parserVars
      BY <3>3 DEF parserVars, TypeInv, ParserTypeOK
    <3> QED
      BY <3>1, <3>2, <3>3 DEF Next, vars, Construct, Check, Resolve, Socket, Connect, Send,
                              Closed, Broken, ParseThrows
  <2> QED BY <2>1, BytesStep, OverStep DEF TypeInv
<1> QED BY RequestInvariance, <1>1, <1>2, PTL DEF Spec

\* The driver's own record of an exchange is sound: what the parser keeps has
\* its types, what it has not looked at is the end of the response, and a query
\* that is over has no connection any more.
THEOREM ExchangeType == Spec => []ExchangeTypeOK
<1>1. RequestInv /\ TypeInv => IsSuffix(buf \o left, response.bytes)
  <2> SUFFICES ASSUME RequestInv, TypeInv PROVE IsSuffix(buf \o left, response.bytes)
    OBVIOUS
  <2> DEFINE s == buf \o left
             t == response.bytes
  <2>1. t \in Seq(Bytes)
    BY ResponseType DEF RequestInv, InfoInv, TypeInv, BytesInv
  <2>2. /\ s \in Seq(Bytes) /\ Len(s) = Len(buf) + Len(left)
        /\ Len(t) = At + Len(s) /\ At \in Nat
    <3>1. buf \in Seq(Bytes) /\ left \in Seq(Bytes) /\ At \in Nat
      BY DEF TypeInv, BytesInv
    <3>2. At = Len(t) - Len(left) - Len(buf)
      BY DEF At
    <3>3. s \in Seq(Bytes) /\ Len(s) = Len(buf) + Len(left)
      BY <3>1
    <3> HIDE DEF s, t
    <3> QED BY <2>1, <3>1, <3>2, <3>3
  <2>3. \A n \in 1 .. Len(s) : s[n] = t[At + n]
    <3> SUFFICES ASSUME NEW n \in 1 .. Len(s) PROVE s[n] = t[At + n]
      OBVIOUS
    <3>1. CASE n <= Len(buf)
      BY <2>2, <3>1 DEF TypeInv, BytesInv
    <3>2. CASE n > Len(buf)
      <4> DEFINE m == n - Len(buf)
      <4>1. m \in 1 .. Len(left) /\ At + n = At + Len(buf) + m
        BY <2>2, <3>2 DEF TypeInv, BytesInv
      <4>2. s[n] = left[m]
        BY <2>2, <3>2 DEF TypeInv, BytesInv
      <4> QED BY <4>1, <4>2 DEF TypeInv, BytesInv
    <3> QED BY <2>2, <3>1, <3>2
  <2> HIDE DEF s, t
  <2>4. /\ Reverse(s) \in Seq(Bytes) /\ Len(Reverse(s)) = Len(s)
        /\ \A n \in 1 .. Len(s) : Reverse(s)[n] = s[(Len(s) - n) + 1]
    BY <2>2 DEF Reverse
  <2>5. /\ Reverse(t) \in Seq(Bytes) /\ Len(Reverse(t)) = Len(t)
        /\ \A n \in 1 .. Len(t) : Reverse(t)[n] = t[(Len(t) - n) + 1]
    BY <2>1 DEF Reverse
  <2>6. \A n \in 1 .. Len(s) : Reverse(s)[n] = Reverse(t)[n]
    <3> SUFFICES ASSUME NEW n \in 1 .. Len(s) PROVE Reverse(s)[n] = Reverse(t)[n]
      OBVIOUS
    <3>1. /\ (Len(s) - n) + 1 \in 1 .. Len(s) /\ n \in 1 .. Len(t)
          /\ At + ((Len(s) - n) + 1) = (Len(t) - n) + 1
      BY <2>1, <2>2
    <3> QED BY <2>3, <2>4, <2>5, <3>1
  <2>7. SubSeq(Reverse(s), 1, Len(s)) = SubSeq(Reverse(t), 1, Len(s))
    BY <2>2, <2>4, <2>5, <2>6
  <2>8. IsPrefix(Reverse(s), Reverse(t))
    BY <2>2, <2>4, <2>5, <2>7 DEF IsPrefix
  <2> QED BY <2>8 DEF IsSuffix, s, t
<1>2. PoolInv /\ RequestInv /\ TypeInv => ExchangeTypeOK
  BY <1>1 DEF PoolInv, Allocated, TypeInv, ParserTypeOK, OverInv, ExchangeTypeOK, Parsers,
              States, Before
<1> QED BY PoolInvariance, TypeInvariance, <1>2, PTL

-----------------------------------------------------------------------------

\* Line k of the headers has been read, and what it says is known.
Known(r, p, k) ==
  /\ p.status = r.status /\ p.content = <<>> /\ p.chunkSizeStr = <<>>
  /\ p.chunked <=> \E j \in 1 .. k : SaysChunked(r, j)
  /\ InOnePiece(r) =>
       p.contentSize = IF \E j \in 1 .. k : SaysLength(r, j) THEN Len(r.content) ELSE 0

\* The name that the parser has is that of line k.
Named(r, p, k) == p.name # <<>> /\ Spell(p.name) = r.headers[k].name

\* Where the parser is in a proper response r when it has looked at the first n
\* bytes, and what it has by then.
InStatusLine(r, p, n) ==
  /\ p.name = <<>> /\ ~p.chunked /\ p.contentSize = 0
  /\ p.chunkSizeStr = <<>> /\ p.content = <<>>
  /\ \/ p.state = "StatusStart" /\ n = 0 /\ p.status = 0
     \/ p.state = "StatusCodeStart" /\ n = 1 /\ p.status = 0
     \/ p.state = "StatusCode" /\ n = 2 /\ p.status = r.bytes[2].digit
     \/ p.state = "StatusCode" /\ n = 3 /\ p.status = 10 * r.bytes[2].digit + r.bytes[3].digit
     \/ p.state = "StatusCode" /\ n = 4 /\ p.status = r.status
     \/ p.state = "StatusTextStart" /\ n = 5 /\ p.status = r.status
     \/ p.state = "StatusText" /\ n \in 6 .. HeadersAt(r) - 3 /\ p.status = r.status
     \/ p.state = "NewLine" /\ n = HeadersAt(r) - 2 /\ p.status = r.status

BetweenHeaders(r, p, n, k) ==
  /\ Known(r, p, k)
  /\ k > 0 => Named(r, p, k)
  /\ \/ p.state = "HeaderLineStart" /\ n = HeaderEnd(r, k) + 1
     \/ p.state = "ExpectingNewline_2" /\ k > 0 /\ n = HeaderEnd(r, k)
     \/ p.state = "ExpectingNewline_3" /\ k = Len(r.headers) /\ n = r.blank

InNewHeader(r, p, n, k) ==
  LET line == r.headers[k]
  IN  /\ Known(r, p, k - 1)
      /\ NewHeader(r, k)
      /\ \/ /\ p.state = "HeaderName" /\ n \in line.at .. line.colon - 1
            /\ p.name = SubSeq(r.bytes, line.at, n) /\ p.value = <<>>
         \/ /\ p.state = "SpaceBeforeHeaderValue" /\ n = line.colon
            /\ p.name = SubSeq(r.bytes, line.at, line.colon - 1) /\ p.value = <<>>
         \/ /\ p.state = "HeaderValue" /\ n \in line.colon + 1 .. HeaderEnd(r, k) - 1
            /\ p.name = SubSeq(r.bytes, line.at, line.colon - 1)
            /\ p.value = SubSeq(r.bytes, line.colon + 2, n)

InContinued(r, p, n, k) ==
  LET line == r.headers[k]
  IN  /\ Known(r, p, k - 1)
      /\ Continued(r, k) /\ Named(r, p, k)
      /\ n \in line.at .. HeaderEnd(r, k) - 1
      /\ \/ p.state = "HeaderLws" /\ Are(r, line.at, n, {"sp", "tab"})
         \/ p.state = "HeaderValue" /\ ~Are(r, line.at, n, {"sp", "tab"})

InContent(r, p, n) ==
  /\ p.state = "Post"
  /\ InOnePiece(r)
  /\ p.status = r.status
  /\ n \in r.blank + 1 .. r.size - 1
  /\ p.content = SubSeq(r.bytes, BodyAt(r), n)
  /\ p.contentSize = r.size - n

InSizeLine(r, p, n, k) ==
  LET chunk == r.chunks[k]
  IN  /\ p.content = SubSeq(r.content, 1, chunk.from)
      /\ \/ /\ p.state = "ChunkSize" /\ n \in chunk.at - 1 .. chunk.ext - 1
            /\ p.chunkSizeStr = SubSeq(r.bytes, chunk.at, n)
         \/ /\ p.chunkSizeStr = SubSeq(r.bytes, chunk.at, chunk.ext - 1)
            /\ \/ /\ p.state = "ChunkExtensionName" /\ n \in chunk.ext .. chunk.end - 1
                  /\ Are(r, chunk.ext, n, Classes \ {"equals"})
               \/ /\ p.state = "ChunkExtensionValue" /\ n \in chunk.ext .. chunk.end - 1
                  /\ ~Are(r, chunk.ext, n, Classes \ {"equals"})
               \/ p.state = "ChunkSizeNewLine" /\ n = chunk.end

InChunkContent(r, p, n, k) ==
  LET chunk == r.chunks[k]
      len == ChunkLen(r, k)
  IN  /\ k < Len(r.chunks)
      /\ p.chunkSizeStr = <<>>
      /\ \/ /\ p.state = "ChunkData" /\ n \in chunk.end + 1 .. chunk.end + len
            /\ p.chunkSize = chunk.end + 1 + len - n
            /\ p.content = SubSeq(r.content, 1, chunk.from + (n - chunk.end - 1))
         \/ /\ p.content = SubSeq(r.content, 1, r.chunks[k + 1].from)
            /\ \/ p.state = "ChunkDataNewLine_1" /\ n = chunk.end + 1 + len
               \/ p.state = "ChunkDataNewLine_2" /\ n = chunk.end + 2 + len

InTrailers(r, p, n) ==
  /\ p.chunkSizeStr = <<>> /\ p.content = r.content
  /\ \/ \E k \in 0 .. Len(r.trailers) :
          p.state = "ChunkSizeNewLine_2" /\ n = TrailerEnd(r, k) + 1
     \/ \E k \in DOMAIN r.trailers :
          LET line == r.trailers[k]
          IN  \/ p.state = "ChunkTrailerName" /\ n \in line.at .. line.colon - 1
              \/ p.state = "ChunkTrailerValue" /\ n \in line.colon .. TrailerEnd(r, k) - 1
              \/ p.state = "ChunkSizeNewLine" /\ n = TrailerEnd(r, k)
     \/ p.state = "ChunkSizeNewLine_3" /\ n = r.size - 1

InStep(r, p, n) ==
  \/ InStatusLine(r, p, n)
  \/ \E k \in 0 .. Len(r.headers) : BetweenHeaders(r, p, n, k)
  \/ \E k \in 1 .. Len(r.headers) : InNewHeader(r, p, n, k) \/ InContinued(r, p, n, k)
  \/ InContent(r, p, n)
  \/ /\ InChunks(r)
     /\ p.status = r.status
     /\ \/ \E k \in 1 .. Len(r.chunks) : InSizeLine(r, p, n, k) \/ InChunkContent(r, p, n, k)
        \/ InTrailers(r, p, n)

\* What holds when the parser has got to the end of r or past it. A byte more
\* than there should be makes it fail, go on, or complete the response again.
IsOver(r, p, result) ==
  /\ p.status = r.status
  /\ result = "ParsingCompleted" => p.content = r.content
  /\ result # "ParsingCompleted" => Len(r.bytes) > r.size
  /\ \/ p.state = "Post" /\ p.contentSize <= 0 /\ (p.contentSize = 0 => p.content = r.content)
     \/ p.state = "ExpectingNewline_3" /\ ~p.chunked /\ p.contentSize = 0 /\ p.content = r.content
     \/ p.state = "ChunkSizeNewLine_3" /\ p.content = r.content

\* The parser is in step with a proper response, however it is cut into pieces.
Synced ==
  response.proper =>
    /\ At < response.size => outcome # "ParsingCompleted" /\ InStep(response, parser, At)
    /\ At >= response.size => IsOver(response, parser, outcome)

Leads(s, c, t) == \E x \in Moves[s] : c \in x[1] /\ x[2] = t

LEMMA LeadsTo ==
  /\ \A c, t : Leads("StatusStart", c, t) <=>
       (c \in {"version"} /\ t = "StatusCodeStart")
  /\ \A c, t : Leads("StatusCodeStart", c, t) <=>
       (c \in {"digit"} /\ t = "StatusCode")
  /\ \A c, t : Leads("StatusCode", c, t) <=>
       (c \in {"digit"} /\ t = "StatusCode")
       \/ (c \in {"sp"} /\ t = "StatusTextStart")
  /\ \A c, t : Leads("StatusTextStart", c, t) <=>
       (c \in Chars /\ t = "StatusText")
  /\ \A c, t : Leads("StatusText", c, t) <=>
       (c \in {"cr"} /\ t = "NewLine")
       \/ (c \in Chars \ {"cr"} /\ t = "StatusText")
  /\ \A c, t : Leads("NewLine", c, t) <=>
       (c \in {"lf"} /\ t = "HeaderLineStart")
  /\ \A c, t : Leads("HeaderLineStart", c, t) <=>
       (c \in {"cr"} /\ t = "ExpectingNewline_3")
       \/ (c \in {"sp", "tab"} /\ t = "HeaderLws")
       \/ (c \in InName /\ t = "HeaderName")
  /\ \A c, t : Leads("HeaderLws", c, t) <=>
       (c \in {"cr"} /\ t = "ExpectingNewline_2")
       \/ (c \in {"sp", "tab"} /\ t = "HeaderLws")
       \/ (c \in (Classes \ Control) \ {"sp"} /\ t = "HeaderValue")
  /\ \A c, t : Leads("HeaderName", c, t) <=>
       (c \in {"colon"} /\ t = "SpaceBeforeHeaderValue")
       \/ (c \in InName /\ t = "HeaderName")
  /\ \A c, t : Leads("SpaceBeforeHeaderValue", c, t) <=>
       (c \in {"sp"} /\ t = "HeaderValue")
  /\ \A c, t : Leads("HeaderValue", c, t) <=>
       (c \in {"cr"} /\ t = "ExpectingNewline_2")
       \/ (c \in Classes \ Control /\ t = "HeaderValue")
  /\ \A c, t : Leads("ExpectingNewline_2", c, t) <=>
       (c \in {"lf"} /\ t = "HeaderLineStart")
  /\ \A c, t : Leads("ChunkSize", c, t) <=>
       (c \in Alnum /\ t = "ChunkSize")
       \/ (c \in {"semicolon"} /\ t = "ChunkExtensionName")
       \/ (c \in {"cr"} /\ t = "ChunkSizeNewLine")
  /\ \A c, t : Leads("ChunkExtensionName", c, t) <=>
       (c \in Alnum \union {"sp"} /\ t = "ChunkExtensionName")
       \/ (c \in {"equals"} /\ t = "ChunkExtensionValue")
       \/ (c \in {"cr"} /\ t = "ChunkSizeNewLine")
  /\ \A c, t : Leads("ChunkExtensionValue", c, t) <=>
       (c \in Alnum \union {"sp"} /\ t = "ChunkExtensionValue")
       \/ (c \in {"cr"} /\ t = "ChunkSizeNewLine")
  /\ \A c, t : Leads("ChunkSizeNewLine_2", c, t) <=>
       (c \in {"cr"} /\ t = "ChunkSizeNewLine_3")
       \/ (c \in Alpha /\ t = "ChunkTrailerName")
  /\ \A c, t : Leads("ChunkTrailerName", c, t) <=>
       (c \in Alnum /\ t = "ChunkTrailerName")
       \/ (c \in {"colon"} /\ t = "ChunkTrailerValue")
  /\ \A c, t : Leads("ChunkTrailerValue", c, t) <=>
       (c \in Alnum \union {"sp"} /\ t = "ChunkTrailerValue")
       \/ (c \in {"cr"} /\ t = "ChunkSizeNewLine")
  /\ \A c, t : Leads("ChunkDataNewLine_1", c, t) <=>
       (c \in {"cr"} /\ t = "ChunkDataNewLine_2")
  /\ \A c, t : Leads("ChunkDataNewLine_2", c, t) <=>
       (c \in {"lf"} /\ t = "ChunkSize")
<1>1. \A c, t : Leads("StatusStart", c, t) <=>
       (c \in {"version"} /\ t = "StatusCodeStart")
  <2>1. Moves["StatusStart"] = {<<{"version"}, "StatusCodeStart">>}
    BY MovesAre DEF StatusMoves
  <2> QED BY <2>1 DEF Leads
<1>2. \A c, t : Leads("StatusCodeStart", c, t) <=>
       (c \in {"digit"} /\ t = "StatusCode")
  <2>1. Moves["StatusCodeStart"] = {<<{"digit"}, "StatusCode">>}
    BY MovesAre DEF StatusMoves
  <2> QED BY <2>1 DEF Leads
<1>3. \A c, t : Leads("StatusCode", c, t) <=>
       (c \in {"digit"} /\ t = "StatusCode")
       \/ (c \in {"sp"} /\ t = "StatusTextStart")
  <2>1. Moves["StatusCode"] = {<<{"digit"}, "StatusCode">>,
             <<{"sp"}, "StatusTextStart">>}
    BY MovesAre DEF StatusMoves
  <2> QED BY <2>1 DEF Leads
<1>4. \A c, t : Leads("StatusTextStart", c, t) <=>
       (c \in Chars /\ t = "StatusText")
  <2>1. Moves["StatusTextStart"] = {<<Chars, "StatusText">>}
    BY MovesAre DEF StatusMoves
  <2> QED BY <2>1 DEF Leads
<1>5. \A c, t : Leads("StatusText", c, t) <=>
       (c \in {"cr"} /\ t = "NewLine")
       \/ (c \in Chars \ {"cr"} /\ t = "StatusText")
  <2>1. Moves["StatusText"] = {<<{"cr"}, "NewLine">>,
             <<Chars \ {"cr"}, "StatusText">>}
    BY MovesAre DEF StatusMoves
  <2> QED BY <2>1 DEF Leads
<1>6. \A c, t : Leads("NewLine", c, t) <=>
       (c \in {"lf"} /\ t = "HeaderLineStart")
  <2>1. Moves["NewLine"] = {<<{"lf"}, "HeaderLineStart">>}
    BY MovesAre DEF StatusMoves
  <2> QED BY <2>1 DEF Leads
<1>7. \A c, t : Leads("HeaderLineStart", c, t) <=>
       (c \in {"cr"} /\ t = "ExpectingNewline_3")
       \/ (c \in {"sp", "tab"} /\ t = "HeaderLws")
       \/ (c \in InName /\ t = "HeaderName")
  <2>1. Moves["HeaderLineStart"] = {<<{"cr"}, "ExpectingNewline_3">>,
             <<{"sp", "tab"}, "HeaderLws">>,
             <<InName, "HeaderName">>}
    BY MovesAre DEF HeaderMoves
  <2> QED BY <2>1 DEF Leads
<1>8. \A c, t : Leads("HeaderLws", c, t) <=>
       (c \in {"cr"} /\ t = "ExpectingNewline_2")
       \/ (c \in {"sp", "tab"} /\ t = "HeaderLws")
       \/ (c \in (Classes \ Control) \ {"sp"} /\ t = "HeaderValue")
  <2>1. Moves["HeaderLws"] = {<<{"cr"}, "ExpectingNewline_2">>,
             <<{"sp", "tab"}, "HeaderLws">>,
             <<(Classes \ Control) \ {"sp"}, "HeaderValue">>}
    BY MovesAre DEF HeaderMoves
  <2> QED BY <2>1 DEF Leads
<1>9. \A c, t : Leads("HeaderName", c, t) <=>
       (c \in {"colon"} /\ t = "SpaceBeforeHeaderValue")
       \/ (c \in InName /\ t = "HeaderName")
  <2>1. Moves["HeaderName"] = {<<{"colon"}, "SpaceBeforeHeaderValue">>,
             <<InName, "HeaderName">>}
    BY MovesAre DEF HeaderMoves
  <2> QED BY <2>1 DEF Leads
<1>10. \A c, t : Leads("SpaceBeforeHeaderValue", c, t) <=>
       (c \in {"sp"} /\ t = "HeaderValue")
  <2>1. Moves["SpaceBeforeHeaderValue"] = {<<{"sp"}, "HeaderValue">>}
    BY MovesAre DEF HeaderMoves
  <2> QED BY <2>1 DEF Leads
<1>11. \A c, t : Leads("HeaderValue", c, t) <=>
       (c \in {"cr"} /\ t = "ExpectingNewline_2")
       \/ (c \in Classes \ Control /\ t = "HeaderValue")
  <2>1. Moves["HeaderValue"] = {<<{"cr"}, "ExpectingNewline_2">>,
             <<Classes \ Control, "HeaderValue">>}
    BY MovesAre DEF HeaderMoves
  <2> QED BY <2>1 DEF Leads
<1>12. \A c, t : Leads("ExpectingNewline_2", c, t) <=>
       (c \in {"lf"} /\ t = "HeaderLineStart")
  <2>1. Moves["ExpectingNewline_2"] = {<<{"lf"}, "HeaderLineStart">>}
    BY MovesAre DEF HeaderMoves
  <2> QED BY <2>1 DEF Leads
<1>13. \A c, t : Leads("ChunkSize", c, t) <=>
       (c \in Alnum /\ t = "ChunkSize")
       \/ (c \in {"semicolon"} /\ t = "ChunkExtensionName")
       \/ (c \in {"cr"} /\ t = "ChunkSizeNewLine")
  <2>1. Moves["ChunkSize"] = {<<Alnum, "ChunkSize">>,
             <<{"semicolon"}, "ChunkExtensionName">>,
             <<{"cr"}, "ChunkSizeNewLine">>}
    BY MovesAre DEF ChunkMoves
  <2> QED BY <2>1 DEF Leads
<1>14. \A c, t : Leads("ChunkExtensionName", c, t) <=>
       (c \in Alnum \union {"sp"} /\ t = "ChunkExtensionName")
       \/ (c \in {"equals"} /\ t = "ChunkExtensionValue")
       \/ (c \in {"cr"} /\ t = "ChunkSizeNewLine")
  <2>1. Moves["ChunkExtensionName"] = {<<Alnum \union {"sp"}, "ChunkExtensionName">>,
             <<{"equals"}, "ChunkExtensionValue">>,
             <<{"cr"}, "ChunkSizeNewLine">>}
    BY MovesAre DEF ChunkMoves
  <2> QED BY <2>1 DEF Leads
<1>15. \A c, t : Leads("ChunkExtensionValue", c, t) <=>
       (c \in Alnum \union {"sp"} /\ t = "ChunkExtensionValue")
       \/ (c \in {"cr"} /\ t = "ChunkSizeNewLine")
  <2>1. Moves["ChunkExtensionValue"] = {<<Alnum \union {"sp"}, "ChunkExtensionValue">>,
             <<{"cr"}, "ChunkSizeNewLine">>}
    BY MovesAre DEF ChunkMoves
  <2> QED BY <2>1 DEF Leads
<1>16. \A c, t : Leads("ChunkSizeNewLine_2", c, t) <=>
       (c \in {"cr"} /\ t = "ChunkSizeNewLine_3")
       \/ (c \in Alpha /\ t = "ChunkTrailerName")
  <2>1. Moves["ChunkSizeNewLine_2"] = {<<{"cr"}, "ChunkSizeNewLine_3">>,
             <<Alpha, "ChunkTrailerName">>}
    BY MovesAre DEF ChunkMoves
  <2> QED BY <2>1 DEF Leads
<1>17. \A c, t : Leads("ChunkTrailerName", c, t) <=>
       (c \in Alnum /\ t = "ChunkTrailerName")
       \/ (c \in {"colon"} /\ t = "ChunkTrailerValue")
  <2>1. Moves["ChunkTrailerName"] = {<<Alnum, "ChunkTrailerName">>,
             <<{"colon"}, "ChunkTrailerValue">>}
    BY MovesAre DEF ChunkMoves
  <2> QED BY <2>1 DEF Leads
<1>18. \A c, t : Leads("ChunkTrailerValue", c, t) <=>
       (c \in Alnum \union {"sp"} /\ t = "ChunkTrailerValue")
       \/ (c \in {"cr"} /\ t = "ChunkSizeNewLine")
  <2>1. Moves["ChunkTrailerValue"] = {<<Alnum \union {"sp"}, "ChunkTrailerValue">>,
             <<{"cr"}, "ChunkSizeNewLine">>}
    BY MovesAre DEF ChunkMoves
  <2> QED BY <2>1 DEF Leads
<1>19. \A c, t : Leads("ChunkDataNewLine_1", c, t) <=>
       (c \in {"cr"} /\ t = "ChunkDataNewLine_2")
  <2>1. Moves["ChunkDataNewLine_1"] = {<<{"cr"}, "ChunkDataNewLine_2">>}
    BY MovesAre DEF ChunkMoves
  <2> QED BY <2>1 DEF Leads
<1>20. \A c, t : Leads("ChunkDataNewLine_2", c, t) <=>
       (c \in {"lf"} /\ t = "ChunkSize")
  <2>1. Moves["ChunkDataNewLine_2"] = {<<{"lf"}, "ChunkSize">>}
    BY MovesAre DEF ChunkMoves
  <2> QED BY <2>1 DEF Leads
<1> QED
  BY <1>1, <1>2, <1>3, <1>4, <1>5, <1>6, <1>7, <1>8, <1>9, <1>10, <1>11, <1>12, <1>13, <1>14, <1>15, <1>16, <1>17, <1>18, <1>19, <1>20

\* In state s a byte of one of these classes is accepted, and leads to state t.
Only(s, classes, t) ==
  /\ s \in DOMAIN Moves /\ t \in States \ {"ChunkData"}
  /\ \A c \in classes : \A m : Leads(s, c, m) <=> m = t

LEMMA OnlyMove ==
  /\ Only("StatusStart", {"version"}, "StatusCodeStart")
  /\ Only("StatusCodeStart", {"digit"}, "StatusCode")
  /\ Only("StatusCode", {"digit"}, "StatusCode")
  /\ Only("StatusCode", {"sp"}, "StatusTextStart")
  /\ Only("StatusTextStart", Printable \union {"tab"}, "StatusText")
  /\ Only("StatusText", Printable \union {"tab"}, "StatusText")
  /\ Only("StatusText", {"cr"}, "NewLine")
  /\ Only("NewLine", {"lf"}, "HeaderLineStart")
  /\ Only("HeaderLineStart", {"cr"}, "ExpectingNewline_3")
  /\ Only("HeaderLineStart", {"sp", "tab"}, "HeaderLws")
  /\ Only("HeaderLineStart", InName, "HeaderName")
  /\ Only("HeaderLws", {"cr"}, "ExpectingNewline_2")
  /\ Only("HeaderLws", {"sp", "tab"}, "HeaderLws")
  /\ Only("HeaderLws", (Classes \ Control) \ {"sp"}, "HeaderValue")
  /\ Only("HeaderName", {"colon"}, "SpaceBeforeHeaderValue")
  /\ Only("HeaderName", InName, "HeaderName")
  /\ Only("SpaceBeforeHeaderValue", {"sp"}, "HeaderValue")
  /\ Only("HeaderValue", {"cr"}, "ExpectingNewline_2")
  /\ Only("HeaderValue", Classes \ Control, "HeaderValue")
  /\ Only("ExpectingNewline_2", {"lf"}, "HeaderLineStart")
  /\ Only("ChunkSize", Alnum, "ChunkSize")
  /\ Only("ChunkSize", {"semicolon"}, "ChunkExtensionName")
  /\ Only("ChunkSize", {"cr"}, "ChunkSizeNewLine")
  /\ Only("ChunkExtensionName", Alnum \union {"sp"}, "ChunkExtensionName")
  /\ Only("ChunkExtensionName", {"equals"}, "ChunkExtensionValue")
  /\ Only("ChunkExtensionName", {"cr"}, "ChunkSizeNewLine")
  /\ Only("ChunkExtensionValue", Alnum \union {"sp"}, "ChunkExtensionValue")
  /\ Only("ChunkExtensionValue", {"cr"}, "ChunkSizeNewLine")
  /\ Only("ChunkSizeNewLine_2", {"cr"}, "ChunkSizeNewLine_3")
  /\ Only("ChunkSizeNewLine_2", Alpha, "ChunkTrailerName")
  /\ Only("ChunkTrailerName", Alnum, "ChunkTrailerName")
  /\ Only("ChunkTrailerName", {"colon"}, "ChunkTrailerValue")
  /\ Only("ChunkTrailerValue", Alnum \union {"sp"}, "ChunkTrailerValue")
  /\ Only("ChunkTrailerValue", {"cr"}, "ChunkSizeNewLine")
  /\ Only("ChunkDataNewLine_1", {"cr"}, "ChunkDataNewLine_2")
  /\ Only("ChunkDataNewLine_2", {"lf"}, "ChunkSize")
<1> USE DEF Classes, Chars, Printable, InName, Alnum, Alpha, Control
<1>0. /\ DOMAIN Moves = {"StatusStart", "StatusCodeStart", "StatusCode", "StatusTextStart", "StatusText", "NewLine", "HeaderLineStart", "HeaderLws", "HeaderName", "SpaceBeforeHeaderValue", "HeaderValue", "ExpectingNewline_2", "ChunkSize", "ChunkExtensionName", "ChunkExtensionValue", "ChunkSizeNewLine_2", "ChunkTrailerName", "ChunkTrailerValue", "ChunkDataNewLine_1", "ChunkDataNewLine_2"}
      /\ States = DOMAIN Moves \union Counting
  BY MovesFrom DEF States
<1>1. Only("StatusStart", {"version"}, "StatusCodeStart")
  BY <1>0, LeadsTo DEF Only, Counting
<1>2. Only("StatusCodeStart", {"digit"}, "StatusCode")
  BY <1>0, LeadsTo DEF Only, Counting
<1>3. Only("StatusCode", {"digit"}, "StatusCode")
  BY <1>0, LeadsTo DEF Only, Counting
<1>4. Only("StatusCode", {"sp"}, "StatusTextStart")
  BY <1>0, LeadsTo DEF Only, Counting
<1>5. Only("StatusTextStart", Printable \union {"tab"}, "StatusText")
  BY <1>0, LeadsTo DEF Only, Counting
<1>6. Only("StatusText", Printable \union {"tab"}, "StatusText")
  BY <1>0, LeadsTo DEF Only, Counting
<1>7. Only("StatusText", {"cr"}, "NewLine")
  BY <1>0, LeadsTo DEF Only, Counting
<1>8. Only("NewLine", {"lf"}, "HeaderLineStart")
  BY <1>0, LeadsTo DEF Only, Counting
<1>9. Only("HeaderLineStart", {"cr"}, "ExpectingNewline_3")
  BY <1>0, LeadsTo DEF Only, Counting
<1>10. Only("HeaderLineStart", {"sp", "tab"}, "HeaderLws")
  BY <1>0, LeadsTo DEF Only, Counting
<1>11. Only("HeaderLineStart", InName, "HeaderName")
  BY <1>0, LeadsTo DEF Only, Counting
<1>12. Only("HeaderLws", {"cr"}, "ExpectingNewline_2")
  BY <1>0, LeadsTo DEF Only, Counting
<1>13. Only("HeaderLws", {"sp", "tab"}, "HeaderLws")
  BY <1>0, LeadsTo DEF Only, Counting
<1>14. Only("HeaderLws", (Classes \ Control) \ {"sp"}, "HeaderValue")
  BY <1>0, LeadsTo DEF Only, Counting
<1>15. Only("HeaderName", {"colon"}, "SpaceBeforeHeaderValue")
  BY <1>0, LeadsTo DEF Only, Counting
<1>16. Only("HeaderName", InName, "HeaderName")
  BY <1>0, LeadsTo DEF Only, Counting
<1>17. Only("SpaceBeforeHeaderValue", {"sp"}, "HeaderValue")
  BY <1>0, LeadsTo DEF Only, Counting
<1>18. Only("HeaderValue", {"cr"}, "ExpectingNewline_2")
  BY <1>0, LeadsTo DEF Only, Counting
<1>19. Only("HeaderValue", Classes \ Control, "HeaderValue")
  BY <1>0, LeadsTo DEF Only, Counting
<1>20. Only("ExpectingNewline_2", {"lf"}, "HeaderLineStart")
  BY <1>0, LeadsTo DEF Only, Counting
<1>21. Only("ChunkSize", Alnum, "ChunkSize")
  BY <1>0, LeadsTo DEF Only, Counting
<1>22. Only("ChunkSize", {"semicolon"}, "ChunkExtensionName")
  BY <1>0, LeadsTo DEF Only, Counting
<1>23. Only("ChunkSize", {"cr"}, "ChunkSizeNewLine")
  BY <1>0, LeadsTo DEF Only, Counting
<1>24. Only("ChunkExtensionName", Alnum \union {"sp"}, "ChunkExtensionName")
  BY <1>0, LeadsTo DEF Only, Counting
<1>25. Only("ChunkExtensionName", {"equals"}, "ChunkExtensionValue")
  BY <1>0, LeadsTo DEF Only, Counting
<1>26. Only("ChunkExtensionName", {"cr"}, "ChunkSizeNewLine")
  BY <1>0, LeadsTo DEF Only, Counting
<1>27. Only("ChunkExtensionValue", Alnum \union {"sp"}, "ChunkExtensionValue")
  BY <1>0, LeadsTo DEF Only, Counting
<1>28. Only("ChunkExtensionValue", {"cr"}, "ChunkSizeNewLine")
  BY <1>0, LeadsTo DEF Only, Counting
<1>29. Only("ChunkSizeNewLine_2", {"cr"}, "ChunkSizeNewLine_3")
  BY <1>0, LeadsTo DEF Only, Counting
<1>30. Only("ChunkSizeNewLine_2", Alpha, "ChunkTrailerName")
  BY <1>0, LeadsTo DEF Only, Counting
<1>31. Only("ChunkTrailerName", Alnum, "ChunkTrailerName")
  BY <1>0, LeadsTo DEF Only, Counting
<1>32. Only("ChunkTrailerName", {"colon"}, "ChunkTrailerValue")
  BY <1>0, LeadsTo DEF Only, Counting
<1>33. Only("ChunkTrailerValue", Alnum \union {"sp"}, "ChunkTrailerValue")
  BY <1>0, LeadsTo DEF Only, Counting
<1>34. Only("ChunkTrailerValue", {"cr"}, "ChunkSizeNewLine")
  BY <1>0, LeadsTo DEF Only, Counting
<1>35. Only("ChunkDataNewLine_1", {"cr"}, "ChunkDataNewLine_2")
  BY <1>0, LeadsTo DEF Only, Counting
<1>36. Only("ChunkDataNewLine_2", {"lf"}, "ChunkSize")
  BY <1>0, LeadsTo DEF Only, Counting
<1> QED
  BY <1>1, <1>2, <1>3, <1>4, <1>5, <1>6, <1>7, <1>8, <1>9, <1>10, <1>11, <1>12, <1>13, <1>14, <1>15, <1>16, <1>17, <1>18, <1>19, <1>20, <1>21, <1>22, <1>23, <1>24, <1>25, <1>26, <1>27, <1>28, <1>29, <1>30, <1>31, <1>32, <1>33, <1>34, <1>35, <1>36

\* What the parser is when byte b has taken it to state next.
Went(p, b, next) == [Note(p, b, next) EXCEPT !.state = next]

\* The next byte takes the parser from where it is to where it should be.
Goes(r, p, n) ==
  \E classes, next :
    /\ Only(p.state, classes, next) /\ r.bytes[n + 1].is \in classes
    /\ next = "HeaderLws" => p.name # <<>>
    /\ next = "StatusTextStart" => p.status \in 100 .. 999
    /\ InStep(r, Went(p, r.bytes[n + 1], next), n + 1)

LEMMA Going ==
  ASSUME NEW r, NEW p, NEW n, NEW classes, NEW next,
         Only(p.state, classes, next), r.bytes[n + 1].is \in classes,
         next = "HeaderLws" => p.name # <<>>,
         next = "StatusTextStart" => p.status \in 100 .. 999,
         InStep(r, Went(p, r.bytes[n + 1], next), n + 1)
  PROVE  Goes(r, p, n)
BY DEF Goes

\* Of what the parser is but its state, a byte that it does not note changes
\* nothing.
LEMMA NotNoted ==
  ASSUME NEW p \in Parsers, NEW b, NEW next, Note(p, b, next) = p
  PROVE  LET q == Went(p, b, next)
         IN  /\ q.state = next
             /\ q.status = p.status /\ q.name = p.name /\ q.value = p.value
             /\ q.chunked = p.chunked /\ q.contentSize = p.contentSize
             /\ q.chunkSizeStr = p.chunkSizeStr /\ q.chunkSize = p.chunkSize
             /\ q.content = p.content
BY DEF Went, Parsers

LEMMA ProperBytes ==
  ASSUME NEW r, Proper(r)
  PROVE  /\ r.size \in Nat /\ r.size <= Len(r.bytes) /\ r.bytes \in Seq(Bytes)
         /\ Len(r.bytes) \in Nat
         /\ \A n \in 1 .. r.size : r.bytes[n] \in Bytes
BY DEF Proper, ResponseTypeOK

LEMMA LineTypes ==
  ASSUME NEW r, ResponseTypeOK(r)
  PROVE  /\ Len(r.headers) \in Nat /\ DOMAIN r.headers = 1 .. Len(r.headers)
         /\ Len(r.chunks) \in Nat /\ DOMAIN r.chunks = 1 .. Len(r.chunks)
         /\ Len(r.trailers) \in Nat /\ DOMAIN r.trailers = 1 .. Len(r.trailers)
         /\ \A k \in 1 .. Len(r.headers) :
              /\ r.headers[k].at \in Places /\ r.headers[k].colon \in Nat
              /\ r.headers[k].name \in Seq(STRING)
         /\ \A k \in 1 .. Len(r.chunks) :
              /\ r.chunks[k].at \in Places /\ r.chunks[k].ext \in Places
              /\ r.chunks[k].end \in Places /\ r.chunks[k].from \in Nat
         /\ \A k \in 1 .. Len(r.trailers) :
              r.trailers[k].at \in Places /\ r.trailers[k].colon \in Places
<1> DEFINE H == [at : Places, colon : Nat, name : Seq(STRING)]
           C == [at : Places, ext : Places, end : Places, from : Nat]
           T == [at : Places, colon : Places]
<1>1. r.headers \in Seq(H) /\ r.chunks \in Seq(C) /\ r.trailers \in Seq(T)
  BY DEF ResponseTypeOK
<1>2. /\ \A x \in H : x.at \in Places /\ x.colon \in Nat /\ x.name \in Seq(STRING)
      /\ \A x \in C : x.at \in Places /\ x.ext \in Places /\ x.end \in Places /\ x.from \in Nat
      /\ \A x \in T : x.at \in Places /\ x.colon \in Places
  OBVIOUS
<1> HIDE DEF H, C, T
<1>3. /\ \A k \in 1 .. Len(r.headers) : r.headers[k] \in H
      /\ \A k \in 1 .. Len(r.chunks) : r.chunks[k] \in C
      /\ \A k \in 1 .. Len(r.trailers) : r.trailers[k] \in T
  BY <1>1, ElementOfSeq
<1>4. /\ Len(r.headers) \in Nat /\ DOMAIN r.headers = 1 .. Len(r.headers)
      /\ Len(r.chunks) \in Nat /\ DOMAIN r.chunks = 1 .. Len(r.chunks)
      /\ Len(r.trailers) \in Nat /\ DOMAIN r.trailers = 1 .. Len(r.trailers)
  BY <1>1, LenProperties
<1> QED BY <1>2, <1>3, <1>4

\* Where the headers are.
LEMMA HeaderPlaces ==
  ASSUME NEW r, Proper(r)
  PROVE  /\ Len(r.headers) \in Nat /\ r.blank \in Nat /\ r.blank + 1 <= r.size
         /\ LineEnd(r, r.blank)
         /\ HeaderEnd(r, Len(r.headers)) = r.blank - 2
         /\ \A k \in 1 .. Len(r.headers) :
              /\ r.headers[k].at \in Nat /\ r.headers[k].colon \in Nat
              /\ r.headers[k].name \in Seq(STRING)
              /\ r.headers[k].at = HeaderEnd(r, k - 1) + 2
              /\ HeaderEnd(r, k) \in Nat /\ HeaderEnd(r, k) < r.blank
              /\ NewHeader(r, k) \/ Continued(r, k)
              /\ r.headers[k].at < HeaderEnd(r, k)
              /\ LineEnd(r, HeaderEnd(r, k))
         /\ HeaderEnd(r, 0) \in Nat /\ HeaderEnd(r, 0) > 6 /\ HeaderEnd(r, 0) < r.blank
<1>1. /\ r.blank \in Nat /\ r.size \in Nat
      /\ LineEnd(r, r.blank) /\ Headers(r) /\ StatusLine(r)
  BY DEF Proper, ResponseTypeOK
<1>2. Len(r.headers) \in Nat /\ DOMAIN r.headers = 1 .. Len(r.headers)
  BY LineTypes DEF Proper
<1>3. \A k \in 1 .. Len(r.headers) :
        r.headers[k].at \in Nat /\ r.headers[k].colon \in Nat /\ r.headers[k].name \in Seq(STRING)
  BY LineTypes DEF Proper, Places
<1>4. HeaderEnd(r, Len(r.headers)) = r.blank - 2
  BY DEF HeaderEnd, EndOf
<1>5. \A k \in 1 .. Len(r.headers) : HeaderEnd(r, k - 1) = r.headers[k].at - 2
  BY <1>2 DEF HeaderEnd, EndOf
<1>6. \A k \in 1 .. Len(r.headers) : HeaderEnd(r, k) \in Int
  <2> SUFFICES ASSUME NEW k \in 1 .. Len(r.headers) PROVE HeaderEnd(r, k) \in Int
    OBVIOUS
  <2>1. CASE k = Len(r.headers)
    BY <1>1, <1>4, <2>1
  <2>2. CASE k # Len(r.headers)
    <3>1. k + 1 \in 1 .. Len(r.headers) /\ (k + 1) - 1 = k
      BY <1>2, <2>2
    <3>2. HeaderEnd(r, (k + 1) - 1) = r.headers[k + 1].at - 2 /\ r.headers[k + 1].at \in Nat
      BY <1>3, <1>5, <3>1
    <3>3. HeaderEnd(r, k) = r.headers[k + 1].at - 2
      BY <3>1, <3>2
    <3> QED BY <3>2, <3>3
  <2> QED BY <2>1, <2>2
<1>7. \A k \in 1 .. Len(r.headers) :
        /\ NewHeader(r, k) \/ Continued(r, k)
        /\ LineEnd(r, HeaderEnd(r, k)) /\ HeaderEnd(r, k) < r.blank
  BY <1>1, <1>2 DEF Headers
<1>8. \A k \in 1 .. Len(r.headers) : r.headers[k].at < HeaderEnd(r, k)
  BY <1>3, <1>6, <1>7 DEF NewHeader, Continued
<1>9. HeaderEnd(r, 0) \in Int
  BY <1>1, <1>2, <1>3 DEF HeaderEnd, EndOf
<1>10. HeaderEnd(r, 0) > 6
  BY <1>1, <1>9 DEF StatusLine, HeadersAt
<1>11. HeaderEnd(r, 0) < r.blank
  <2>1. CASE Len(r.headers) = 0
    BY <1>1, <1>4, <2>1
  <2>2. CASE Len(r.headers) > 0
    <3>1. 1 \in 1 .. Len(r.headers) /\ 1 - 1 = 0
      BY <1>2, <2>2
    <3>2. HeaderEnd(r, 0) = r.headers[1].at - 2
      BY <1>5, <3>1
    <3> QED BY <1>1, <1>3, <1>6, <1>7, <1>8, <3>1, <3>2
  <2> QED BY <1>2, <2>1, <2>2
<1>12. r.blank + 1 <= r.size
  <2>1. CASE InOnePiece(r)
    <3>1. Len(r.content) \in Nat
      BY DEF Proper, ResponseTypeOK
    <3>2. r.size = r.blank + 1 + Len(r.content)
      BY <2>1 DEF InOnePiece
    <3> QED BY <1>1, <3>1, <3>2
  <2>2. CASE InChunks(r)
    <3>1. Len(r.chunks) > 0 /\ r.chunks[1].at = r.blank + 2
      BY <2>2 DEF InChunks, BodyAt
    <3>2. 1 \in DOMAIN r.chunks /\ 1 \in 1 .. Len(r.chunks)
      BY <3>1, LineTypes DEF Proper
    <3>3. SizeLine(r, 1)
      BY <2>2, <3>2 DEF InChunks
    <3>4. /\ r.chunks[1].at < r.chunks[1].ext /\ r.chunks[1].ext <= r.chunks[1].end
          /\ r.chunks[1].end < r.size
      BY <3>3 DEF SizeLine
    <3>5. r.chunks[1].at \in Nat /\ r.chunks[1].ext \in Nat /\ r.chunks[1].end \in Nat
      BY <3>2, LineTypes DEF Proper, Places
    <3> QED BY <1>1, <3>1, <3>4, <3>5
  <2> QED BY <2>1, <2>2 DEF Proper
<1>13. \A k \in 1 .. Len(r.headers) : r.headers[k].at = HeaderEnd(r, k - 1) + 2
  BY <1>3, <1>5
<1>14. \A k \in 1 .. Len(r.headers) : HeaderEnd(r, k) \in Nat
  BY <1>3, <1>6, <1>8
<1>15. HeaderEnd(r, 0) \in Nat
  BY <1>9, <1>10
<1> QED
  BY <1>1, <1>2, <1>3, <1>4, <1>7, <1>8, <1>10, <1>11, <1>12, <1>13, <1>14, <1>15

LEMMA StatusLineGoes ==
  ASSUME NEW r, Proper(r), NEW p \in Parsers, NEW n \in Nat, InStatusLine(r, p, n)
  PROVE  Goes(r, p, n)
<1> DEFINE b == r.bytes[n + 1]
           Same == /\ p.name = <<>> /\ ~p.chunked /\ p.contentSize = 0
                   /\ p.chunkSizeStr = <<>> /\ p.content = <<>>
<1>0. Same
  BY DEF InStatusLine
<1>1. HeadersAt(r) \in Nat /\ HeadersAt(r) > 8 /\ HeadersAt(r) = HeaderEnd(r, 0) + 2
  BY HeaderPlaces DEF StatusLine, HeadersAt
<1>2. StatusLine(r)
  BY DEF Proper
<1>3. HeadersAt(r) <= r.size
  BY <1>1, HeaderPlaces, ProperBytes
<1>4. /\ r.bytes[2].digit \in 0 .. 9 /\ r.bytes[3].digit \in 0 .. 9 /\ r.bytes[4].digit \in 0 .. 9
      /\ r.bytes[2].is = "digit" /\ r.bytes[3].is = "digit" /\ r.bytes[4].is = "digit"
  <2>1. \A m \in 2 .. 4 : r.bytes[m].is = "digit"
    BY <1>2 DEF StatusLine, Are
  <2>2. \A m \in 2 .. 4 : r.bytes[m] \in Bytes
    BY <1>1, <1>3, ProperBytes
  <2>3. \A x \in Bytes : x.is = "digit" => x.digit \in 0 .. 9
    BY DEF Bytes
  <2> QED BY <2>1, <2>2, <2>3
<1>5. /\ r.status = 100 * r.bytes[2].digit + 10 * r.bytes[3].digit + r.bytes[4].digit
      /\ r.status \in 100 .. 999
  <2>1. /\ r.status = 100 * r.bytes[2].digit + 10 * r.bytes[3].digit + r.bytes[4].digit
        /\ r.status >= 100
    BY <1>2 DEF StatusLine
  <2> DEFINE x == r.bytes[2].digit
             y == r.bytes[3].digit
             z == r.bytes[4].digit
  <2>2. x \in 0 .. 9 /\ y \in 0 .. 9 /\ z \in 0 .. 9
    BY <1>4
  <2>3. r.status = 100 * x + 10 * y + z
    BY <2>1
  <2> HIDE DEF x, y, z
  <2>4. 100 * x + 10 * y + z \in Nat /\ 100 * x + 10 * y + z <= 999
    BY <2>2
  <2>5. r.status >= 100
    BY <2>1
  <2>6. r.status \in 100 .. 999
    BY <2>3, <2>4, <2>5
  <2> QED BY <2>1, <2>6
<1>6. ASSUME NEW next, Note(p, b, next) = p, InStatusLine(r, [p EXCEPT !.state = next], n + 1)
      PROVE  InStep(r, Went(p, b, next), n + 1)
  BY <1>6 DEF Went, InStep
<1>7. CASE p.state = "StatusStart" /\ n = 0 /\ p.status = 0
  <2>1. Only(p.state, {"version"}, "StatusCodeStart")
    BY <1>7, OnlyMove
  <2>2. b.is \in {"version"}
    BY <1>2, <1>7 DEF StatusLine, Are
  <2>3. Note(p, b, "StatusCodeStart") = p
    BY <1>7 DEF Note
  <2>4. InStatusLine(r, [p EXCEPT !.state = "StatusCodeStart"], n + 1)
    BY <1>0, <1>7 DEF InStatusLine, Parsers
  <2> QED BY <2>1, <2>2, <2>3, <2>4, <1>6, Going
<1>8. CASE p.state = "StatusCodeStart" /\ n = 1 /\ p.status = 0
  <2>1. Only(p.state, {"digit"}, "StatusCode")
    BY <1>8, OnlyMove
  <2>2. b.is \in {"digit"}
    BY <1>4, <1>8
  <2>3. Note(p, b, "StatusCode") = [p EXCEPT !.status = 10 * @ + b.digit]
    BY <1>8 DEF Note
  <2>4. InStatusLine(r, Went(p, b, "StatusCode"), n + 1)
    <3> DEFINE q == Went(p, b, "StatusCode")
    <3>1. /\ q.state = "StatusCode" /\ q.status = 10 * p.status + b.digit
          /\ q.name = p.name /\ q.chunked = p.chunked /\ q.contentSize = p.contentSize
          /\ q.chunkSizeStr = p.chunkSizeStr /\ q.content = p.content
      BY <1>0, <2>3 DEF Parsers, Went
    <3> HIDE DEF q
    <3>2. b = r.bytes[2] /\ n + 1 = 2 /\ b.digit \in Nat
      BY <1>4, <1>8
    <3>3. q.status = r.bytes[2].digit
      BY <1>8, <3>1, <3>2
    <3>4. InStatusLine(r, q, n + 1)
      BY <1>0, <3>1, <3>2, <3>3 DEF InStatusLine
    <3> QED BY <3>4 DEF q
  <2> QED BY <2>1, <2>2, <2>4, Going DEF InStep
<1>9. CASE p.state = "StatusCode" /\ n \in {2, 3} /\
           p.status = IF n = 2 THEN r.bytes[2].digit ELSE 10 * r.bytes[2].digit + r.bytes[3].digit
  <2>1. Only(p.state, {"digit"}, "StatusCode")
    BY <1>9, OnlyMove
  <2>2. b.is \in {"digit"}
    BY <1>4, <1>9
  <2>3. Note(p, b, "StatusCode") = [p EXCEPT !.status = 10 * @ + b.digit]
    BY <1>9 DEF Note
  <2>4. 10 * p.status + b.digit = IF n = 2 THEN 10 * r.bytes[2].digit + r.bytes[3].digit
                                  ELSE r.status
    <3>1. CASE n = 2
      BY <1>9, <3>1
    <3>2. CASE n = 3
      <4> DEFINE x == r.bytes[2].digit
                 y == r.bytes[3].digit
                 z == r.bytes[4].digit
      <4>1. x \in 0 .. 9 /\ y \in 0 .. 9 /\ z \in 0 .. 9 /\ b.digit = z
        BY <1>4, <3>2
      <4>2. r.status = 100 * x + 10 * y + z
        BY <1>5
      <4>3. p.status = 10 * x + y
        BY <1>9, <3>2
      <4> HIDE DEF x, y, z, b
      <4>4. 10 * (10 * x + y) + z = 100 * x + 10 * y + z
        BY <4>1
      <4> QED BY <3>2, <4>1, <4>2, <4>3, <4>4
    <3> QED BY <1>9, <3>1, <3>2
  <2>5. InStatusLine(r, Went(p, b, "StatusCode"), n + 1)
    BY <1>0, <1>9, <2>3, <2>4 DEF InStatusLine, Parsers, Went
  <2> QED BY <2>1, <2>2, <2>5, Going DEF InStep
<1>10. CASE p.state = "StatusCode" /\ n = 4 /\ p.status = r.status
  <2>1. Only(p.state, {"sp"}, "StatusTextStart")
    BY <1>10, OnlyMove
  <2>2. b.is \in {"sp"}
    BY <1>2, <1>10 DEF StatusLine, Are
  <2>3. Note(p, b, "StatusTextStart") = p
    BY <1>10 DEF Note
  <2>4. InStatusLine(r, [p EXCEPT !.state = "StatusTextStart"], n + 1)
    BY <1>0, <1>10 DEF InStatusLine, Parsers
  <2> QED BY <2>1, <2>2, <2>3, <2>4, <1>5, <1>6, <1>10, Going
<1>11. CASE /\ p.state = "StatusTextStart" /\ n = 5 /\ p.status = r.status
  <2>1. Only(p.state, Printable \union {"tab"}, "StatusText")
    BY <1>11, OnlyMove
  <2>2. b.is \in Printable \union {"tab"}
    BY <1>1, <1>2, <1>11 DEF StatusLine, Are
  <2>3. Note(p, b, "StatusText") = p
    BY <1>11 DEF Note
  <2>4. InStatusLine(r, [p EXCEPT !.state = "StatusText"], n + 1)
    BY <1>0, <1>1, <1>11 DEF InStatusLine, Parsers
  <2> QED BY <2>1, <2>2, <2>3, <2>4, <1>6, Going
<1>12. CASE p.state = "StatusText" /\ n \in 6 .. HeadersAt(r) - 3 /\ p.status = r.status
  <2>1. CASE n = HeadersAt(r) - 3
    <3>1. Only(p.state, {"cr"}, "NewLine")
      BY <1>12, OnlyMove
    <3>2. b.is \in {"cr"}
      BY <1>1, <1>2, <1>12, <2>1 DEF StatusLine, LineEnd
    <3>3. Note(p, b, "NewLine") = p
      BY <1>12 DEF Note
    <3>4. InStatusLine(r, [p EXCEPT !.state = "NewLine"], n + 1)
      BY <1>0, <1>1, <1>12, <2>1 DEF InStatusLine, Parsers
    <3> QED BY <3>1, <3>2, <3>3, <3>4, <1>6, Going
  <2>2. CASE n < HeadersAt(r) - 3
    <3>1. Only(p.state, Printable \union {"tab"}, "StatusText")
      BY <1>12, OnlyMove
    <3>2. b.is \in Printable \union {"tab"}
      BY <1>1, <1>2, <1>12, <2>2 DEF StatusLine, Are
    <3>3. Note(p, b, "StatusText") = p
      BY <1>12 DEF Note
    <3>4. InStatusLine(r, [p EXCEPT !.state = "StatusText"], n + 1)
      BY <1>0, <1>1, <1>12, <2>2 DEF InStatusLine, Parsers
    <3> QED BY <3>1, <3>2, <3>3, <3>4, <1>6, Going
  <2> QED BY <1>1, <1>12, <2>1, <2>2
<1>13. CASE p.state = "NewLine" /\ n = HeadersAt(r) - 2 /\ p.status = r.status
  <2>1. Only(p.state, {"lf"}, "HeaderLineStart")
    BY <1>13, OnlyMove
  <2>2. b.is \in {"lf"}
    BY <1>1, <1>2, <1>13 DEF StatusLine, LineEnd
  <2>3. Note(p, b, "HeaderLineStart") = p
    BY <1>13 DEF Note
  <2> DEFINE q == Went(p, b, "HeaderLineStart")
  <2>4. /\ q.state = "HeaderLineStart" /\ q.status = r.status
        /\ ~q.chunked /\ q.contentSize = 0 /\ q.chunkSizeStr = <<>> /\ q.content = <<>>
    BY <1>0, <1>13, <2>3, NotNoted
  <2> HIDE DEF q
  <2>5. Known(r, q, 0)
    BY <2>4 DEF Known
  <2>6. BetweenHeaders(r, q, n + 1, 0)
    <3>1. n + 1 = HeaderEnd(r, 0) + 1
      BY <1>1, <1>13, HeaderPlaces
    <3> QED BY <2>4, <2>5, <3>1 DEF BetweenHeaders
  <2>7. InStep(r, q, n + 1)
    <3>1. 0 \in 0 .. Len(r.headers)
      BY HeaderPlaces
    <3> QED BY <2>6, <3>1 DEF InStep
  <2> QED BY <2>1, <2>2, <2>7, Going DEF q
<1> QED
  BY <1>7, <1>8, <1>9, <1>10, <1>11, <1>12, <1>13 DEF InStatusLine

LEMMA OneByte ==
  ASSUME NEW S, NEW s \in Seq(S), NEW n \in 1 .. Len(s)
  PROVE  SubSeq(s, n, n) = <<s[n]>>
<1>1. /\ SubSeq(s, n, n) \in Seq(S) /\ Len(SubSeq(s, n, n)) = 1
      /\ SubSeq(s, n, n)[1] = s[n]
  OBVIOUS
<1>2. <<s[n]>> \in Seq(S) /\ Len(<<s[n]>>) = 1 /\ <<s[n]>>[1] = s[n]
  OBVIOUS
<1>3. \A m \in 1 .. 1 : SubSeq(s, n, n)[m] = <<s[n]>>[m]
  BY <1>1, <1>2
<1> QED BY <1>1, <1>2, <1>3, SeqEqual

LEMMA KnownStays ==
  ASSUME NEW r, NEW p, NEW q, NEW k, Known(r, p, k),
         q.status = p.status, q.content = p.content, q.chunkSizeStr = p.chunkSizeStr,
         q.chunked = p.chunked, q.contentSize = p.contentSize
  PROVE  Known(r, q, k)
BY DEF Known

\* A header that is not looked at tells nothing.
LEMMA NothingKnown ==
  ASSUME NEW r, Proper(r), NEW p, NEW k \in 1 .. Len(r.headers), Known(r, p, k - 1),
         ~SaysLength(r, k), ~SaysChunked(r, k)
  PROVE  Known(r, p, k)
<1>1. k \in Nat
  BY HeaderPlaces
<1>2. \A j : j \in 1 .. k <=> j \in 1 .. k - 1 \/ j = k
  BY <1>1
<1>3. /\ (\E j \in 1 .. k : SaysLength(r, j)) <=> \E j \in 1 .. k - 1 : SaysLength(r, j)
      /\ (\E j \in 1 .. k : SaysChunked(r, j)) <=> \E j \in 1 .. k - 1 : SaysChunked(r, j)
  BY <1>2
<1> QED BY <1>3 DEF Known

LEMMA HeaderTaken ==
  ASSUME NEW r, Proper(r), NEW p \in Parsers, NEW k \in 1 .. Len(r.headers),
         Known(r, p, k - 1), Spell(p.name) = r.headers[k].name, p.value = Value(r, k)
  PROVE  Known(r, TakeHeader(p), k)
<1>1. k \in Nat
  BY HeaderPlaces
<1>2. \A j : j \in 1 .. k <=> j \in 1 .. k - 1 \/ j = k
  BY <1>1
<1>3. ContentLength # TransferEncoding
  BY DEF ContentLength, TransferEncoding
<1>4. CASE SaysLength(r, k)
  <2>1. TakeHeader(p) = [p EXCEPT !.contentSize = Atoi(p.value)]
    BY <1>3, <1>4 DEF TakeHeader, SaysLength
  <2> DEFINE q == TakeHeader(p)
  <2>2. /\ q.status = p.status /\ q.content = p.content /\ q.chunkSizeStr = p.chunkSizeStr
        /\ q.chunked = p.chunked /\ q.contentSize = Atoi(p.value)
    BY <2>1 DEF Parsers
  <2>3. ~SaysChunked(r, k)
    BY <1>3, <1>4 DEF SaysLength, SaysChunked
  <2>4. (\E j \in 1 .. k : SaysChunked(r, j)) <=> \E j \in 1 .. k - 1 : SaysChunked(r, j)
    BY <1>2, <2>3
  <2>5. \E j \in 1 .. k : SaysLength(r, j)
    BY <1>2, <1>4
  <2>6. InOnePiece(r) => Atoi(p.value) = Len(r.content)
    <3>1. k \in DOMAIN r.headers
      BY LineTypes DEF Proper
    <3> QED BY <1>4, <3>1 DEF InOnePiece
  <2> HIDE DEF q
  <2>7. Known(r, q, k)
    BY <2>2, <2>4, <2>5, <2>6 DEF Known
  <2> QED BY <2>7 DEF q
<1>5. CASE SaysChunked(r, k)
  <2>1. TakeHeader(p) = [p EXCEPT !.chunked = TRUE]
    BY <1>3, <1>5 DEF TakeHeader, SaysChunked
  <2> DEFINE q == TakeHeader(p)
  <2>2. /\ q.status = p.status /\ q.content = p.content /\ q.chunkSizeStr = p.chunkSizeStr
        /\ q.chunked = TRUE /\ q.contentSize = p.contentSize
    BY <2>1 DEF Parsers
  <2>3. \E j \in 1 .. k : SaysChunked(r, j)
    BY <1>2, <1>5
  <2>4. ~InOnePiece(r)
    <3>1. k \in DOMAIN r.headers
      BY LineTypes DEF Proper
    <3> QED BY <1>5, <3>1 DEF InOnePiece
  <2> HIDE DEF q
  <2>5. Known(r, q, k)
    BY <2>2, <2>3, <2>4 DEF Known
  <2> QED BY <2>5 DEF q
<1>6. CASE ~SaysLength(r, k) /\ ~SaysChunked(r, k)
  <2>1. TakeHeader(p) = p
    BY <1>6 DEF TakeHeader, SaysLength, SaysChunked
  <2> QED BY <1>6, <2>1, NothingKnown
<1> QED BY <1>4, <1>5, <1>6

LEMMA BetweenHeadersGoes ==
  ASSUME NEW r, Proper(r), NEW p \in Parsers, NEW n \in Nat, NEW k \in 0 .. Len(r.headers),
         BetweenHeaders(r, p, n, k), p.state # "ExpectingNewline_3"
  PROVE  Goes(r, p, n)
<1> DEFINE b == r.bytes[n + 1]
<1>0. k \in Nat /\ Len(r.headers) \in Nat /\ r.blank \in Nat
  BY HeaderPlaces
<1>1. HeaderEnd(r, k) \in Nat
  BY <1>0, HeaderPlaces
<1>2. ASSUME NEW next, Note(p, b, next) = p,
             BetweenHeaders(r, Went(p, b, next), n + 1, k)
      PROVE  InStep(r, Went(p, b, next), n + 1)
  BY <1>2 DEF InStep
<1>3. CASE p.state = "HeaderLineStart" /\ n = HeaderEnd(r, k) + 1 /\ k = Len(r.headers)
  <2>1. Only(p.state, {"cr"}, "ExpectingNewline_3")
    BY <1>3, OnlyMove
  <2>2. n + 1 = r.blank
    BY <1>0, <1>3, HeaderPlaces
  <2>3. b.is \in {"cr"}
    BY <2>2, HeaderPlaces DEF LineEnd
  <2>4. Note(p, b, "ExpectingNewline_3") = p
    BY <1>3 DEF Note
  <2> DEFINE q == Went(p, b, "ExpectingNewline_3")
  <2>5. /\ q.state = "ExpectingNewline_3" /\ q.status = p.status /\ q.name = p.name
        /\ q.chunked = p.chunked /\ q.contentSize = p.contentSize
        /\ q.chunkSizeStr = p.chunkSizeStr /\ q.content = p.content
    BY <2>4, NotNoted
  <2> HIDE DEF q
  <2>6. Known(r, q, k)
    BY <2>5, KnownStays DEF BetweenHeaders
  <2>7. BetweenHeaders(r, q, n + 1, k)
    BY <1>3, <2>2, <2>5, <2>6 DEF BetweenHeaders, Named
  <2> QED BY <2>1, <2>3, <2>4, <2>7, <1>2, Going DEF q
<1>4. CASE p.state = "HeaderLineStart" /\ n = HeaderEnd(r, k) + 1 /\ k < Len(r.headers)
  <2> DEFINE line == r.headers[k + 1]
  <2>1. k + 1 \in 1 .. Len(r.headers) /\ (k + 1) - 1 = k
    BY <1>0, <1>4
  <2>2. line.at = n + 1 /\ line.at \in Nat
    BY <1>1, <1>4, <2>1, HeaderPlaces
  <2>3. CASE NewHeader(r, k + 1)
    <3>1. Only(p.state, InName, "HeaderName")
      BY <1>4, OnlyMove
    <3>2. b.is \in InName
      BY <2>2, <2>3, <2>1, HeaderPlaces DEF NewHeader, Are
    <3>3. Note(p, b, "HeaderName") = [p EXCEPT !.name = <<b>>, !.value = <<>>]
      BY <1>4 DEF Note
    <3> DEFINE q == Went(p, b, "HeaderName")
    <3>4. /\ q.state = "HeaderName" /\ q.status = p.status /\ q.name = <<b>> /\ q.value = <<>>
          /\ q.chunked = p.chunked /\ q.contentSize = p.contentSize
          /\ q.chunkSizeStr = p.chunkSizeStr /\ q.content = p.content
      BY <3>3 DEF Went, Parsers
    <3> HIDE DEF q
    <3>5. Known(r, q, k)
      BY <3>4, KnownStays DEF BetweenHeaders
    <3>6. SubSeq(r.bytes, line.at, n + 1) = <<b>>
      <4>1. HeaderEnd(r, k) < r.blank /\ r.blank + 1 <= r.size
        BY <2>1, <1>0, HeaderPlaces
      <4>2. n + 1 \in 1 .. Len(r.bytes) /\ r.bytes \in Seq(Bytes)
        BY <1>0, <1>1, <1>4, <4>1, ProperBytes
      <4> QED BY <2>2, <4>2, OneByte
    <3>7. InNewHeader(r, q, n + 1, k + 1)
      <4>1. n + 1 \in line.at .. line.colon - 1
        BY <2>1, <2>2, <2>3, HeaderPlaces DEF NewHeader
      <4> QED BY <2>1, <2>3, <3>4, <3>5, <3>6, <4>1 DEF InNewHeader
    <3>8. InStep(r, q, n + 1)
      BY <2>1, <3>7 DEF InStep
    <3> QED BY <3>1, <3>2, <3>8, Going DEF q
  <2>4. CASE Continued(r, k + 1)
    <3>1. Only(p.state, {"sp", "tab"}, "HeaderLws")
      BY <1>4, OnlyMove
    <3>2. b.is \in {"sp", "tab"}
      BY <2>2, <2>4 DEF Continued, Are
    <3>3. Note(p, b, "HeaderLws") = p
      BY <1>4 DEF Note
    <3> DEFINE q == Went(p, b, "HeaderLws")
    <3>4. /\ q.state = "HeaderLws" /\ q.status = p.status /\ q.name = p.name
          /\ q.chunked = p.chunked /\ q.contentSize = p.contentSize
          /\ q.chunkSizeStr = p.chunkSizeStr /\ q.content = p.content
      BY <3>3, NotNoted
    <3> HIDE DEF q
    <3>5. Known(r, q, k)
      BY <3>4, KnownStays DEF BetweenHeaders
    <3>6. k > 0 /\ line.name = r.headers[k].name
      BY <1>0, <2>1, <2>4 DEF Continued
    <3>7. p.name # <<>> /\ Named(r, q, k + 1)
      BY <3>4, <3>6 DEF BetweenHeaders, Named
    <3>8. n + 1 \in line.at .. HeaderEnd(r, k + 1) - 1
      BY <2>1, <2>2, HeaderPlaces
    <3>9. InContinued(r, q, n + 1, k + 1)
      BY <2>1, <2>2, <2>4, <3>2, <3>4, <3>5, <3>7, <3>8 DEF InContinued, Are
    <3>10. InStep(r, q, n + 1)
      BY <2>1, <3>9 DEF InStep
    <3> QED BY <3>1, <3>2, <3>7, <3>10, Going DEF q
  <2> QED BY <2>1, <2>3, <2>4, HeaderPlaces
<1>5. CASE p.state = "ExpectingNewline_2" /\ k > 0 /\ n = HeaderEnd(r, k)
  <2>1. Only(p.state, {"lf"}, "HeaderLineStart")
    BY <1>5, OnlyMove
  <2>2. b.is \in {"lf"}
    BY <1>0, <1>5, HeaderPlaces DEF LineEnd
  <2>3. Note(p, b, "HeaderLineStart") = p
    BY <1>5 DEF Note
  <2> DEFINE q == Went(p, b, "HeaderLineStart")
  <2>4. /\ q.state = "HeaderLineStart" /\ q.status = p.status /\ q.name = p.name
        /\ q.chunked = p.chunked /\ q.contentSize = p.contentSize
        /\ q.chunkSizeStr = p.chunkSizeStr /\ q.content = p.content
    BY <2>3, NotNoted
  <2> HIDE DEF q
  <2>5. Known(r, q, k)
    BY <2>4, KnownStays DEF BetweenHeaders
  <2>6. BetweenHeaders(r, q, n + 1, k)
    BY <1>5, <2>4, <2>5 DEF BetweenHeaders, Named
  <2> QED BY <2>1, <2>2, <2>3, <2>6, <1>2, Going DEF q
<1> QED BY <1>0, <1>3, <1>4, <1>5 DEF BetweenHeaders

LEMMA InNewHeaderGoes ==
  ASSUME NEW r, Proper(r), NEW p \in Parsers, NEW n \in Nat, NEW k \in 1 .. Len(r.headers),
         InNewHeader(r, p, n, k)
  PROVE  Goes(r, p, n)
<1> DEFINE b == r.bytes[n + 1]
           line == r.headers[k]
           end == HeaderEnd(r, k)
<1>1. /\ line.at \in Nat /\ line.colon \in Nat /\ end \in Nat /\ line.at >= 1
      /\ line.at < line.colon /\ line.colon + 2 <= end /\ end < r.size
  <2>1. line.at \in Nat /\ line.colon \in Nat /\ end \in Nat /\ end < r.blank
    BY HeaderPlaces
  <2>2. line.at \in Places
    BY LineTypes DEF Proper
  <2>3. line.at < line.colon /\ line.colon + 2 <= end
    BY DEF InNewHeader, NewHeader
  <2>4. r.blank \in Nat /\ r.blank + 1 <= r.size /\ r.size \in Nat
    BY HeaderPlaces, ProperBytes
  <2> QED BY <2>1, <2>2, <2>3, <2>4 DEF Places
<1>2. /\ Are(r, line.at, line.colon - 1, InName)
      /\ line.name = Spell(SubSeq(r.bytes, line.at, line.colon - 1))
      /\ Are(r, line.colon, line.colon, {"colon"})
      /\ Are(r, line.colon + 1, line.colon + 1, {"sp"})
      /\ Are(r, line.colon + 2, end - 1, Classes \ Control)
  BY DEF InNewHeader, NewHeader
<1>3. r.bytes \in Seq(Bytes) /\ end < Len(r.bytes) /\ Len(r.bytes) \in Nat
  BY <1>1, ProperBytes
<1>4. Known(r, p, k - 1) /\ NewHeader(r, k)
  BY DEF InNewHeader
<1>5. ASSUME NEW next, InNewHeader(r, Went(p, b, next), n + 1, k)
      PROVE  InStep(r, Went(p, b, next), n + 1)
  BY <1>5 DEF InStep
<1> HIDE DEF line, end
<1>6. CASE /\ p.state = "HeaderName" /\ n \in line.at .. line.colon - 1
           /\ p.name = SubSeq(r.bytes, line.at, n) /\ p.value = <<>>
  <2>1. CASE n + 1 < line.colon
    <3>1. Only(p.state, InName, "HeaderName")
      BY <1>6, OnlyMove
    <3>2. b.is \in InName
      BY <1>1, <1>2, <1>6, <2>1 DEF Are
    <3>3. Note(p, b, "HeaderName") = [p EXCEPT !.name = Append(@, b)]
      BY <1>6 DEF Note
    <3> DEFINE q == Went(p, b, "HeaderName")
    <3>4. /\ q.state = "HeaderName" /\ q.status = p.status /\ q.value = p.value
          /\ q.name = Append(p.name, b)
          /\ q.chunked = p.chunked /\ q.contentSize = p.contentSize
          /\ q.chunkSizeStr = p.chunkSizeStr /\ q.content = p.content
      BY <3>3 DEF Went, Parsers
    <3>5. Append(p.name, b) = SubSeq(r.bytes, line.at, n + 1)
      <4>1. 1 <= line.at /\ line.at <= n + 1 /\ n + 1 <= Len(r.bytes)
        BY <1>1, <1>3, <1>6
      <4>2. Append(SubSeq(r.bytes, line.at, n), r.bytes[n + 1]) = SubSeq(r.bytes, line.at, n + 1)
        BY <1>1, <1>3, <4>1, OneMore
      <4> QED BY <1>6, <4>2
    <3> HIDE DEF q
    <3>6. Known(r, q, k - 1)
      BY <1>4, <3>4, KnownStays
    <3>7. InNewHeader(r, q, n + 1, k)
      BY <1>1, <1>4, <1>6, <2>1, <3>4, <3>5, <3>6 DEF InNewHeader, line
    <3> QED BY <3>1, <3>2, <3>7, <1>5, Going DEF q
  <2>2. CASE n + 1 = line.colon
    <3>1. Only(p.state, {"colon"}, "SpaceBeforeHeaderValue")
      BY <1>6, OnlyMove
    <3>2. b.is \in {"colon"}
      BY <1>1, <1>2, <2>2 DEF Are
    <3>3. Note(p, b, "SpaceBeforeHeaderValue") = p
      BY <1>6 DEF Note
    <3> DEFINE q == Went(p, b, "SpaceBeforeHeaderValue")
    <3>4. /\ q.state = "SpaceBeforeHeaderValue" /\ q.status = p.status /\ q.value = p.value
          /\ q.name = p.name
          /\ q.chunked = p.chunked /\ q.contentSize = p.contentSize
          /\ q.chunkSizeStr = p.chunkSizeStr /\ q.content = p.content
      BY <3>3, NotNoted
    <3>5. n = line.colon - 1
      BY <1>1, <1>6, <2>2
    <3> HIDE DEF q
    <3>6. Known(r, q, k - 1)
      BY <1>4, <3>4, KnownStays
    <3>7. InNewHeader(r, q, n + 1, k)
      BY <1>1, <1>4, <1>6, <2>2, <3>4, <3>5, <3>6 DEF InNewHeader, line
    <3> QED BY <3>1, <3>2, <3>7, <1>5, Going DEF q
  <2> QED BY <1>1, <1>6, <2>1, <2>2
<1>7. CASE /\ p.state = "SpaceBeforeHeaderValue" /\ n = line.colon
           /\ p.name = SubSeq(r.bytes, line.at, line.colon - 1) /\ p.value = <<>>
  <2>1. Only(p.state, {"sp"}, "HeaderValue")
    BY <1>7, OnlyMove
  <2>2. b.is \in {"sp"}
    BY <1>1, <1>2, <1>7 DEF Are
  <2>3. Note(p, b, "HeaderValue") = p
    BY <1>7 DEF Note
  <2> DEFINE q == Went(p, b, "HeaderValue")
  <2>4. /\ q.state = "HeaderValue" /\ q.status = p.status /\ q.value = p.value
        /\ q.name = p.name
        /\ q.chunked = p.chunked /\ q.contentSize = p.contentSize
        /\ q.chunkSizeStr = p.chunkSizeStr /\ q.content = p.content
    BY <2>3, NotNoted
  <2>5. SubSeq(r.bytes, line.colon + 2, n + 1) = <<>>
    BY <1>1, <1>7, SubSeqEmpty
  <2> HIDE DEF q
  <2>6. Known(r, q, k - 1)
    BY <1>4, <2>4, KnownStays
  <2>7. InNewHeader(r, q, n + 1, k)
    <3>1. n + 1 \in line.colon + 1 .. end - 1
      BY <1>1, <1>7
    <3> QED BY <1>4, <1>7, <2>4, <2>5, <2>6, <3>1 DEF InNewHeader, line, end
  <2> QED BY <2>1, <2>2, <2>7, <1>5, Going DEF q
<1>8. CASE /\ p.state = "HeaderValue" /\ n \in line.colon + 1 .. end - 1
           /\ p.name = SubSeq(r.bytes, line.at, line.colon - 1)
           /\ p.value = SubSeq(r.bytes, line.colon + 2, n)
  <2>1. CASE n + 1 < end
    <3>1. Only(p.state, Classes \ Control, "HeaderValue")
      BY <1>8, OnlyMove
    <3>2. b.is \in Classes \ Control
      BY <1>1, <1>2, <1>8, <2>1 DEF Are
    <3>3. Note(p, b, "HeaderValue") = [p EXCEPT !.value = Append(@, b)]
      BY <1>8 DEF Note
    <3> DEFINE q == Went(p, b, "HeaderValue")
    <3>4. /\ q.state = "HeaderValue" /\ q.status = p.status /\ q.name = p.name
          /\ q.value = Append(p.value, b)
          /\ q.chunked = p.chunked /\ q.contentSize = p.contentSize
          /\ q.chunkSizeStr = p.chunkSizeStr /\ q.content = p.content
      BY <3>3 DEF Went, Parsers
    <3>5. Append(p.value, b) = SubSeq(r.bytes, line.colon + 2, n + 1)
      <4>1. line.colon + 2 \in Nat /\ 1 <= line.colon + 2 /\ line.colon + 2 <= n + 1
            /\ n + 1 <= Len(r.bytes)
        BY <1>1, <1>3, <1>8
      <4> QED BY <1>3, <1>8, <4>1, OneMore
    <3> HIDE DEF q
    <3>6. Known(r, q, k - 1)
      BY <1>4, <3>4, KnownStays
    <3>7. InNewHeader(r, q, n + 1, k)
      <4>1. n + 1 \in line.colon + 1 .. end - 1
        BY <1>1, <1>8, <2>1
      <4> QED BY <1>4, <1>8, <3>4, <3>5, <3>6, <4>1 DEF InNewHeader, line, end
    <3> QED BY <3>1, <3>2, <3>7, <1>5, Going DEF q
  <2>2. CASE n + 1 = end
    <3>1. Only(p.state, {"cr"}, "ExpectingNewline_2")
      BY <1>8, OnlyMove
    <3>2. b.is \in {"cr"}
      BY <2>2, HeaderPlaces DEF LineEnd, end
    <3>3. Note(p, b, "ExpectingNewline_2") = TakeHeader(p)
      BY <1>8 DEF Note
    <3>4. Spell(p.name) = r.headers[k].name
      BY <1>2, <1>8 DEF line
    <3>5. p.value = Value(r, k)
      <4>1. n = end - 1
        BY <1>1, <1>8, <2>2
      <4> QED BY <1>8, <4>1 DEF Value, line, end
    <3>6. Known(r, TakeHeader(p), k) /\ TakeHeader(p) \in Parsers
      BY <1>4, <3>4, <3>5, HeaderTaken, TakeHeaderType
    <3>7. p.name # <<>>
      <4>1. Len(p.name) = line.colon - line.at
        <5>1. \A m \in line.at .. line.colon - 1 : r.bytes[m] \in Bytes
          BY <1>1, <1>3
        <5>2. line.at <= line.colon - 1
          BY <1>1
        <5>3. Len(SubSeq(r.bytes, line.at, line.colon - 1)) = (line.colon - 1) - line.at + 1
          BY <1>1, <5>1, <5>2, SubSeqProperties
        <5> QED BY <1>1, <1>8, <5>3
      <4> QED BY <1>1, <4>1
    <3>8. TakeHeader(p).name = p.name
      BY DEF TakeHeader, Parsers
    <3> DEFINE t == TakeHeader(p)
               q == Went(p, b, "ExpectingNewline_2")
    <3>9. /\ q.state = "ExpectingNewline_2" /\ q.status = t.status /\ q.name = t.name
          /\ q.chunked = t.chunked /\ q.contentSize = t.contentSize
          /\ q.chunkSizeStr = t.chunkSizeStr /\ q.content = t.content
      <4>1. q = [t EXCEPT !.state = "ExpectingNewline_2"] /\ t \in Parsers
        BY <3>3, <3>6 DEF Went
      <4> HIDE DEF t, q
      <4> QED BY <4>1 DEF Parsers
    <3> HIDE DEF q
    <3>10. Known(r, q, k)
      BY <3>6, <3>9, KnownStays
    <3>11. BetweenHeaders(r, q, n + 1, k)
      BY <2>2, <3>4, <3>7, <3>8, <3>9, <3>10 DEF BetweenHeaders, Named, end
    <3>12. InStep(r, q, n + 1)
      <4>1. k \in 0 .. Len(r.headers)
        OBVIOUS
      <4> QED BY <3>11, <4>1 DEF InStep
    <3> QED BY <3>1, <3>2, <3>12, Going DEF q
  <2> QED BY <1>1, <1>8, <2>1, <2>2
<1> QED BY <1>6, <1>7, <1>8 DEF InNewHeader, line, end

LEMMA InContinuedGoes ==
  ASSUME NEW r, Proper(r), NEW p \in Parsers, NEW n \in Nat, NEW k \in 1 .. Len(r.headers),
         InContinued(r, p, n, k)
  PROVE  Goes(r, p, n)
<1> DEFINE b == r.bytes[n + 1]
           line == r.headers[k]
           end == HeaderEnd(r, k)
<1>1. /\ line.at \in Nat /\ end \in Nat /\ end < r.size /\ n \in line.at .. end - 1
      /\ line.name \notin Looked
      /\ Are(r, line.at, end - 1, (Classes \ Control) \union {"tab"})
      /\ \A m \in line.at .. end - 1 :
           r.bytes[m].is = "tab" => Are(r, line.at, m, {"sp", "tab"})
  <2>1. line.at \in Nat /\ end \in Nat /\ end < r.blank
    BY HeaderPlaces
  <2>2. r.blank \in Nat /\ r.blank + 1 <= r.size /\ r.size \in Nat
    BY HeaderPlaces, ProperBytes
  <2>3. n \in line.at .. end - 1 /\ Continued(r, k)
    BY DEF InContinued
  <2> QED BY <2>1, <2>2, <2>3 DEF Continued
<1>2. Known(r, p, k - 1) /\ Continued(r, k) /\ Named(r, p, k)
  BY DEF InContinued
<1>3. ASSUME NEW next, InContinued(r, Went(p, b, next), n + 1, k)
      PROVE  InStep(r, Went(p, b, next), n + 1)
  BY <1>3 DEF InStep
<1>4. Known(r, p, k)
  <2>1. ~SaysLength(r, k) /\ ~SaysChunked(r, k)
    BY <1>1 DEF SaysLength, SaysChunked, Looked
  <2> QED BY <1>2, <2>1, NothingKnown
<1> HIDE DEF line, end
<1>5. ASSUME n + 1 = end, Only(p.state, {"cr"}, "ExpectingNewline_2"),
             Note(p, b, "ExpectingNewline_2") = p
      PROVE  Goes(r, p, n)
  <2>1. b.is \in {"cr"}
    BY <1>5, HeaderPlaces DEF LineEnd, end
  <2> DEFINE q == Went(p, b, "ExpectingNewline_2")
  <2>2. /\ q.state = "ExpectingNewline_2" /\ q.status = p.status /\ q.name = p.name
        /\ q.chunked = p.chunked /\ q.contentSize = p.contentSize
        /\ q.chunkSizeStr = p.chunkSizeStr /\ q.content = p.content
    BY <1>5, NotNoted
  <2> HIDE DEF q
  <2>3. Known(r, q, k)
    BY <1>4, <2>2, KnownStays
  <2>4. BetweenHeaders(r, q, n + 1, k)
    BY <1>2, <1>5, <2>2, <2>3 DEF BetweenHeaders, Named, end
  <2>5. InStep(r, q, n + 1)
    <3>1. k \in 0 .. Len(r.headers)
      OBVIOUS
    <3> QED BY <2>4, <3>1 DEF InStep
  <2> QED BY <1>5, <2>1, <2>5, Going DEF q
<1>6. ASSUME n + 1 < end, p.state \in {"HeaderLws", "HeaderValue"},
             b.is \in (Classes \ Control), ~Are(r, line.at, n + 1, {"sp", "tab"}),
             NEW classes, Only(p.state, classes, "HeaderValue"), b.is \in classes
      PROVE  Goes(r, p, n)
  <2>1. Note(p, b, "HeaderValue") = [p EXCEPT !.value = Append(@, b)]
    BY <1>6 DEF Note
  <2> DEFINE q == Went(p, b, "HeaderValue")
  <2>2. /\ q.state = "HeaderValue" /\ q.status = p.status /\ q.name = p.name
        /\ q.chunked = p.chunked /\ q.contentSize = p.contentSize
        /\ q.chunkSizeStr = p.chunkSizeStr /\ q.content = p.content
    BY <2>1 DEF Went, Parsers
  <2> HIDE DEF q
  <2>3. Known(r, q, k - 1)
    BY <1>2, <2>2, KnownStays
  <2>4. n + 1 \in line.at .. end - 1
    BY <1>1, <1>6
  <2>5. InContinued(r, q, n + 1, k)
    BY <1>2, <1>6, <2>2, <2>3, <2>4 DEF InContinued, Named, line, end
  <2> QED BY <1>3, <1>6, <2>5, Going DEF q
<1>7. CASE p.state = "HeaderLws" /\ Are(r, line.at, n, {"sp", "tab"})
  <2>1. CASE n + 1 = end
    <3>1. Only(p.state, {"cr"}, "ExpectingNewline_2")
      BY <1>7, OnlyMove
    <3>2. Note(p, b, "ExpectingNewline_2") = p
      BY <1>7 DEF Note
    <3> QED BY <1>5, <2>1, <3>1, <3>2
  <2>2. CASE n + 1 < end /\ b.is \in {"sp", "tab"}
    <3>1. Only(p.state, {"sp", "tab"}, "HeaderLws")
      BY <1>7, OnlyMove
    <3>2. Note(p, b, "HeaderLws") = p
      BY <1>7 DEF Note
    <3> DEFINE q == Went(p, b, "HeaderLws")
    <3>3. /\ q.state = "HeaderLws" /\ q.status = p.status /\ q.name = p.name
          /\ q.chunked = p.chunked /\ q.contentSize = p.contentSize
          /\ q.chunkSizeStr = p.chunkSizeStr /\ q.content = p.content
      BY <3>2, NotNoted
    <3> HIDE DEF q
    <3>4. Known(r, q, k - 1)
      BY <1>2, <3>3, KnownStays
    <3>5. n + 1 \in line.at .. end - 1
      BY <1>1, <2>2
    <3>6. Are(r, line.at, n + 1, {"sp", "tab"})
      <4>1. \A m \in line.at .. n + 1 : m \in line.at .. n \/ m = n + 1
        BY <1>1
      <4> QED BY <1>7, <2>2, <4>1 DEF Are
    <3>7. InContinued(r, q, n + 1, k)
      BY <1>2, <3>3, <3>4, <3>5, <3>6 DEF InContinued, Named, line, end
    <3>8. p.name # <<>>
      BY <1>2 DEF Named
    <3> QED BY <1>3, <2>2, <3>1, <3>7, <3>8, Going DEF q
  <2>3. CASE n + 1 < end /\ b.is \notin {"sp", "tab"}
    <3>1. Only(p.state, (Classes \ Control) \ {"sp"}, "HeaderValue")
      BY <1>7, OnlyMove
    <3>2. n + 1 \in line.at .. end - 1 /\ n + 1 \in line.at .. n + 1
      BY <1>1, <2>3
    <3>3. b.is \in (Classes \ Control) \ {"sp"}
      BY <1>1, <2>3, <3>2 DEF Are
    <3>4. ~Are(r, line.at, n + 1, {"sp", "tab"})
      BY <2>3, <3>2 DEF Are
    <3> QED BY <1>6, <1>7, <2>3, <3>1, <3>3, <3>4
  <2> QED BY <1>1, <2>1, <2>2, <2>3
<1>8. CASE p.state = "HeaderValue" /\ ~Are(r, line.at, n, {"sp", "tab"})
  <2>1. CASE n + 1 = end
    <3>1. Only(p.state, {"cr"}, "ExpectingNewline_2")
      BY <1>8, OnlyMove
    <3>2. TakeHeader(p) = p
      BY <1>1, <1>2 DEF TakeHeader, Looked, Named, line
    <3>3. Note(p, b, "ExpectingNewline_2") = p
      BY <1>8, <3>2 DEF Note
    <3> QED BY <1>5, <2>1, <3>1, <3>3
  <2>2. CASE n + 1 < end
    <3>1. Only(p.state, Classes \ Control, "HeaderValue")
      BY <1>8, OnlyMove
    <3>2. n + 1 \in line.at .. end - 1 /\ line.at .. n \subseteq line.at .. n + 1
      BY <1>1, <2>2
    <3>3. ~Are(r, line.at, n + 1, {"sp", "tab"})
      BY <1>8, <3>2 DEF Are
    <3>4. b.is # "tab"
      BY <1>1, <3>2, <3>3
    <3>5. b.is \in Classes \ Control
      BY <1>1, <3>2, <3>4 DEF Are
    <3> QED BY <1>6, <1>8, <2>2, <3>1, <3>3, <3>5
  <2> QED BY <1>1, <2>1, <2>2
<1> QED BY <1>7, <1>8 DEF InContinued, line

\* Where the chunks are, and the trailers.
LEMMA ChunkPlaces ==
  ASSUME NEW r, Proper(r), InChunks(r)
  PROVE  /\ Len(r.chunks) \in Nat /\ Len(r.chunks) > 0
         /\ r.chunks[1].at = r.blank + 2 /\ r.chunks[1].from = 0
         /\ \A k \in 1 .. Len(r.chunks) :
              LET chunk == r.chunks[k]
              IN  /\ chunk.at \in Nat /\ chunk.ext \in Nat /\ chunk.end \in Nat /\ chunk.from \in Nat
                  /\ 1 <= chunk.at /\ chunk.at < chunk.ext /\ chunk.ext <= chunk.end
                  /\ chunk.end < r.size /\ chunk.from <= Len(r.content)
                  /\ SizeLine(r, k)
         /\ \A k \in 1 .. Len(r.chunks) - 1 :
              /\ ChunkContent(r, k)
              /\ ChunkLen(r, k) = r.chunks[k + 1].from - r.chunks[k].from
         /\ ChunkLen(r, Len(r.chunks)) = 0
         /\ r.chunks[Len(r.chunks)].from = Len(r.content)
         /\ Len(r.content) \in Nat /\ r.content \in Seq(Bytes)
<1>1. /\ Len(r.chunks) \in Nat /\ DOMAIN r.chunks = 1 .. Len(r.chunks)
      /\ r.content \in Seq(Bytes) /\ Len(r.content) \in Nat
  BY LineTypes DEF Proper, ResponseTypeOK
<1>2. /\ Len(r.chunks) > 0
      /\ r.chunks[1].at = r.blank + 2 /\ r.chunks[1].from = 0
      /\ ChunkLen(r, Len(r.chunks)) = 0
  BY DEF InChunks, BodyAt
<1>3. \A k \in 1 .. Len(r.chunks) : SizeLine(r, k) /\ r.chunks[k].from <= Len(r.content)
  BY <1>1 DEF InChunks
<1>4. \A k \in 1 .. Len(r.chunks) :
        /\ r.chunks[k].at \in Nat /\ r.chunks[k].ext \in Nat /\ r.chunks[k].end \in Nat
        /\ r.chunks[k].from \in Nat /\ 1 <= r.chunks[k].at
  BY LineTypes DEF Proper, Places
<1>5. \A k \in 1 .. Len(r.chunks) :
        /\ r.chunks[k].at < r.chunks[k].ext /\ r.chunks[k].ext <= r.chunks[k].end
        /\ r.chunks[k].end < r.size
  BY <1>3 DEF SizeLine
<1>6. \A k \in 1 .. Len(r.chunks) - 1 : ChunkContent(r, k)
  BY DEF InChunks
<1>7. \A k \in 1 .. Len(r.chunks) - 1 :
        ChunkLen(r, k) = r.chunks[k + 1].from - r.chunks[k].from
  BY <1>1 DEF ChunkLen
<1>8. r.chunks[Len(r.chunks)].from = Len(r.content)
  <2>1. Len(r.content) - r.chunks[Len(r.chunks)].from = 0
    BY <1>2 DEF ChunkLen
  <2>2. r.chunks[Len(r.chunks)].from \in Nat
    BY <1>1, <1>2, <1>4
  <2> QED BY <1>1, <2>1, <2>2
<1> QED BY <1>1, <1>2, <1>3, <1>4, <1>5, <1>6, <1>7, <1>8

\* A chunk that has content is followed by another.
LEMMA NextChunk ==
  ASSUME NEW r, Proper(r), InChunks(r), NEW k \in 1 .. Len(r.chunks) - 1
  PROVE  /\ k \in 1 .. Len(r.chunks) /\ k + 1 \in 1 .. Len(r.chunks)
         /\ ChunkLen(r, k) \in Nat /\ ChunkLen(r, k) > 0
         /\ r.chunks[k + 1].at = r.chunks[k].end + 4 + ChunkLen(r, k)
         /\ r.chunks[k + 1].from = r.chunks[k].from + ChunkLen(r, k)
         /\ r.chunks[k].end + 4 + ChunkLen(r, k) < r.size
         /\ LineEnd(r, r.chunks[k].end + 2 + ChunkLen(r, k))
<1>1. k \in 1 .. Len(r.chunks) /\ k + 1 \in 1 .. Len(r.chunks)
  BY ChunkPlaces
<1>2. /\ ChunkLen(r, k) > 0 /\ r.chunks[k + 1].at = r.chunks[k].end + 4 + ChunkLen(r, k)
      /\ LineEnd(r, r.chunks[k].end + 2 + ChunkLen(r, k))
  BY ChunkPlaces DEF ChunkContent
<1>3. /\ r.chunks[k].from \in Nat /\ r.chunks[k + 1].from \in Nat
      /\ ChunkLen(r, k) = r.chunks[k + 1].from - r.chunks[k].from
  BY <1>1, ChunkPlaces
<1>4. /\ r.chunks[k + 1].at < r.chunks[k + 1].ext /\ r.chunks[k + 1].ext <= r.chunks[k + 1].end
      /\ r.chunks[k + 1].end < r.size /\ r.size \in Nat
      /\ r.chunks[k + 1].at \in Nat /\ r.chunks[k + 1].ext \in Nat /\ r.chunks[k + 1].end \in Nat
  BY <1>1, ChunkPlaces, ProperBytes
<1>5. ChunkLen(r, k) \in Nat /\ r.chunks[k + 1].from = r.chunks[k].from + ChunkLen(r, k)
  BY <1>2, <1>3
<1>6. r.chunks[k + 1].at < r.size
  BY <1>4
<1> QED BY <1>1, <1>2, <1>5, <1>6

LEMMA TrailerPlaces ==
  ASSUME NEW r, Proper(r), InChunks(r)
  PROVE  /\ Len(r.trailers) \in Nat /\ r.size \in Nat
         /\ TrailerEnd(r, 0) = r.chunks[Len(r.chunks)].end
         /\ TrailerEnd(r, Len(r.trailers)) = r.size - 3
         /\ LineEnd(r, r.size - 1)
         /\ \A k \in 1 .. Len(r.trailers) :
              /\ Trailer(r, k)
              /\ r.trailers[k].at \in Nat /\ r.trailers[k].colon \in Nat
              /\ r.trailers[k].at = TrailerEnd(r, k - 1) + 2
              /\ r.trailers[k].at < r.trailers[k].colon
              /\ r.trailers[k].colon < TrailerEnd(r, k)
         /\ \A k \in 0 .. Len(r.trailers) :
              TrailerEnd(r, k) \in Nat /\ TrailerEnd(r, k) < r.size - 1
<1>1. Len(r.trailers) \in Nat /\ DOMAIN r.trailers = 1 .. Len(r.trailers) /\ r.size \in Nat
  BY LineTypes, ProperBytes DEF Proper
<1>2. \A k \in 1 .. Len(r.trailers) : r.trailers[k].at \in Nat /\ r.trailers[k].colon \in Nat
  BY LineTypes DEF Proper, Places
<1>3. TrailersAt(r) = r.chunks[Len(r.chunks)].end + 2 /\ LineEnd(r, r.size - 1)
  BY DEF InChunks
<1>4. \A k \in 1 .. Len(r.trailers) : Trailer(r, k)
  BY <1>1 DEF InChunks
<1>5. TrailerEnd(r, Len(r.trailers)) = r.size - 3
  BY <1>1 DEF TrailerEnd, EndOf
<1>6. \A k \in 1 .. Len(r.trailers) : TrailerEnd(r, k - 1) = r.trailers[k].at - 2
  BY <1>1 DEF TrailerEnd, EndOf
<1>7. \A k \in 0 .. Len(r.trailers) : TrailerEnd(r, k) \in Int
  <2> SUFFICES ASSUME NEW k \in 0 .. Len(r.trailers) PROVE TrailerEnd(r, k) \in Int
    OBVIOUS
  <2>1. CASE k = Len(r.trailers)
    BY <1>1, <1>5, <2>1
  <2>2. CASE k # Len(r.trailers)
    <3>1. k + 1 \in 1 .. Len(r.trailers) /\ (k + 1) - 1 = k
      BY <1>1, <2>2
    <3>2. TrailerEnd(r, (k + 1) - 1) = r.trailers[k + 1].at - 2 /\ r.trailers[k + 1].at \in Nat
      BY <1>2, <1>6, <3>1
    <3>3. TrailerEnd(r, k) = r.trailers[k + 1].at - 2
      BY <3>1, <3>2
    <3> QED BY <3>2, <3>3
  <2> QED BY <2>1, <2>2
<1>8. r.chunks[Len(r.chunks)].end \in Nat /\ r.chunks[Len(r.chunks)].end < r.size
  <2>1. Len(r.chunks) \in 1 .. Len(r.chunks)
    BY ChunkPlaces
  <2> QED BY <2>1, ChunkPlaces
<1>9. TrailerEnd(r, 0) = r.chunks[Len(r.chunks)].end
  <2>1. TrailerEnd(r, 0) + 2 = r.chunks[Len(r.chunks)].end + 2
    BY <1>3 DEF TrailersAt
  <2>2. TrailerEnd(r, 0) \in Int
    BY <1>1, <1>7
  <2> QED BY <1>8, <2>1, <2>2
<1>10. \A k \in 1 .. Len(r.trailers) :
         /\ r.trailers[k].at < r.trailers[k].colon /\ r.trailers[k].colon < TrailerEnd(r, k)
         /\ TrailerEnd(r, k) < r.size - 1
  BY <1>4 DEF Trailer
<1>11. \A k \in 1 .. Len(r.trailers) : r.trailers[k].at = TrailerEnd(r, k - 1) + 2
  BY <1>2, <1>6
<1>12. \A k \in 1 .. Len(r.trailers) : TrailerEnd(r, k) \in Nat
  BY <1>2, <1>7, <1>10
<1>13. TrailerEnd(r, 0) < r.size - 1
  <2>1. CASE Len(r.trailers) = 0
    BY <1>1, <1>5, <2>1
  <2>2. CASE Len(r.trailers) > 0
    <3>1. 1 \in 1 .. Len(r.trailers) /\ 1 - 1 = 0
      BY <1>1, <2>2
    <3>2. TrailerEnd(r, 0) = r.trailers[1].at - 2
      BY <1>6, <3>1
    <3> QED BY <1>1, <1>2, <1>10, <1>12, <3>1, <3>2
  <2> QED BY <1>1, <2>1, <2>2
<1>14. \A k \in 0 .. Len(r.trailers) : TrailerEnd(r, k) \in Nat /\ TrailerEnd(r, k) < r.size - 1
  <2>1. \A k \in 0 .. Len(r.trailers) : k = 0 \/ k \in 1 .. Len(r.trailers)
    BY <1>1
  <2> QED BY <1>8, <1>9, <1>10, <1>12, <1>13, <2>1
<1> QED BY <1>1, <1>2, <1>3, <1>4, <1>5, <1>9, <1>10, <1>11, <1>14

LEMMA SizeLineGoes ==
  ASSUME NEW r, Proper(r), InChunks(r), NEW p \in Parsers, NEW n \in Nat,
         NEW k \in 1 .. Len(r.chunks), p.status = r.status,
         InSizeLine(r, p, n, k), p.state # "ChunkSizeNewLine"
  PROVE  Goes(r, p, n)
<1> DEFINE b == r.bytes[n + 1]
           chunk == r.chunks[k]
           str == SubSeq(r.bytes, chunk.at, chunk.ext - 1)
<1>1. /\ chunk.at \in Nat /\ chunk.ext \in Nat /\ chunk.end \in Nat
      /\ 1 <= chunk.at /\ chunk.at < chunk.ext /\ chunk.ext <= chunk.end
      /\ chunk.end < Len(r.bytes) /\ Len(r.bytes) \in Nat /\ r.bytes \in Seq(Bytes)
      /\ \A m \in chunk.ext .. chunk.end : r.bytes[m] \in Bytes
  <2>1. /\ chunk.at \in Nat /\ chunk.ext \in Nat /\ chunk.end \in Nat
        /\ 1 <= chunk.at /\ chunk.at < chunk.ext /\ chunk.ext <= chunk.end /\ chunk.end < r.size
    BY ChunkPlaces
  <2>2. /\ r.size <= Len(r.bytes) /\ r.size \in Nat /\ Len(r.bytes) \in Nat
        /\ r.bytes \in Seq(Bytes) /\ \A m \in 1 .. r.size : r.bytes[m] \in Bytes
    BY ProperBytes
  <2>3. \A m \in chunk.ext .. chunk.end : m \in 1 .. r.size
    BY <2>1, <2>2
  <2> QED BY <2>1, <2>2, <2>3
<1>2. /\ Are(r, chunk.at, chunk.ext - 1, DigitsOf(16))
      /\ chunk.ext < chunk.end => Are(r, chunk.ext, chunk.ext, {"semicolon"})
      /\ Are(r, chunk.ext + 1, chunk.end - 1, Alnum \union {"sp", "equals"})
      /\ \A m, l \in chunk.ext + 1 .. chunk.end - 1 :
           r.bytes[m].is = "equals" /\ r.bytes[l].is = "equals" => m = l
      /\ LineEnd(r, chunk.end)
  BY ChunkPlaces DEF SizeLine
<1>3. p.content = SubSeq(r.content, 1, chunk.from)
  BY DEF InSizeLine
<1>4. ASSUME NEW next, Went(p, b, next).status = p.status,
             InSizeLine(r, Went(p, b, next), n + 1, k)
      PROVE  InStep(r, Went(p, b, next), n + 1)
  BY <1>4 DEF InStep
<1> HIDE DEF chunk
<1>5. ASSUME NEW next, NEW classes, Only(p.state, classes, next), b.is \in classes,
             next \notin {"HeaderLws", "StatusTextStart"}, Note(p, b, next) = p,
             InSizeLine(r, Went(p, b, next), n + 1, k)
      PROVE  Goes(r, p, n)
  <2>1. Went(p, b, next).status = p.status
    BY <1>5, NotNoted
  <2> QED BY <1>4, <1>5, <2>1, Going
<1>6. CASE /\ p.state = "ChunkSize" /\ n \in chunk.at - 1 .. chunk.ext - 1
           /\ p.chunkSizeStr = SubSeq(r.bytes, chunk.at, n)
  <2>1. CASE n + 1 < chunk.ext
    <3>1. Only(p.state, Alnum, "ChunkSize")
      BY <1>6, OnlyMove
    <3>2. n + 1 \in chunk.at .. chunk.ext - 1
      BY <1>1, <1>6, <2>1
    <3>3. b.is \in Alnum
      BY <1>2, <3>2 DEF Are, DigitsOf, Alnum, Alpha
    <3>4. Note(p, b, "ChunkSize") = [p EXCEPT !.chunkSizeStr = Append(@, b)]
      BY <1>6 DEF Note
    <3> DEFINE q == Went(p, b, "ChunkSize")
    <3>5. /\ q.state = "ChunkSize" /\ q.status = p.status /\ q.content = p.content
          /\ q.chunkSizeStr = Append(p.chunkSizeStr, b)
      BY <3>4 DEF Went, Parsers
    <3>6. Append(SubSeq(r.bytes, chunk.at, n), r.bytes[n + 1]) = SubSeq(r.bytes, chunk.at, n + 1)
      <4>1. 1 <= chunk.at /\ chunk.at <= n + 1 /\ n + 1 <= Len(r.bytes)
        BY <1>1, <3>2
      <4> QED BY <1>1, <4>1, OneMore
    <3>7. q.chunkSizeStr = SubSeq(r.bytes, chunk.at, n + 1) /\ n + 1 \in chunk.at - 1 .. chunk.ext - 1
      BY <1>1, <1>6, <3>2, <3>5, <3>6
    <3> HIDE DEF q
    <3>8. InSizeLine(r, q, n + 1, k)
      BY <1>3, <3>5, <3>7 DEF InSizeLine, chunk
    <3> QED BY <1>4, <3>1, <3>3, <3>5, <3>8, Going DEF q
  <2>2. CASE n + 1 = chunk.ext /\ chunk.ext < chunk.end
    <3>1. Only(p.state, {"semicolon"}, "ChunkExtensionName")
      BY <1>6, OnlyMove
    <3>2. b.is \in {"semicolon"}
      BY <1>1, <1>2, <2>2 DEF Are
    <3>3. Note(p, b, "ChunkExtensionName") = p
      BY <1>6 DEF Note
    <3> DEFINE q == Went(p, b, "ChunkExtensionName")
    <3>4. /\ q.state = "ChunkExtensionName" /\ q.content = p.content
          /\ q.chunkSizeStr = p.chunkSizeStr
      BY <3>3, NotNoted
    <3>5. n = chunk.ext - 1 /\ n + 1 \in chunk.ext .. chunk.end - 1
      BY <1>1, <1>6, <2>2
    <3>6. Are(r, chunk.ext, n + 1, Classes \ {"equals"})
      <4>1. \A m \in chunk.ext .. n + 1 : m = n + 1
        BY <1>1, <2>2
      <4>2. "semicolon" \in Classes \ {"equals"}
        BY DEF Classes, Chars, Printable
      <4> QED BY <3>2, <4>1, <4>2 DEF Are
    <3> HIDE DEF q
    <3>7. InSizeLine(r, q, n + 1, k)
      BY <1>3, <1>6, <3>4, <3>5, <3>6 DEF InSizeLine, chunk
    <3> QED BY <1>5, <3>1, <3>2, <3>3, <3>7 DEF q
  <2>3. CASE n + 1 = chunk.ext /\ chunk.ext = chunk.end
    <3>1. Only(p.state, {"cr"}, "ChunkSizeNewLine")
      BY <1>6, OnlyMove
    <3>2. b.is \in {"cr"}
      BY <1>2, <2>3 DEF LineEnd
    <3>3. Note(p, b, "ChunkSizeNewLine") = p
      BY <1>6 DEF Note
    <3> DEFINE q == Went(p, b, "ChunkSizeNewLine")
    <3>4. /\ q.state = "ChunkSizeNewLine" /\ q.content = p.content
          /\ q.chunkSizeStr = p.chunkSizeStr
      BY <3>3, NotNoted
    <3>5. n = chunk.ext - 1
      BY <1>1, <1>6, <2>3
    <3> HIDE DEF q
    <3>6. InSizeLine(r, q, n + 1, k)
      BY <1>3, <1>6, <2>3, <3>4, <3>5 DEF InSizeLine, chunk
    <3> QED BY <1>5, <3>1, <3>2, <3>3, <3>6 DEF q
  <2> QED BY <1>1, <1>6, <2>1, <2>2, <2>3
<1>7. CASE /\ p.state \in {"ChunkExtensionName", "ChunkExtensionValue"}
           /\ p.chunkSizeStr = str /\ n \in chunk.ext .. chunk.end - 1
           /\ (p.state = "ChunkExtensionName") <=> Are(r, chunk.ext, n, Classes \ {"equals"})
  <2>1. CASE n + 1 = chunk.end
    <3>1. Only(p.state, {"cr"}, "ChunkSizeNewLine")
      BY <1>7, OnlyMove
    <3>2. b.is \in {"cr"}
      BY <1>2, <2>1 DEF LineEnd
    <3>3. Note(p, b, "ChunkSizeNewLine") = p
      BY <1>7 DEF Note
    <3> DEFINE q == Went(p, b, "ChunkSizeNewLine")
    <3>4. /\ q.state = "ChunkSizeNewLine" /\ q.content = p.content
          /\ q.chunkSizeStr = p.chunkSizeStr
      BY <3>3, NotNoted
    <3> HIDE DEF q
    <3>5. InSizeLine(r, q, n + 1, k)
      BY <1>3, <1>7, <2>1, <3>4 DEF InSizeLine, chunk
    <3> QED BY <1>5, <3>1, <3>2, <3>3, <3>5 DEF q
  <2>2. CASE n + 1 < chunk.end
    <3>1. n + 1 \in chunk.ext + 1 .. chunk.end - 1 /\ n + 1 \in chunk.ext .. chunk.end - 1
      BY <1>1, <1>7, <2>2
    <3>2. b.is \in Alnum \union {"sp", "equals"} /\ "equals" \notin Alnum
      BY <1>2, <3>1 DEF Are, Alnum, Alpha
    <3>3. Alnum \union {"sp"} \subseteq Classes \ {"equals"}
      BY DEF Classes, Chars, Printable, InName, Alnum, Alpha
    <3>4. \A m \in chunk.ext .. n + 1 : m \in chunk.ext .. n \/ m = n + 1
      BY <1>1, <1>7
    <3>5. Are(r, chunk.ext, n + 1, Classes \ {"equals"})
            <=> Are(r, chunk.ext, n, Classes \ {"equals"}) /\ b.is # "equals"
      <4>1. n + 1 \in chunk.ext .. n + 1 /\ chunk.ext .. n \subseteq chunk.ext .. n + 1
        BY <1>1, <1>7
      <4> QED BY <3>2, <3>3, <3>4, <4>1 DEF Are
    <3>6. CASE b.is = "equals"
      <4>1. p.state = "ChunkExtensionName"
        <5> SUFFICES ASSUME ~Are(r, chunk.ext, n, Classes \ {"equals"}) PROVE FALSE
          BY <1>7
        <5>1. PICK m \in chunk.ext .. n : r.bytes[m].is \notin Classes \ {"equals"}
          BY DEF Are
        <5>2. m \in chunk.ext .. chunk.end
          BY <1>1, <1>7, <5>1
        <5>3. r.bytes[m].is = "equals"
          <6>1. r.bytes[m] \in Bytes
            BY <1>1, <5>2
          <6> QED BY <5>1, <6>1 DEF Bytes
        <5>4. m # chunk.ext
          BY <1>1, <1>2, <2>2, <1>7, <5>3 DEF Are
        <5>5. m \in chunk.ext + 1 .. chunk.end - 1 /\ m # n + 1
          BY <1>1, <1>7, <5>1, <5>4
        <5> QED BY <1>2, <3>1, <3>6, <5>3, <5>5
      <4>2. Only(p.state, {"equals"}, "ChunkExtensionValue")
        BY <4>1, OnlyMove
      <4>3. Note(p, b, "ChunkExtensionValue") = p
        BY <4>1 DEF Note
      <4> DEFINE q == Went(p, b, "ChunkExtensionValue")
      <4>4. /\ q.state = "ChunkExtensionValue" /\ q.content = p.content
            /\ q.chunkSizeStr = p.chunkSizeStr
        BY <4>3, NotNoted
      <4> HIDE DEF q
      <4>5. ~Are(r, chunk.ext, n + 1, Classes \ {"equals"})
        BY <3>5, <3>6
      <4>6. InSizeLine(r, q, n + 1, k)
        BY <1>3, <1>7, <3>1, <4>4, <4>5 DEF InSizeLine, chunk
      <4> QED BY <1>5, <3>6, <4>2, <4>3, <4>6 DEF q
    <3>7. CASE b.is # "equals"
      <4>1. Only(p.state, Alnum \union {"sp"}, p.state)
        BY <1>7, OnlyMove
      <4>2. b.is \in Alnum \union {"sp"}
        BY <3>2, <3>7
      <4>3. Note(p, b, p.state) = p
        BY <1>7 DEF Note
      <4> DEFINE q == Went(p, b, p.state)
      <4>4. /\ q.state = p.state /\ q.content = p.content
            /\ q.chunkSizeStr = p.chunkSizeStr
        BY <4>3, NotNoted
      <4> HIDE DEF q
      <4>5. Are(r, chunk.ext, n + 1, Classes \ {"equals"}) <=> p.state = "ChunkExtensionName"
        BY <1>7, <3>5, <3>7
      <4>6. InSizeLine(r, q, n + 1, k)
        BY <1>3, <1>7, <3>1, <4>4, <4>5 DEF InSizeLine, chunk
      <4> QED BY <1>5, <1>7, <4>1, <4>2, <4>3, <4>6 DEF q
    <3> QED BY <3>6, <3>7
  <2> QED BY <1>1, <1>7, <2>1, <2>2
<1> QED BY <1>6, <1>7 DEF InSizeLine, chunk

LEMMA ChunkEndGoes ==
  ASSUME NEW r, Proper(r), InChunks(r), NEW p \in Parsers, NEW n \in Nat,
         NEW k \in 1 .. Len(r.chunks), p.status = r.status,
         InChunkContent(r, p, n, k), p.state # "ChunkData"
  PROVE  Goes(r, p, n)
<1> DEFINE b == r.bytes[n + 1]
           chunk == r.chunks[k]
           len == ChunkLen(r, k)
<1>1. k \in 1 .. Len(r.chunks) - 1
  BY ChunkPlaces DEF InChunkContent
<1>2. /\ chunk.end \in Nat /\ len \in Nat /\ LineEnd(r, chunk.end + 2 + len)
      /\ k + 1 \in 1 .. Len(r.chunks) /\ r.chunks[k + 1].at = chunk.end + 4 + len
      /\ k \in 1 .. Len(r.chunks)
  BY <1>1, NextChunk, ChunkPlaces
<1>3. p.chunkSizeStr = <<>> /\ p.content = SubSeq(r.content, 1, r.chunks[k + 1].from)
  BY DEF InChunkContent
<1> HIDE DEF chunk, len
<1>4. CASE p.state = "ChunkDataNewLine_1" /\ n = chunk.end + 1 + len
  <2>1. Only(p.state, {"cr"}, "ChunkDataNewLine_2")
    BY <1>4, OnlyMove
  <2>2. n + 1 = chunk.end + 2 + len
    BY <1>2, <1>4
  <2>3. b.is \in {"cr"}
    BY <1>2, <2>2 DEF LineEnd
  <2>4. Note(p, b, "ChunkDataNewLine_2") = p
    BY <1>4 DEF Note
  <2> DEFINE q == Went(p, b, "ChunkDataNewLine_2")
  <2>5. /\ q.state = "ChunkDataNewLine_2" /\ q.content = p.content /\ q.status = p.status
        /\ q.chunkSizeStr = p.chunkSizeStr
    BY <2>4, NotNoted
  <2> HIDE DEF q
  <2>6. InChunkContent(r, q, n + 1, k)
    <3>1. k < Len(r.chunks)
      BY DEF InChunkContent
    <3> QED BY <1>3, <2>2, <2>5, <3>1 DEF InChunkContent, chunk, len
  <2>7. InStep(r, q, n + 1)
    BY <1>2, <2>5, <2>6 DEF InStep
  <2> QED BY <2>1, <2>3, <2>7, Going DEF q
<1>5. CASE p.state = "ChunkDataNewLine_2" /\ n = chunk.end + 2 + len
  <2>1. Only(p.state, {"lf"}, "ChunkSize")
    BY <1>5, OnlyMove
  <2>2. n + 1 = (chunk.end + 2 + len) + 1 /\ n + 1 = r.chunks[k + 1].at - 1
    BY <1>2, <1>5
  <2>3. b.is \in {"lf"}
    BY <1>2, <2>2 DEF LineEnd
  <2>4. Note(p, b, "ChunkSize") = p
    BY <1>5 DEF Note
  <2> DEFINE q == Went(p, b, "ChunkSize")
  <2>5. /\ q.state = "ChunkSize" /\ q.content = p.content /\ q.status = p.status
        /\ q.chunkSizeStr = p.chunkSizeStr
    BY <2>4, NotNoted
  <2> HIDE DEF q
  <2>6. InSizeLine(r, q, n + 1, k + 1)
    <3> DEFINE after == r.chunks[k + 1]
    <3>1. after.at \in Nat /\ after.ext \in Nat /\ after.at < after.ext
      BY <1>2, ChunkPlaces
    <3>2. n + 1 \in after.at - 1 .. after.ext - 1 /\ n + 1 < after.at
      <4>1. n + 1 = after.at - 1
        BY <2>2
      <4> HIDE DEF after
      <4> QED BY <3>1, <4>1
    <3>3. SubSeq(r.bytes, after.at, n + 1) = <<>>
      BY <3>1, <3>2, SubSeqEmpty
    <3> QED BY <1>3, <2>5, <3>2, <3>3 DEF InSizeLine
  <2>7. InStep(r, q, n + 1)
    BY <1>2, <2>5, <2>6 DEF InStep
  <2> QED BY <2>1, <2>3, <2>7, Going DEF q
<1> QED BY <1>4, <1>5 DEF InChunkContent, chunk, len

LEMMA TrailersGoes ==
  ASSUME NEW r, Proper(r), InChunks(r), NEW p \in Parsers, NEW n \in Nat,
         p.status = r.status, InTrailers(r, p, n),
         p.state \notin {"ChunkSizeNewLine", "ChunkSizeNewLine_3"}
  PROVE  Goes(r, p, n)
<1> DEFINE b == r.bytes[n + 1]
<1>1. p.chunkSizeStr = <<>> /\ p.content = r.content
  BY DEF InTrailers
<1>2. ASSUME NEW classes, NEW next, Only(p.state, classes, next), b.is \in classes,
             Note(p, b, next) = p, next \notin {"HeaderLws", "StatusTextStart"},
             \A q : /\ q.state = next /\ q.chunkSizeStr = <<>> /\ q.content = r.content
                    => InTrailers(r, q, n + 1)
      PROVE  Goes(r, p, n)
  <2> DEFINE q == Went(p, b, next)
  <2>1. /\ q.state = next /\ q.content = p.content /\ q.status = p.status
        /\ q.chunkSizeStr = p.chunkSizeStr
    BY <1>2, NotNoted
  <2> HIDE DEF q
  <2>2. InTrailers(r, q, n + 1)
    BY <1>1, <1>2, <2>1
  <2>3. InStep(r, q, n + 1)
    BY <2>1, <2>2 DEF InStep
  <2> QED BY <1>2, <2>3, Going DEF q
<1>3. ASSUME NEW k \in 0 .. Len(r.trailers), p.state = "ChunkSizeNewLine_2",
             n = TrailerEnd(r, k) + 1
      PROVE  Goes(r, p, n)
  <2>1. TrailerEnd(r, k) \in Nat /\ Len(r.trailers) \in Nat /\ r.size \in Nat
    BY TrailerPlaces
  <2>2. CASE k = Len(r.trailers)
    <3>1. n + 1 = r.size - 1
      BY <1>3, <2>1, <2>2, TrailerPlaces
    <3>2. Only(p.state, {"cr"}, "ChunkSizeNewLine_3")
      BY <1>3, OnlyMove
    <3>3. b.is \in {"cr"}
      BY <3>1, TrailerPlaces DEF LineEnd
    <3>4. Note(p, b, "ChunkSizeNewLine_3") = p
      BY <1>3 DEF Note
    <3> QED BY <1>2, <3>1, <3>2, <3>3, <3>4 DEF InTrailers
  <2>3. CASE k < Len(r.trailers)
    <3> DEFINE line == r.trailers[k + 1]
    <3>1. k + 1 \in 1 .. Len(r.trailers) /\ (k + 1) - 1 = k /\ k + 1 \in DOMAIN r.trailers
      BY <2>1, <2>3, LineTypes DEF Proper
    <3>2. /\ line.at \in Nat /\ line.colon \in Nat /\ line.at = TrailerEnd(r, k) + 2
          /\ line.at < line.colon /\ Trailer(r, k + 1)
      BY <3>1, TrailerPlaces
    <3>3. n + 1 = line.at /\ n + 1 \in line.at .. line.colon - 1
      BY <1>3, <2>1, <3>2
    <3>4. Only(p.state, Alpha, "ChunkTrailerName")
      BY <1>3, OnlyMove
    <3>5. b.is \in Alpha
      BY <3>2, <3>3 DEF Trailer, Are
    <3>6. Note(p, b, "ChunkTrailerName") = p
      BY <1>3 DEF Note
    <3>7. \A q : /\ q.state = "ChunkTrailerName" /\ q.chunkSizeStr = <<>> /\ q.content = r.content
                 => InTrailers(r, q, n + 1)
      BY <3>1, <3>3 DEF InTrailers
    <3> QED BY <1>2, <3>4, <3>5, <3>6, <3>7
  <2> QED BY <2>1, <2>2, <2>3
<1>4. ASSUME NEW k \in DOMAIN r.trailers, p.state = "ChunkTrailerName",
             n \in r.trailers[k].at .. r.trailers[k].colon - 1
      PROVE  Goes(r, p, n)
  <2> DEFINE line == r.trailers[k]
  <2>1. /\ k \in 1 .. Len(r.trailers)
        /\ line.at \in Nat /\ line.colon \in Nat /\ TrailerEnd(r, k) \in Nat
        /\ line.colon < TrailerEnd(r, k) /\ Trailer(r, k)
    <3>1. k \in 1 .. Len(r.trailers) /\ k \in 0 .. Len(r.trailers)
      BY LineTypes DEF Proper
    <3> QED BY <3>1, TrailerPlaces
  <2>2. CASE n + 1 < line.colon
    <3>1. n + 1 \in line.at .. line.colon - 1
      BY <1>4, <2>1, <2>2
    <3>2. Only(p.state, Alnum, "ChunkTrailerName")
      BY <1>4, OnlyMove
    <3>3. b.is \in Alnum
      BY <2>1, <3>1 DEF Trailer, Are
    <3>4. Note(p, b, "ChunkTrailerName") = p
      BY <1>4 DEF Note
    <3>5. \A q : /\ q.state = "ChunkTrailerName" /\ q.chunkSizeStr = <<>> /\ q.content = r.content
                 => InTrailers(r, q, n + 1)
      BY <3>1 DEF InTrailers
    <3> QED BY <1>2, <3>2, <3>3, <3>4, <3>5
  <2>3. CASE n + 1 = line.colon
    <3>1. n + 1 \in line.colon .. TrailerEnd(r, k) - 1
      BY <2>1, <2>3
    <3>2. Only(p.state, {"colon"}, "ChunkTrailerValue")
      BY <1>4, OnlyMove
    <3>3. b.is \in {"colon"}
      BY <2>1, <2>3 DEF Trailer, Are
    <3>4. Note(p, b, "ChunkTrailerValue") = p
      BY <1>4 DEF Note
    <3>5. \A q : /\ q.state = "ChunkTrailerValue" /\ q.chunkSizeStr = <<>> /\ q.content = r.content
                 => InTrailers(r, q, n + 1)
      BY <3>1 DEF InTrailers
    <3> QED BY <1>2, <3>2, <3>3, <3>4, <3>5
  <2> QED BY <1>4, <2>1, <2>2, <2>3
<1>5. ASSUME NEW k \in DOMAIN r.trailers, p.state = "ChunkTrailerValue",
             n \in r.trailers[k].colon .. TrailerEnd(r, k) - 1
      PROVE  Goes(r, p, n)
  <2> DEFINE line == r.trailers[k]
  <2>1. line.colon \in Nat /\ TrailerEnd(r, k) \in Nat /\ Trailer(r, k)
    <3>1. k \in 1 .. Len(r.trailers) /\ k \in 0 .. Len(r.trailers)
      BY LineTypes DEF Proper
    <3> QED BY <3>1, TrailerPlaces
  <2>2. CASE n + 1 < TrailerEnd(r, k)
    <3>1. n + 1 \in line.colon + 1 .. TrailerEnd(r, k) - 1
          /\ n + 1 \in line.colon .. TrailerEnd(r, k) - 1
      BY <1>5, <2>1, <2>2
    <3>2. Only(p.state, Alnum \union {"sp"}, "ChunkTrailerValue")
      BY <1>5, OnlyMove
    <3>3. b.is \in Alnum \union {"sp"}
      BY <2>1, <3>1 DEF Trailer, Are
    <3>4. Note(p, b, "ChunkTrailerValue") = p
      BY <1>5 DEF Note
    <3>5. \A q : /\ q.state = "ChunkTrailerValue" /\ q.chunkSizeStr = <<>> /\ q.content = r.content
                 => InTrailers(r, q, n + 1)
      BY <3>1 DEF InTrailers
    <3> QED BY <1>2, <3>2, <3>3, <3>4, <3>5
  <2>3. CASE n + 1 = TrailerEnd(r, k)
    <3>1. Only(p.state, {"cr"}, "ChunkSizeNewLine")
      BY <1>5, OnlyMove
    <3>2. b.is \in {"cr"}
      BY <2>1, <2>3 DEF Trailer, LineEnd
    <3>3. Note(p, b, "ChunkSizeNewLine") = p
      BY <1>5 DEF Note
    <3>4. \A q : /\ q.state = "ChunkSizeNewLine" /\ q.chunkSizeStr = <<>> /\ q.content = r.content
                 => InTrailers(r, q, n + 1)
      BY <2>3 DEF InTrailers
    <3> QED BY <1>2, <3>1, <3>2, <3>3, <3>4
  <2> QED BY <1>5, <2>1, <2>2, <2>3
<1> QED BY <1>3, <1>4, <1>5 DEF InTrailers

\* A parser that has not looked at all of the response is in a state to go on.
LEMMA StepGoes ==
  ASSUME NEW r, Proper(r), NEW p \in Parsers, NEW n \in Nat, InStep(r, p, n),
         p.state \notin Counting
  PROVE  Goes(r, p, n)
<1> USE DEF Counting
<1>1. CASE InStatusLine(r, p, n)
  BY <1>1, StatusLineGoes
<1>2. CASE \E k \in 0 .. Len(r.headers) : BetweenHeaders(r, p, n, k)
  BY <1>2, BetweenHeadersGoes
<1>3. CASE \E k \in 1 .. Len(r.headers) : InNewHeader(r, p, n, k) \/ InContinued(r, p, n, k)
  BY <1>3, InNewHeaderGoes, InContinuedGoes
<1>4. CASE InContent(r, p, n)
  BY <1>4 DEF InContent
<1>5. CASE /\ InChunks(r) /\ p.status = r.status
           /\ \E k \in 1 .. Len(r.chunks) : InSizeLine(r, p, n, k) \/ InChunkContent(r, p, n, k)
  BY <1>5, SizeLineGoes, ChunkEndGoes
<1>6. CASE InChunks(r) /\ p.status = r.status /\ InTrailers(r, p, n)
  BY <1>6, TrailersGoes
<1> QED BY <1>1, <1>2, <1>3, <1>4, <1>5, <1>6 DEF InStep

\* The parser looks at the next byte of a proper response.
Looks ==
  /\ Proper(response) /\ ParserTypeOK
  /\ At \in Nat /\ At < response.size
  /\ InStep(response, parser, At)
  /\ buf # <<>> /\ Head(buf) = response.bytes[At + 1]
  /\ ParserNext

\* It gets on in step, or completes the response with its last byte.
GetsOn ==
  \/ /\ outcome' = "parsing" /\ buf' = Tail(buf)
     /\ InStep(response, parser', At + 1)
  \/ /\ outcome' = "ParsingCompleted" /\ buf' = <<>>
     /\ At + 1 = response.size
     /\ IsOver(response, parser', "ParsingCompleted")

LEMMA GoesOn ==
  ASSUME Looks, parser.state \notin Counting
  PROVE  GetsOn
<1> DEFINE b == Head(buf)
<1>1. parser \in Parsers
  BY DEF Looks, ParserTypeOK
<1>2. PICK classes, next :
        /\ Only(parser.state, classes, next) /\ b.is \in classes
        /\ next = "HeaderLws" => parser.name # <<>>
        /\ next = "StatusTextStart" => parser.status \in 100 .. 999
        /\ InStep(response, Went(parser, b, next), At + 1)
  BY <1>1, StepGoes DEF Looks, Goes
<1>3. parser.state \in DOMAIN Moves /\ \A m : Leads(parser.state, b.is, m) <=> m = next
  BY <1>2 DEF Only
<1>4. Allowed(next)
  BY <1>2 DEF Allowed
<1>5. NextStates = {next}
  <2>1. \A m : m \in NextStates <=> Leads(parser.state, b.is, m) /\ Allowed(m)
    BY DEF NextStates, Leads
  <2> QED BY <1>3, <1>4, <2>1
<1>6. parser.state \notin {"ExpectingNewline_3", "Post", "ChunkSizeNewLine",
                           "ChunkSizeNewLine_3", "ChunkData"}
  BY DEF Counting
<1>7. ~Fail
  BY <1>5, <1>6 DEF Fail, InState
<1>8. Scan
  BY <1>6, <1>7 DEF Looks, ParserNext, EndOfHeaders, Post, ChunkSizeNewLine, ChunkData,
                    EndOfChunks, EndOfPiece, InState
<1>9. /\ parser' = Went(parser, b, next) /\ buf' = Tail(buf)
      /\ outcome' = "parsing"
  BY <1>5, <1>8 DEF Scan, GoOn, Went, InState
<1> QED BY <1>2, <1>9 DEF GetsOn

LEMMA EndOfHeadersGetsOn ==
  ASSUME Looks, NEW k \in 0 .. Len(response.headers),
         BetweenHeaders(response, parser, At, k), parser.state = "ExpectingNewline_3"
  PROVE  GetsOn
<1> DEFINE r == response
<1>1. At = r.blank /\ k = Len(r.headers) /\ Known(r, parser, k)
  BY DEF BetweenHeaders
<1>2. Head(buf).is = "lf"
  BY <1>1, HeaderPlaces DEF Looks, LineEnd
<1>3. EndOfHeaders
  <2>1. parser.state \notin DOMAIN Moves
    BY MovesFrom
  <2> QED BY <1>2, <2>1 DEF Looks, ParserNext, Scan, Fail, Post, ChunkSizeNewLine, ChunkData,
                            EndOfChunks, EndOfPiece, InState
<1>4. /\ k \in Nat /\ DOMAIN r.headers = 1 .. k /\ Proper(r) /\ parser \in Parsers
      /\ r.blank \in Nat /\ r.size \in Nat /\ Len(r.content) \in Nat
  BY <1>1, LineTypes, ProperBytes DEF Looks, Proper, ResponseTypeOK, ParserTypeOK
<1>5. outcome = "parsing"
  BY <1>3 DEF EndOfHeaders, InState
<1>6. CASE parser.chunked
  <2>1. InChunks(r)
    <3>1. \E j \in 1 .. k : SaysChunked(r, j)
      BY <1>1, <1>6 DEF Known
    <3> QED BY <1>4, <3>1 DEF Proper, InOnePiece
  <2>2. /\ parser' = [parser EXCEPT !.state = "ChunkSize"]
        /\ buf' = Tail(buf) /\ outcome' = "parsing"
    BY <1>3, <1>5, <1>6 DEF EndOfHeaders, GoOn
  <2>3. /\ parser'.state = "ChunkSize" /\ parser'.chunkSizeStr = <<>>
        /\ parser'.content = <<>> /\ parser'.status = r.status
    BY <1>1, <1>4, <2>2 DEF Known, Parsers
  <2>4. /\ 1 \in 1 .. Len(r.chunks) /\ r.chunks[1].at = r.blank + 2 /\ r.chunks[1].from = 0
        /\ r.chunks[1].ext \in Nat /\ r.chunks[1].at < r.chunks[1].ext
    BY <1>4, <2>1, ChunkPlaces
  <2>5. /\ SubSeq(r.bytes, r.chunks[1].at, At + 1) = <<>> /\ SubSeq(r.content, 1, 0) = <<>>
        /\ At + 1 \in r.chunks[1].at - 1 .. r.chunks[1].ext - 1
    <3>1. At + 1 = r.blank + 1 /\ At + 1 \in Int /\ r.chunks[1].at \in Int
      BY <1>1, <1>4, <2>4
    <3>2. SubSeq(r.content, 1, 0) = <<>>
      BY SubSeqEmpty
    <3> DEFINE at == r.chunks[1].at
               ext == r.chunks[1].ext
    <3>3. /\ at \in Int /\ ext \in Nat /\ at < ext /\ at = r.blank + 2
          /\ At + 1 = r.blank + 1 /\ At + 1 \in Int /\ r.blank \in Nat
      BY <1>4, <2>4, <3>1
    <3> HIDE DEF at, ext
    <3>4. At + 1 \in at - 1 .. ext - 1 /\ At + 1 < at
      BY <3>3
    <3>5. SubSeq(r.bytes, at, At + 1) = <<>>
      BY <3>3, <3>4, SubSeqEmpty
    <3> QED BY <3>2, <3>4, <3>5 DEF at, ext
  <2>6. InSizeLine(r, parser', At + 1, 1)
    BY <2>3, <2>4, <2>5 DEF InSizeLine
  <2>7. InStep(r, parser', At + 1)
    BY <2>1, <2>3, <2>4, <2>6 DEF InStep
  <2> QED BY <2>2, <2>7 DEF GetsOn
<1>7. CASE ~parser.chunked
  <2>1. InOnePiece(r)
    <3>1. ~ \E j \in DOMAIN r.headers : SaysChunked(r, j)
      BY <1>1, <1>4, <1>7 DEF Known
    <3> QED BY <1>4, <3>1 DEF Proper, InChunks
  <2>2. parser.contentSize = Len(r.content) /\ parser.content = <<>> /\ parser.status = r.status
    <3>1. \E j \in 1 .. k : SaysLength(r, j)
      BY <1>4, <2>1 DEF InOnePiece
    <3> QED BY <1>1, <2>1, <3>1 DEF Known
  <2>3. r.size = r.blank + 1 + Len(r.content)
    BY <2>1 DEF InOnePiece
  <2>4. CASE parser.contentSize # 0
    <3>1. /\ parser' = [parser EXCEPT !.state = "Post"]
          /\ buf' = Tail(buf) /\ outcome' = "parsing"
      BY <1>3, <1>5, <1>7, <2>4 DEF EndOfHeaders, GoOn
    <3>2. /\ parser'.state = "Post" /\ parser'.content = <<>> /\ parser'.status = r.status
          /\ parser'.contentSize = Len(r.content)
      BY <1>4, <2>2, <3>1 DEF Parsers
    <3>3. At + 1 \in r.blank + 1 .. r.size - 1 /\ Len(r.content) = r.size - (At + 1)
      BY <1>1, <1>4, <2>2, <2>3, <2>4
    <3>4. SubSeq(r.bytes, BodyAt(r), At + 1) = <<>>
      <4>1. BodyAt(r) \in Int /\ At + 1 \in Int /\ At + 1 < BodyAt(r)
        BY <1>1, <1>4 DEF BodyAt
      <4> QED BY <4>1, SubSeqEmpty
    <3>5. InContent(r, parser', At + 1)
      BY <2>1, <3>2, <3>3, <3>4 DEF InContent
    <3> QED BY <3>1, <3>5 DEF GetsOn, InStep
  <2>5. CASE parser.contentSize = 0
    <3>1. parser' = parser /\ buf' = <<>> /\ outcome' = "ParsingCompleted"
      BY <1>3, <1>7, <2>5 DEF EndOfHeaders, Return
    <3>2. At + 1 = r.size
      BY <1>1, <1>4, <2>2, <2>3, <2>5
    <3>3. r.content = <<>>
      <4>1. r.content \in Seq(Bytes) /\ Len(r.content) = 0
        BY <1>4, <2>2, <2>5 DEF Proper, ResponseTypeOK
      <4> QED BY <4>1, EmptySeq
    <3>4. IsOver(r, parser', "ParsingCompleted")
      BY <1>7, <2>2, <2>5, <3>1, <3>3 DEF IsOver
    <3> QED BY <3>1, <3>2, <3>4 DEF GetsOn
  <2> QED BY <2>4, <2>5
<1> QED BY <1>6, <1>7

LEMMA PostGetsOn ==
  ASSUME Looks, InContent(response, parser, At)
  PROVE  GetsOn
<1> DEFINE r == response
           b == Head(buf)
           more == Append(parser.content, b)
           m == parser.contentSize - 1
           p == [parser EXCEPT !.contentSize = m, !.content = more]
<1>1. /\ parser \in Parsers /\ Proper(r) /\ buf # <<>>
      /\ r.bytes \in Seq(Bytes) /\ r.size <= Len(r.bytes) /\ r.size \in Nat /\ Len(r.bytes) \in Nat
      /\ r.blank \in Nat
  BY ProperBytes, HeaderPlaces DEF Looks, ParserTypeOK
<1>2. /\ parser.state = "Post" /\ InOnePiece(r) /\ parser.status = r.status
      /\ At \in r.blank + 1 .. r.size - 1
      /\ parser.content = SubSeq(r.bytes, BodyAt(r), At) /\ parser.contentSize = r.size - At
  BY DEF InContent
<1>3. Post
  <2>1. parser.state \notin DOMAIN Moves
    BY <1>2, MovesFrom
  <2> QED BY <1>1, <1>2, <2>1 DEF Looks, ParserNext, Scan, Fail, EndOfHeaders, ChunkSizeNewLine,
                                  ChunkData, EndOfChunks, EndOfPiece, InState
<1>4. /\ outcome = "parsing"
      /\ IF p.contentSize = 0 THEN Return(p, "ParsingCompleted") ELSE GoOn(p)
  BY <1>3 DEF Post, InState
<1>5. more = SubSeq(r.bytes, BodyAt(r), At + 1)
  <2>1. /\ BodyAt(r) \in Nat /\ 1 <= BodyAt(r) /\ BodyAt(r) <= At + 1 /\ At + 1 <= Len(r.bytes)
        /\ At \in Nat
    BY <1>1, <1>2 DEF BodyAt
  <2>2. Append(SubSeq(r.bytes, BodyAt(r), At), r.bytes[At + 1]) = SubSeq(r.bytes, BodyAt(r), At + 1)
    BY <1>1, <2>1, OneMore
  <2> QED BY <1>2, <2>2 DEF Looks
<1>6. m = r.size - (At + 1)
  BY <1>1, <1>2
<1> HIDE DEF more, m
<1>7. /\ p.contentSize = m /\ p.content = more /\ p.state = "Post" /\ p.status = r.status
  BY <1>1, <1>2 DEF Parsers
<1> HIDE DEF p
<1>8. CASE m = 0
  <2>1. At + 1 = r.size
    BY <1>1, <1>2, <1>6, <1>8
  <2>2. p.content = r.content
    BY <1>2, <1>5, <1>7, <2>1 DEF InOnePiece
  <2>3. parser' = p /\ outcome' = "ParsingCompleted" /\ buf' = <<>>
    BY <1>4, <1>7, <1>8 DEF Return
  <2>4. IsOver(r, parser', "ParsingCompleted")
    BY <1>7, <1>8, <2>2, <2>3 DEF IsOver
  <2> QED BY <2>1, <2>3, <2>4 DEF GetsOn
<1>9. CASE m # 0
  <2>1. parser' = p /\ outcome' = "parsing" /\ buf' = Tail(buf)
    BY <1>4, <1>7, <1>9 DEF GoOn
  <2>2. At + 1 \in r.blank + 1 .. r.size - 1
    BY <1>1, <1>2, <1>6, <1>9
  <2>3. InContent(r, parser', At + 1)
    BY <1>2, <1>5, <1>6, <1>7, <2>1, <2>2 DEF InContent
  <2> QED BY <2>1, <2>3 DEF GetsOn, InStep
<1> QED BY <1>8, <1>9

\* The number of no digits.
LEMMA NumberOfNothing == Number(16, <<>>) = 0
<1>1. Len(<<>>) = 0 /\ {n \in 1 .. 0 : <<>>[n].is \notin DigitsOf(16)} = {}
  OBVIOUS
<1> DEFINE Values(f) == [n \in 0 .. 0 |-> IF n = 0 THEN 0 ELSE 16 * f[n - 1] + <<>>[n].digit]
           value == CHOOSE f : f = Values(f)
<1>2. Number(16, <<>>) = value[0]
  BY <1>1 DEF Number, SelectInSeq
<1>3. [n \in 0 .. 0 |-> 0] = Values([n \in 0 .. 0 |-> 0])
  OBVIOUS
<1>4. value = Values(value)
  BY <1>3
<1> HIDE DEF value
<1>5. value[0] = 0
  BY <1>4
<1> QED BY <1>2, <1>5

LEMMA SizeGetsOn ==
  ASSUME Looks, parser.state = "ChunkSizeNewLine", InChunks(response),
         parser.status = response.status,
         Head(buf).is = "lf"
  PROVE  LET size == Number(16, parser.chunkSizeStr)
         IN  /\ outcome' = "parsing" /\ buf' = Tail(buf)
             /\ parser'.chunkSize = size /\ parser'.chunkSizeStr = <<>>
             /\ parser'.content = parser.content /\ parser'.status = response.status
             /\ parser'.state = IF size = 0 THEN "ChunkSizeNewLine_2" ELSE "ChunkData"
<1>1. parser.state \notin DOMAIN Moves
  BY MovesFrom
<1>2. ChunkSizeNewLine
  BY <1>1 DEF Looks, ParserNext, Scan, Fail, EndOfHeaders, Post, ChunkData, EndOfChunks,
              EndOfPiece, InState
<1> DEFINE size == Number(16, parser.chunkSizeStr)
           next == IF size = 0 THEN "ChunkSizeNewLine_2" ELSE "ChunkData"
<1>3. /\ parser' = [parser EXCEPT !.chunkSize = size, !.chunkSizeStr = <<>>, !.state = next]
      /\ buf' = Tail(buf) /\ outcome' = "parsing"
  BY <1>2 DEF ChunkSizeNewLine, GoOn, InState
<1>4. parser \in Parsers
  BY DEF Looks, ParserTypeOK
<1> HIDE DEF size, next
<1>5. /\ parser'.chunkSize = size /\ parser'.chunkSizeStr = <<>>
      /\ parser'.content = parser.content /\ parser'.status = response.status
      /\ parser'.state = next
  BY <1>3, <1>4 DEF Parsers
<1> QED BY <1>3, <1>5 DEF size, next

\* Counting the bytes of a chunk's content: e and f are where its size line ends
\* and where its content starts in that of the response, n is the byte last read.
LEMMA ChunkNumbers ==
  ASSUME NEW e \in Nat, NEW f \in Nat, NEW len \in Nat, NEW n \in e + 1 .. e + len
  PROVE  /\ n - e - 1 \in 0 .. len - 1
         /\ n - e - 1 + 1 \in 1 .. (e + 1 + len) - (e + 2) + 1
         /\ n - e - 1 + 1 \in 1 .. (f + len) - (f + 1) + 1
         /\ (e + 2) + (n - e - 1 + 1) - 1 = n + 1
         /\ (f + 1) + (n - e - 1 + 1) - 1 = f + (n - e - 1) + 1
         /\ f + (n - e - 1) \in Nat /\ f + (n - e - 1) + 1 <= f + len
         /\ f + (n - e - 1) + 1 = f + ((n + 1) - e - 1)
         /\ (e + 1 + len - n) - 1 = e + 1 + len - (n + 1)
         /\ (e + 1 + len - n) - 1 = 0 =>
              n + 1 = e + 1 + len /\ f + (n - e - 1) + 1 = f + len
         /\ (e + 1 + len - n) - 1 # 0 => n + 1 \in e + 1 .. e + len
OBVIOUS

\* The first byte of a chunk's content comes right after the size line.
LEMMA ChunkStarts ==
  ASSUME NEW e \in Nat, NEW f \in Nat, NEW len \in Nat, len > 0
  PROVE  /\ e + 1 \in e + 1 .. e + len
         /\ len = e + 1 + len - (e + 1)
         /\ f + ((e + 1) - e - 1) = f
OBVIOUS

\* Byte n + 1 of a response is the content's next one, where a chunk has it.
LEMMA ChunkByte ==
  ASSUME NEW r, Proper(r), InChunks(r), NEW k \in 1 .. Len(r.chunks) - 1,
         NEW n \in r.chunks[k].end + 1 .. r.chunks[k].end + ChunkLen(r, k)
  PROVE  /\ r.bytes[n + 1] = r.content[r.chunks[k].from + (n - r.chunks[k].end - 1) + 1]
         /\ Append(SubSeq(r.content, 1, r.chunks[k].from + (n - r.chunks[k].end - 1)), r.bytes[n + 1])
              = SubSeq(r.content, 1, r.chunks[k].from + (n - r.chunks[k].end - 1) + 1)
<1> DEFINE e == r.chunks[k].end
           f == r.chunks[k].from
           len == ChunkLen(r, k)
           s == SubSeq(r.bytes, e + 2, e + 1 + len)
           t == SubSeq(r.content, f + 1, f + len)
           bytes == r.bytes
           content == r.content
<1>1. e \in Nat /\ f \in Nat
  BY ChunkPlaces
<1>2. len \in Nat /\ len > 0 /\ e + 4 + len < r.size /\ f + len <= Len(content) /\ s = t
  <2>1. len \in Nat /\ len > 0 /\ e + 4 + len < r.size /\ r.chunks[k + 1].from = f + len
        /\ k \in 1 .. Len(r.chunks) /\ k + 1 \in 1 .. Len(r.chunks)
    BY NextChunk
  <2>2. f + len <= Len(content)
    BY <2>1, ChunkPlaces
  <2>3. s = t
    BY <2>1, ChunkPlaces DEF ChunkContent
  <2> QED BY <2>1, <2>2, <2>3
<1>3. content \in Seq(Bytes) /\ Len(content) \in Nat
  BY ChunkPlaces
<1>4. bytes \in Seq(Bytes) /\ r.size <= Len(bytes) /\ r.size \in Nat /\ Len(bytes) \in Nat
  BY ProperBytes
<1>5. n \in e + 1 .. e + len
  OBVIOUS
<1> DEFINE last == r.size
<1>6. last \in Nat /\ last <= Len(bytes) /\ e + 4 + len < last
  BY <1>2, <1>4
<1> HIDE DEF e, f, len, s, t, bytes, content, last
<1>7. s[n - e - 1 + 1] = bytes[n + 1]
  <2>1. \A i \in e + 2 .. e + 1 + len : bytes[i] \in Bytes
    <3>1. \A i \in 1 .. Len(bytes) : bytes[i] \in Bytes
      BY <1>4
    <3>2. \A i \in e + 2 .. e + 1 + len : i \in 1 .. Len(bytes)
      <4> USE <1>1, <1>6
      <4>1. len \in Nat /\ Len(bytes) \in Nat
        BY <1>2, <1>4
      <4> DEFINE m == Len(bytes)
      <4>2. m \in Nat /\ last <= m
        BY <4>1
      <4> HIDE DEF m
      <4>3. \A i \in e + 2 .. e + 1 + len : i \in 1 .. m
        BY <4>1, <4>2
      <4> QED BY <4>3 DEF m
    <3> QED BY <3>1, <3>2
  <2>2. e + 2 \in Int /\ e + 1 + len \in Int
    BY <1>1, <1>2
  <2>3. \A i \in 1 .. (e + 1 + len) - (e + 2) + 1 : s[i] = bytes[(e + 2) + i - 1]
    BY <2>1, <2>2, SubSeqProperties DEF s, bytes
  <2>4. /\ n - e - 1 + 1 \in 1 .. (e + 1 + len) - (e + 2) + 1
        /\ (e + 2) + (n - e - 1 + 1) - 1 = n + 1
    BY <1>1, <1>2, <1>5, ChunkNumbers
  <2> QED BY <2>3, <2>4
<1>8. t[n - e - 1 + 1] = content[f + (n - e - 1) + 1]
  <2>1. \A i \in f + 1 .. f + len : content[i] \in Bytes
    BY <1>1, <1>2, <1>3
  <2>2. f + 1 \in Int /\ f + len \in Int
    BY <1>1, <1>2
  <2>3. \A i \in 1 .. (f + len) - (f + 1) + 1 : t[i] = content[(f + 1) + i - 1]
    BY <2>1, <2>2, SubSeqProperties DEF t, content
  <2>4. /\ n - e - 1 + 1 \in 1 .. (f + len) - (f + 1) + 1
        /\ (f + 1) + (n - e - 1 + 1) - 1 = f + (n - e - 1) + 1
    BY <1>1, <1>2, <1>5, ChunkNumbers
  <2> QED BY <2>3, <2>4
<1>9. bytes[n + 1] = content[f + (n - e - 1) + 1]
  BY <1>2, <1>7, <1>8
<1>10. /\ f + (n - e - 1) \in Nat /\ f + (n - e - 1) + 1 <= f + len
  BY <1>1, <1>2, <1>5, ChunkNumbers
<1>11. f + (n - e - 1) + 1 <= Len(content)
  <2> DEFINE at == f + (n - e - 1)
             m == Len(content)
  <2>1. at \in Nat /\ m \in Nat /\ at + 1 <= f + len /\ f + len <= m /\ f + len \in Nat
    BY <1>1, <1>2, <1>3, <1>10
  <2> HIDE DEF at, m
  <2>2. at + 1 <= m
    BY <2>1, <1>1, <1>2
  <2> QED BY <2>2 DEF at, m
<1>12. Append(SubSeq(content, 1, f + (n - e - 1)), content[f + (n - e - 1) + 1])
         = SubSeq(content, 1, f + (n - e - 1) + 1)
  BY <1>3, <1>10, <1>11, OneMore
<1> QED BY <1>9, <1>12 DEF e, f, bytes, content

LEMMA ChunkGetsOn ==
  ASSUME Looks, InChunks(response), parser.status = response.status,
         NEW k \in 1 .. Len(response.chunks), InSizeLine(response, parser, At, k),
         parser.state = "ChunkSizeNewLine"
  PROVE  GetsOn
<1> DEFINE r == response
           chunk == r.chunks[k]
           len == ChunkLen(r, k)
<1>1. /\ At = chunk.end /\ parser.chunkSizeStr = SubSeq(r.bytes, chunk.at, chunk.ext - 1)
      /\ parser.content = SubSeq(r.content, 1, chunk.from)
  BY DEF InSizeLine
<1>2. SizeLine(r, k) /\ Proper(r) /\ chunk.end \in Nat /\ chunk.from \in Nat
  BY ChunkPlaces DEF Looks
<1>3. Head(buf).is = "lf"
  BY <1>1, <1>2 DEF SizeLine, LineEnd, Looks
<1>4. Number(16, parser.chunkSizeStr) = len
  BY <1>1, <1>2 DEF SizeLine
<1>5. /\ outcome' = "parsing" /\ buf' = Tail(buf)
      /\ parser'.chunkSize = len /\ parser'.chunkSizeStr = <<>>
      /\ parser'.content = parser.content /\ parser'.status = r.status
      /\ parser'.state = IF len = 0 THEN "ChunkSizeNewLine_2" ELSE "ChunkData"
  BY <1>3, <1>4, SizeGetsOn
<1>6. CASE k = Len(r.chunks)
  <2>1. len = 0 /\ chunk.from = Len(r.content) /\ r.content \in Seq(Bytes)
    BY <1>2, <1>6, ChunkPlaces
  <2>2. parser.content = r.content
    BY <1>1, <2>1, SubSeqFull
  <2>3. At + 1 = TrailerEnd(r, 0) + 1 /\ 0 \in 0 .. Len(r.trailers)
    BY <1>1, <1>2, <1>6, TrailerPlaces
  <2>4. InTrailers(r, parser', At + 1)
    BY <1>5, <2>1, <2>2, <2>3 DEF InTrailers
  <2> QED BY <1>5, <2>4 DEF GetsOn, InStep
<1>7. CASE k # Len(r.chunks)
  <2>1. k \in 1 .. Len(r.chunks) - 1 /\ k < Len(r.chunks)
    BY <1>2, <1>7, ChunkPlaces
  <2>2. len \in Nat /\ len > 0
    BY <1>2, <2>1, NextChunk
  <2>3. /\ At + 1 \in chunk.end + 1 .. chunk.end + len
        /\ len = chunk.end + 1 + len - (At + 1)
        /\ chunk.from + ((At + 1) - chunk.end - 1) = chunk.from
    BY <1>1, <1>2, <2>2, ChunkStarts
  <2>4. /\ parser'.state = "ChunkData" /\ parser'.chunkSizeStr = <<>>
        /\ parser'.chunkSize = chunk.end + 1 + len - (At + 1)
        /\ parser'.content = SubSeq(r.content, 1, chunk.from + ((At + 1) - chunk.end - 1))
    <3>1. len # 0
      BY <2>2
    <3> HIDE DEF chunk, len
    <3> QED BY <1>1, <1>5, <2>3, <3>1
  <2>5. InChunkContent(r, parser', At + 1, k)
    <3> HIDE DEF chunk, len
    <3> QED BY <2>1, <2>3, <2>4 DEF InChunkContent, chunk, len
  <2> QED BY <1>5, <2>5 DEF GetsOn, InStep
<1> QED BY <1>6, <1>7

LEMMA TrailerGetsOn ==
  ASSUME Looks, InChunks(response), parser.status = response.status,
         InTrailers(response, parser, At), parser.state = "ChunkSizeNewLine"
  PROVE  GetsOn
<1> DEFINE r == response
<1>1. parser.chunkSizeStr = <<>> /\ parser.content = r.content
  BY DEF InTrailers
<1>2. PICK k \in DOMAIN r.trailers : At = TrailerEnd(r, k)
  BY DEF InTrailers
<1>3. k \in 1 .. Len(r.trailers) /\ k \in 0 .. Len(r.trailers) /\ Proper(r)
  BY LineTypes DEF Looks, Proper
<1>4. Head(buf).is = "lf"
  BY <1>2, <1>3, TrailerPlaces DEF Trailer, LineEnd, Looks
<1>5. /\ outcome' = "parsing" /\ buf' = Tail(buf)
      /\ parser'.chunkSizeStr = <<>>
      /\ parser'.content = parser.content /\ parser'.status = r.status
      /\ parser'.state = "ChunkSizeNewLine_2"
  BY <1>1, <1>4, SizeGetsOn, NumberOfNothing
<1>6. InTrailers(r, parser', At + 1)
  BY <1>1, <1>2, <1>3, <1>5 DEF InTrailers
<1> QED BY <1>5, <1>6 DEF GetsOn, InStep

LEMMA ChunkDataGetsOn ==
  ASSUME Looks, InChunks(response), parser.status = response.status,
         NEW k \in 1 .. Len(response.chunks), InChunkContent(response, parser, At, k),
         parser.state = "ChunkData"
  PROVE  GetsOn
<1> DEFINE r == response
           e == r.chunks[k].end
           f == r.chunks[k].from
           len == ChunkLen(r, k)
           done == At - e - 1
           size == parser.chunkSize - 1
           more == Append(parser.content, Head(buf))
           next == IF size = 0 THEN "ChunkDataNewLine_1" ELSE parser.state
<1>1. Proper(r) /\ parser \in Parsers /\ Head(buf) = r.bytes[At + 1]
  BY DEF Looks, ParserTypeOK
<1>2. k \in 1 .. Len(r.chunks) - 1 /\ k < Len(r.chunks)
  BY <1>1, ChunkPlaces DEF InChunkContent
<1>3. /\ At \in e + 1 .. e + len /\ parser.chunkSize = e + 1 + len - At
      /\ parser.content = SubSeq(r.content, 1, f + done) /\ parser.chunkSizeStr = <<>>
  BY DEF InChunkContent
<1>4. e \in Nat /\ f \in Nat /\ len \in Nat
  BY <1>1, <1>2, NextChunk, ChunkPlaces
<1>5. r.chunks[k + 1].from = f + len
  BY <1>1, <1>2, NextChunk
<1>6. ChunkData
  <2>1. parser.state \notin DOMAIN Moves
    BY MovesFrom
  <2> QED BY <2>1 DEF Looks, ParserNext, Scan, Fail, EndOfHeaders, Post, ChunkSizeNewLine,
                      EndOfChunks, EndOfPiece, InState
<1>7. /\ parser' = [parser EXCEPT !.chunkSize = size, !.content = more, !.state = next]
      /\ buf' = Tail(buf) /\ outcome' = "parsing"
  BY <1>6 DEF ChunkData, GoOn, InState
<1>8. more = SubSeq(r.content, 1, f + done + 1)
  BY <1>1, <1>2, <1>3, ChunkByte
<1> HIDE DEF more, next, size
<1>9. /\ parser'.chunkSize = size /\ parser'.content = more /\ parser'.state = next
      /\ parser'.status = r.status /\ parser'.chunkSizeStr = <<>>
  BY <1>1, <1>3, <1>7 DEF Parsers
<1>10. /\ f + done + 1 = f + ((At + 1) - e - 1)
       /\ size = e + 1 + len - (At + 1)
       /\ size = 0 => At + 1 = e + 1 + len /\ f + done + 1 = f + len
       /\ size # 0 => At + 1 \in e + 1 .. e + len
  <2> HIDE DEF e, f, len
  <2> QED BY <1>3, <1>4, ChunkNumbers DEF size
<1>11. InChunkContent(r, parser', At + 1, k)
  <2>1. CASE size = 0
    <3>1. parser'.content = SubSeq(r.content, 1, r.chunks[k + 1].from)
      BY <1>5, <1>8, <1>9, <1>10, <2>1
    <3>2. At + 1 = e + 1 + len /\ parser'.state = "ChunkDataNewLine_1"
      BY <1>9, <1>10, <2>1 DEF next
    <3> QED BY <1>2, <1>9, <3>1, <3>2 DEF InChunkContent
  <2>2. CASE size # 0
    <3>1. At + 1 \in e + 1 .. e + len
      BY <1>10, <2>2
    <3>2. parser'.content = SubSeq(r.content, 1, f + ((At + 1) - e - 1))
      BY <1>8, <1>9, <1>10
    <3>3. parser'.state = "ChunkData" /\ parser'.chunkSize = e + 1 + len - (At + 1)
      BY <1>9, <1>10, <2>2 DEF next
    <3> HIDE DEF e, f, len
    <3> QED BY <1>2, <1>9, <3>1, <3>2, <3>3 DEF InChunkContent, e, f, len
  <2> QED BY <2>1, <2>2
<1> QED BY <1>7, <1>9, <1>11 DEF GetsOn, InStep

LEMMA LastGetsOn ==
  ASSUME Looks, InChunks(response), parser.status = response.status,
         InTrailers(response, parser, At), parser.state = "ChunkSizeNewLine_3"
  PROVE  GetsOn
<1>1. At = response.size - 1 /\ parser.content = response.content
  BY DEF InTrailers
<1>2. LineEnd(response, response.size - 1) /\ response.size \in Nat
  BY TrailerPlaces DEF Looks
<1>3. Head(buf).is = "lf" /\ At + 1 = response.size
  BY <1>1, <1>2 DEF LineEnd, Looks
<1>4. EndOfChunks
  <2>1. parser.state \notin DOMAIN Moves
    BY MovesFrom
  <2> QED BY <1>3, <2>1 DEF Looks, ParserNext, Scan, Fail, EndOfHeaders, Post, ChunkSizeNewLine,
                            ChunkData, EndOfPiece, InState
<1>5. parser' = parser /\ buf' = <<>> /\ outcome' = "ParsingCompleted"
  BY <1>4 DEF EndOfChunks, Return
<1> QED BY <1>1, <1>3, <1>5 DEF GetsOn, IsOver

LEMMA LooksGetsOn ==
  ASSUME Looks
  PROVE  GetsOn
<1>1. CASE parser.state \notin Counting
  BY <1>1, GoesOn
<1>2. CASE parser.state \in Counting
  <2> USE DEF Counting
  <2>1. ~InStatusLine(response, parser, At)
    BY <1>2 DEF InStatusLine
  <2>2. CASE \E k \in 0 .. Len(response.headers) : BetweenHeaders(response, parser, At, k)
    BY <1>2, <2>2, EndOfHeadersGetsOn DEF BetweenHeaders
  <2>3. \A k : ~InNewHeader(response, parser, At, k) /\ ~InContinued(response, parser, At, k)
    BY <1>2 DEF InNewHeader, InContinued
  <2>4. CASE InContent(response, parser, At)
    BY <2>4, PostGetsOn
  <2>5. CASE /\ InChunks(response) /\ parser.status = response.status
             /\ \E k \in 1 .. Len(response.chunks) : InSizeLine(response, parser, At, k)
    BY <1>2, <2>5, ChunkGetsOn DEF InSizeLine
  <2>6. CASE /\ InChunks(response) /\ parser.status = response.status
             /\ \E k \in 1 .. Len(response.chunks) : InChunkContent(response, parser, At, k)
    BY <1>2, <2>6, ChunkDataGetsOn DEF InChunkContent
  <2>7. CASE /\ InChunks(response) /\ parser.status = response.status
             /\ InTrailers(response, parser, At)
    BY <1>2, <2>7, TrailerGetsOn, LastGetsOn DEF InTrailers
  <2> QED BY <2>1, <2>2, <2>3, <2>4, <2>5, <2>6, <2>7 DEF InStep, Looks
<1> QED BY <1>1, <1>2

LEMMA InStepBefore ==
  ASSUME NEW r, Proper(r), NEW p, NEW n \in Nat, InStep(r, p, n)
  PROVE  n < r.size
<1>1. /\ r.blank \in Nat /\ r.size \in Nat /\ r.blank + 1 <= r.size
      /\ HeaderEnd(r, 0) \in Nat /\ HeaderEnd(r, 0) > 6 /\ HeaderEnd(r, 0) < r.blank
      /\ Len(r.headers) \in Nat
  BY HeaderPlaces, ProperBytes
<1>2. \A k \in 1 .. Len(r.headers) :
        /\ HeaderEnd(r, k) \in Nat /\ HeaderEnd(r, k) < r.blank /\ r.headers[k].colon \in Nat
  BY HeaderPlaces
<1>3. CASE InStatusLine(r, p, n)
  <2>1. n = 0 \/ n \in 1 .. 5 \/ n \in 6 .. HeadersAt(r) - 3 \/ n = HeadersAt(r) - 2
    BY <1>3 DEF InStatusLine
  <2>2. HeadersAt(r) = HeaderEnd(r, 0) + 2
    BY DEF HeadersAt
  <2> QED BY <1>1, <2>1, <2>2
<1>4. ASSUME NEW k \in 0 .. Len(r.headers), BetweenHeaders(r, p, n, k)
      PROVE  n < r.size
  <2>1. HeaderEnd(r, k) \in Nat /\ HeaderEnd(r, k) < r.blank
    BY <1>1, <1>2
  <2>2. n = HeaderEnd(r, k) + 1 \/ n = HeaderEnd(r, k) \/ n = r.blank
    BY <1>4 DEF BetweenHeaders
  <2> QED BY <1>1, <2>1, <2>2
<1>5. ASSUME NEW k \in 1 .. Len(r.headers), InNewHeader(r, p, n, k) \/ InContinued(r, p, n, k)
      PROVE  n < r.size
  <2>1. CASE InNewHeader(r, p, n, k)
    <3>1. r.headers[k].colon + 2 <= HeaderEnd(r, k)
      BY <2>1 DEF InNewHeader, NewHeader
    <3>2. n <= r.headers[k].colon \/ n <= HeaderEnd(r, k) - 1
      <4>1. \/ n \in r.headers[k].at .. r.headers[k].colon - 1
            \/ n = r.headers[k].colon
            \/ n \in r.headers[k].colon + 1 .. HeaderEnd(r, k) - 1
        BY <2>1 DEF InNewHeader
      <4> QED BY <1>2, <4>1
    <3> DEFINE e == HeaderEnd(r, k)
               c == r.headers[k].colon
    <3>3. e \in Nat /\ e < r.blank /\ c \in Nat /\ c + 2 <= e /\ (n <= c \/ n <= e - 1)
      BY <1>2, <3>1, <3>2
    <3> HIDE DEF e, c
    <3> QED BY <1>1, <3>3
  <2>2. CASE InContinued(r, p, n, k)
    <3>1. n \in r.headers[k].at .. HeaderEnd(r, k) - 1
      BY <2>2 DEF InContinued
    <3> QED BY <1>1, <1>2, <3>1
  <2> QED BY <1>5, <2>1, <2>2
<1>6. CASE InContent(r, p, n)
  <2>1. n \in r.blank + 1 .. r.size - 1
    BY <1>6 DEF InContent
  <2> QED BY <1>1, <2>1
<1>7. ASSUME InChunks(r), NEW k \in 1 .. Len(r.chunks), InSizeLine(r, p, n, k)
      PROVE  n < r.size
  <2>1. /\ r.chunks[k].end \in Nat /\ r.chunks[k].ext \in Nat /\ r.chunks[k].end < r.size
        /\ r.chunks[k].ext <= r.chunks[k].end /\ r.chunks[k].at \in Nat
    BY <1>7, ChunkPlaces
  <2>2. \/ n \in r.chunks[k].at - 1 .. r.chunks[k].ext - 1
        \/ n \in r.chunks[k].ext .. r.chunks[k].end - 1
        \/ n = r.chunks[k].end
    BY <1>7 DEF InSizeLine
  <2> QED BY <1>1, <2>1, <2>2
<1>8. ASSUME InChunks(r), NEW k \in 1 .. Len(r.chunks), InChunkContent(r, p, n, k)
      PROVE  n < r.size
  <2>1. k \in 1 .. Len(r.chunks) - 1
    BY <1>8, ChunkPlaces DEF InChunkContent
  <2>2. /\ ChunkLen(r, k) \in Nat /\ r.chunks[k].end + 4 + ChunkLen(r, k) < r.size
        /\ r.chunks[k].end \in Nat
    BY <1>8, <2>1, NextChunk, ChunkPlaces
  <2>3. \/ n \in r.chunks[k].end + 1 .. r.chunks[k].end + ChunkLen(r, k)
        \/ n = r.chunks[k].end + 1 + ChunkLen(r, k)
        \/ n = r.chunks[k].end + 2 + ChunkLen(r, k)
    BY <1>8 DEF InChunkContent
  <2> DEFINE e == r.chunks[k].end
             len == ChunkLen(r, k)
  <2>4. /\ e \in Nat /\ len \in Nat /\ e + 4 + len < r.size
        /\ n \in e + 1 .. e + len \/ n = e + 1 + len \/ n = e + 2 + len
    BY <2>2, <2>3
  <2> HIDE DEF e, len
  <2> QED BY <1>1, <2>4
<1>9. ASSUME InChunks(r), InTrailers(r, p, n)
      PROVE  n < r.size
  <2>1. /\ \A k \in 0 .. Len(r.trailers) : TrailerEnd(r, k) \in Nat /\ TrailerEnd(r, k) < r.size - 1
        /\ \A k \in 1 .. Len(r.trailers) :
             r.trailers[k].colon \in Nat /\ r.trailers[k].colon < TrailerEnd(r, k)
        /\ DOMAIN r.trailers = 1 .. Len(r.trailers) /\ Len(r.trailers) \in Nat
    BY <1>9, TrailerPlaces, LineTypes DEF Proper
  <2>2. CASE \E k \in 0 .. Len(r.trailers) : n = TrailerEnd(r, k) + 1
    BY <1>1, <2>1, <2>2
  <2>3. ASSUME NEW k \in 1 .. Len(r.trailers),
               \/ n \in r.trailers[k].at .. r.trailers[k].colon - 1
               \/ n \in r.trailers[k].colon .. TrailerEnd(r, k) - 1
               \/ n = TrailerEnd(r, k)
        PROVE  n < r.size
    <3>1. /\ TrailerEnd(r, k) \in Nat /\ TrailerEnd(r, k) < r.size - 1
          /\ r.trailers[k].colon \in Nat /\ r.trailers[k].colon < TrailerEnd(r, k)
      BY <2>1
    <3> QED BY <1>1, <2>3, <3>1
  <2>4. CASE n = r.size - 1
    BY <1>1, <2>4
  <2> QED BY <1>9, <2>1, <2>2, <2>3, <2>4 DEF InTrailers
<1> QED BY <1>3, <1>4, <1>5, <1>6, <1>7, <1>8, <1>9 DEF InStep

\* Behind the end the parser keeps what it has, or its contentSize is lost.
LEMMA StaysOver ==
  ASSUME ParserTypeOK, IsOver(response, parser, outcome), ParserNext
  PROVE  IsOver(response, parser', outcome')
<1>1. parser \in Parsers /\ outcome = "parsing" /\ Len(response.bytes) > response.size
  BY ParserTakes DEF ParserTypeOK, IsOver
<1>2. parser.state \in {"Post", "ExpectingNewline_3", "ChunkSizeNewLine_3"}
      /\ parser.state \notin DOMAIN Moves
  BY MovesFrom DEF IsOver
<1>3. CASE parser' = parser /\ outcome' \in {"ParsingError", "ParsingIncompleted"}
  BY <1>1, <1>3 DEF IsOver
<1>4. CASE EndOfPiece
  BY <1>3, <1>4 DEF EndOfPiece, Return
<1>5. CASE Fail
  BY <1>3, <1>5 DEF Fail, Return
<1>6. CASE EndOfHeaders
  <2>1. ~parser.chunked /\ parser.contentSize = 0 /\ parser.content = response.content
    BY <1>6 DEF EndOfHeaders, InState, IsOver
  <2>2. parser' = parser /\ outcome' = "ParsingCompleted"
    BY <1>6, <2>1 DEF EndOfHeaders, Return
  <2> QED BY <1>1, <2>1, <2>2 DEF IsOver
<1>7. CASE Post
  <2> DEFINE p == [parser EXCEPT !.contentSize = @ - 1, !.content = Append(@, Head(buf))]
  <2>1. /\ p.contentSize = parser.contentSize - 1 /\ p.state = "Post" /\ p.status = parser.status
        /\ parser.contentSize \in Int /\ parser.contentSize <= 0
    BY <1>1, <1>7 DEF Post, InState, IsOver, Parsers
  <2>2. p.contentSize < 0
    <3> HIDE DEF p
    <3> QED BY <2>1
  <2>3. IF p.contentSize = 0 THEN Return(p, "ParsingCompleted") ELSE GoOn(p)
    BY <1>7 DEF Post
  <2> HIDE DEF p
  <2>4. parser' = p /\ outcome' = "parsing"
    BY <1>1, <2>2, <2>3 DEF GoOn
  <2>5. p.contentSize <= 0 /\ p.contentSize # 0
    BY <2>1, <2>2
  <2> QED BY <1>1, <2>1, <2>4, <2>5 DEF IsOver
<1>8. CASE EndOfChunks
  <2>1. parser' = parser /\ outcome' = "ParsingCompleted" /\ parser.content = response.content
    BY <1>8 DEF EndOfChunks, Return, InState, IsOver
  <2> QED BY <1>1, <2>1 DEF IsOver
<1> QED BY <1>2, <1>4, <1>5, <1>6, <1>7, <1>8 DEF ParserNext, Scan, ChunkSizeNewLine, ChunkData, InState

LEMMA SyncedParse ==
  ASSUME RequestInv, TypeInv, Synced, Parse, response.proper
  PROVE  Synced'
<1>1. /\ ParserNext /\ UNCHANGED <<response, left, given>>
  BY DEF Parse, queryVars, ioVars
<1>2. Proper(response) /\ response.size \in Nat /\ response.bytes \in Seq(Bytes)
  BY ResponseType, ProperBytes DEF RequestInv, InfoInv, TypeInv, BytesInv
<1>3. At \in Nat /\ buf \in Seq(Bytes) /\ Len(buf) \in Nat /\ Len(left) \in Nat /\ ParserTypeOK
  BY DEF TypeInv, BytesInv
<1>4. buf' = Tail(buf) /\ buf # <<>> => At' = At + 1
  <2>1. buf' = Tail(buf) /\ buf # <<>> => Len(buf') = Len(buf) - 1
    BY <1>3
  <2> QED BY <1>1, <1>2, <1>3, <2>1 DEF At
<1>5. buf' = <<>> => At' = At + Len(buf)
  <2>1. buf' = <<>> => Len(buf') = 0
    OBVIOUS
  <2> QED BY <1>1, <1>2, <1>3, <2>1 DEF At
<1>6. CASE At < response.size /\ buf # <<>>
  <2>1. Head(buf) = response.bytes[At + 1] /\ Len(buf) > 0
    <3>1. Head(buf) = buf[1] /\ 1 \in 1 .. Len(buf) /\ Len(buf) > 0
      BY <1>3, <1>6
    <3> QED BY <3>1 DEF TypeInv, BytesInv
  <2>2. Looks
    BY <1>1, <1>2, <1>3, <1>6, <2>1 DEF Looks, Synced
  <2>3. CASE /\ outcome' = "parsing" /\ buf' = Tail(buf)
             /\ InStep(response, parser', At + 1)
    <3>1. At + 1 < response.size
      BY <1>2, <1>3, <2>3, InStepBefore
    <3>2. At' = At + 1
      BY <1>4, <1>6, <2>3
    <3>3. ~(At' >= response.size)
      BY <1>2, <1>3, <3>1, <3>2
    <3> QED BY <1>1, <2>3, <3>2, <3>3 DEF Synced
  <2>4. CASE /\ outcome' = "ParsingCompleted" /\ buf' = <<>>
             /\ At + 1 = response.size
             /\ IsOver(response, parser', "ParsingCompleted")
    <3>1. ~(At' < response.size)
      BY <1>2, <1>3, <1>5, <2>1, <2>4
    <3> QED BY <1>1, <2>4, <3>1 DEF Synced
  <2> QED BY <2>2, <2>3, <2>4, LooksGetsOn DEF GetsOn
<1>7. CASE At < response.size /\ buf = <<>>
  <2>1. parser' = parser /\ buf' = <<>> /\ outcome' = "ParsingIncompleted"
    BY <1>1, <1>7 DEF ParserNext, Scan, Fail, EndOfHeaders, Post, ChunkSizeNewLine, ChunkData,
                      EndOfChunks, EndOfPiece, InState, Return
  <2>2. At' = At /\ ~(At' >= response.size)
    <3>1. Len(buf) = 0
      BY <1>7
    <3> QED BY <1>2, <1>3, <1>5, <1>7, <2>1, <3>1
  <2> QED BY <1>1, <1>7, <2>1, <2>2 DEF Synced
<1>8. CASE ~(At < response.size)
  <2>1. At >= response.size
    BY <1>2, <1>3, <1>8
  <2>2. IsOver(response, parser', outcome')
    BY <1>1, <1>3, <2>1, StaysOver DEF Synced
  <2>3. At' >= At
    BY <1>1, <1>3, <1>4, <1>5, ParserTakes
  <2>4. ~(At' < response.size)
    <3>1. At' = At + 1 \/ At' = At + Len(buf)
      BY <1>1, <1>4, <1>5, ParserTakes
    <3> QED BY <1>2, <1>3, <2>1, <3>1
  <2> QED BY <1>1, <2>2, <2>4 DEF Synced
<1> QED BY <1>6, <1>7, <1>8

LEMMA SyncedStep == RequestInv /\ TypeInv /\ Synced /\ [Next]_vars => Synced'
<1> SUFFICES ASSUME RequestInv, TypeInv, Synced, [Next]_vars PROVE Synced'
  OBVIOUS
<1>1. ASSUME UNCHANGED <<parserVars, response, left>>
      PROVE  Synced'
  BY <1>1 DEF Synced, At, parserVars
<1>2. CASE Construct
  BY <1>1, <1>2 DEF Construct, parserVars, ioVars
<1>3. CASE Check
  BY <1>1, <1>3 DEF Check, parserVars, ioVars
<1>4. CASE Resolve
  BY <1>1, <1>4 DEF Resolve, parserVars, ioVars
<1>5. CASE Socket
  BY <1>1, <1>5 DEF Socket, parserVars, ioVars
<1>6. CASE Connect
  <2>1. CASE UNCHANGED ioVars
    BY <1>1, <1>6, <2>1 DEF Connect, parserVars, ioVars
  <2>2. CASE ~ UNCHANGED ioVars
    <3>1. /\ response' \in given.answers /\ left' = response'.bytes
          /\ given \in Cases
          /\ parser' = NewParser /\ buf' = <<>> /\ outcome' = "ParsingError"
      BY <1>6, <2>2 DEF Connect, parserVars, RequestInv, QuietInv, InfoInv, Before
    <3>2. ResponseTypeOK(response')
      BY <3>1, ExchangeAssumption
    <3>3. At' = 0 /\ 0 < response'.size /\ ~(0 >= response'.size)
      <4>1. Len(response'.bytes) \in Nat /\ response'.size \in Nat /\ response'.size > 0
        BY <3>2 DEF ResponseTypeOK
      <4>2. Len(buf') = 0 /\ Len(left') = Len(response'.bytes)
        BY <3>1
      <4>3. At' = Len(response'.bytes) - Len(left') - Len(buf')
        BY DEF At
      <4>4. At' = 0
        BY <4>1, <4>2, <4>3
      <4> QED BY <4>1, <4>4
    <3>4. InStep(response', parser', 0)
      BY <3>1 DEF InStep, InStatusLine, NewParser
    <3> QED BY <3>1, <3>3, <3>4 DEF Synced
  <2> QED BY <2>1, <2>2
<1>7. CASE Send
  BY <1>1, <1>7 DEF Send
<1>8. CASE Receive
  <2> SUFFICES ASSUME response.proper PROVE Synced'
    BY <1>8 DEF Receive, Synced
  <2>1. PICK n \in 1 .. Len(left) : /\ buf' = SubSeq(left, 1, n)
                                    /\ left' = SubSeq(left, n + 1, Len(left))
    BY <1>8 DEF Receive
  <2>2. UNCHANGED <<response, parser>> /\ outcome' = "parsing" /\ buf = <<>>
    BY <1>8 DEF Receive, TypeInv, BytesInv
  <2>3. /\ left \in Seq(Bytes) /\ Len(left) \in Nat /\ At \in Nat
        /\ Len(response.bytes) \in Nat /\ response.size \in Nat
    BY ResponseType, ProperBytes DEF RequestInv, InfoInv, TypeInv, BytesInv
  <2>4. Len(buf') = n /\ Len(left') = Len(left) - n /\ Len(buf) = 0
    BY <2>1, <2>2, <2>3
  <2>5. At' = At /\ (At >= response.size => Len(response.bytes) > response.size)
    BY <2>2, <2>3, <2>4 DEF At
  <2>6. At >= response.size => IsOver(response, parser, "parsing")
    BY <2>5 DEF Synced, IsOver
  <2> QED BY <2>2, <2>5, <2>6 DEF Synced
<1>9. CASE Parse
  <2>1. CASE response.proper
    BY <1>9, <2>1, SyncedParse
  <2>2. CASE ~response.proper
    BY <1>9, <2>2 DEF Parse, ioVars, Synced
  <2> QED BY <2>1, <2>2
<1>10. CASE Closed
  BY <1>1, <1>10 DEF Closed, ioVars
<1>11. CASE Broken
  BY <1>1, <1>11 DEF Broken, ioVars
<1>13. CASE ParseThrows
  BY <1>1, <1>13 DEF ParseThrows, ioVars
<1>12. CASE UNCHANGED vars
  BY <1>1, <1>12 DEF vars, ioVars
<1> QED
  BY <1>2, <1>3, <1>4, <1>5, <1>6, <1>7, <1>8, <1>9, <1>10, <1>11, <1>12, <1>13 DEF Next

LEMMA SyncedInvariance == Spec => [](RequestInv /\ TypeInv /\ Synced)
<1>1. Init => Synced
  BY DEF Init, Synced, NoResponse
<1> QED BY TypeInvariance, SyncedStep, <1>1, PTL DEF Spec

LEMMA ClosedAnswers ==
  ASSUME RequestInv, TypeInv, Synced, Closed
  PROVE  (RefusesIncomplete /\ AnswersComplete)'
<1>1. UNCHANGED <<response, left>> /\ outcome # "parsing" /\ buf = <<>> /\ conn' = "closed"
  BY DEF Closed, ioVars, TypeInv, BytesInv
<1>2. CASE ~response.proper
  BY <1>1, <1>2 DEF RefusesIncomplete, AnswersComplete, ProperAndAlone
<1>3. CASE response.proper
  <2>1. /\ response.size \in Nat /\ Len(response.bytes) \in Nat /\ Len(left) \in Nat /\ At \in Nat
    BY <1>3, ResponseType, ProperBytes DEF RequestInv, InfoInv, TypeInv, BytesInv
  <2>2. At = Len(response.bytes) - Len(left)
    <3>1. Len(buf) = 0
      BY <1>1
    <3> QED BY <2>1, <3>1 DEF At
  <2>3. Complete' <=> At >= response.size
    BY <1>1, <2>2 DEF Complete
  <2>4. At >= response.size =>
          /\ parser.status = response.status
          /\ outcome = "ParsingCompleted" => parser.content = response.content
          /\ outcome # "ParsingCompleted" => Len(response.bytes) > response.size
    BY <1>3 DEF Synced, IsOver
  <2>5. ~(At >= response.size) => outcome # "ParsingCompleted"
    BY <1>3, <2>1 DEF Synced
  <2>6. reply' = IF outcome = "ParsingCompleted" /\ parser.status = 200
                 THEN Answer(parser.content) ELSE Thrown
    BY DEF Closed, Finish, EmptyResponse
  <2>7. RefusesIncomplete'
    <3> SUFFICES ASSUME reply'.is = "answer"
                 PROVE  Complete' /\ response.status = 200 /\ reply'.content = response.content
      BY <1>1 DEF RefusesIncomplete
    <3>1. outcome = "ParsingCompleted" /\ parser.status = 200 /\ reply' = Answer(parser.content)
      BY <2>6 DEF Thrown
    <3> QED BY <2>3, <2>4, <2>5, <3>1 DEF Answer
  <2>8. AnswersComplete'
    <3> SUFFICES ASSUME Complete', response.status = 200, Len(response.bytes) = response.size
                 PROVE  reply' = Answer(response.content)
      BY <1>1 DEF AnswersComplete, ProperAndAlone
    <3>1. ~(Len(response.bytes) > response.size)
      BY <2>1
    <3> QED BY <2>3, <2>4, <2>6, <3>1
  <2> QED BY <2>7, <2>8
<1> QED BY <1>2, <1>3

LEMMA AnswerStep ==
  RequestInv /\ TypeInv /\ Synced /\ RefusesIncomplete /\ AnswersComplete /\ [Next]_vars
    => (RefusesIncomplete /\ AnswersComplete)'
<1> SUFFICES ASSUME RequestInv, TypeInv, Synced, RefusesIncomplete, AnswersComplete, [Next]_vars
             PROVE  (RefusesIncomplete /\ AnswersComplete)'
  OBVIOUS
<1>1. ASSUME UNCHANGED reply, pc # "done", pc' # "done"
      PROVE  (RefusesIncomplete /\ AnswersComplete)'
  BY <1>1 DEF TypeInv, OverInv, NotYet, RefusesIncomplete, AnswersComplete
<1>2. ASSUME NEW ended \in {"unused", "broken"}, GiveUp(ended)
      PROVE  (RefusesIncomplete /\ AnswersComplete)'
  <2>1. reply' = Thrown /\ conn' # "closed"
    BY <1>2 DEF GiveUp, Finish, EmptyResponse
  <2> QED BY <2>1 DEF RefusesIncomplete, AnswersComplete, Complete, Thrown
<1>3. CASE Construct
  BY <1>1, <1>2, <1>3 DEF Construct
<1>4. CASE Check
  BY <1>1, <1>2, <1>4 DEF Check
<1>5. CASE Resolve
  BY <1>1, <1>2, <1>5 DEF Resolve
<1>6. CASE Socket
  BY <1>1, <1>2, <1>6 DEF Socket
<1>7. CASE Connect
  BY <1>1, <1>2, <1>7 DEF Connect
<1>8. CASE Send
  <2>1. CASE GiveUp("broken")
    BY <1>2, <2>1
  <2>2. CASE ~GiveUp("broken")
    BY <1>1, <1>8, <2>2 DEF Send
  <2> QED BY <2>1, <2>2
<1>9. CASE Receive
  BY <1>1, <1>9 DEF Receive
<1>10. CASE Parse
  BY <1>1, <1>10 DEF Parse
<1>11. CASE Closed
  BY <1>11, ClosedAnswers
<1>12. CASE Broken
  BY <1>2, <1>12 DEF Broken
<1>14. CASE ParseThrows
  BY <1>2, <1>14 DEF ParseThrows
<1>13. CASE UNCHANGED vars
  BY <1>13 DEF vars, ioVars, RefusesIncomplete, AnswersComplete, Complete, ProperAndAlone
<1> QED
  BY <1>3, <1>4, <1>5, <1>6, <1>7, <1>8, <1>9, <1>10, <1>11, <1>12, <1>13, <1>14 DEF Next

LEMMA AnswerInvariance == Spec => [](RefusesIncomplete /\ AnswersComplete)
<1>1. Init => RefusesIncomplete /\ AnswersComplete
  BY DEF Init, NoResponse, RefusesIncomplete, AnswersComplete
<1> QED BY SyncedInvariance, AnswerStep, <1>1, PTL DEF Spec

\* However a proper response is cut, wherever its connection ends or breaks and
\* whatever the server sends behind it: the query has no answer but its content,
\* and that only if all of it has arrived and it says 200.
THEOREM IncompleteIsRefused == Spec => []RefusesIncomplete
BY AnswerInvariance, PTL

\* A proper response that says 200 and that nothing follows is the answer of
\* the query if all of it has arrived, however it was cut.
THEOREM CompleteIsAnswered == Spec => []AnswersComplete
BY AnswerInvariance, PTL

-----------------------------------------------------------------------------

\* Whose name is looked up, and that it is if the URL is a plain one.
ServerInv ==
  /\ given \in Cases
  /\ pc = "construct" => info = NoInfo
  /\ pc = "check" => given.server # <<>>
  /\ LooksUpTheServer
  /\ pc \notin {"construct", "check"} /\ info # NoInfo /\ wsk /\ Plain(given.server)
       => peer # NoPeer

LEMMA InitServer == Init => ServerInv
BY DEF Init, ServerInv, LooksUpTheServer

LEMMA ServerIsUrl ==
  ASSUME NEW c \in Cases, c.server # <<>>
  PROVE  LET str == Server(c.server)
         IN  str \in Seq(Url!Characters) /\ str # <<>> /\ Last(str) = "/"
<1>1. c.server \in Seq(Url!Characters)
  BY ExchangeAssumption
<1>2. "/" \in Url!Characters
  BY DEF Url!Characters
<1>3. CASE Last(c.server) = "/"
  BY <1>1, <1>3 DEF Server
<1>4. CASE Last(c.server) # "/"
  <2>1. Server(c.server) = Append(c.server, "/")
    BY <1>4 DEF Server
  <2>2. /\ Append(c.server, "/") \in Seq(Url!Characters) /\ Append(c.server, "/") # <<>>
        /\ Append(c.server, "/")[Len(Append(c.server, "/"))] = "/"
    BY <1>1, <1>2
  <2> QED BY <2>1, <2>2 DEF Last
<1> QED BY <1>3, <1>4

LEMMA ConstructServer == ServerInv /\ Construct => ServerInv'
<1> SUFFICES ASSUME ServerInv, Construct PROVE ServerInv'
  OBVIOUS
<1>1. pc = "construct" /\ info = NoInfo /\ given \in Cases /\ UNCHANGED <<given, wsk, peer>>
  BY DEF Construct, ServerInv
<1>2. LooksUpTheServer'
  BY <1>1 DEF ServerInv, LooksUpTheServer
<1>3. CASE given.server # <<>> /\ pc' = "check"
  BY <1>1, <1>2, <1>3 DEF ServerInv
<1>4. CASE GiveUp("unused") /\ UNCHANGED info
  BY <1>1, <1>2, <1>4 DEF ServerInv, GiveUp, Finish
<1> QED BY <1>3, <1>4 DEF Construct

LEMMA CheckServer == ServerInv /\ Check => ServerInv'
<1> SUFFICES ASSUME ServerInv, Check PROVE ServerInv'
  OBVIOUS
<1> DEFINE str == Server(given.server)
<1>1. pc = "check" /\ given \in Cases /\ given.server # <<>> /\ UNCHANGED <<given, wsk, info>>
  BY DEF Check, ServerInv
<1>2. str \in Seq(Url!Characters) /\ str # <<>> /\ Last(str) = "/"
  BY <1>1, ServerIsUrl
<1>3. ThisUrl = Url!Parse(str)
  BY DEF ThisUrl
<1>4. ASSUME ThisUrl.state \notin Url!Over, ThisUrl.hostname # <<>>,
             peer' = [host |-> ThisUrl.hostname,
                      port |-> IF ThisUrl.port = <<>> THEN <<"8", "0">> ELSE ThisUrl.port]
      PROVE  LooksUpTheServer' /\ peer' # NoPeer
  <2>1. /\ ThisUrl.hostname = UpTo(HostAndPort(str), ":")
        /\ ThisUrl.port = Behind(HostAndPort(str), ":")
    <3> HIDE DEF str
    <3> QED BY <1>2, <1>3, <1>4, Parsed
  <2>2. peer'.host = ThisUrl.hostname
        /\ peer'.port = IF ThisUrl.port = <<>> THEN <<"8", "0">> ELSE ThisUrl.port
    BY <1>4
  <2>3. LooksUpTheServer'
    BY <1>1, <2>1, <2>2 DEF LooksUpTheServer
  <2>4. NoPeer.host = <<>>
    BY DEF NoPeer
  <2> QED BY <1>4, <2>2, <2>3, <2>4
<1>5. ASSUME Plain(given.server)
      PROVE  /\ ThisUrl.state \notin Url!Over
             /\ ThisUrl.scheme = <<"h", "t", "t", "p">>
             /\ ThisUrl.hostname # <<>>
  <2>1. given.server \in Seq(Url!Characters)
    BY <1>1, ExchangeAssumption
  <2>2. str = (IF Last(given.server) = "/" THEN given.server ELSE Append(given.server, "/"))
    BY DEF Server
  <2> HIDE DEF str
  <2>3. PICK k, e : PlainAt(str, k, e)
    BY <1>1, <1>5, <2>1, <2>2, PlainPlaces
  <2> QED BY <1>2, <1>3, <2>3, PlainParsed
<1> HIDE DEF str
<1>6. pc' \notin {"construct", "check"}
  BY DEF Check, GiveUp, Finish
<1>7. CASE /\ Url!IsValid(ThisUrl)
           /\ ThisUrl.state # "aborted"
           /\ ThisUrl.hostname # <<>>
           /\ peer' = [host |-> ThisUrl.hostname,
                       port |-> IF ThisUrl.port = <<>> THEN <<"8", "0">> ELSE ThisUrl.port]
  <2>1. ThisUrl.state \notin Url!Over
    BY <1>7 DEF Url!IsValid, Url!Over
  <2>2. LooksUpTheServer' /\ peer' # NoPeer
    BY <1>4, <1>7, <2>1
  <2> QED BY <1>1, <1>6, <2>2 DEF ServerInv
<1>8. CASE /\ ThisUrl.state = "aborted"
           /\ UNCHANGED peer
  <2>1. ~Plain(given.server)
    BY <1>5, <1>8 DEF Url!Over
  <2>2. LooksUpTheServer'
    BY <1>1, <1>8 DEF ServerInv, LooksUpTheServer
  <2> QED BY <1>1, <1>6, <2>1, <2>2 DEF ServerInv
<1>9. CASE /\ \/ ~wsk
              \/ ~Url!IsValid(ThisUrl)
              \/ ThisUrl.scheme # <<"h", "t", "t", "p">>
              \/ ThisUrl.hostname = <<>>
           /\ UNCHANGED peer
  <2>1. ~wsk \/ ~Plain(given.server)
    BY <1>5, <1>9 DEF Url!IsValid, Url!Over
  <2>2. LooksUpTheServer'
    BY <1>1, <1>9 DEF ServerInv, LooksUpTheServer
  <2> QED BY <1>1, <1>6, <2>1, <2>2 DEF ServerInv
<1> QED BY <1>7, <1>8, <1>9 DEF Check

LEMMA ServerInvariance == Spec => []ServerInv
<1>1. ServerInv /\ [Next]_vars => ServerInv'
  <2> SUFFICES ASSUME ServerInv, [Next]_vars PROVE ServerInv'
    OBVIOUS
  <2>1. CASE Construct
    BY <2>1, ConstructServer
  <2>2. CASE Check
    BY <2>2, CheckServer
  <2>3. ASSUME UNCHANGED queryVars, pc \notin {"construct", "check"}, pc' \notin {"construct", "check"}
        PROVE  ServerInv'
    <3>1. LooksUpTheServer'
      BY <2>3 DEF ServerInv, LooksUpTheServer, queryVars
    <3> QED BY <2>3, <3>1 DEF ServerInv, queryVars
  <2>4. CASE Resolve
    BY <2>3, <2>4 DEF Resolve, GiveUp, Finish
  <2>5. CASE Socket
    BY <2>3, <2>5 DEF Socket, GiveUp, Finish
  <2>6. CASE Connect
    BY <2>3, <2>6 DEF Connect, GiveUp, Finish
  <2>7. CASE Send
    BY <2>3, <2>7 DEF Send, GiveUp, Finish
  <2>8. CASE Receive
    BY <2>3, <2>8 DEF Receive
  <2>9. CASE Parse
    BY <2>3, <2>9 DEF Parse
  <2>10. CASE Closed
    BY <2>3, <2>10 DEF Closed, Finish
  <2>11. CASE Broken
    BY <2>3, <2>11 DEF Broken, GiveUp, Finish
  <2>13. CASE ParseThrows
    BY <2>3, <2>13 DEF ParseThrows, GiveUp, Finish
  <2>12. CASE UNCHANGED vars
    <3>1. LooksUpTheServer'
      BY <2>12 DEF ServerInv, LooksUpTheServer, vars, queryVars
    <3> QED BY <2>12, <3>1 DEF ServerInv, vars, queryVars
  <2> QED BY <2>1, <2>2, <2>4, <2>5, <2>6, <2>7, <2>8, <2>9, <2>10, <2>11, <2>12, <2>13 DEF Next
<1> QED BY InitServer, <1>1, PTL DEF Spec

\* The host and the port that are looked up are those that the server's URL
\* names, whatever the URL is.
THEOREM TheServerIsLookedUp == Spec => []LooksUpTheServer
<1>1. ServerInv => LooksUpTheServer
  BY DEF ServerInv
<1> QED BY <1>1, ServerInvariance, PTL

\* A URL of http, a host and maybe a port, whatever is behind them, is taken.
THEOREM PlainUrlsAreTaken == Spec => []TakesPlainUrls
<1>1. ServerInv => TakesPlainUrls
  BY DEF ServerInv, TakesPlainUrls
<1> QED BY <1>1, ServerInvariance, PTL
==============================================================================
