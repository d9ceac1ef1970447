------------------------- MODULE SymbolQuery_proofs -------------------------
(***************************************************************************)
(* What is proved of SymbolQuery for any PDB files and any names: that it  *)
(* answers with the first address that there is for each name.             *)
(***************************************************************************)
EXTENDS SymbolQuery, TLAPS

\* The scan has been at symbol y of stream x.
Scanned(x, y) == Earlier(x, y, stream, i)

\* Every name asked for that has been seen with an address is found, and what
\* has been found is the first address of its name.
FoundInv ==
  /\ \A x \in DOMAIN pdb : \A y \in DOMAIN pdb[x] : \A n \in Names :
       Gives(x, y, n) /\ Scanned(x, y) => n \in DOMAIN result
  /\ pc = "scan" =>
       \A n \in DOMAIN result :
         \E x \in DOMAIN pdb : \E y \in DOMAIN pdb[x] :
           /\ GivesFirst(x, y, n)
           /\ result[n] = Rva(x, pdb[x][y])

\* The inductive invariant.
IInv ==
  /\ pdb \in Pdbs
  /\ TypeOK
  /\ FoundInv
  /\ FindsSymbols

-----------------------------------------------------------------------------

\* What the assumption on Pdbs says of the file.
LEMMA Numbers ==
  ASSUME pdb \in Pdbs
  PROVE  /\ DOMAIN pdb \subseteq Nat \ {0}
         /\ \A x \in DOMAIN pdb : DOMAIN pdb[x] \subseteq Nat \ {0}
         /\ DOMAIN pdb = 1 .. Len(pdb) /\ Len(pdb) \in Nat
         /\ \A x \in DOMAIN pdb :
              DOMAIN pdb[x] = 1 .. Len(pdb[x]) /\ Len(pdb[x]) \in Nat
<1>1. /\ DOMAIN pdb = 1 .. Len(pdb) /\ Len(pdb) \in Nat
      /\ \A x \in DOMAIN pdb :
           DOMAIN pdb[x] = 1 .. Len(pdb[x]) /\ Len(pdb[x]) \in Nat
  BY PdbsAssumption
<1>2. \A l \in Nat : 1 .. l \subseteq Nat \ {0}
  OBVIOUS
<1> QED BY <1>1, <1>2

\* A name has one first address.
LEMMA OneFirst ==
  ASSUME pdb \in Pdbs, NEW n, NEW x, NEW y, NEW u, NEW v,
         GivesFirst(x, y, n), GivesFirst(u, v, n)
  PROVE  x = u /\ y = v
<1>1. /\ Gives(x, y, n) /\ Gives(u, v, n)
      /\ ~Earlier(u, v, x, y) /\ ~Earlier(x, y, u, v)
  BY DEF GivesFirst, Gives
<1>2. x \in Nat /\ y \in Nat /\ u \in Nat /\ v \in Nat
  BY <1>1, Numbers DEF Gives
<1> QED BY <1>1, <1>2 DEF Earlier

\* Addresses are numbers.
LEMMA RvaType ==
  ASSUME pdb \in Pdbs, NEW x \in DOMAIN pdb, NEW y \in DOMAIN pdb[x]
  PROVE  Rva(x, pdb[x][y]) \in Nat
BY PdbsAssumption, SectionsAssumption DEF Rva, ConvertSectionOffsetToRVA

-----------------------------------------------------------------------------

LEMMA InitIInv == Init => IInv
<1> SUFFICES ASSUME Init PROVE IInv
  OBVIOUS
<1>1. DOMAIN result = {} /\ pdb \in Pdbs /\ stream = 1 /\ i = 1 /\ pc = "scan"
  BY DEF Init, Empty
<1>2. ASSUME NEW x \in DOMAIN pdb, NEW y \in DOMAIN pdb[x]
      PROVE  ~Scanned(x, y)
  <2>1. x \in Nat \ {0} /\ y \in Nat \ {0}
    BY <1>1, Numbers
  <2> QED BY <1>1, <2>1 DEF Scanned, Earlier
<1> QED BY <1>1, <1>2 DEF IInv, TypeOK, FoundInv, FindsSymbols

\* When the scan steps over a symbol, that is the only new one.
LEMMA OneMore ==
  ASSUME pdb \in Pdbs, TypeOK, Scanning, i' = i + 1, stream' = stream,
         NEW x \in DOMAIN pdb, NEW y \in DOMAIN pdb[x]
  PROVE  Scanned(x, y)' <=> Scanned(x, y) \/ (x = stream /\ y = i)
<1>1. x \in Nat /\ y \in Nat /\ stream \in Nat /\ i \in Nat
  BY Numbers DEF TypeOK
<1> QED BY <1>1 DEF Scanned, Earlier

\* The scan finds a symbol that was asked for.
LEMMA StepSymbol ==
  ASSUME IInv, Symbol
  PROVE  IInv'
<1> USE DEF IInv
<1> DEFINE symbol == pdb[stream][i]
           name == NameOf(symbol)
<1>1. /\ Scanning /\ stream \in DOMAIN pdb /\ i \in DOMAIN pdb[stream]
      /\ pc = "scan" /\ pc' = "scan" /\ pdb' = pdb
      /\ stream' = stream /\ i' = i + 1
      /\ Rva(stream, symbol) # 0 /\ name \in Names
      /\ result' = Insert(result, name, Rva(stream, symbol))
  BY DEF Symbol, Scanning
<1>2. Gives(stream, i, name)
  BY <1>1 DEF Gives
<1>3. TypeOK'
  <2>1. Rva(stream, symbol) \in Int
    BY <1>1, RvaType
  <2>2. DOMAIN result' \subseteq Names /\ \A n \in DOMAIN result' : result'[n] \in Int
    BY <1>1, <2>1 DEF TypeOK, Insert
  <2> QED BY <1>1, <2>2 DEF TypeOK
<1>4. /\ \A x, y, n : Gives(x, y, n)' <=> Gives(x, y, n)
      /\ \A x, y, n : GivesFirst(x, y, n)' <=> GivesFirst(x, y, n)
  BY <1>1 DEF Gives, GivesFirst
<1>5. ASSUME NEW x \in DOMAIN pdb, NEW y \in DOMAIN pdb[x], NEW n \in Names,
             Gives(x, y, n), Scanned(x, y)'
      PROVE  n \in DOMAIN result'
  <2>1. Scanned(x, y) \/ (x = stream /\ y = i)
    BY <1>1, <1>5, OneMore
  <2>2. CASE Scanned(x, y)
    BY <1>1, <1>5, <2>2 DEF FoundInv, Insert
  <2>3. CASE x = stream /\ y = i
    BY <1>1, <1>5, <2>3 DEF Gives, Insert
  <2> QED BY <2>1, <2>2, <2>3
<1>6. ASSUME NEW n \in DOMAIN result'
      PROVE  \E x \in DOMAIN pdb : \E y \in DOMAIN pdb[x] :
               GivesFirst(x, y, n) /\ result'[n] = Rva(x, pdb[x][y])
  <2>1. CASE n \in DOMAIN result
    BY <1>1, <2>1 DEF FoundInv, Insert
  <2>2. CASE n \notin DOMAIN result
    <3>1. n = name /\ result'[n] = Rva(stream, symbol)
      BY <1>1, <1>6, <2>2 DEF Insert
    <3>2. GivesFirst(stream, i, n)
      BY <1>1, <1>2, <2>2, <3>1 DEF GivesFirst, FoundInv, Scanned
    <3> QED BY <1>1, <3>1, <3>2
  <2> QED BY <2>1, <2>2
<1>7. FoundInv'
  BY <1>1, <1>4, <1>5, <1>6 DEF FoundInv
<1>8. FindsSymbols'
  BY <1>1 DEF FindsSymbols
<1> QED BY <1>1, <1>3, <1>7, <1>8

\* The scan goes over a symbol that was not.
LEMMA StepSkip ==
  ASSUME IInv, Skip
  PROVE  IInv'
<1> USE DEF IInv
<1>1. /\ Scanning /\ stream \in DOMAIN pdb /\ i \in DOMAIN pdb[stream]
      /\ pc = "scan" /\ pc' = "scan" /\ pdb' = pdb /\ result' = result
      /\ stream' = stream /\ i' = i + 1
      /\ Rva(stream, pdb[stream][i]) = 0 \/ NameOf(pdb[stream][i]) \notin Names
  BY DEF Skip, Scanning
<1>2. TypeOK' /\ FindsSymbols'
  BY <1>1 DEF TypeOK, FindsSymbols
<1>3. /\ \A x, y, n : Gives(x, y, n)' <=> Gives(x, y, n)
      /\ \A x, y, n : GivesFirst(x, y, n)' <=> GivesFirst(x, y, n)
  BY <1>1 DEF Gives, GivesFirst
<1>4. ASSUME NEW x \in DOMAIN pdb, NEW y \in DOMAIN pdb[x], NEW n \in Names,
             Gives(x, y, n), Scanned(x, y)'
      PROVE  n \in DOMAIN result
  <2>1. Scanned(x, y) \/ (x = stream /\ y = i)
    BY <1>1, <1>4, OneMore
  <2>2. ~(x = stream /\ y = i)
    BY <1>1, <1>4 DEF Gives
  <2> QED BY <1>4, <2>1, <2>2 DEF FoundInv
<1>5. FoundInv'
  BY <1>1, <1>3, <1>4 DEF FoundInv
<1> QED BY <1>1, <1>2, <1>5

\* The scan goes on to the stream that follows.
LEMMA StepNextStream ==
  ASSUME IInv, NextStream
  PROVE  IInv'
<1> USE DEF IInv
<1>1. /\ stream \in DOMAIN pdb /\ i \notin DOMAIN pdb[stream]
      /\ pc = "scan" /\ pc' = "scan" /\ pdb' = pdb /\ result' = result
      /\ stream' = stream + 1 /\ i' = 1
      /\ stream \in Nat \ {0} /\ i \in Nat \ {0}
  BY DEF NextStream, TypeOK
<1>2. TypeOK' /\ FindsSymbols'
  BY <1>1 DEF TypeOK, FindsSymbols
<1>3. /\ \A x, y, n : Gives(x, y, n)' <=> Gives(x, y, n)
      /\ \A x, y, n : GivesFirst(x, y, n)' <=> GivesFirst(x, y, n)
  BY <1>1 DEF Gives, GivesFirst
<1>4. ASSUME NEW x \in DOMAIN pdb, NEW y \in DOMAIN pdb[x], Scanned(x, y)'
      PROVE  Scanned(x, y)
  <2>1. x \in Nat \ {0} /\ y \in Nat \ {0}
    BY Numbers
  <2>2. x <= stream
    BY <1>1, <1>4, <2>1 DEF Scanned, Earlier
  <2>3. x = stream => y < i
    <3> SUFFICES ASSUME x = stream PROVE y < i
      OBVIOUS
    <3>1. y \in 1 .. Len(pdb[stream]) /\ i \notin 1 .. Len(pdb[stream])
      BY <1>1, Numbers
    <3>2. Len(pdb[stream]) \in Nat
      BY <1>1, Numbers
    <3> QED BY <1>1, <3>1, <3>2
  <2> QED BY <1>1, <2>1, <2>2, <2>3 DEF Scanned, Earlier
<1>5. FoundInv'
  BY <1>1, <1>3, <1>4 DEF FoundInv
<1> QED BY <1>1, <1>2, <1>5

\* The scan ends, and what is missing is filled in.
LEMMA StepFinish ==
  ASSUME IInv, Finish
  PROVE  IInv'
<1> USE DEF IInv
<1>1. /\ stream \notin DOMAIN pdb /\ stream \in Nat \ {0} /\ i \in Nat \ {0}
      /\ pc = "scan" /\ pc' = "done" /\ pdb' = pdb /\ stream' = stream /\ i' = i
      /\ result' = Fill(result, NotFound)
  BY DEF Finish, TypeOK
<1>2. /\ DOMAIN result' = Names
      /\ \A n \in Names : result'[n] = IF n \in DOMAIN result THEN result[n] ELSE -1
  BY <1>1 DEF Fill, NotFound, Invalid
<1>3. TypeOK'
  <2>1. \A n \in Names : n \in DOMAIN result => result[n] \in Int
    BY DEF TypeOK
  <2>2. -1 \in Int
    OBVIOUS
  <2>3. \A n \in Names : result'[n] \in Int
    BY <1>2, <2>1, <2>2
  <2> QED BY <1>1, <1>2, <2>3 DEF TypeOK
<1>4. /\ \A x, y, n : Gives(x, y, n)' <=> Gives(x, y, n)
      /\ \A x, y, n : GivesFirst(x, y, n)' <=> GivesFirst(x, y, n)
  BY <1>1 DEF Gives, GivesFirst
<1>5. FoundInv'
  BY <1>1, <1>2, <1>4 DEF FoundInv, Gives, Scanned
<1>6. \A x \in DOMAIN pdb : \A y \in DOMAIN pdb[x] : Scanned(x, y)
  <2> TAKE x \in DOMAIN pdb
  <2>1. x \in 1 .. Len(pdb) /\ stream \notin 1 .. Len(pdb) /\ Len(pdb) \in Nat
    BY <1>1, Numbers
  <2>2. x < stream
    BY <1>1, <2>1
  <2> QED BY <2>2 DEF Scanned, Earlier
<1>7. ASSUME NEW n \in Names
      PROVE  /\ \A x \in DOMAIN pdb : \A y \in DOMAIN pdb[x] :
                  GivesFirst(x, y, n) => result'[n] = Rva(x, pdb[x][y])
             /\ (\A x \in DOMAIN pdb : \A y \in DOMAIN pdb[x] : ~Gives(x, y, n))
                  => result'[n] = Invalid
  <2>1. ASSUME NEW x \in DOMAIN pdb, NEW y \in DOMAIN pdb[x], GivesFirst(x, y, n)
        PROVE  result'[n] = Rva(x, pdb[x][y])
    <3>1. n \in DOMAIN result
      BY <1>6, <2>1 DEF FoundInv, GivesFirst
    <3>2. PICK u \in DOMAIN pdb : \E v \in DOMAIN pdb[u] :
            GivesFirst(u, v, n) /\ result[n] = Rva(u, pdb[u][v])
      BY <1>1, <3>1 DEF FoundInv
    <3>3. PICK v \in DOMAIN pdb[u] :
            GivesFirst(u, v, n) /\ result[n] = Rva(u, pdb[u][v])
      BY <3>2
    <3>4. x = u /\ y = v
      BY <2>1, <3>3, OneFirst
    <3> QED BY <1>2, <3>1, <3>3, <3>4
  <2>2. ASSUME \A x \in DOMAIN pdb : \A y \in DOMAIN pdb[x] : ~Gives(x, y, n)
        PROVE  result'[n] = Invalid
    <3>1. n \notin DOMAIN result
      BY <1>1, <2>2 DEF FoundInv, GivesFirst
    <3> QED BY <1>2, <3>1 DEF Invalid
  <2> QED BY <2>1, <2>2
<1>8. FindsSymbols'
  BY <1>1, <1>4, <1>7 DEF FindsSymbols
<1> QED BY <1>1, <1>3, <1>5, <1>8

THEOREM Invariance == Spec => []IInv
<1>1. IInv /\ [Next]_vars => IInv'
  <2> SUFFICES ASSUME IInv, [Next]_vars PROVE IInv'
    OBVIOUS
  <2>1. CASE Symbol
    BY <2>1, StepSymbol
  <2>2. CASE Skip
    BY <2>2, StepSkip
  <2>3. CASE NextStream
    BY <2>3, StepNextStream
  <2>4. CASE Finish
    BY <2>4, StepFinish
  <2>5. CASE UNCHANGED vars
    BY <2>5 DEF vars, IInv, TypeOK, FoundInv, FindsSymbols, Gives, GivesFirst, Scanned
  <2> QED BY <2>1, <2>2, <2>3, <2>4, <2>5 DEF Next
<1> QED BY InitIInv, <1>1, PTL DEF Spec

\* The answer of a query has all names asked for, and no others.
THEOREM TypeCorrectness == Spec => []TypeOK
<1>1. IInv => TypeOK
  BY DEF IInv
<1> QED BY Invariance, <1>1, PTL

\* It has the first address that the symbols give each name, and -1 for the
\* names that they give none.
THEOREM Correctness == Spec => []FindsSymbols
<1>1. IInv => FindsSymbols
  BY DEF IInv
<1> QED BY Invariance, <1>1, PTL
=============================================================================
