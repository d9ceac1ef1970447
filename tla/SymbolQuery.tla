----------------------------- MODULE SymbolQuery -----------------------------
(***************************************************************************)
(* get_symbols of the PDB parser: three loops, over the public symbols,    *)
(* the global symbols and the symbols of the modules, that take the        *)
(* address of the first symbol of each name asked for.                     *)
(*                                                                         *)
(* A PDB file is the sequence of its symbol streams: that of the public    *)
(* symbols, that of the global symbols, and one for each module, empty if  *)
(* the module has none. A symbol is [kind, name, section, offset].         *)
(***************************************************************************)
EXTENDS Integers, Sequences, StdMap

CONSTANTS
  Pdbs,         \* symbol streams of the PDB files queried
  Sections,     \* the virtual address of each section of the image
  Names         \* the names asked for

ASSUME PdbsAssumption ==
  \A p \in Pdbs :
    /\ Len(p) \in Nat /\ DOMAIN p = 1 .. Len(p)
    /\ \A x \in DOMAIN p :
         /\ Len(p[x]) \in Nat /\ DOMAIN p[x] = 1 .. Len(p[x])
         /\ \A y \in DOMAIN p[x] : p[x][y].offset \in Nat

ASSUME SectionsAssumption ==
  /\ Len(Sections) \in Nat /\ DOMAIN Sections = 1 .. Len(Sections)
  /\ \A x \in DOMAIN Sections : Sections[x] \in Nat \ {0}

Invalid == -1

VARIABLES
  pc,           \* "scan" or "done"
  pdb,          \* the symbol streams
  stream,       \* the stream the scan is in
  i,            \* the symbol of it the scan is at
  result        \* what the query has found

vars == <<pc, pdb, stream, i, result>>

Init ==
  /\ pc = "scan"
  /\ pdb \in Pdbs
  /\ stream = 1
  /\ i = 1
  /\ result = Empty

\* Zero for symbols that the linker has put in no section of the image.
ConvertSectionOffsetToRVA(section, offset) ==
  IF section \in DOMAIN Sections THEN Sections[section] + offset ELSE 0

\* The kinds of symbols that a loop takes an address of. S_THUNK32 is here one
\* whose ordinal is TrampolineIncremental: no loop looks at any other.
Data == {"S_GDATA32", "S_GTHREAD32", "S_LDATA32", "S_LTHREAD32"}
Procedures == {"S_LPROC32", "S_GPROC32", "S_LPROC32_ID", "S_GPROC32_ID",
               "S_LDATA32", "S_LTHREAD32"}
Thunks == {"S_THUNK32", "S_TRAMPOLINE"}

Kinds(x) ==
  CASE x = 1 -> {"S_PUB32"}
    [] x = 2 -> Data
    [] OTHER      -> Procedures \union Thunks

\* All thunks of incremental linking go by one name.
NameOf(symbol) == IF symbol.kind \in Thunks THEN "ILT" ELSE symbol.name

Rva(x, symbol) ==
  IF symbol.kind \in Kinds(x)
  THEN ConvertSectionOffsetToRVA(symbol.section, symbol.offset) ELSE 0

Scanning == pc = "scan" /\ stream \in DOMAIN pdb /\ i \in DOMAIN pdb[stream]

\* Mutant of Symbol: the last symbol wins.
SymbolAssigns ==
  LET symbol == pdb[stream][i]
  IN  /\ Scanning
      /\ Rva(stream, symbol) # 0 /\ NameOf(symbol) \in Names
      /\ result' = Assign(result, NameOf(symbol), Rva(stream, symbol))
      /\ i' = i + 1
      /\ UNCHANGED <<pc, pdb, stream>>

\* A symbol that has been asked for.
Symbol ==
  LET symbol == pdb[stream][i]
  IN  /\ Scanning
      /\ Rva(stream, symbol) # 0 /\ NameOf(symbol) \in Names
      /\ result' = Insert(result, NameOf(symbol), Rva(stream, symbol))
      /\ i' = i + 1
      /\ UNCHANGED <<pc, pdb, stream>>

\* Any other symbol.
Skip ==
  LET symbol == pdb[stream][i]
  IN  /\ Scanning
      /\ Rva(stream, symbol) = 0 \/ NameOf(symbol) \notin Names
      /\ i' = i + 1
      /\ UNCHANGED <<pc, pdb, stream, result>>

\* From the public symbols to the global ones, to those of each module.
NextStream ==
  /\ pc = "scan"
  /\ stream \in DOMAIN pdb
  /\ i \notin DOMAIN pdb[stream]
  /\ stream' = stream + 1
  /\ i' = 1
  /\ UNCHANGED <<pc, pdb, result>>

NotFound == [n \in Names |-> Invalid]

\* Mutant of Finish: names that were not found are left out.
FinishUnfilled ==
  /\ pc = "scan"
  /\ stream \notin DOMAIN pdb
  /\ pc' = "done"
  /\ UNCHANGED <<pdb, stream, i, result>>

Finish ==
  /\ pc = "scan"
  /\ stream \notin DOMAIN pdb
  /\ result' = Fill(result, NotFound)
  /\ pc' = "done"
  /\ UNCHANGED <<pdb, stream, i>>

Next == Symbol \/ Skip \/ NextStream \/ Finish

Spec == Init /\ [][Next]_vars

-----------------------------------------------------------------------------

\* The answer has all names asked for, and no others.
TypeOK ==
  /\ pc \in {"scan", "done"}
  /\ stream \in Nat \ {0} /\ i \in Nat \ {0}
  /\ DOMAIN result \subseteq Names
  /\ \A n \in DOMAIN result : result[n] \in Int
  /\ pc = "done" => DOMAIN result = Names

\* Symbol y of stream x comes before symbol v of stream u.
Earlier(x, y, u, v) == x < u \/ (x = u /\ y < v)

\* Symbol y of stream x gives name n an address.
Gives(x, y, n) ==
  /\ x \in DOMAIN pdb /\ y \in DOMAIN pdb[x]
  /\ NameOf(pdb[x][y]) = n
  /\ Rva(x, pdb[x][y]) # 0

\* It is the first that does, public symbols before global ones, and global
\* ones before those of the modules in their order.
GivesFirst(x, y, n) ==
  /\ Gives(x, y, n)
  /\ \A u \in DOMAIN pdb : \A v \in DOMAIN pdb[u] :
       Gives(u, v, n) => ~Earlier(u, v, x, y)

\* A query has the address of the first symbol of each name that has one, even
\* if symbols without address, or types, of the same name come before it,
\* and -1 for names that no symbol gives an address.
FindsSymbols ==
  pc = "done" =>
    \A n \in Names :
      /\ \A x \in DOMAIN pdb : \A y \in DOMAIN pdb[x] :
           GivesFirst(x, y, n) => result[n] = Rva(x, pdb[x][y])
      /\ (\A x \in DOMAIN pdb : \A y \in DOMAIN pdb[x] : ~Gives(x, y, n))
           => result[n] = Invalid
=============================================================================
