----------------------------- MODULE EnumQuery -----------------------------
(***************************************************************************)
(* get_enum of the PDB parser: a scan over the type records for the        *)
(* enumerations asked for and, in each, a walk by hand over the bytes of   *)
(* its list of enumerators.                                                *)
(*                                                                         *)
(* An enumerator of a list has, besides what FieldLists says, a name, the  *)
(* kind of its numeric leaf, its value, and the two bytes before its name  *)
(* as a number (word). These are the value itself if it is below 0x8000.   *)
(***************************************************************************)
EXTENDS FieldLists

CONSTANTS
  Streams,      \* type streams of the PDB files queried
  NoList,       \* the list of a record whose list is not in the stream
  Query         \* Query[e]: the enumerators asked for of enumeration e

Invalid == -1

\* The offset of the value, and of the name as the code has it, in a record:
\* GetLeafName is told that every value takes two bytes.
ValueAt == 4
NameAt == ValueAt + LeafSize("easy")

Easy(r) == r.leaf = "easy"

\* What holds of a list of enumerators in a PDB file.
EnumList(list) ==
  /\ LaidOut(list)
  /\ \A n \in DOMAIN list.recs :
       LET r == list.recs[n]
       IN  /\ r.text = r.at + ValueAt + LeafSize(r.leaf)
           /\ r.text <= r.end
           /\ r.value \in Int /\ r.word \in Nat
           /\ Easy(r) => r.word = r.value
  /\ \A m, n \in DOMAIN list.recs :
       list.recs[m].name = list.recs[n].name => m = n

ASSUME StreamsAssumption ==
  \A s \in Streams :
    /\ Len(s) \in Nat /\ DOMAIN s = 1 .. Len(s)
    /\ \A t \in DOMAIN s :
         s[t].kind = "LF_ENUM" /\ s[t].list # NoList => EnumList(s[t].list)

VARIABLES
  pc,           \* "scan", "walk" in a list of enumerators, or "done"
  stream,       \* the type records
  k,            \* the type record the scan is at
  i,            \* the byte of its list the walk is at
  fields,       \* what the walk has found
  result        \* what the query has found

vars == <<pc, stream, k, i, fields, result>>

Init ==
  /\ pc = "scan"
  /\ stream \in Streams
  /\ k = 1
  /\ i = 0
  /\ fields = Empty
  /\ result = Empty

\* A definition, not a forward reference, of an enumeration asked for.
Wanted(t) ==
  /\ t.kind = "LF_ENUM"
  /\ ~t.fwdref
  /\ t.list # NoList
  /\ t.name \in DOMAIN Query

Skip ==
  /\ pc = "scan"
  /\ k \in DOMAIN stream
  /\ ~Wanted(stream[k])
  /\ k' = k + 1
  /\ UNCHANGED <<pc, stream, i, fields, result>>

Enter ==
  /\ pc = "scan"
  /\ k \in DOMAIN stream
  /\ Wanted(stream[k])
  /\ pc' = "walk"
  /\ i' = 0
  /\ fields' = Empty
  /\ UNCHANGED <<stream, k, result>>

\* The enumerators asked for whose name is the string at p; a string that
\* starts anywhere else than a name does is no name.
NamedAt(p) ==
  {r \in {stream[k].list.recs[n] : n \in DOMAIN stream[k].list.recs} :
     r.text = p /\ r.name \in Query[stream[k].name]}

\* Mutant of Enumerator: the next record is not aligned.
EnumeratorUnaligned ==
  LET list == stream[k].list
      p == i + NameAt
  IN  /\ pc = "walk"
      /\ i < list.size
      /\ \/ \E r \in NamedAt(p) : fields' = Insert(fields, r.name, r.word)
         \/ NamedAt(p) = {} /\ UNCHANGED fields
      /\ i' = StringEnd(list, p) + 1
      /\ UNCHANGED <<pc, stream, k, result>>

\* One turn of the loop: whatever is at i is taken for an enumerator.
Enumerator ==
  LET list == stream[k].list
      p == i + NameAt
  IN  /\ pc = "walk"
      /\ i < list.size
      /\ \/ \E r \in NamedAt(p) : fields' = Insert(fields, r.name, r.word)
         \/ NamedAt(p) = {} /\ UNCHANGED fields
      /\ i' = Align(StringEnd(list, p) + 1)
      /\ UNCHANGED <<pc, stream, k, result>>

NotFound(names) == [f \in names |-> Invalid]

\* Mutant of Leave: the last definition wins.
LeaveAssigns ==
  LET e == stream[k].name
  IN  /\ pc = "walk"
      /\ i >= stream[k].list.size
      /\ result' = Assign(result, e, Fill(fields, NotFound(Query[e])))
      /\ k' = k + 1
      /\ pc' = "scan"
      /\ UNCHANGED <<stream, i, fields>>

\* Mutant of Leave: names that were not found are left out.
LeaveUnfilled ==
  LET e == stream[k].name
  IN  /\ pc = "walk"
      /\ i >= stream[k].list.size
      /\ result' = Insert(result, e, fields)
      /\ k' = k + 1
      /\ pc' = "scan"
      /\ UNCHANGED <<stream, i, fields>>

Leave ==
  LET e == stream[k].name
  IN  /\ pc = "walk"
      /\ i >= stream[k].list.size
      /\ result' = Insert(result, e, Fill(fields, NotFound(Query[e])))
      /\ k' = k + 1
      /\ pc' = "scan"
      /\ UNCHANGED <<stream, i, fields>>

NoneFound == [e \in DOMAIN Query |-> NotFound(Query[e])]

Finish ==
  /\ pc = "scan"
  /\ k \notin DOMAIN stream
  /\ result' = Fill(result, NoneFound)
  /\ pc' = "done"
  /\ UNCHANGED <<stream, k, i, fields>>

Next == Skip \/ Enter \/ Enumerator \/ Leave \/ Finish

Spec == Init /\ [][Next]_vars

-----------------------------------------------------------------------------

TypeOK ==
  /\ pc \in {"scan", "walk", "done"}
  /\ k \in Nat \ {0}
  /\ i \in Nat
  /\ pc = "walk" => k \in DOMAIN stream /\ Wanted(stream[k])
  /\ pc = "walk" => DOMAIN fields \subseteq Query[stream[k].name]
  /\ DOMAIN result \subseteq DOMAIN Query
  /\ \A e \in DOMAIN result : DOMAIN result[e] = Query[e]
  /\ pc = "done" => DOMAIN result = DOMAIN Query

\* As long as it has met no value of more than two bytes, the walk is at the
\* start of an enumerator, or at the end of the list: it takes no byte in
\* between for an enumerator, and reads none behind the list.
InStep ==
  pc = "walk" =>
    LET list == stream[k].list
    IN  (\A n \in DOMAIN list.recs : list.recs[n].at < i => Easy(list.recs[n]))
          => \/ i = list.size
             \/ \E n \in DOMAIN list.recs : list.recs[n].at = i

\* Record d is the definition of e that the answer is to be taken from.
FirstDefinition(e, d) ==
  /\ d \in DOMAIN stream
  /\ Wanted(stream[d]) /\ stream[d].name = e
  /\ \A t \in 1 .. d - 1 : ~(Wanted(stream[t]) /\ stream[t].name = e)

\* Enumerator f and all enumerators before it in the list are below 0x8000.
SmallUpTo(list, n) == \A m \in 1 .. n : Easy(list.recs[m])

\* A query has the value of every enumerator asked for that no larger value
\* comes before, whatever comes after it and whatever other definitions of
\* the enumeration follow; and -1 for names an enumeration of small values
\* does not have, and for enumerations that are not there.
FindsSmallEnumerators ==
  pc = "done" =>
    \A e \in DOMAIN Query : \A f \in Query[e] :
      /\ \A d \in DOMAIN stream : FirstDefinition(e, d) =>
           LET list == stream[d].list
           IN  /\ \A n \in DOMAIN list.recs :
                    list.recs[n].name = f /\ SmallUpTo(list, n)
                      => result[e][f] = list.recs[n].value
               /\ (\A n \in DOMAIN list.recs :
                     Easy(list.recs[n]) /\ list.recs[n].name # f)
                      => result[e][f] = Invalid
      /\ (\A d \in DOMAIN stream : ~FirstDefinition(e, d))
           => result[e][f] = Invalid
=============================================================================
