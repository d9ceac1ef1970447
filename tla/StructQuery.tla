---------------------------- MODULE StructQuery ----------------------------
(***************************************************************************)
(* get_struct of the PDB parser: a scan over the type records for the      *)
(* structures and unions asked for and, in each, a walk by hand over the   *)
(* bytes of its list of fields.                                            *)
(*                                                                         *)
(* A field of a list has, besides what FieldLists says, a kind and the two *)
(* bytes after it (attr). Base classes and data members have the kind of   *)
(* the numeric leaf of their offset, data members a name, an offset and a  *)
(* type.                                                                   *)
(***************************************************************************)
EXTENDS FieldLists

CONSTANTS
  Streams,      \* type streams of the PDB files queried
  NoList,       \* the list of a record whose list is not in the stream
  Query         \* Query[s]: the members asked for of structure s

\* Types of members. Only bit-fields, with their position, make a difference.
Plain == [kind |-> "other"]
BitField(position) == [kind |-> "LF_BITFIELD", position |-> position]

Info(offset, position) == [offset |-> offset, bitfield_offset |-> position]
Invalid == Info(-1, 0)

Named == {"LF_MEMBER", "LF_STMEMBER", "LF_NESTTYPE", "LF_METHOD",
          "LF_ONEMETHOD"}
Supported == Named \union {"LF_BCLASS", "LF_VFUNCTAB"}

\* MethodProperty::Intro and PureIntro in the attributes of a method.
Introducing(attr) == (attr \div 4) % 8 \in {4, 6}

\* Where the name of a method starts: one that introduces a virtual function
\* has an offset in the vtable before it.
MethodName(attr) == IF Introducing(attr) THEN 12 ELSE 8

\* Where the code looks for the name of a record, or its end. An LF_METHOD,
\* which has the number of overloads in place of attributes, is taken for an
\* LF_ONEMETHOD.
ReadAt(r) ==
  CASE r.kind \in {"LF_MEMBER", "LF_BCLASS"}    -> 8 + LeafSize(r.leaf)
    [] r.kind \in {"LF_METHOD", "LF_ONEMETHOD"} -> MethodName(r.attr)
    [] r.kind = "LF_VFUNCTAB" -> 6
    [] OTHER -> 8

\* Where it is.
TextAt(r) ==
  CASE r.kind \in {"LF_MEMBER", "LF_BCLASS"} -> 8 + LeafSize(r.leaf)
    [] r.kind = "LF_ONEMETHOD"               -> MethodName(r.attr)
    [] OTHER -> 8

Members(list) ==
  {n \in DOMAIN list.recs : list.recs[n].kind = "LF_MEMBER"}

\* What holds of a list of fields in a PDB file.
FieldList(list) ==
  /\ LaidOut(list)
  /\ \A n \in DOMAIN list.recs :
       LET r == list.recs[n]
       IN  /\ r.attr \in Nat
           /\ r.text = r.at + TextAt(r)
           /\ r.kind \in Named => r.text <= r.end
           /\ r.kind \in Supported \ Named => r.end = r.text - 1
  /\ \A n \in Members(list) :
       LET r == list.recs[n]
       IN  /\ r.offset \in Nat
           /\ r.type = Plain \/ r.type = BitField(r.type.position)
  /\ \A m, n \in Members(list) : list.recs[m].name = list.recs[n].name => m = n

ASSUME StreamsAssumption ==
  \A s \in Streams :
    /\ Len(s) \in Nat /\ DOMAIN s = 1 .. Len(s)
    /\ \A t \in DOMAIN s :
         s[t].kind \in {"LF_STRUCTURE", "LF_UNION"} /\ s[t].list # NoList
           => FieldList(s[t].list)

VARIABLES
  pc,           \* "scan", "walk" in a list of fields, or "done"
  stream,       \* the type records
  k,            \* the type record the scan is at
  i,            \* the byte of its list the walk is at
  referenced,   \* what referenced_type points to
  fields,       \* what the walk has found
  result        \* what the query has found

vars == <<pc, stream, k, i, referenced, fields, result>>

Init ==
  /\ pc = "scan"
  /\ stream \in Streams
  /\ k = 1
  /\ i = 0
  /\ referenced = Plain
  /\ fields = Empty
  /\ result = Empty

\* A definition, not a forward reference, of a structure or union.
Definition(t) ==
  /\ t.kind \in {"LF_STRUCTURE", "LF_UNION"}
  /\ ~t.fwdref
  /\ t.list # NoList

\* The size of a union of 0x8000 bytes or more takes more than two bytes.
LargeUnion(t) == t.kind = "LF_UNION" /\ t.leaf # "easy"

\* A definition asked for. GetLeafName is told that the size of a union takes
\* two bytes: the name of a large union is not found.
Wanted(t) == Definition(t) /\ ~LargeUnion(t) /\ t.name \in DOMAIN Query

Skip ==
  /\ pc = "scan"
  /\ k \in DOMAIN stream
  /\ ~Wanted(stream[k])
  /\ k' = k + 1
  /\ UNCHANGED <<pc, stream, i, referenced, fields, result>>

Enter ==
  /\ pc = "scan"
  /\ k \in DOMAIN stream
  /\ Wanted(stream[k])
  /\ pc' = "walk"
  /\ i' = 0
  /\ referenced' = Plain
  /\ fields' = Empty
  /\ UNCHANGED <<stream, k, result>>

\* The field that starts where the walk is. What is found at any other byte
\* is of no kind that the walk knows.
Current ==
  {r \in {stream[k].list.recs[n] : n \in DOMAIN stream[k].list.recs} :
     r.at = i /\ r.kind \in Supported}

\* Behind the name of field r.
Behind(r) == Align(StringEnd(stream[k].list, i + ReadAt(r)) + 1)

\* Mutant of GetTypeName: *referencedType = nullptr is missing.
GetTypeNameKeeps(type) == IF type = Plain THEN referenced ELSE type

\* What GetTypeName leaves in referenced_type.
GetTypeName(type) == type

\* The uint16_t offset, and the position if referenced_type is a bit-field.
Found(r) ==
  Info(r.offset % 65536,
       IF GetTypeName(r.type).kind = "LF_BITFIELD"
       THEN GetTypeName(r.type).position ELSE 0)

Member ==
  /\ pc = "walk"
  /\ \E r \in Current :
       /\ r.kind = "LF_MEMBER"
       /\ referenced' = GetTypeName(r.type)
       /\ fields' = IF r.name \in Query[stream[k].name]
                    THEN Insert(fields, r.name, Found(r)) ELSE fields
       /\ i' = Behind(r)
  /\ UNCHANGED <<pc, stream, k, result>>

\* Nested types, static members and methods have names to be skipped.
SkipNamed ==
  /\ pc = "walk"
  /\ \E r \in Current :
       /\ r.kind \in Named \ {"LF_MEMBER"}
       /\ i' = Behind(r)
  /\ UNCHANGED <<pc, stream, k, referenced, fields, result>>

\* Mutant of SkipBase: continue, without the alignment.
SkipBaseUnaligned ==
  /\ pc = "walk"
  /\ \E r \in Current :
       /\ r.kind \in Supported \ Named
       /\ i' = i + ReadAt(r)
  /\ UNCHANGED <<pc, stream, k, referenced, fields, result>>

\* Base classes and the vtable pointer do not.
SkipBase ==
  /\ pc = "walk"
  /\ \E r \in Current :
       /\ r.kind \in Supported \ Named
       /\ i' = Align(i + ReadAt(r))
  /\ UNCHANGED <<pc, stream, k, referenced, fields, result>>

NotFound(names) == [f \in names |-> Invalid]

\* Mutant of Leave: names that were not found are left out.
LeaveUnfilled ==
  LET s == stream[k].name
  IN  /\ pc = "walk"
      /\ i >= stream[k].list.size \/ Current = {}
      /\ result' = Insert(result, s, fields)
      /\ k' = k + 1
      /\ pc' = "scan"
      /\ UNCHANGED <<stream, i, referenced, fields>>

\* The end of the list, or a kind of field that is not supported.
Leave ==
  LET s == stream[k].name
  IN  /\ pc = "walk"
      /\ i >= stream[k].list.size \/ Current = {}
      /\ result' = Insert(result, s, Fill(fields, NotFound(Query[s])))
      /\ k' = k + 1
      /\ pc' = "scan"
      /\ UNCHANGED <<stream, i, referenced, fields>>

NoneFound == [s \in DOMAIN Query |-> NotFound(Query[s])]

Finish ==
  /\ pc = "scan"
  /\ k \notin DOMAIN stream
  /\ result' = Fill(result, NoneFound)
  /\ pc' = "done"
  /\ UNCHANGED <<stream, k, i, referenced, fields>>

Next == Skip \/ Enter \/ Member \/ SkipNamed \/ SkipBase \/ Leave \/ Finish

Spec == Init /\ [][Next]_vars

-----------------------------------------------------------------------------

TypeOK ==
  /\ pc \in {"scan", "walk", "done"}
  /\ k \in Nat \ {0}
  /\ i \in Nat
  /\ referenced.kind \in {"other", "LF_BITFIELD"}
  /\ pc = "walk" => k \in DOMAIN stream /\ Wanted(stream[k])
  /\ pc = "walk" => DOMAIN fields \subseteq Query[stream[k].name]
  /\ DOMAIN result \subseteq DOMAIN Query
  /\ \A s \in DOMAIN result : DOMAIN result[s] = Query[s]
  /\ pc = "done" => DOMAIN result = DOMAIN Query

\* A field the walk gets behind: it is supported, and its name, if it is a
\* method with 16 to 19 or 24 to 27 overloads, is not so short that reading
\* it four bytes late goes past its end.
Regular(r) ==
  r.kind \in Supported /\ (r.kind \in Named => r.at + ReadAt(r) <= r.end)

\* As long as it has met regular fields only, the walk is at the start of a
\* field, or at the end of the list.
InStep ==
  pc = "walk" =>
    LET list == stream[k].list
    IN  (\A n \in DOMAIN list.recs : list.recs[n].at < i => Regular(list.recs[n]))
          => \/ i = list.size
             \/ \E n \in DOMAIN list.recs : list.recs[n].at = i

\* Record d is the definition of s that the answer is to be taken from.
FirstDefinition(s, d) ==
  /\ d \in DOMAIN stream
  /\ Definition(stream[d]) /\ stream[d].name = s
  /\ \A t \in 1 .. d - 1 : ~(Definition(stream[t]) /\ stream[t].name = s)

\* What a query should say of member r.
Expected(r) ==
  Info(r.offset, IF r.type = Plain THEN 0 ELSE r.type.position)

\* A query has the offset, and the position if it is a bit-field and zero if
\* not, of every member asked for that lies below 64 KB and that only regular
\* fields come before, whatever comes after; -1 for names a structure of
\* regular fields does not have; and -1 for structures and unions that have no
\* definition. It says nothing of a name whose first definition is a union of
\* 0x8000 bytes or more, which the code does not find: a defect, as the answers
\* for members behind 64 KB and behind fields that are not regular are.
FindsRegularMembers ==
  pc = "done" =>
    \A s \in DOMAIN Query : \A f \in Query[s] :
      /\ \A d \in DOMAIN stream : FirstDefinition(s, d) /\ ~LargeUnion(stream[d]) =>
           LET list == stream[d].list
           IN  /\ \A n \in Members(list) :
                    /\ list.recs[n].name = f
                    /\ list.recs[n].offset < 65536
                    /\ \A m \in 1 .. n - 1 : Regular(list.recs[m])
                    => result[s][f] = Expected(list.recs[n])
               /\ /\ \A n \in DOMAIN list.recs : Regular(list.recs[n])
                  /\ \A n \in Members(list) : list.recs[n].name # f
                  => result[s][f] = Invalid
      /\ (\A d \in DOMAIN stream : ~FirstDefinition(s, d))
           => result[s][f] = Invalid
=============================================================================
