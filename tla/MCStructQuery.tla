--------------------------- MODULE MCStructQuery ---------------------------
(***************************************************************************)
(* Type streams for StructQuery, laid out byte by byte: every list of up   *)
(* to three fields of the shapes below, and some streams of several        *)
(* records.                                                                *)
(***************************************************************************)
EXTENDS StructQuery, SequencesExt

\* A field: its kind, attr, the length of its name, and its zero bytes before
\* the name. Type indices have two zero bytes, attributes below 256 have one.
Shape(kind, attr, length, zeros) ==
  [kind |-> kind, attr |-> attr, length |-> length,
   zeros |-> zeros \union {3, 6, 7}, leaf |-> "easy"]

\* Data members, at the offsets 4, 40000 and 70000.
DataMember(name, length, type, offset, leaf, zeros) ==
  [kind |-> "LF_MEMBER", attr |-> 3, length |-> length,
   zeros |-> zeros \union {3, 6, 7}, leaf |-> leaf,
   name |-> name, type |-> type, offset |-> offset]

MembersNamed(name, length) ==
  {DataMember(name, length, Plain, 4, "easy", {9}),
   DataMember(name, length, BitField(2), 4, "easy", {9}),
   DataMember(name, length, Plain, 40000, "LF_USHORT", {}),
   DataMember(name, length, BitField(5), 70000, "LF_ULONG", {13})}

\* 17 overloads look like the attributes of a method that introduces a
\* virtual function, which are 19 here.
OtherShapes == {
  Shape("LF_BCLASS", 3, 0, {8, 9}),
  Shape("LF_VFUNCTAB", 0, 0, {2}),
  Shape("LF_NESTTYPE", 0, 3, {2}),
  Shape("LF_STMEMBER", 3, 1, {}),
  Shape("LF_METHOD", 2, 3, {}),
  Shape("LF_METHOD", 17, 3, {}),
  Shape("LF_METHOD", 17, 7, {}),
  Shape("LF_ONEMETHOD", 3, 1, {}),
  Shape("LF_ONEMETHOD", 19, 1, {9, 10, 11}),
  Shape("LF_VBCLASS", 3, 0, {})}

Shapes == MembersNamed("a", 1) \union MembersNamed("bcd", 3) \union OtherShapes

\* The list with one more field.
Put(list, shape) ==
  LET at == list.size
      text == at + TextAt(shape)
      end == IF shape.kind \in Named THEN text + shape.length ELSE text - 1
      placed == [at |-> at, text |-> text, end |-> end, kind |-> shape.kind,
                 attr |-> shape.attr, leaf |-> shape.leaf]
  IN  [recs  |-> Append(list.recs,
                   IF shape.kind = "LF_MEMBER"
                   THEN [name |-> shape.name, type |-> shape.type,
                         offset |-> shape.offset] @@ placed
                   ELSE placed),
       zeros |-> list.zeros \union {at + z : z \in shape.zeros}
                   \union (IF shape.kind \in Named THEN {end} ELSE {}),
       size  |-> Align(end + 1)]

NoRecords == [recs |-> <<>>, zeros |-> {}, size |-> 0]

ListOf(shapes) == FoldLeft(Put, NoRecords, shapes)

\* Names of the members of a list are different.
Proper(shapes) ==
  \A m, n \in DOMAIN shapes :
    m # n /\ shapes[m].kind = "LF_MEMBER" /\ shapes[n].kind = "LF_MEMBER"
      => shapes[m].name # shapes[n].name

Lists ==
  {ListOf(shapes) :
     shapes \in {s \in UNION {[1 .. len -> Shapes] : len \in 0 .. 3} : Proper(s)}}

Struct(list) == [kind |-> "LF_STRUCTURE", leaf |-> "easy", fwdref |-> FALSE,
                 name |-> "S", list |-> list]
Union(list) == [Struct(list) EXCEPT !.kind = "LF_UNION"]
BigUnion(list) == [Union(list) EXCEPT !.leaf = "LF_USHORT"]
Forward == [Struct(NoList) EXCEPT !.fwdref = TRUE]
Unrelated == [Struct(NoRecords) EXCEPT !.name = "T"]
Other == [kind |-> "LF_POINTER"]

MemberA == DataMember("a", 1, Plain, 4, "easy", {9})

First == ListOf(<<MemberA>>)
Second == ListOf(<<DataMember("bcd", 3, BitField(2), 4, "easy", {9})>>)

MCStreams ==
  {<<Struct(list)>> : list \in Lists}
    \union {<<>>, <<Forward>>, <<Other, Unrelated>>,
            <<Forward, Struct(First), Other, Struct(Second)>>,
            <<BigUnion(First), Unrelated, Union(Second), Struct(First)>>}

MCQuery == [S |-> {"a", "bcd", "x"}]

\* Definitions with members that exist and are not found as they are: a union of
\* 0x8000 bytes or more, a member at 70000, a member behind a virtual base class,
\* which the walk does not support, and one behind 17 overloads of a method.
Structure(name, shapes) == [Struct(ListOf(shapes)) EXCEPT !.name = name]

LargeStreams ==
  {<<[BigUnion(First) EXCEPT !.name = "U"],
     Structure("S", <<DataMember("a", 1, Plain, 70000, "LF_ULONG", {13})>>),
     Structure("V", <<Shape("LF_VBCLASS", 3, 0, {}), MemberA>>),
     Structure("W", <<Shape("LF_METHOD", 17, 3, {}), MemberA>>)>>}

LargeQuery == [s \in {"U", "S", "V", "W"} |-> {"a"}]

\* README.md says of structures and unions: when you request a name that
\* exists, you get the correct result.
ExistingMembersAreFound ==
  pc = "done" =>
    \A s \in DOMAIN Query : \A d \in DOMAIN stream : FirstDefinition(s, d) =>
      \A n \in Members(stream[d].list) :
        LET r == stream[d].list.recs[n]
        IN  r.name \in Query[s] => result[s][r.name] = Expected(r)
=============================================================================
