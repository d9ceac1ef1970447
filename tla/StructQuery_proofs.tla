------------------------- MODULE StructQuery_proofs -------------------------
(***************************************************************************)
(* What is proved of StructQuery for any type streams and any query: its   *)
(* types, that the walk stays in step with the fields it supports, and     *)
(* that the members behind such fields are found with their offsets.       *)
(***************************************************************************)
EXTENDS StructQuery, FieldLists_proofs

List == stream[k].list
Asked == Query[stream[k].name]

\* Member n of a list is one that the walk gets to.
Reached(list, n) ==
  /\ n \in Members(list)
  /\ \A m \in 1 .. n - 1 : Regular(list.recs[m])

\* What the walk has found when it is at i: the members asked for that start
\* before and that it gets to, none of those that follow them, and nothing
\* that is not the name of a member.
FoundInv ==
  pc = "walk" =>
    /\ \A n \in DOMAIN List.recs :
         /\ Reached(List, n)
         /\ List.recs[n].name \in Asked
         /\ List.recs[n].offset < 65536
         => IF List.recs[n].at < i
            THEN /\ List.recs[n].name \in DOMAIN fields
                 /\ fields[List.recs[n].name] = Expected(List.recs[n])
            ELSE List.recs[n].name \notin DOMAIN fields
    /\ \A f \in DOMAIN fields : \E n \in Members(List) : List.recs[n].name = f

\* An answer for the structure with this list.
Right(answer, list, names) ==
  \A f \in names :
    /\ \A n \in DOMAIN list.recs :
         Reached(list, n) /\ list.recs[n].name = f /\ list.recs[n].offset < 65536
           => answer[f] = Expected(list.recs[n])
    /\ /\ \A n \in DOMAIN list.recs : Regular(list.recs[n])
       /\ \A n \in Members(list) : list.recs[n].name # f
       => answer[f] = Invalid

\* The first definitions before k that are not large unions have been answered,
\* and only structures with a definition before k.
AnsweredInv ==
  /\ \A e \in DOMAIN Query : \A d \in DOMAIN stream :
       d < k /\ FirstDefinition(e, d) /\ ~LargeUnion(stream[d]) =>
         e \in DOMAIN result /\ Right(result[e], stream[d].list, Query[e])
  /\ pc # "done" =>
       \A e \in DOMAIN result : \E d \in DOMAIN stream :
         d < k /\ Wanted(stream[d]) /\ stream[d].name = e
  /\ pc = "done" => k \notin DOMAIN stream

\* The inductive invariant.
IInv ==
  /\ stream \in Streams
  /\ TypeOK
  /\ InStep
  /\ FoundInv
  /\ AnsweredInv
  /\ FindsRegularMembers

-----------------------------------------------------------------------------

\* What the assumption on Streams says of the list that is walked.
LEMMA WalkedList ==
  ASSUME stream \in Streams, TypeOK, pc = "walk"
  PROVE  k \in DOMAIN stream /\ Wanted(stream[k]) /\ FieldList(List) /\ LaidOut(List)
<1>1. k \in DOMAIN stream /\ Wanted(stream[k])
  BY DEF TypeOK
<1>2. stream[k].kind \in {"LF_STRUCTURE", "LF_UNION"} /\ stream[k].list # NoList
  BY <1>1 DEF Wanted, Definition
<1>3. FieldList(List)
  BY <1>1, <1>2, StreamsAssumption DEF List
<1> QED BY <1>1, <1>3 DEF FieldList

\* What every leaf size and every place of a name are.
LEMMA Sizes ==
  /\ \A leaf : LeafSize(leaf) \in {0, 2, 3, 4, 6, 10}
  /\ \A attr : MethodName(attr) \in {8, 12}
  /\ \A r : ReadAt(r) \in 6 .. 18
  /\ \A r : TextAt(r) \in 8 .. 18
<1>1. \A leaf : LeafSize(leaf) \in {0, 2, 3, 4, 6, 10}
  BY Zenon DEF LeafSize
<1>2. \A attr : MethodName(attr) \in {8, 12}
  BY DEF MethodName
<1>3. ASSUME NEW r PROVE ReadAt(r) \in {8 + LeafSize(r.leaf), MethodName(r.attr), 6, 8}
  BY Zenon DEF ReadAt
<1>4. ASSUME NEW r PROVE TextAt(r) \in {8 + LeafSize(r.leaf), MethodName(r.attr), 8}
  BY Zenon DEF TextAt
<1>5. ASSUME NEW r PROVE ReadAt(r) \in 6 .. 18 /\ TextAt(r) \in 8 .. 18
  <2>1. LeafSize(r.leaf) \in {0, 2, 3, 4, 6, 10} /\ MethodName(r.attr) \in {8, 12}
    BY <1>1, <1>2
  <2> QED BY <1>3, <1>4, <2>1
<1> QED BY <1>1, <1>2, <1>5

\* The name of a record is not read before it begins, and that of a base
\* class where it would be; the code counts two bytes less for a vtable
\* pointer.
LEMMA ReadsBehindText ==
  ASSUME NEW r, r.kind \in Supported
  PROVE  /\ r.kind \in Named => TextAt(r) <= ReadAt(r)
         /\ r.kind = "LF_BCLASS" => TextAt(r) = ReadAt(r)
         /\ r.kind = "LF_VFUNCTAB" => TextAt(r) = 8 /\ ReadAt(r) = 6
<1>1. CASE r.kind = "LF_MEMBER"
  <2>1. TextAt(r) = 8 + LeafSize(r.leaf) /\ ReadAt(r) = 8 + LeafSize(r.leaf)
    BY <1>1, Zenon DEF TextAt, ReadAt
  <2>2. LeafSize(r.leaf) \in Nat
    BY Sizes
  <2> QED BY <1>1, <2>1, <2>2
<1>2. CASE r.kind = "LF_BCLASS"
  <2>1. TextAt(r) = 8 + LeafSize(r.leaf) /\ ReadAt(r) = 8 + LeafSize(r.leaf)
    BY <1>2, Zenon DEF TextAt, ReadAt
  <2> QED BY <1>2, <2>1 DEF Named
<1>3. CASE r.kind = "LF_METHOD"
  <2>1. TextAt(r) = 8 /\ ReadAt(r) = MethodName(r.attr)
    BY <1>3, Zenon DEF TextAt, ReadAt
  <2>2. MethodName(r.attr) \in {8, 12}
    BY Sizes
  <2> QED BY <1>3, <2>1, <2>2
<1>4. CASE r.kind = "LF_ONEMETHOD"
  <2>1. TextAt(r) = MethodName(r.attr) /\ ReadAt(r) = MethodName(r.attr)
    BY <1>4, Zenon DEF TextAt, ReadAt
  <2>2. MethodName(r.attr) \in {8, 12}
    BY Sizes
  <2> QED BY <1>4, <2>1, <2>2
<1>5. CASE r.kind = "LF_VFUNCTAB"
  <2>1. TextAt(r) = 8 /\ ReadAt(r) = 6
    BY <1>5, Zenon DEF TextAt, ReadAt
  <2> QED BY <1>5, <2>1 DEF Named
<1>6. CASE r.kind \in {"LF_NESTTYPE", "LF_STMEMBER"}
  <2>1. TextAt(r) = 8 /\ ReadAt(r) = 8
    BY <1>6, Zenon DEF TextAt, ReadAt
  <2> QED BY <1>6, <2>1
<1> QED BY <1>1, <1>2, <1>3, <1>4, <1>5, <1>6 DEF Supported, Named

\* A record starts at a multiple of four.
LEMMA Aligned ==
  ASSUME NEW list, LaidOut(list), NEW n \in DOMAIN list.recs
  PROVE  \E q \in Nat : list.recs[n].at = 4 * q
<1>1. /\ DOMAIN list.recs = 1 .. Len(list.recs) /\ Len(list.recs) \in Nat
      /\ list.recs[n].at \in Nat
  BY DEF LaidOut
<1>2. CASE n = 1
  <2>1. list.recs[n].at = 4 * 0
    BY <1>2 DEF LaidOut
  <2> QED BY <2>1
<1>3. CASE n # 1
  <2>1. n - 1 \in DOMAIN list.recs /\ (n - 1) + 1 = n
    BY <1>1, <1>3
  <2>2. list.recs[n].at = Align(list.recs[n - 1].end + 1) /\ list.recs[n - 1].end \in Nat
    BY <2>1 DEF LaidOut, Following
  <2> DEFINE q == ((list.recs[n - 1].end + 1) + 3) \div 4
  <2>3. q \in Nat
    BY <2>2
  <2>4. list.recs[n].at = 4 * q
    BY <2>2, <2>3 DEF Align
  <2> QED BY <2>3, <2>4
<1> QED BY <1>2, <1>3

\* From the start of a regular field the walk goes on at the one that follows.
LEMMA RegularTurn ==
  ASSUME NEW list, FieldList(list), NEW n \in DOMAIN list.recs,
         Regular(list.recs[n])
  PROVE  LET r == list.recs[n]
         IN  /\ r.kind \in Named =>
                  Align(StringEnd(list, r.at + ReadAt(r)) + 1) = Following(list, n)
             /\ r.kind \in Supported \ Named =>
                  Align(r.at + ReadAt(r)) = Following(list, n)
<1> DEFINE r == list.recs[n]
<1>1. LaidOut(list)
  BY DEF FieldList
<1>2. /\ r.at \in Nat /\ r.text \in Nat /\ r.end \in Nat
      /\ Following(list, n) = Align(r.end + 1)
  BY <1>1 DEF LaidOut
<1>3. /\ r.text = r.at + TextAt(r) /\ r.kind \in Supported
      /\ r.kind \in Named => r.text <= r.end /\ r.at + ReadAt(r) <= r.end
      /\ r.kind \in Supported \ Named => r.end = r.text - 1
  BY DEF FieldList, Regular
<1>4. ReadAt(r) \in Nat /\ TextAt(r) \in Nat
  <2>1. ReadAt(r) \in 6 .. 18 /\ TextAt(r) \in 8 .. 18
    BY Sizes
  <2> QED BY <2>1
<1>5. ASSUME r.kind \in Named
      PROVE  Align(StringEnd(list, r.at + ReadAt(r)) + 1) = Following(list, n)
  <2>1. TextAt(r) <= ReadAt(r)
    BY <1>3, <1>5, ReadsBehindText
  <2>3. r.text <= r.at + ReadAt(r) /\ r.at + ReadAt(r) \in Nat
    BY <1>2, <1>3, <1>4, <2>1
  <2>4. StringEnd(list, r.at + ReadAt(r)) = r.end
    BY <1>1, <1>3, <1>5, <2>3, StringEndOfName
  <2> QED BY <1>2, <2>4
<1>6. ASSUME r.kind \in Supported \ Named
      PROVE  Align(r.at + ReadAt(r)) = Following(list, n)
  <2>1. CASE r.kind = "LF_BCLASS"
    <3>1. r.at + ReadAt(r) = r.end + 1
      BY <1>2, <1>3, <1>4, <1>6, <2>1, ReadsBehindText
    <3> QED BY <1>2, <3>1
  <2>2. CASE r.kind = "LF_VFUNCTAB"
    <3>1. TextAt(r) = 8 /\ ReadAt(r) = 6
      BY <1>3, <2>2, ReadsBehindText
    <3>2. r.end + 1 = r.at + 8
      BY <1>2, <1>3, <1>6, <3>1
    <3>3. PICK q \in Nat : r.at = 4 * q
      BY <1>1, Aligned
    <3>4. Align(4 * q + 6) = Align(4 * q + 8)
      BY DEF Align
    <3> QED BY <1>2, <3>1, <3>2, <3>3, <3>4
  <2>3. r.kind \in {"LF_BCLASS", "LF_VFUNCTAB"}
    BY <1>6 DEF Supported
  <2> QED BY <2>1, <2>2, <2>3
<1> QED BY <1>5, <1>6

\* The walk goes forward.
LEMMA Forward ==
  ASSUME NEW list, LaidOut(list), NEW j \in Nat, NEW r
  PROVE  /\ Align(StringEnd(list, j + ReadAt(r)) + 1) \in Nat
         /\ Align(StringEnd(list, j + ReadAt(r)) + 1) > j
         /\ Align(j + ReadAt(r)) \in Nat
         /\ Align(j + ReadAt(r)) > j
<1>1. ReadAt(r) \in 6 .. 18
  BY Sizes
<1>2. ReadAt(r) \in Nat /\ ReadAt(r) >= 6
  BY <1>1
<1> HIDE <1>1
<1>3. j + ReadAt(r) \in Nat /\ j + ReadAt(r) > j
  BY <1>2
<1>4. /\ StringEnd(list, j + ReadAt(r)) \in Nat
      /\ StringEnd(list, j + ReadAt(r)) >= j + ReadAt(r)
  BY <1>3, StringEndBehind
<1>5. StringEnd(list, j + ReadAt(r)) + 1 \in Nat
  BY <1>4
<1>6. /\ Align(StringEnd(list, j + ReadAt(r)) + 1) \in Nat
      /\ Align(StringEnd(list, j + ReadAt(r)) + 1) >= StringEnd(list, j + ReadAt(r)) + 1
  BY <1>5, AlignUp
<1>7. Align(j + ReadAt(r)) \in Nat /\ Align(j + ReadAt(r)) >= j + ReadAt(r)
  BY <1>3, AlignUp
<1> QED BY <1>3, <1>4, <1>6, <1>7

\* What the query says of a member below 64 KB is what it should say.
LEMMA FoundIsExpected ==
  ASSUME NEW list, FieldList(list), NEW n \in Members(list),
         list.recs[n].offset < 65536
  PROVE  Found(list.recs[n]) = Expected(list.recs[n])
<1> DEFINE r == list.recs[n]
<1>1. r.offset \in Nat /\ (r.type = Plain \/ r.type = BitField(r.type.position))
  BY DEF FieldList
<1>2. r.offset % 65536 = r.offset
  BY <1>1
<1>3. CASE r.type = Plain
  <2>1. GetTypeName(r.type).kind # "LF_BITFIELD"
    BY <1>3 DEF GetTypeName, Plain
  <2> QED BY <1>2, <1>3, <2>1 DEF Found, Expected
<1>4. CASE r.type = BitField(r.type.position)
  <2>1. r.type.kind = "LF_BITFIELD"
    BY <1>4 DEF BitField
  <2>2. r.type # Plain
    BY <2>1 DEF Plain
  <2> QED BY <1>2, <2>1, <2>2 DEF Found, Expected, GetTypeName
<1> QED BY <1>1, <1>3, <1>4

-----------------------------------------------------------------------------

LEMMA InitIInv == Init => IInv
<1> SUFFICES ASSUME Init PROVE IInv
  OBVIOUS
<1>1. DOMAIN fields = {} /\ DOMAIN result = {} /\ referenced.kind = "other"
  BY DEF Init, Empty, Plain
<1>2. \A d \in DOMAIN stream : ~(d < k)
  <2>1. DOMAIN stream = 1 .. Len(stream) /\ Len(stream) \in Nat
    BY StreamsAssumption DEF Init
  <2> QED BY <2>1 DEF Init
<1> QED BY <1>1, <1>2 DEF Init, IInv, TypeOK, InStep, FoundInv, AnsweredInv,
                          FindsRegularMembers

\* The scan goes to the next record without an answer.
LEMMA StepSkip ==
  ASSUME IInv, Skip
  PROVE  IInv'
<1> USE DEF Skip, IInv
<1>1. TypeOK' /\ InStep' /\ FoundInv' /\ FindsRegularMembers'
  BY DEF TypeOK, InStep, FoundInv, FindsRegularMembers
<1>2. AnsweredInv'
  <2>1. DOMAIN stream = 1 .. Len(stream) /\ Len(stream) \in Nat /\ k \in Nat
    BY StreamsAssumption DEF TypeOK
  <2>2. \A d \in DOMAIN stream : d < k + 1 <=> d < k \/ d = k
    BY <2>1
  <2>3. \A e, d : FirstDefinition(e, d)' <=> FirstDefinition(e, d)
    BY DEF FirstDefinition
  <2>4. \A e \in DOMAIN Query, d \in DOMAIN stream :
          d < k' /\ FirstDefinition(e, d) /\ ~LargeUnion(stream[d]) => d < k
    BY <2>2 DEF FirstDefinition, Wanted
  <2> QED BY <2>2, <2>3, <2>4 DEF AnsweredInv
<1> QED BY <1>1, <1>2

\* The walk through a list begins.
LEMMA StepEnter ==
  ASSUME IInv, Enter
  PROVE  IInv'
<1> USE DEF Enter, IInv
<1>1. DOMAIN fields' = {}
  BY DEF Empty
<1>2. TypeOK'
  BY <1>1 DEF TypeOK, Plain
<1>3. FieldList(List) /\ LaidOut(List)
  <2>1. /\ stream[k].kind \in {"LF_STRUCTURE", "LF_UNION"}
        /\ stream[k].list # NoList
    BY DEF Wanted, Definition
  <2> QED BY <2>1, StreamsAssumption DEF List, FieldList
<1>4. \A n \in DOMAIN List.recs : ~(List.recs[n].at < i')
  BY <1>3 DEF LaidOut
<1>5. InStep'
  <2>1. \/ i' = List.size
        \/ \E n \in DOMAIN List.recs : List.recs[n].at = i'
    BY <1>3 DEF LaidOut
  <2> QED BY <2>1 DEF InStep, List
<1>6. FoundInv'
  <2>1. List' = List /\ Asked' = Asked
    BY DEF List, Asked
  <2> QED BY <1>1, <1>4, <2>1 DEF FoundInv
<1>7. AnsweredInv' /\ FindsRegularMembers'
  BY DEF AnsweredInv, FindsRegularMembers, FirstDefinition
<1> QED BY <1>2, <1>5, <1>6, <1>7

\* One turn of the walk, at a field of any kind.
Turn == Member \/ SkipNamed \/ SkipBase

\* What the three kinds of turn have in common: the walk is at a field m that
\* is supported; if it is a member asked for, it is found if it was not there.
TurnAt(m) ==
  /\ List.recs[m].at = i
  /\ List.recs[m].kind \in Supported
  /\ i' = IF List.recs[m].kind \in Named
          THEN Align(StringEnd(List, i + ReadAt(List.recs[m])) + 1)
          ELSE Align(i + ReadAt(List.recs[m]))
  /\ fields' = IF List.recs[m].kind = "LF_MEMBER" /\ List.recs[m].name \in Asked
               THEN Insert(fields, List.recs[m].name, Found(List.recs[m]))
               ELSE fields
  /\ referenced' = IF List.recs[m].kind = "LF_MEMBER"
                   THEN List.recs[m].type ELSE referenced

LEMMA AnyTurn ==
  ASSUME IInv, Turn
  PROVE  /\ pc = "walk" /\ i \in Nat
         /\ FieldList(List) /\ LaidOut(List) /\ List.size \in Nat
         /\ List' = List /\ Asked' = Asked
         /\ pc' = "walk" /\ stream' = stream /\ k' = k /\ result' = result
         /\ \E m \in DOMAIN List.recs : TurnAt(m)
<1> USE DEF IInv
<1>1. /\ pc = "walk" /\ i \in Nat
      /\ pc' = "walk" /\ stream' = stream /\ k' = k /\ result' = result
  BY DEF Turn, Member, SkipNamed, SkipBase, TypeOK
<1>2. /\ FieldList(List) /\ LaidOut(List) /\ List.size \in Nat
      /\ List' = List /\ Asked' = Asked
  BY <1>1, WalkedList DEF List, Asked, LaidOut
<1>3. CASE Member
  <2>1. PICK r \in Current :
          /\ r.kind = "LF_MEMBER"
          /\ referenced' = r.type
          /\ fields' = IF r.name \in Asked
                       THEN Insert(fields, r.name, Found(r)) ELSE fields
          /\ i' = Align(StringEnd(List, i + ReadAt(r)) + 1)
    BY <1>3 DEF Member, GetTypeName, Asked, List, Behind
  <2>2. PICK m \in DOMAIN List.recs :
          List.recs[m] = r /\ r.at = i /\ r.kind \in Supported
    BY DEF Current, List
  <2>3. r.kind \in Named
    BY <2>1 DEF Named
  <2>4. TurnAt(m)
    BY <2>1, <2>2, <2>3 DEF TurnAt
  <2> QED BY <1>1, <1>2, <2>4
<1>4. CASE SkipNamed
  <2>1. PICK r \in Current :
          /\ r.kind \in Named /\ r.kind # "LF_MEMBER"
          /\ i' = Align(StringEnd(List, i + ReadAt(r)) + 1)
    BY <1>4 DEF SkipNamed, List, Behind
  <2>2. PICK m \in DOMAIN List.recs :
          List.recs[m] = r /\ r.at = i /\ r.kind \in Supported
    BY DEF Current, List
  <2>3. fields' = fields /\ referenced' = referenced
    BY <1>4 DEF SkipNamed
  <2>4. TurnAt(m)
    BY <2>1, <2>2, <2>3 DEF TurnAt
  <2> QED BY <1>1, <1>2, <2>4
<1>5. CASE SkipBase
  <2>1. PICK r \in Current :
          /\ r.kind \notin Named
          /\ i' = Align(i + ReadAt(r))
    BY <1>5 DEF SkipBase
  <2>2. PICK m \in DOMAIN List.recs :
          List.recs[m] = r /\ r.at = i /\ r.kind \in Supported
    BY DEF Current, List
  <2>3. fields' = fields /\ referenced' = referenced
    BY <1>5 DEF SkipBase
  <2>4. r.kind # "LF_MEMBER"
    BY <2>1 DEF Named
  <2>5. TurnAt(m)
    BY <2>1, <2>2, <2>3, <2>4 DEF TurnAt
  <2> QED BY <1>1, <1>2, <2>5
<1> QED BY <1>1, <1>2, <1>3, <1>4, <1>5 DEF Turn

\* Behind a regular field the walk goes on at the one that follows.
LEMMA TurnInStep ==
  ASSUME NEW list, FieldList(list), NEW m \in DOMAIN list.recs,
         Regular(list.recs[m]), NEW j,
         j = IF list.recs[m].kind \in Named
             THEN Align(StringEnd(list, list.recs[m].at + ReadAt(list.recs[m])) + 1)
             ELSE Align(list.recs[m].at + ReadAt(list.recs[m]))
  PROVE  j = Following(list, m)
BY RegularTurn DEF Regular

\* A member is regular.
LEMMA MemberIsRegular ==
  ASSUME NEW list, FieldList(list), NEW n \in Members(list)
  PROVE  Regular(list.recs[n])
<1> DEFINE r == list.recs[n]
<1>1. n \in DOMAIN list.recs /\ r.kind = "LF_MEMBER"
  BY DEF Members
<1>2. ReadAt(r) = 8 + LeafSize(r.leaf) /\ TextAt(r) = 8 + LeafSize(r.leaf)
  BY <1>1, Zenon DEF TextAt, ReadAt
<1>3. r.text = r.at + TextAt(r) /\ r.text <= r.end
  BY <1>1 DEF FieldList, Named
<1>4. r.kind \in Supported
  BY <1>1 DEF Supported, Named
<1> QED BY <1>2, <1>3, <1>4 DEF Regular

\* All fields before a place that is not behind a reached member are regular.
LEMMA RegularBefore ==
  ASSUME NEW list, FieldList(list), NEW n, Reached(list, n)
  PROVE  /\ n \in DOMAIN list.recs
         /\ \A j \in DOMAIN list.recs :
              list.recs[j].at <= list.recs[n].at => Regular(list.recs[j])
<1>1. LaidOut(list) /\ n \in Members(list) /\ n \in DOMAIN list.recs
  BY DEF FieldList, Reached, Members
<1>2. ASSUME NEW j \in DOMAIN list.recs, list.recs[j].at <= list.recs[n].at
      PROVE  Regular(list.recs[j])
  <2>1. /\ j \in Nat \ {0} /\ n \in Nat \ {0}
        /\ list.recs[j].at \in Nat /\ list.recs[n].at \in Nat
        /\ j > n <=> list.recs[j].at > list.recs[n].at
    BY <1>1, RecordOrder
  <2>2. j = n \/ j \in 1 .. n - 1
    BY <1>2, <2>1
  <2> QED BY <1>1, <2>2, MemberIsRegular DEF Reached
<1> QED BY <1>1, <1>2

LEMMA StepTurn ==
  ASSUME IInv, Turn
  PROVE  IInv'
<1> USE DEF IInv
<1>1. /\ pc = "walk" /\ i \in Nat
      /\ FieldList(List) /\ LaidOut(List) /\ List.size \in Nat
      /\ List' = List /\ Asked' = Asked
      /\ pc' = "walk" /\ stream' = stream /\ k' = k /\ result' = result
  BY AnyTurn
<1>2. PICK m \in DOMAIN List.recs :
        /\ List.recs[m].at = i
        /\ List.recs[m].kind \in Supported
        /\ i' = IF List.recs[m].kind \in Named
                THEN Align(StringEnd(List, i + ReadAt(List.recs[m])) + 1)
                ELSE Align(i + ReadAt(List.recs[m]))
        /\ fields' = IF List.recs[m].kind = "LF_MEMBER" /\ List.recs[m].name \in Asked
                     THEN Insert(fields, List.recs[m].name, Found(List.recs[m]))
                     ELSE fields
        /\ referenced' = IF List.recs[m].kind = "LF_MEMBER"
                         THEN List.recs[m].type ELSE referenced
  BY AnyTurn DEF TurnAt
<1>3. i' \in Nat /\ i' > i
  BY <1>1, <1>2, Forward
<1>4. TypeOK'
  <2>1. DOMAIN fields \subseteq Asked
    BY <1>1 DEF TypeOK, Asked
  <2>2. DOMAIN fields' \subseteq Asked
    BY <1>2, <2>1 DEF Insert
  <2>3. referenced'.kind \in {"other", "LF_BITFIELD"}
    <3>1. CASE List.recs[m].kind = "LF_MEMBER"
      <4>1. \/ List.recs[m].type = Plain
            \/ List.recs[m].type = BitField(List.recs[m].type.position)
        BY <1>1, <3>1 DEF FieldList, Members
      <4> QED BY <1>2, <3>1, <4>1 DEF Plain, BitField
    <3>2. CASE List.recs[m].kind # "LF_MEMBER"
      BY <1>2, <3>2 DEF TypeOK
    <3> QED BY <3>1, <3>2
  <2> QED BY <1>1, <1>3, <2>2, <2>3 DEF TypeOK, Asked
<1>5. Regular(List.recs[m]) => i' = Following(List, m)
  BY <1>1, <1>2, TurnInStep
<1>6. InStep'
  <2> SUFFICES ASSUME \A n \in DOMAIN List.recs :
                        List.recs[n].at < i' => Regular(List.recs[n])
               PROVE  \/ i' = List.size
                      \/ \E n \in DOMAIN List.recs : List.recs[n].at = i'
    BY <1>1 DEF InStep, List
  <2>1. Regular(List.recs[m])
    BY <1>2, <1>3
  <2> QED BY <1>1, <1>5, <2>1, RecordOrder
<1>7. FoundInv'
  <2>1. ASSUME NEW n \in DOMAIN List.recs, Reached(List, n),
               List.recs[n].name \in Asked, List.recs[n].offset < 65536
        PROVE  IF List.recs[n].at < i'
               THEN /\ List.recs[n].name \in DOMAIN fields'
                    /\ fields'[List.recs[n].name] = Expected(List.recs[n])
               ELSE List.recs[n].name \notin DOMAIN fields'
    <3> DEFINE r == List.recs[n]
    <3>1. IF r.at < i
          THEN r.name \in DOMAIN fields /\ fields[r.name] = Expected(r)
          ELSE r.name \notin DOMAIN fields
      BY <1>1, <2>1 DEF FoundInv
    <3>2. r.at \in Nat
      BY <1>1, RecordOrder
    <3>3. CASE r.at < i
      <4>1. r.at < i'
        BY <1>1, <1>3, <3>2, <3>3
      <4>2. r.name \in DOMAIN fields' /\ fields'[r.name] = Expected(r)
        BY <1>2, <3>1, <3>3 DEF Insert
      <4> QED BY <4>1, <4>2
    <3>4. CASE r.at >= i
      <4>1. Regular(List.recs[m])
        BY <1>1, <1>2, <2>1, <3>4, RegularBefore
      <4>2. i' = Following(List, m)
        BY <1>5, <4>1
      <4>3. /\ n > m <=> r.at >= i'
            /\ n > m <=> r.at > i
            /\ n \in Nat /\ m \in Nat
        BY <1>1, <1>2, <4>2, RecordOrder
      <4>4. n \in Members(List) /\ r.kind = "LF_MEMBER"
        BY <2>1 DEF Reached, Members
      <4>5. CASE n = m
        <5>1. r.at < i' /\ fields' = Insert(fields, r.name, Found(r))
          BY <1>2, <1>3, <2>1, <4>4, <4>5
        <5>2. Found(r) = Expected(r)
          BY <1>1, <2>1, <4>4, FoundIsExpected
        <5>3. r.name \notin DOMAIN fields
          BY <1>1, <1>2, <3>1, <3>2, <4>5
        <5> QED BY <5>1, <5>2, <5>3 DEF Insert
      <4>6. CASE n # m
        <5>1. r.at # i
          <6>1. m > n <=> List.recs[m].at > r.at
            BY <1>1, RecordOrder
          <6> QED BY <1>2, <3>2, <4>3, <4>6, <6>1
        <5>2. r.at >= i' /\ ~(r.at < i')
          BY <1>1, <1>3, <3>2, <3>4, <4>3, <5>1
        <5>3. r.name \notin DOMAIN fields
          BY <1>1, <3>1, <3>2, <3>4
        <5>4. List.recs[m].kind = "LF_MEMBER" => r.name # List.recs[m].name
          BY <1>1, <4>4, <4>6 DEF FieldList, Members
        <5>5. r.name \notin DOMAIN fields'
          BY <1>2, <5>3, <5>4 DEF Insert
        <5> QED BY <5>2, <5>5
      <4> QED BY <4>5, <4>6
    <3> QED BY <1>1, <3>2, <3>3, <3>4
  <2>2. \A f \in DOMAIN fields' : \E n \in Members(List) : List.recs[n].name = f
    BY <1>1, <1>2 DEF FoundInv, Insert, Members
  <2>3. \A n : Reached(List, n)' <=> Reached(List, n)
    BY <1>1 DEF Reached, Members
  <2>4. Members(List)' = Members(List)
    BY <1>1 DEF Members
  <2> QED BY <1>1, <2>1, <2>2, <2>3, <2>4 DEF FoundInv
<1>8. AnsweredInv' /\ FindsRegularMembers'
  BY <1>1 DEF AnsweredInv, FindsRegularMembers, FirstDefinition
<1> QED BY <1>1, <1>4, <1>6, <1>7, <1>8

\* When the walk leaves a list it is behind every member it gets to.
LEMMA LeavesBehind ==
  ASSUME IInv, Leave, NEW n, Reached(List, n)
  PROVE  List.recs[n].at < i
<1> USE DEF IInv
<1>1. /\ pc = "walk" /\ i \in Nat
      /\ FieldList(List) /\ LaidOut(List) /\ List.size \in Nat
      /\ i >= List.size \/ Current = {}
  BY WalkedList DEF Leave, List, TypeOK, LaidOut
<1>2. /\ n \in DOMAIN List.recs /\ n \in Members(List)
      /\ List.recs[n].at \in Nat /\ List.recs[n].at < List.size
  BY <1>1, RegularBefore, RecordOrder DEF Reached
<1>3. ASSUME List.recs[n].at >= i PROVE FALSE
  <2>1. \A j \in DOMAIN List.recs : List.recs[j].at \in Nat
    BY <1>1, RecordOrder
  <2>2. \A j \in DOMAIN List.recs : List.recs[j].at <= List.recs[n].at
                                      => Regular(List.recs[j])
    BY <1>1, RegularBefore
  <2>3. \A j \in DOMAIN List.recs : List.recs[j].at < i => Regular(List.recs[j])
    BY <1>1, <1>2, <1>3, <2>1, <2>2
  <2>4. i < List.size
    BY <1>1, <1>2, <1>3
  <2>5. PICK m \in DOMAIN List.recs : List.recs[m].at = i
    BY <1>1, <2>3, <2>4 DEF InStep, List
  <2>6. List.recs[m].kind \in Supported
    BY <1>3, <2>2, <2>5 DEF Regular
  <2>7. List.recs[m] \in Current
    BY <2>5, <2>6 DEF Current, List
  <2> QED BY <1>1, <2>4, <2>7
<1> QED BY <1>1, <1>2, <1>3

\* What the walk leaves of a list is a right answer.
LEMMA WalkIsRight ==
  ASSUME IInv, Leave
  PROVE  Right(Fill(fields, NotFound(Asked)), List, Asked)
<1> USE DEF IInv
<1>1. pc = "walk"
  BY DEF Leave
<1>2. ASSUME NEW f \in Asked, NEW n \in DOMAIN List.recs,
             List.recs[n].name = f, Reached(List, n), List.recs[n].offset < 65536
      PROVE  Fill(fields, NotFound(Asked))[f] = Expected(List.recs[n])
  BY <1>1, <1>2, LeavesBehind DEF FoundInv, Fill, NotFound
<1>3. ASSUME NEW f \in Asked, \A n \in Members(List) : List.recs[n].name # f
      PROVE  Fill(fields, NotFound(Asked))[f] = Invalid
  BY <1>1, <1>3 DEF FoundInv, Fill, NotFound
<1> QED BY <1>2, <1>3 DEF Right

\* The walk through a list ends.
LEMMA StepLeave ==
  ASSUME IInv, Leave
  PROVE  IInv'
<1> USE DEF IInv
<1> DEFINE e == stream[k].name
           answer == Fill(fields, NotFound(Asked))
<1>1. /\ pc = "walk" /\ pc' = "scan" /\ stream' = stream /\ k' = k + 1
      /\ k \in DOMAIN stream /\ Wanted(stream[k]) /\ e \in DOMAIN Query
      /\ result' = Insert(result, e, answer)
      /\ k \in Nat /\ DOMAIN stream = 1 .. Len(stream) /\ Len(stream) \in Nat
  BY WalkedList, StreamsAssumption DEF Leave, Asked, TypeOK, Wanted
<1>2. Right(answer, List, Query[e])
  BY WalkIsRight DEF Asked
<1>3. \A d \in DOMAIN stream : d < k + 1 <=> d < k \/ d = k
  BY <1>1
<1>4. TypeOK'
  <2>1. DOMAIN answer = Query[e]
    BY DEF Fill, NotFound, Asked
  <2>2. /\ DOMAIN result' \subseteq DOMAIN Query
        /\ \A x \in DOMAIN result' : DOMAIN result'[x] = Query[x]
    BY <1>1, <2>1 DEF TypeOK, Insert
  <2>3. k' \in Nat \ {0} /\ i' \in Nat /\ referenced' = referenced
    BY <1>1 DEF Leave, TypeOK
  <2> QED BY <1>1, <2>2, <2>3 DEF TypeOK
<1>5. InStep' /\ FoundInv' /\ FindsRegularMembers'
  BY <1>1 DEF InStep, FoundInv, FindsRegularMembers
<1>6. AnsweredInv'
  <2>1. \A x, d : FirstDefinition(x, d)' <=> FirstDefinition(x, d)
    BY <1>1 DEF FirstDefinition
  <2>2. ASSUME NEW x \in DOMAIN Query, NEW d \in DOMAIN stream,
               d < k + 1, FirstDefinition(x, d), ~LargeUnion(stream[d])
        PROVE  x \in DOMAIN result' /\ Right(result'[x], stream[d].list, Query[x])
    <3>1. CASE d < k
      BY <1>1, <2>2, <3>1 DEF AnsweredInv, Insert
    <3>2. CASE d = k
      <4>1. x = e
        BY <2>2, <3>2 DEF FirstDefinition
      <4>2. \A t \in DOMAIN stream : t < k => ~(Wanted(stream[t]) /\ stream[t].name = e)
        <5>1. \A t \in DOMAIN stream : t < k => t \in 1 .. k - 1
          BY <1>1
        <5> QED BY <2>2, <3>2, <4>1, <5>1 DEF FirstDefinition, Wanted
      <4>3. e \notin DOMAIN result
        BY <1>1, <4>2 DEF AnsweredInv
      <4>4. result'[e] = answer /\ e \in DOMAIN result'
        BY <1>1, <4>3 DEF Insert
      <4> QED BY <1>2, <3>2, <4>1, <4>4 DEF List
    <3> QED BY <1>3, <2>2, <3>1, <3>2
  <2>3. ASSUME NEW x \in DOMAIN result'
        PROVE  \E d \in DOMAIN stream :
                 d < k + 1 /\ Wanted(stream[d]) /\ stream[d].name = x
    <3>1. CASE x \in DOMAIN result
      BY <1>1, <1>3, <3>1 DEF AnsweredInv
    <3>2. CASE x = e
      BY <1>1, <1>3, <3>2
    <3> QED BY <1>1, <3>1, <3>2 DEF Insert
  <2> QED BY <1>1, <2>1, <2>2, <2>3 DEF AnsweredInv
<1> QED BY <1>1, <1>4, <1>5, <1>6

\* The scan ends, and what is missing is filled in.
LEMMA StepFinish ==
  ASSUME IInv, Finish
  PROVE  IInv'
<1> USE DEF IInv
<1>1. /\ pc = "scan" /\ pc' = "done" /\ stream' = stream /\ k' = k /\ i' = i
      /\ referenced' = referenced
      /\ k \notin DOMAIN stream /\ result' = Fill(result, NoneFound)
      /\ k \in Nat \ {0} /\ DOMAIN stream = 1 .. Len(stream) /\ Len(stream) \in Nat
  BY StreamsAssumption DEF Finish, TypeOK
<1>2. \A e \in DOMAIN Query :
        result'[e] = IF e \in DOMAIN result THEN result[e] ELSE NoneFound[e]
  BY <1>1 DEF Fill, NoneFound
<1>3. DOMAIN result' = DOMAIN Query
  BY <1>1 DEF Fill, NoneFound
<1>4. TypeOK'
  <2>1. ASSUME NEW e \in DOMAIN Query PROVE DOMAIN result'[e] = Query[e]
    <3>1. e \in DOMAIN result => DOMAIN result[e] = Query[e]
      BY DEF TypeOK
    <3>2. DOMAIN NoneFound[e] = Query[e]
      BY DEF NoneFound, NotFound
    <3> QED BY <1>2, <3>1, <3>2
  <2> QED BY <1>1, <1>3, <2>1 DEF TypeOK
<1>5. \A x, d : FirstDefinition(x, d)' <=> FirstDefinition(x, d)
  BY <1>1 DEF FirstDefinition
<1>6. \A e \in DOMAIN Query : \A d \in DOMAIN stream :
        FirstDefinition(e, d) /\ ~LargeUnion(stream[d]) =>
          e \in DOMAIN result /\ Right(result[e], stream[d].list, Query[e])
  <2>1. \A d \in DOMAIN stream : d < k
    <3>1. \A d \in 1 .. Len(stream) : k \notin 1 .. Len(stream) => d < k
      BY <1>1
    <3> QED BY <1>1, <3>1
  <2> QED BY <2>1 DEF AnsweredInv
<1>7. AnsweredInv'
  BY <1>1, <1>2, <1>3, <1>5, <1>6 DEF AnsweredInv
<1>8. FindsRegularMembers'
  <2> SUFFICES ASSUME NEW s \in DOMAIN Query, NEW f \in Query[s]
               PROVE  /\ \A d \in DOMAIN stream :
                         FirstDefinition(s, d) /\ ~LargeUnion(stream[d]) =>
                           LET list == stream[d].list
                           IN  /\ \A n \in Members(list) :
                                    /\ list.recs[n].name = f
                                    /\ list.recs[n].offset < 65536
                                    /\ \A m \in 1 .. n - 1 : Regular(list.recs[m])
                                    => result'[s][f] = Expected(list.recs[n])
                               /\ /\ \A n \in DOMAIN list.recs : Regular(list.recs[n])
                                  /\ \A n \in Members(list) : list.recs[n].name # f
                                  => result'[s][f] = Invalid
                      /\ (\A d \in DOMAIN stream : ~FirstDefinition(s, d))
                           => result'[s][f] = Invalid
    BY <1>1, <1>5 DEF FindsRegularMembers
  <2>1. \A d \in DOMAIN stream : FirstDefinition(s, d) /\ ~LargeUnion(stream[d]) =>
          Right(result'[s], stream[d].list, Query[s])
    BY <1>2, <1>6
  <2>2. ASSUME \A d \in DOMAIN stream : ~FirstDefinition(s, d)
        PROVE  result'[s][f] = Invalid
    <3>1. ASSUME s \in DOMAIN result PROVE FALSE
      <4>1. PICK T : T = {d \in DOMAIN stream :
                           Definition(stream[d]) /\ stream[d].name = s}
        OBVIOUS
      <4>2. T \subseteq Nat /\ T # {}
        BY <1>1, <3>1, <4>1 DEF AnsweredInv, Wanted
      <4>3. PICK d \in T : \A t \in T : d <= t
        BY <4>2, LeastNumber
      <4>4. \A t \in 1 .. d - 1 : t \in DOMAIN stream /\ ~(d <= t)
        BY <1>1, <4>1, <4>3
      <4>5. FirstDefinition(s, d)
        BY <4>1, <4>3, <4>4 DEF FirstDefinition
      <4> QED BY <2>2, <4>1, <4>5
    <3> QED BY <1>2, <3>1 DEF NoneFound, NotFound
  <2> QED BY <2>1, <2>2 DEF Right, Reached, Members
<1> QED BY <1>1, <1>4, <1>7, <1>8 DEF InStep, FoundInv

THEOREM Invariance == Spec => []IInv
<1>1. IInv /\ [Next]_vars => IInv'
  <2> SUFFICES ASSUME IInv, [Next]_vars PROVE IInv'
    OBVIOUS
  <2>1. CASE Skip
    BY <2>1, StepSkip
  <2>2. CASE Enter
    BY <2>2, StepEnter
  <2>3. CASE Turn
    BY <2>3, StepTurn
  <2>4. CASE Leave
    BY <2>4, StepLeave
  <2>5. CASE Finish
    BY <2>5, StepFinish
  <2>6. CASE UNCHANGED vars
    BY <2>6 DEF vars, IInv, TypeOK, InStep, FoundInv, AnsweredInv, List, Asked,
                FindsRegularMembers, FirstDefinition
  <2> QED BY <2>1, <2>2, <2>3, <2>4, <2>5, <2>6 DEF Next, Turn
<1> QED BY InitIInv, <1>1, PTL DEF Spec

\* What a query has found, and where it is, is always of its type: of each
\* structure that was answered, all the names asked for and no others.
THEOREM TypeCorrectness == Spec => []TypeOK
<1>1. IInv => TypeOK
  BY DEF IInv
<1> QED BY Invariance, <1>1, PTL

\* Until it has met a field that it does not get behind, the walk is at the
\* start of a field or at the end of the list.
THEOREM StaysInStep == Spec => []InStep
<1>1. IInv => InStep
  BY DEF IInv
<1> QED BY Invariance, <1>1, PTL

\* Of every structure and union asked for whose first definition is not a union
\* of 0x8000 bytes or more, the answer has the offset and the bit-field position
\* of every member that lies below 64 KB and that only regular fields come
\* before, and -1 for a name that a definition of regular fields does not have;
\* it has -1 for all members of a structure without a definition.
THEOREM Correctness == Spec => []FindsRegularMembers
<1>1. IInv => FindsRegularMembers
  BY DEF IInv
<1> QED BY Invariance, <1>1, PTL
=============================================================================
