-------------------------- MODULE EnumQuery_proofs --------------------------
(***************************************************************************)
(* What is proved of EnumQuery for any type streams and any query: its     *)
(* types, that the walk stays in step with the enumerators until a large   *)
(* value, and that the enumerators before one are found with their values. *)
(***************************************************************************)
EXTENDS EnumQuery, FieldLists_proofs

List == stream[k].list
Asked == Query[stream[k].name]

\* What the walk has found when it is at i: the small enumerators asked for
\* that start before, none of those that follow them, and nothing that is not
\* the name of an enumerator.
FoundInv ==
  pc = "walk" =>
    /\ \A n \in DOMAIN List.recs :
         SmallUpTo(List, n) /\ List.recs[n].name \in Asked =>
           IF List.recs[n].at < i
           THEN /\ List.recs[n].name \in DOMAIN fields
                /\ fields[List.recs[n].name] = List.recs[n].value
           ELSE List.recs[n].name \notin DOMAIN fields
    /\ \A f \in DOMAIN fields : \E n \in DOMAIN List.recs : List.recs[n].name = f

\* An answer for the enumeration with this list.
Right(answer, list, names) ==
  \A f \in names :
    /\ \A n \in DOMAIN list.recs :
         list.recs[n].name = f /\ SmallUpTo(list, n)
           => answer[f] = list.recs[n].value
    /\ (\A n \in DOMAIN list.recs :
          Easy(list.recs[n]) /\ list.recs[n].name # f)
         => answer[f] = Invalid

\* The first definitions before k have been answered, and only enumerations
\* with a definition before k.
AnsweredInv ==
  /\ \A e \in DOMAIN Query : \A d \in DOMAIN stream :
       d < k /\ FirstDefinition(e, d) =>
         e \in DOMAIN result /\ Right(result[e], stream[d].list, Query[e])
  /\ pc # "done" =>
       \A e \in DOMAIN result : \E d \in DOMAIN stream :
         d < k /\ Wanted(stream[d]) /\ stream[d].name = e
  /\ pc = "done" => k \notin DOMAIN stream

\* The inductive invariant.
IInv ==
  /\ stream \in Streams
  /\ TypeOK
  /\ InStep
  /\ FoundInv
  /\ AnsweredInv
  /\ FindsSmallEnumerators

-----------------------------------------------------------------------------

\* What the assumption on Streams says of the list that is walked.
LEMMA WalkedList ==
  ASSUME stream \in Streams, TypeOK, pc = "walk"
  PROVE  k \in DOMAIN stream /\ Wanted(stream[k]) /\ EnumList(List) /\ LaidOut(List)
<1>1. k \in DOMAIN stream /\ Wanted(stream[k])
  BY DEF TypeOK
<1>2. stream[k].kind = "LF_ENUM" /\ stream[k].list # NoList
  BY <1>1 DEF Wanted
<1>3. EnumList(List)
  BY <1>1, <1>2, StreamsAssumption DEF List
<1> QED BY <1>1, <1>3 DEF EnumList

\* In step, the walk takes the bytes of an easy enumerator for what they are:
\* it finds its name, and goes on behind it.
LEMMA EasyTurn ==
  ASSUME NEW list, EnumList(list), NEW n \in DOMAIN list.recs,
         Easy(list.recs[n])
  PROVE  /\ list.recs[n].at + NameAt = list.recs[n].text
         /\ Align(StringEnd(list, list.recs[n].text) + 1) = Following(list, n)
         /\ list.recs[n].word = list.recs[n].value
<1> DEFINE r == list.recs[n]
<1>1. LaidOut(list)
  BY DEF EnumList
<1>2. /\ r.at \in Nat /\ r.text \in Nat /\ r.end \in Nat
      /\ Following(list, n) = Align(r.end + 1)
  BY <1>1 DEF LaidOut
<1>3. /\ r.text = r.at + ValueAt + LeafSize(r.leaf)
      /\ r.text <= r.end
      /\ r.word = r.value
  BY DEF EnumList
<1>4. LeafSize(r.leaf) = LeafSize("easy") /\ LeafSize("easy") = 2
  BY DEF Easy, LeafSize
<1>5. r.at + NameAt = r.text
  BY <1>2, <1>3, <1>4 DEF NameAt, ValueAt
<1>6. StringEnd(list, r.text) = r.end
  BY <1>1, <1>2, <1>3, StringEndOfName
<1> QED BY <1>2, <1>3, <1>5, <1>6

\* The walk goes forward.
LEMMA Forward ==
  ASSUME NEW list, LaidOut(list), NEW j \in Nat
  PROVE  /\ Align(StringEnd(list, j + NameAt) + 1) \in Nat
         /\ Align(StringEnd(list, j + NameAt) + 1) > j
<1>1. NameAt = 6
  BY DEF NameAt, ValueAt, LeafSize
<1>2. StringEnd(list, j + NameAt) \in Nat /\ StringEnd(list, j + NameAt) >= j + NameAt
  BY <1>1, StringEndBehind
<1>3. StringEnd(list, j + NameAt) + 1 \in Nat
  BY <1>2
<1> QED BY <1>1, <1>2, <1>3, AlignUp

-----------------------------------------------------------------------------

LEMMA InitIInv == Init => IInv
<1> SUFFICES ASSUME Init PROVE IInv
  OBVIOUS
<1>1. DOMAIN fields = {} /\ DOMAIN result = {}
  BY DEF Init, Empty
<1>2. \A d \in DOMAIN stream : ~(d < k)
  <2>1. DOMAIN stream = 1 .. Len(stream) /\ Len(stream) \in Nat
    BY StreamsAssumption DEF Init
  <2> QED BY <2>1 DEF Init
<1> QED BY <1>1, <1>2 DEF Init, IInv, TypeOK, InStep, FoundInv, AnsweredInv,
                          FindsSmallEnumerators

\* The scan goes to the next record without an answer.
LEMMA StepSkip ==
  ASSUME IInv, Skip
  PROVE  IInv'
<1> USE DEF Skip, IInv
<1>1. TypeOK' /\ InStep' /\ FoundInv' /\ FindsSmallEnumerators'
  BY DEF TypeOK, InStep, FoundInv, FindsSmallEnumerators
<1>2. AnsweredInv'
  <2>1. \A e \in DOMAIN Query, d \in DOMAIN stream :
          d < k' /\ FirstDefinition(e, d) => d < k
    <3>1. DOMAIN stream = 1 .. Len(stream) /\ Len(stream) \in Nat /\ k \in Nat
      BY StreamsAssumption DEF TypeOK
    <3>2. \A d \in DOMAIN stream : d < k + 1 => d < k \/ d = k
      BY <3>1
    <3> QED BY <3>2 DEF FirstDefinition
  <2>2. \A d \in DOMAIN stream : d < k => d < k'
    <3>1. DOMAIN stream = 1 .. Len(stream) /\ Len(stream) \in Nat /\ k \in Nat
      BY StreamsAssumption DEF TypeOK
    <3> QED BY <3>1
  <2>3. \A e, d : FirstDefinition(e, d)' <=> FirstDefinition(e, d)
    BY DEF FirstDefinition
  <2> QED BY <2>1, <2>2, <2>3 DEF AnsweredInv
<1> QED BY <1>1, <1>2

\* The walk through a list begins.
LEMMA StepEnter ==
  ASSUME IInv, Enter
  PROVE  IInv'
<1> USE DEF Enter, IInv
<1>1. DOMAIN fields' = {}
  BY DEF Empty
<1>2. TypeOK'
  BY <1>1 DEF TypeOK
<1>3. EnumList(List) /\ LaidOut(List)
  <2>1. stream[k].kind = "LF_ENUM" /\ stream[k].list # NoList
    BY DEF Wanted
  <2> QED BY <2>1, StreamsAssumption DEF List, EnumList
<1>4. \A n \in DOMAIN List.recs : ~(List.recs[n].at < i')
  BY <1>3 DEF LaidOut
<1>5. InStep'
  <2>1. \/ i' = List.size
        \/ \E n \in DOMAIN List.recs : List.recs[n].at = i'
    BY <1>3 DEF LaidOut
  <2> QED BY <2>1 DEF InStep, List
<1>6. FoundInv'
  <2>1. List' = List /\ Asked' = Asked
    BY DEF List, Asked
  <2> QED BY <1>1, <1>4, <2>1 DEF FoundInv
<1>7. AnsweredInv' /\ FindsSmallEnumerators'
  BY DEF AnsweredInv, FindsSmallEnumerators, FirstDefinition
<1> QED BY <1>2, <1>5, <1>6, <1>7

\* In step before the end, the walk is at an enumerator m; if that is easy, it
\* goes on at the one that follows, with the name of m found if it was asked
\* for and was not there.
LEMMA TurnInStep ==
  ASSUME IInv, Enumerator,
         \A j \in DOMAIN List.recs : List.recs[j].at < i => Easy(List.recs[j])
  PROVE  \E m \in DOMAIN List.recs :
           /\ List.recs[m].at = i
           /\ Easy(List.recs[m]) =>
                /\ i' = Following(List, m)
                /\ IF List.recs[m].name \in Asked
                   THEN fields' = Insert(fields, List.recs[m].name,
                                         List.recs[m].value)
                   ELSE fields' = fields
<1> USE DEF IInv
<1>1. /\ pc = "walk" /\ i < List.size /\ i \in Nat
      /\ EnumList(List) /\ LaidOut(List) /\ List.size \in Nat
  BY WalkedList DEF Enumerator, List, TypeOK, LaidOut
<1>2. PICK m \in DOMAIN List.recs : List.recs[m].at = i
  BY <1>1 DEF InStep, List
<1>3. ASSUME Easy(List.recs[m])
      PROVE  /\ i' = Following(List, m)
             /\ IF List.recs[m].name \in Asked
                THEN fields' = Insert(fields, List.recs[m].name,
                                      List.recs[m].value)
                ELSE fields' = fields
  <2> DEFINE r == List.recs[m]
  <2>1. /\ i + NameAt = r.text
        /\ Align(StringEnd(List, r.text) + 1) = Following(List, m)
        /\ r.word = r.value
    BY <1>1, <1>2, <1>3, EasyTurn
  <2>2. i' = Following(List, m)
    BY <2>1 DEF Enumerator, List
  <2>3. \A n \in DOMAIN List.recs : List.recs[n].text = r.text => n = m
    BY <1>1, RecordOrder
  <2>4. NamedAt(r.text) = IF r.name \in Asked THEN {r} ELSE {}
    BY <2>3 DEF NamedAt, List, Asked
  <2>5. \/ \E x \in NamedAt(r.text) : fields' = Insert(fields, x.name, x.word)
        \/ NamedAt(r.text) = {} /\ UNCHANGED fields
    BY <2>1 DEF Enumerator, List
  <2> QED BY <2>1, <2>2, <2>4, <2>5
<1> QED BY <1>2, <1>3

\* One turn of the walk.
LEMMA StepEnumerator ==
  ASSUME IInv, Enumerator
  PROVE  IInv'
<1> USE DEF IInv
<1>1. /\ pc = "walk" /\ i < List.size /\ i \in Nat
      /\ EnumList(List) /\ LaidOut(List) /\ List.size \in Nat
      /\ List' = List /\ Asked' = Asked
      /\ pc' = "walk" /\ stream' = stream /\ k' = k /\ result' = result
  BY WalkedList DEF Enumerator, List, Asked, TypeOK, LaidOut
<1>2. i' \in Nat /\ i' > i
  BY <1>1, Forward DEF Enumerator, List
<1>3. \/ fields' = fields
      \/ \E n \in DOMAIN List.recs :
           /\ List.recs[n].name \in Asked
           /\ fields' = Insert(fields, List.recs[n].name, List.recs[n].word)
  BY DEF Enumerator, NamedAt, List, Asked
<1>4. TypeOK'
  <2>1. DOMAIN fields \subseteq Asked
    BY <1>1 DEF TypeOK, Asked
  <2>2. DOMAIN fields' \subseteq Asked
    <3>1. CASE fields' = fields
      BY <2>1, <3>1
    <3>2. ASSUME NEW n \in DOMAIN List.recs,
                 List.recs[n].name \in Asked,
                 fields' = Insert(fields, List.recs[n].name, List.recs[n].word)
          PROVE  DOMAIN fields' \subseteq Asked
      <4>1. DOMAIN fields' = DOMAIN fields \union {List.recs[n].name}
        BY <3>2 DEF Insert
      <4> QED BY <2>1, <3>2, <4>1
    <3> QED BY <1>3, <3>1, <3>2
  <2> QED BY <1>1, <1>2, <2>2 DEF TypeOK, Asked
<1>5. InStep'
  <2> SUFFICES ASSUME \A n \in DOMAIN List.recs :
                        List.recs[n].at < i' => Easy(List.recs[n])
               PROVE  \/ i' = List.size
                      \/ \E n \in DOMAIN List.recs : List.recs[n].at = i'
    BY <1>1 DEF InStep, List
  <2>1. \A n \in DOMAIN List.recs : List.recs[n].at \in Nat
    BY <1>1, RecordOrder
  <2>2. \A n \in DOMAIN List.recs : List.recs[n].at < i => Easy(List.recs[n])
    BY <1>1, <1>2, <2>1
  <2>3. PICK m \in DOMAIN List.recs :
          /\ List.recs[m].at = i
          /\ Easy(List.recs[m]) => i' = Following(List, m)
    BY <2>2, TurnInStep
  <2>4. i' = Following(List, m)
    BY <1>1, <1>2, <2>3
  <2> QED BY <1>1, <2>4, RecordOrder
<1>6. FoundInv'
  <2>1. ASSUME NEW n \in DOMAIN List.recs,
               SmallUpTo(List, n), List.recs[n].name \in Asked
        PROVE  IF List.recs[n].at < i'
               THEN /\ List.recs[n].name \in DOMAIN fields'
                    /\ fields'[List.recs[n].name] = List.recs[n].value
               ELSE List.recs[n].name \notin DOMAIN fields'
    <3> DEFINE r == List.recs[n]
    <3>1. IF r.at < i
          THEN r.name \in DOMAIN fields /\ fields[r.name] = r.value
          ELSE r.name \notin DOMAIN fields
      BY <1>1, <2>1 DEF FoundInv
    <3>2. r.at \in Nat
      BY <1>1, RecordOrder
    <3>3. CASE r.at < i
      <4>1. r.at < i'
        BY <1>1, <1>2, <3>2, <3>3
      <4>2. r.name \in DOMAIN fields' /\ fields'[r.name] = r.value
        BY <1>3, <3>1, <3>3 DEF Insert
      <4> QED BY <4>1, <4>2
    <3>4. CASE r.at >= i
      <4>1. \A j \in DOMAIN List.recs : List.recs[j].at <= r.at => Easy(List.recs[j])
        <5> TAKE j \in DOMAIN List.recs
        <5>1. /\ j \in Nat \ {0} /\ n \in Nat \ {0}
              /\ List.recs[j].at \in Nat
              /\ j > n <=> List.recs[j].at > r.at
          BY <1>1, RecordOrder
        <5>2. List.recs[j].at <= r.at => j \in 1 .. n
          BY <3>2, <5>1
        <5> QED BY <2>1, <5>2 DEF SmallUpTo
      <4>2. \A j \in DOMAIN List.recs : List.recs[j].at < i => Easy(List.recs[j])
        <5> TAKE j \in DOMAIN List.recs
        <5>1. List.recs[j].at \in Nat
          BY <1>1, RecordOrder
        <5> QED BY <1>1, <3>2, <3>4, <4>1, <5>1
      <4>3. PICK m \in DOMAIN List.recs :
              /\ List.recs[m].at = i
              /\ Easy(List.recs[m]) =>
                   /\ i' = Following(List, m)
                   /\ IF List.recs[m].name \in Asked
                      THEN fields' = Insert(fields, List.recs[m].name,
                                            List.recs[m].value)
                      ELSE fields' = fields
        BY <4>2, TurnInStep
      <4>4. Easy(List.recs[m])
        BY <1>1, <3>2, <3>4, <4>1, <4>3
      <4>5. /\ n > m <=> r.at >= i'
            /\ n > m <=> r.at > i
            /\ n \in Nat /\ m \in Nat
        BY <1>1, <4>3, <4>4, RecordOrder
      <4>6. CASE n = m
        <5>1. r.at < i' /\ fields' = Insert(fields, r.name, r.value)
          BY <1>2, <2>1, <4>3, <4>4, <4>5, <4>6
        <5>2. r.name \notin DOMAIN fields
          BY <1>1, <3>1, <3>2, <4>3, <4>6
        <5> QED BY <5>1, <5>2 DEF Insert
      <4>7. CASE n # m
        <5>1. r.at # i
          <6>1. m > n <=> List.recs[m].at > r.at
            BY <1>1, RecordOrder
          <6> QED BY <3>2, <4>3, <4>5, <4>7, <6>1
        <5>2. r.at >= i' /\ ~(r.at < i')
          BY <1>1, <1>2, <3>2, <3>4, <4>5, <5>1
        <5>3. r.name \notin DOMAIN fields
          BY <1>1, <3>1, <3>2, <3>4
        <5>4. r.name # List.recs[m].name
          BY <1>1, <4>7 DEF EnumList
        <5>5. r.name \notin DOMAIN fields'
          BY <4>3, <4>4, <5>3, <5>4 DEF Insert
        <5> QED BY <5>2, <5>5
      <4> QED BY <4>6, <4>7
    <3> QED BY <1>1, <3>2, <3>3, <3>4
  <2>2. \A f \in DOMAIN fields' : \E n \in DOMAIN List.recs : List.recs[n].name = f
    BY <1>1, <1>3 DEF FoundInv, Insert
  <2>3. \A n : SmallUpTo(List, n)' <=> SmallUpTo(List, n)
    BY <1>1 DEF SmallUpTo
  <2> QED BY <1>1, <2>1, <2>2, <2>3 DEF FoundInv
<1>7. AnsweredInv' /\ FindsSmallEnumerators'
  BY <1>1 DEF AnsweredInv, FindsSmallEnumerators, FirstDefinition
<1> QED BY <1>1, <1>4, <1>5, <1>6, <1>7

\* What the walk leaves of a list is a right answer.
LEMMA WalkIsRight ==
  ASSUME IInv, Leave
  PROVE  Right(Fill(fields, NotFound(Asked)), List, Asked)
<1> USE DEF IInv
<1>1. /\ pc = "walk" /\ i >= List.size /\ i \in Nat
      /\ LaidOut(List) /\ List.size \in Nat
  BY WalkedList DEF Leave, List, TypeOK, LaidOut
<1>2. \A n \in DOMAIN List.recs : List.recs[n].at < i
  <2> TAKE n \in DOMAIN List.recs
  <2>1. List.recs[n].at \in Nat /\ List.recs[n].at < List.size
    BY <1>1, RecordOrder
  <2> QED BY <1>1, <2>1
<1>3. ASSUME NEW f \in Asked, NEW n \in DOMAIN List.recs,
             List.recs[n].name = f, SmallUpTo(List, n)
      PROVE  Fill(fields, NotFound(Asked))[f] = List.recs[n].value
  BY <1>1, <1>2, <1>3 DEF FoundInv, Fill, NotFound
<1>4. ASSUME NEW f \in Asked,
             \A n \in DOMAIN List.recs :
               Easy(List.recs[n]) /\ List.recs[n].name # f
      PROVE  Fill(fields, NotFound(Asked))[f] = Invalid
  BY <1>1, <1>4 DEF FoundInv, Fill, NotFound
<1> QED BY <1>3, <1>4 DEF Right

\* The walk through a list ends.
LEMMA StepLeave ==
  ASSUME IInv, Leave
  PROVE  IInv'
<1> USE DEF IInv
<1> DEFINE e == stream[k].name
           answer == Fill(fields, NotFound(Asked))
<1>1. /\ pc = "walk" /\ pc' = "scan" /\ stream' = stream /\ k' = k + 1
      /\ k \in DOMAIN stream /\ Wanted(stream[k]) /\ e \in DOMAIN Query
      /\ result' = Insert(result, e, answer)
      /\ k \in Nat /\ DOMAIN stream = 1 .. Len(stream) /\ Len(stream) \in Nat
  BY WalkedList, StreamsAssumption DEF Leave, Asked, TypeOK, Wanted
<1>2. Right(answer, List, Query[e])
  BY WalkIsRight DEF Asked
<1>3. \A d \in DOMAIN stream : d < k + 1 <=> d < k \/ d = k
  BY <1>1
<1>4. TypeOK'
  <2>1. DOMAIN answer = Query[e]
    BY DEF Fill, NotFound, Asked
  <2>2. /\ DOMAIN result' \subseteq DOMAIN Query
        /\ \A x \in DOMAIN result' : DOMAIN result'[x] = Query[x]
    BY <1>1, <2>1 DEF TypeOK, Insert
  <2>3. k' \in Nat \ {0} /\ i' \in Nat
    BY <1>1 DEF Leave, TypeOK
  <2> QED BY <1>1, <2>2, <2>3 DEF TypeOK
<1>5. InStep' /\ FoundInv' /\ FindsSmallEnumerators'
  BY <1>1 DEF InStep, FoundInv, FindsSmallEnumerators
<1>6. AnsweredInv'
  <2>1. \A x, d : FirstDefinition(x, d)' <=> FirstDefinition(x, d)
    BY <1>1 DEF FirstDefinition
  <2>2. ASSUME NEW x \in DOMAIN Query, NEW d \in DOMAIN stream,
               d < k + 1, FirstDefinition(x, d)
        PROVE  x \in DOMAIN result' /\ Right(result'[x], stream[d].list, Query[x])
    <3>1. CASE d < k
      BY <1>1, <2>2, <3>1 DEF AnsweredInv, Insert
    <3>2. CASE d = k
      <4>1. x = e
        BY <2>2, <3>2 DEF FirstDefinition
      <4>2. \A t \in DOMAIN stream : t < k => ~(Wanted(stream[t]) /\ stream[t].name = e)
        <5>1. \A t \in DOMAIN stream : t < k => t \in 1 .. k - 1
          BY <1>1
        <5> QED BY <2>2, <3>2, <4>1, <5>1 DEF FirstDefinition
      <4>3. e \notin DOMAIN result
        BY <1>1, <4>2 DEF AnsweredInv
      <4>4. result'[e] = answer /\ e \in DOMAIN result'
        BY <1>1, <4>3 DEF Insert
      <4> QED BY <1>2, <3>2, <4>1, <4>4 DEF List
    <3> QED BY <1>3, <2>2, <3>1, <3>2
  <2>3. ASSUME NEW x \in DOMAIN result'
        PROVE  \E d \in DOMAIN stream :
                 d < k + 1 /\ Wanted(stream[d]) /\ stream[d].name = x
    <3>1. CASE x \in DOMAIN result
      BY <1>1, <1>3, <3>1 DEF AnsweredInv
    <3>2. CASE x = e
      BY <1>1, <1>3, <3>2
    <3> QED BY <1>1, <3>1, <3>2 DEF Insert
  <2>4. \A a, l, q : Right(a, l, q)' <=> Right(a, l, q)
    BY DEF Right, SmallUpTo
  <2> QED BY <1>1, <2>1, <2>2, <2>3, <2>4 DEF AnsweredInv
<1> QED BY <1>1, <1>4, <1>5, <1>6

\* The scan ends, and what is missing is filled in.
LEMMA StepFinish ==
  ASSUME IInv, Finish
  PROVE  IInv'
<1> USE DEF IInv
<1>1. /\ pc = "scan" /\ pc' = "done" /\ stream' = stream /\ k' = k /\ i' = i
      /\ k \notin DOMAIN stream /\ result' = Fill(result, NoneFound)
      /\ k \in Nat \ {0} /\ DOMAIN stream = 1 .. Len(stream) /\ Len(stream) \in Nat
  BY StreamsAssumption DEF Finish, TypeOK
<1>2. \A e \in DOMAIN Query :
        result'[e] = IF e \in DOMAIN result THEN result[e] ELSE NoneFound[e]
  BY <1>1 DEF Fill, NoneFound
<1>3. DOMAIN result' = DOMAIN Query
  BY <1>1 DEF Fill, NoneFound
<1>4. TypeOK'
  <2>1. \A e \in DOMAIN Query : DOMAIN result'[e] = Query[e]
    BY <1>2 DEF NoneFound, NotFound, TypeOK
  <2> QED BY <1>1, <1>3, <2>1 DEF TypeOK
<1>5. \A x, d : FirstDefinition(x, d)' <=> FirstDefinition(x, d)
  BY <1>1 DEF FirstDefinition
<1>6. \A e \in DOMAIN Query : \A d \in DOMAIN stream :
        FirstDefinition(e, d) =>
          e \in DOMAIN result /\ Right(result[e], stream[d].list, Query[e])
  <2>1. \A d \in DOMAIN stream : d < k
    <3>1. \A d \in 1 .. Len(stream) : k \notin 1 .. Len(stream) => d < k
      BY <1>1
    <3> QED BY <1>1, <3>1
  <2> QED BY <2>1 DEF AnsweredInv
<1>7. AnsweredInv'
  <2>1. \A a, l, q : Right(a, l, q)' <=> Right(a, l, q)
    BY DEF Right, SmallUpTo
  <2> QED BY <1>1, <1>2, <1>3, <1>5, <1>6, <2>1 DEF AnsweredInv
<1>8. FindsSmallEnumerators'
  <2> SUFFICES ASSUME NEW e \in DOMAIN Query, NEW f \in Query[e]
               PROVE  /\ \A d \in DOMAIN stream : FirstDefinition(e, d) =>
                           LET list == stream[d].list
                           IN  /\ \A n \in DOMAIN list.recs :
                                    list.recs[n].name = f /\ SmallUpTo(list, n)
                                      => result'[e][f] = list.recs[n].value
                               /\ (\A n \in DOMAIN list.recs :
                                     Easy(list.recs[n]) /\ list.recs[n].name # f)
                                      => result'[e][f] = Invalid
                      /\ (\A d \in DOMAIN stream : ~FirstDefinition(e, d))
                           => result'[e][f] = Invalid
    BY <1>1, <1>5 DEF FindsSmallEnumerators, SmallUpTo
  <2>1. \A d \in DOMAIN stream : FirstDefinition(e, d) =>
          Right(result'[e], stream[d].list, Query[e])
    BY <1>2, <1>6
  <2>2. ASSUME \A d \in DOMAIN stream : ~FirstDefinition(e, d)
        PROVE  result'[e][f] = Invalid
    <3>1. ASSUME e \in DOMAIN result PROVE FALSE
      <4>1. PICK T : T = {d \in DOMAIN stream :
                           Wanted(stream[d]) /\ stream[d].name = e}
        OBVIOUS
      <4>2. T \subseteq Nat /\ T # {}
        BY <1>1, <3>1, <4>1 DEF AnsweredInv
      <4>3. PICK d \in T : \A t \in T : d <= t
        BY <4>2, LeastNumber
      <4>4. \A t \in 1 .. d - 1 : t \in DOMAIN stream /\ ~(d <= t)
        BY <1>1, <4>1, <4>3
      <4>5. FirstDefinition(e, d)
        BY <4>1, <4>3, <4>4 DEF FirstDefinition
      <4> QED BY <2>2, <4>1, <4>5
    <3> QED BY <1>2, <3>1 DEF NoneFound, NotFound
  <2> QED BY <2>1, <2>2 DEF Right
<1> QED BY <1>1, <1>4, <1>7, <1>8 DEF InStep, FoundInv

THEOREM Invariance == Spec => []IInv
<1>1. IInv /\ [Next]_vars => IInv'
  <2> SUFFICES ASSUME IInv, [Next]_vars PROVE IInv'
    OBVIOUS
  <2>1. CASE Skip
    BY <2>1, StepSkip
  <2>2. CASE Enter
    BY <2>2, StepEnter
  <2>3. CASE Enumerator
    BY <2>3, StepEnumerator
  <2>4. CASE Leave
    BY <2>4, StepLeave
  <2>5. CASE Finish
    BY <2>5, StepFinish
  <2>6. CASE UNCHANGED vars
    BY <2>6 DEF vars, IInv, TypeOK, InStep, FoundInv, AnsweredInv, List, Asked,
                FindsSmallEnumerators, FirstDefinition, SmallUpTo, Right
  <2> QED BY <2>1, <2>2, <2>3, <2>4, <2>5, <2>6 DEF Next
<1> QED BY InitIInv, <1>1, PTL DEF Spec

\* What a query has found, and where it is, is always of its type: of each
\* enumeration that was answered, all the names asked for and no others.
THEOREM TypeCorrectness == Spec => []TypeOK
<1>1. IInv => TypeOK
  BY DEF IInv
<1> QED BY Invariance, <1>1, PTL

\* Until it has met a large value, the walk is at the start of an enumerator
\* or at the end of the list.
THEOREM StaysInStep == Spec => []InStep
<1>1. IInv => InStep
  BY DEF IInv
<1> QED BY Invariance, <1>1, PTL

\* The answer has the value of every enumerator asked for that no large value
\* comes before, and -1 where there is nothing to be found.
THEOREM Correctness == Spec => []FindsSmallEnumerators
<1>1. IInv => FindsSmallEnumerators
  BY DEF IInv
<1> QED BY Invariance, <1>1, PTL
=============================================================================
