---------------------------- MODULE MCEnumQuery ----------------------------
(***************************************************************************)
(* Type streams for EnumQuery, laid out byte by byte: every list of up to  *)
(* three enumerators with names of different lengths and values of         *)
(* different widths, and a few streams with several records.               *)
(***************************************************************************)
EXTENDS EnumQuery, SequencesExt

NameLengths == [a |-> 1, bcd |-> 3, efghijk |-> 7]

\* The numbers below stand for 1, 0x8123, 0x10000 and -1: their leaf, value,
\* the two bytes before the name, and their zero bytes, counted from the
\* first byte of the leaf.
Numbers == {
  [leaf |-> "easy",      value |-> 1,     word |-> 1,     zeros |-> {1}],
  [leaf |-> "LF_USHORT", value |-> 33059, word |-> 33059, zeros |-> {}],
  [leaf |-> "LF_ULONG",  value |-> 65536, word |-> 1,     zeros |-> {2, 3, 5}],
  [leaf |-> "LF_CHAR",   value |-> -1,    word |-> 65408, zeros |-> {0}]}

\* The list with one more enumerator. The high byte of its attributes is zero.
Put(list, name, number) ==
  LET at == list.size
      text == at + ValueAt + LeafSize(number.leaf)
      end == text + NameLengths[name]
  IN  [recs  |-> Append(list.recs,
                   [at |-> at, text |-> text, end |-> end, name |-> name,
                    leaf |-> number.leaf, value |-> number.value,
                    word |-> number.word]),
       zeros |-> list.zeros \union {at + 3, end}
                   \union {at + ValueAt + z : z \in number.zeros},
       size  |-> Align(end + 1)]

NoRecords == [recs |-> <<>>, zeros |-> {}, size |-> 0]

ListOf(names, numbers) ==
  FoldLeftDomain(LAMBDA list, n : Put(list, names[n], numbers[n]),
                 NoRecords, names)

\* Names of the enumerators of a list are different.
Lists ==
  UNION {{ListOf(names, numbers) :
            names \in {s \in [1 .. len -> DOMAIN NameLengths] : IsInjective(s)},
            numbers \in [1 .. len -> Numbers]} : len \in 0 .. 3}

Enum(list) == [kind |-> "LF_ENUM", fwdref |-> FALSE, name |-> "E", list |-> list]
Forward == [kind |-> "LF_ENUM", fwdref |-> TRUE, name |-> "E", list |-> NoList]
Unrelated == [kind |-> "LF_ENUM", fwdref |-> FALSE, name |-> "F", list |-> NoRecords]
Other == [kind |-> "LF_POINTER"]

Small == CHOOSE number \in Numbers : number.leaf = "easy"
First == ListOf(<<"a">>, <<Small>>)
Second == ListOf(<<"bcd">>, <<Small>>)

MCStreams ==
  {<<Enum(list)>> : list \in Lists}
    \union {<<>>, <<Forward>>, <<Other, Unrelated>>,
            <<Forward, Enum(First), Other, Enum(Second)>>,
            <<Enum(Second), Unrelated, Enum(First)>>}

MCQuery == [E |-> {"a", "bcd", "efghijk", "x"}]

\* README.md says: when you request a name that exists, you get the correct
\* result. Values that are negative or above 0x7FFF are not decoded.
FindsEveryEnumerator ==
  pc = "done" =>
    \A e \in DOMAIN Query : \A d \in DOMAIN stream : FirstDefinition(e, d) =>
      \A n \in DOMAIN stream[d].list.recs :
        LET r == stream[d].list.recs[n]
        IN  r.name \in Query[e] => result[e][r.name] = r.value
=============================================================================
