------------------------- MODULE FieldLists_proofs -------------------------
(***************************************************************************)
(* Facts about field lists that are laid out as compilers write them, for  *)
(* the proofs about the two walks.                                         *)
(***************************************************************************)
EXTENDS FieldLists, WellFoundedInduction, TLAPS

\* Rounding up does.
LEMMA AlignUp ==
  ASSUME NEW x \in Nat
  PROVE  Align(x) \in Nat /\ Align(x) >= x
BY DEF Align

\* A non-empty set of numbers has a least one.
LEMMA LeastNumber ==
  ASSUME NEW T, T \subseteq Nat, T # {}
  PROVE  \E x \in T : \A y \in T : x <= y
<1> DEFINE Less == OpToRel(<, Nat)
<1>1. IsWellFoundedOn(Less, Nat)
  BY NatLessThanWellFounded
<1>2. \E x \in T : \A y \in T : ~(<<y, x>> \in Less)
  <2> HIDE DEF Less
  <2> QED BY <1>1, WFMin
<1>3. \A x, y \in Nat : y < x => <<y, x>> \in Less
  BY DEF OpToRel
<1> HIDE DEF Less
<1>4. PICK x \in T : \A y \in T : ~(<<y, x>> \in Less)
  BY <1>2
<1>5. \A y \in T : ~(y < x)
  BY <1>3, <1>4
<1>6. \A y \in T : x <= y
  BY <1>5
<1> QED BY <1>6

\* A string ends where it starts, or behind.
LEMMA StringEndBehind ==
  ASSUME NEW list, LaidOut(list), NEW p \in Nat
  PROVE  StringEnd(list, p) \in Nat /\ StringEnd(list, p) >= p
<1> DEFINE later == {z \in list.zeros : z >= p}
<1>1. later \subseteq Nat /\ list.size \in Nat
  BY DEF LaidOut
<1>2. CASE later # {}
  <2>1. \E z \in later : \A y \in later : z <= y
    BY <1>1, <1>2, LeastNumber
  <2>2. StringEnd(list, p) \in later
    BY <1>2, <2>1 DEF StringEnd
  <2> QED BY <1>1, <2>2
<1>3. CASE later = {}
  BY <1>1, <1>3 DEF StringEnd
<1> QED BY <1>2, <1>3

\* From any byte of a name on, the string ends with the name.
LEMMA StringEndOfName ==
  ASSUME NEW list, LaidOut(list),
         NEW n \in DOMAIN list.recs,
         NEW p \in Nat, list.recs[n].text <= p, p <= list.recs[n].end
  PROVE  StringEnd(list, p) = list.recs[n].end
<1> DEFINE later == {z \in list.zeros : z >= p}
           r == list.recs[n]
<1>1. /\ later \subseteq Nat
      /\ r.text \in Nat /\ r.end \in Nat
      /\ list.zeros \intersect (r.text .. r.end) = {r.end}
  BY DEF LaidOut
<1>2. r.end \in later
  BY <1>1
<1>3. ASSUME NEW y \in later PROVE r.end <= y
  <2>1. y \in Nat /\ y \in list.zeros /\ y >= p
    BY <1>1
  <2>2. y <= r.end => y \in r.text .. r.end
    BY <1>1, <2>1
  <2> QED BY <1>1, <2>1, <2>2
<1>4. \A z \in later : (\A y \in later : z <= y) => z = r.end
  BY <1>1, <1>2, <1>3
<1>5. (CHOOSE z \in later : \A y \in later : z <= y) = r.end
  BY <1>2, <1>3, <1>4
<1> QED BY <1>2, <1>5 DEF StringEnd

\* The records of a list are in order: none starts between a record and the
\* one that follows it, and no two have the same text.
LEMMA RecordOrder ==
  ASSUME NEW list, LaidOut(list), NEW m \in DOMAIN list.recs
  PROVE  /\ m \in Nat \ {0}
         /\ list.recs[m].at \in Nat /\ list.recs[m].text \in Nat
         /\ list.recs[m].at < Following(list, m)
         /\ list.recs[m].at < list.size
         /\ Following(list, m) \in Nat
         /\ \A n \in DOMAIN list.recs :
              /\ n > m  <=> list.recs[n].at > list.recs[m].at
              /\ n > m  <=> list.recs[n].at >= Following(list, m)
              /\ list.recs[n].text = list.recs[m].text => n = m
         /\ \/ Following(list, m) = list.size
            \/ /\ m + 1 \in DOMAIN list.recs
               /\ Following(list, m) = list.recs[m + 1].at
<1> DEFINE recs == list.recs
<1>1. /\ list.size \in Nat
      /\ Len(recs) \in Nat /\ DOMAIN recs = 1 .. Len(recs)
      /\ \A j, n \in DOMAIN recs : j < n => recs[j].end < recs[n].at
  BY DEF LaidOut
<1>2. ASSUME NEW n \in DOMAIN recs
      PROVE  /\ n \in Nat \ {0}
             /\ recs[n].at \in Nat /\ recs[n].text \in Nat /\ recs[n].end \in Nat
             /\ recs[n].at < recs[n].text
             /\ recs[n].at <= recs[n].end /\ recs[n].text <= recs[n].end + 1
             /\ Following(list, n) \in Nat
             /\ recs[n].end < Following(list, n)
  <2>1. /\ recs[n].at \in Nat /\ recs[n].text \in Nat /\ recs[n].end \in Nat
        /\ recs[n].at < recs[n].text /\ recs[n].text <= recs[n].end + 1
        /\ Following(list, n) = Align(recs[n].end + 1)
    BY DEF LaidOut
  <2>2. n \in Nat \ {0}
    BY <1>1
  <2>3. recs[n].end + 1 \in Nat
    BY <2>1
  <2>4. Align(recs[n].end + 1) \in Nat /\ Align(recs[n].end + 1) >= recs[n].end + 1
    BY <2>3, AlignUp
  <2>5. recs[n].at <= recs[n].end
    BY <2>1
  <2> QED BY <2>1, <2>2, <2>4, <2>5
<1>3. ASSUME NEW j \in DOMAIN recs, NEW n \in DOMAIN recs, j < n
      PROVE  /\ recs[j].end < recs[n].at
             /\ recs[j].at < recs[n].at
             /\ recs[j].text < recs[n].text
             /\ recs[n].at >= Following(list, j)
  <2>1. recs[j].end < recs[n].at
    BY <1>1, <1>3
  <2>2. /\ recs[j].at \in Nat /\ recs[j].text \in Nat /\ recs[j].end \in Nat
        /\ recs[j].at <= recs[j].end /\ recs[j].text <= recs[j].end + 1
    BY <1>2
  <2>3. /\ recs[n].at \in Nat /\ recs[n].text \in Nat /\ recs[n].end \in Nat
        /\ recs[n].at < recs[n].text
    BY <1>2
  <2>4. j + 1 \in DOMAIN recs
    BY <1>1, <1>3
  <2>5. Following(list, j) = recs[j + 1].at
    BY <2>4 DEF Following
  <2>6. CASE n = j + 1
    BY <2>1, <2>2, <2>3, <2>5, <2>6
  <2>7. CASE j + 1 < n
    <3>1. recs[j + 1].end < recs[n].at
      BY <1>1, <2>4, <2>7
    <3>2. /\ recs[j + 1].at \in Nat /\ recs[j + 1].end \in Nat
          /\ recs[j + 1].at <= recs[j + 1].end
      BY <1>2, <2>4
    <3> QED BY <2>1, <2>2, <2>3, <2>5, <3>1, <3>2
  <2> QED BY <1>1, <1>3, <2>6, <2>7
<1>4. ASSUME NEW n \in DOMAIN recs
      PROVE  /\ n > m <=> recs[n].at > recs[m].at
             /\ n > m <=> recs[n].at >= Following(list, m)
             /\ recs[n].text = recs[m].text => n = m
  <2>1. n \in Nat /\ m \in Nat /\ (m < n \/ n = m \/ n < m)
    BY <1>1
  <2>2. /\ recs[n].at \in Nat /\ recs[n].text \in Nat
        /\ recs[m].at \in Nat /\ recs[m].text \in Nat
        /\ Following(list, m) \in Nat
        /\ recs[m].at < Following(list, m)
    BY <1>2
  <2>3. CASE m < n
    <3>1. /\ recs[m].at < recs[n].at /\ recs[m].text < recs[n].text
          /\ recs[n].at >= Following(list, m)
      BY <1>3, <2>3
    <3> QED BY <2>1, <2>2, <2>3, <3>1
  <2>4. CASE n = m
    BY <2>1, <2>2, <2>4
  <2>5. CASE n < m
    <3>1. recs[n].at < recs[m].at /\ recs[n].text < recs[m].text
      BY <1>3, <2>5
    <3> QED BY <2>1, <2>2, <2>5, <3>1
  <2> QED BY <2>1, <2>3, <2>4, <2>5
<1>5. recs[m].at < list.size
  <2> DEFINE last == Len(recs)
  <2>1. last \in DOMAIN recs /\ last + 1 \notin DOMAIN recs
    BY <1>1
  <2>2. Following(list, last) = list.size
    BY <2>1 DEF Following
  <2>3. /\ recs[last].at \in Nat /\ recs[last].end \in Nat
        /\ recs[last].at <= recs[last].end /\ recs[last].end < list.size
    BY <1>2, <2>1, <2>2
  <2>4. CASE m = last
    BY <1>1, <2>3, <2>4
  <2>5. CASE m < last
    <3>1. recs[m].at < recs[last].at
      BY <1>3, <2>1, <2>5
    <3>2. recs[m].at \in Nat
      BY <1>2
    <3> QED BY <1>1, <2>3, <3>1, <3>2
  <2> QED BY <1>1, <2>1, <2>4, <2>5
<1>6. \/ Following(list, m) = list.size
      \/ m + 1 \in DOMAIN recs /\ Following(list, m) = recs[m + 1].at
  BY DEF Following
<1>7. recs[m].at < Following(list, m)
  <2>1. /\ recs[m].at \in Nat /\ recs[m].end \in Nat
        /\ recs[m].at <= recs[m].end
        /\ Following(list, m) \in Nat
        /\ recs[m].end < Following(list, m)
    BY <1>2
  <2> QED BY <2>1
<1> QED BY <1>2, <1>4, <1>5, <1>6, <1>7
=============================================================================
