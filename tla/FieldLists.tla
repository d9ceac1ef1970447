----------------------------- MODULE FieldLists -----------------------------
(***************************************************************************)
(* The byte layout of a CodeView field list (LF_FIELDLIST), which the      *)
(* struct and enum queries of the PDB parser walk by hand.                 *)
(*                                                                         *)
(* A list is [recs, zeros, size]: its records in order, the offsets of its *)
(* zero bytes, and its length in bytes. Of a record matter its first byte  *)
(* (at), the first byte of its name (text) and its last byte before the    *)
(* padding (end), which ends the name if there is one. The other bytes     *)
(* matter in one way: a search for the end of a string stops at a zero.    *)
(***************************************************************************)
EXTENDS Integers, Sequences, StdMap

\* A position of the walk is rounded up to four bytes after each record.
Align(x) == ((x + 3) \div 4) * 4

\* GetLeafSize: the bytes of a number stored with each kind of numeric leaf. A
\* number below 0x8000 is stored as such, the others after their kind.
LeafSize(leaf) ==
  CASE leaf = "easy"     -> 2
    [] leaf = "LF_CHAR"  -> 3
    [] leaf \in {"LF_SHORT", "LF_USHORT"} -> 4
    [] leaf \in {"LF_LONG", "LF_ULONG"} -> 6
    [] leaf \in {"LF_QUADWORD", "LF_UQUADWORD"} -> 10
    [] OTHER -> 0

\* The last byte of the string that starts at p, as strnlen finds it: the
\* first zero, or the last byte of the list. If p is behind the list, so is the
\* byte found, and which one it is makes no difference to the walk.
StringEnd(list, p) ==
  LET later == {z \in list.zeros : z >= p}
  IN  IF later # {} THEN CHOOSE z \in later : \A y \in later : z <= y
      ELSE IF p < list.size THEN list.size - 1 ELSE p

\* Where the record after record n starts, or the list ends.
Following(list, n) ==
  IF n + 1 \in DOMAIN list.recs THEN list.recs[n + 1].at ELSE list.size

\* How compilers write a list: records follow each other, aligned, from the
\* first byte to the last, and a name has no zero but at its end.
LaidOut(list) ==
  LET recs == list.recs
  IN  /\ list.size \in Nat
      /\ list.zeros \subseteq Nat
      /\ Len(recs) \in Nat /\ DOMAIN recs = 1 .. Len(recs)
      /\ IF 1 \in DOMAIN recs THEN recs[1].at = 0 ELSE list.size = 0
      /\ \A n \in DOMAIN recs :
           /\ recs[n].at \in Nat /\ recs[n].text \in Nat /\ recs[n].end \in Nat
           /\ recs[n].at < recs[n].text /\ recs[n].text <= recs[n].end + 1
           /\ Following(list, n) = Align(recs[n].end + 1)
           /\ recs[n].text <= recs[n].end =>
                list.zeros \intersect (recs[n].text .. recs[n].end)
                  = {recs[n].end}
      /\ \A m, n \in DOMAIN recs : m < n => recs[m].end < recs[n].at
=============================================================================
