------------------------------- MODULE StdMap -------------------------------
(***************************************************************************)
(* std::map as the queries of the PDB parser use it: a function on the     *)
(* keys that are in the map.                                               *)
(***************************************************************************)

Empty == [x \in {} |-> x]

\* operator[], as a mutant of insert().
Assign(map, key, value) ==
  [x \in DOMAIN map \union {key} |-> IF x = key THEN value ELSE map[x]]

\* insert() leaves the value of a key that is there.
Insert(map, key, value) ==
  [x \in DOMAIN map \union {key} |->
     IF x \in DOMAIN map THEN map[x] ELSE value]

\* The loop after each scan: names that were not found get a default.
Fill(map, defaults) ==
  [x \in DOMAIN defaults |-> IF x \in DOMAIN map THEN map[x] ELSE defaults[x]]
=============================================================================
