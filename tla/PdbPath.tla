------------------------------- MODULE PdbPath -------------------------------
(***************************************************************************)
(* How the clients find out which PDB belongs to an image: its debug       *)
(* directory is found through its section table, the debug information     *)
(* through the directory, and in that are the name, the guid and the age.  *)
(*                                                                         *)
(* An image is                                                             *)
(*   machine    of the file header                                         *)
(*   sections   of the section table: [va, size, raw], the address and     *)
(*              size in memory and the place in the file                   *)
(*   debug      the address of the debug directory in memory               *)
(*   entries    by their place in the file, the first entries of debug     *)
(*              directories: the place in the file of what they describe   *)
(*   infos      by their place in the file, debug informations             *)
(*   pdb        which PDB the linker has made for it                       *)
(*   proper     that it has one, whose information comes first             *)
(***************************************************************************)
EXTENDS Integers, Sequences, FiniteSetsExt

Machines == {"I386", "AMD64"}

\* Bytes that are not what they are taken for.
Garbage == [name |-> "garbage", guid |-> "garbage", age |-> 0]

\* Mutant of RvaToOffset: rva <= VirtualAddress + VirtualSize.
RvaToOffsetInclusive(image, rva) ==
  LET within == {i \in DOMAIN image.sections :
                   /\ rva >= image.sections[i].va
                   /\ rva <= image.sections[i].va + image.sections[i].size}
  IN  IF within = {} THEN 0
      ELSE LET section == image.sections[Min(within)]
           IN  rva - section.va + section.raw

\* The place in the file of what is at rva in memory, or 0: the beginning.
RvaToOffset(image, rva) ==
  LET within == {i \in DOMAIN image.sections :
                   /\ rva >= image.sections[i].va
                   /\ rva < image.sections[i].va + image.sections[i].size}
  IN  IF within = {} THEN 0
      ELSE LET section == image.sections[Min(within)]
           IN  rva - section.va + section.raw

\* Both headers have their data directory where the machine says, and the guid
\* is written with as many digits for each of its fields as that has.
PdbPathInfo(image) ==
  LET place == RvaToOffset(image, image.debug)
      pointer == IF place \in DOMAIN image.entries THEN image.entries[place] ELSE 0
  IN  IF pointer \in DOMAIN image.infos THEN image.infos[pointer] ELSE Garbage

\* The debug directory is in one of the sections, which do not overlap, and its
\* first entry leads to the PDB of the image.
Linked(image) ==
  /\ image.sections \in Seq([va : Nat, size : Nat, raw : Nat])
  /\ \E k \in DOMAIN image.sections :
       LET section == image.sections[k]
           place == image.debug - section.va + section.raw
           Within(i) == /\ image.debug >= image.sections[i].va
                        /\ image.debug < image.sections[i].va + image.sections[i].size
       IN  /\ \A i \in DOMAIN image.sections : Within(i) <=> i = k
           /\ place \in DOMAIN image.entries
           /\ image.entries[place] \in DOMAIN image.infos
           /\ image.infos[image.entries[place]] = image.pdb
=============================================================================
