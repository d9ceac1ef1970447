---------------------------- MODULE MCDownloader ----------------------------
(***************************************************************************)
(* Instances of Downloader for TLC.                                        *)
(***************************************************************************)
EXTENDS Downloader, TLC

Kernel(c) == [name |-> [base |-> "kernel", case |-> c], id |-> 1]
Other(c) == [name |-> [base |-> "other", case |-> c], id |-> 1]

\* A kernel PDB and another one.
TwoKeys == {Kernel("lower"), Other("lower")}

\* One PDB that every request asks for.
OneKey == {Kernel("lower")}

\* One name in two spellings.
KernelSpellings == {Kernel("lower"), Kernel("upper")}

OneId == {1}

\* README.md says that the first request for a PDB downloads it and that
\* subsequent requests use the cached file. A thread that waited for mutex_ does
\* not look again: it downloads a file that has been published meanwhile.
CachedFileIsNotDownloaded ==
  \A w \in Workers : pc[w] = "get" => pub[Asked(w)] = Nothing

\* downloader.cpp says that a kernel PDB with no type information is ignored.
\* The name it compares was not lowered: such a PDB is cached, and served, if
\* the request spells its name with a capital letter.
NoUntypedKernelPdb ==
  \A p \in Paths :
    p.name.base = "kernel" /\ pub[p] # Nothing
      => data[pub[p]] \notin {"untyped", "cut untyped"}

\* Threads are interchangeable.
Symmetry == Permutations(Workers)
=============================================================================
