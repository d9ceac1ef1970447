--------------------------- MODULE MCSymbolQuery ---------------------------
(***************************************************************************)
(* PDB files for SymbolQuery: up to two public and two global symbols, and *)
(* two modules with up to one symbol each.                                 *)
(***************************************************************************)
EXTENDS SymbolQuery

\* Two sections. A symbol of the section 3 is one that the linker made up.
MCSections == <<4096, 8192>>

At(kind, name, section, offset) ==
  [kind |-> kind, name |-> name, section |-> section, offset |-> offset]

Publics == {At("S_PUB32", "f", 1, 16), At("S_PUB32", "f", 3, 0),
            At("S_PUB32", "g", 2, 0)}

Globals == {At("S_GDATA32", "g", 2, 8), At("S_LTHREAD32", "f", 2, 16),
            At("S_UDT", "g", 0, 0), At("S_PROCREF", "f", 0, 0)}

InModules == {At("S_LPROC32", "f", 1, 32), At("S_GPROC32_ID", "g", 1, 48),
              At("S_TRAMPOLINE", "none", 1, 5), At("S_LABEL32", "f", 1, 6),
              At("S_LDATA32", "f", 0, 4)}

UpTo(len, symbols) == UNION {[1 .. l -> symbols] : l \in 0 .. len}

MCPdbs == {<<p, g>> \o m : p \in UpTo(2, Publics), g \in UpTo(2, Globals),
                           m \in UpTo(2, UpTo(1, InModules))}

MCNames == {"f", "g", "ILT", "x"}
=============================================================================
