--------------------------- MODULE MCQueryServer ---------------------------
(***************************************************************************)
(* An instance of QueryServer for TLC: more connections than threads, one  *)
(* PDB they all ask for.                                                   *)
(***************************************************************************)
EXTENDS QueryServer

OneId == {1}
OneKey == {[name |-> [base |-> "other", case |-> "lower"], id |-> 1]}
=============================================================================
