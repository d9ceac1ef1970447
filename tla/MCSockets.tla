------------------------------ MODULE MCSockets ------------------------------
(***************************************************************************)
(* Instances of Sockets for TLC.                                           *)
(***************************************************************************)
EXTENDS Sockets

\* Once the callers have asked too much of the ring nothing is claimed any more.
Kept == ~misused
=============================================================================
