--------------------------- MODULE MCClientReads ----------------------------
(***************************************************************************)
(* ClientReads on small instances: see the cfg files.                      *)
(***************************************************************************)
EXTENDS ClientReads

Symmetry == Permutations(Entries) \cup Permutations(Calls)
=============================================================================
