--------------------------- MODULE MCReleaseRegistry ---------------------------
(***************************************************************************)
(* ReleaseRegistry on a small instance.  Operators do the same, and so do  *)
(* versions with accepted gates; every property treats them alike and none *)
(* is a liveness property, so symmetry is sound.                           *)
(***************************************************************************)
EXTENDS ReleaseRegistry, TLC

Alike == Permutations(Operators) \cup Permutations(Accepted)
=============================================================================
