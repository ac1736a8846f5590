---------------------------- MODULE MCSurfaceSave ----------------------------
(***************************************************************************)
(* SurfaceSave for TLC: two chunks, two values a touched chunk may hold.   *)
(* Chunks are interchangeable and so are values.                           *)
(***************************************************************************)
EXTENDS SurfaceSave, TLC

Symmetry == Permutations(Chunks) \union Permutations(Values)

=============================================================================
