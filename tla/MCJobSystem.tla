---------------------------- MODULE MCJobSystem ----------------------------
(***************************************************************************)
(* Small pools for JobSystem.  A run in which fn throws and one in which   *)
(* it never does share the module.                                         *)
(***************************************************************************)
EXTENDS JobSystem

CONSTANTS w1, w2

One == {w1}
Two == {w1, w2}
Nothing == {}
Second == {1}

=============================================================================
