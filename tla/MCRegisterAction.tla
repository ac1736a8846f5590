-------------------------- MODULE MCRegisterAction --------------------------
(***************************************************************************)
(* Two planets for RegisterAction; the announcement and the pause between  *)
(* two waves are longer than a frame.                                      *)
(***************************************************************************)
EXTENDS RegisterAction

CONSTANTS p1, p2
=============================================================================
