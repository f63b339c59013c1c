--------------------------- MODULE MCSystemUpdate ---------------------------
(***************************************************************************)
(* SystemUpdate for TLC: every constant is a number or a switch, given in  *)
(* the configurations.                                                     *)
(***************************************************************************)
EXTENDS SystemUpdate
=============================================================================
