---------------------------- MODULE MCUpdateWalk ----------------------------
(***************************************************************************)
(* UpdateWalk for TLC: Init enumerates every history of N commits with up  *)
(* to K version tags, every HEAD and every setting.                        *)
(***************************************************************************)
EXTENDS UpdateWalk
=============================================================================
