----------------------------- MODULE MCSmpBoot -----------------------------
(***************************************************************************)
(* Instances of SmpBoot for TLC: the four cores of the board, an image of  *)
(* two pages and the six pages mapped above it.                            *)
(***************************************************************************)
EXTENDS SmpBoot
=============================================================================
