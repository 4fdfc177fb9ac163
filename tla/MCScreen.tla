------------------------------ MODULE MCScreen ------------------------------
(***************************************************************************)
(* Screen for TLC: a screen of 4 x 8 pixels, so windows of two columns and *)
(* two rows of a font of 1 x 2.                                            *)
(***************************************************************************)
EXTENDS Screen, TLC

(* Core 0 prints one character, core 1 enough to scroll twice.             *)
SomeQuota == <<4, 2, 0>> @@ (0 :> 1)

=============================================================================
