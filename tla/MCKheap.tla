------------------------------ MODULE MCKheap ------------------------------
(***************************************************************************)
(* The heap with the sizes of the board: 32768 bytes for 258048 pages of   *)
(* memory below the peripherals and the consoles of four cores, and a heap *)
(* in which the last console does not fit.                                 *)
(***************************************************************************)
EXTENDS Kheap

TwoHeaps == {32640, 32768}

=============================================================================
