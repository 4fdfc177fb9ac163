---------------------------- MODULE MCUserSwitch ----------------------------
(***************************************************************************)
(* Instances of UserSwitch for TLC: a digit, the newline and a letter are  *)
(* typed; the FIFO holds three characters and interrupts at two.           *)
(***************************************************************************)
EXTENDS UserSwitch

SomeKeys == {7, Newline, OtherKey}

=============================================================================
