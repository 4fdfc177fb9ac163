--------------------------- MODULE MCClockSched ---------------------------
(***************************************************************************)
(* Instances of ClockSched for TLC: what SPSR_EL1 may hold on core 1.      *)
(***************************************************************************)
EXTENDS ClockSched

El1 == {"open", "masked"}

===========================================================================
