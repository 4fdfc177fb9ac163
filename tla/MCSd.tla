-------------------------------- MODULE MCSd --------------------------------
EXTENDS Sd

(* Scaled down from 6 and 512. *)
MCTries == 2
MCBlockSize == 2
=============================================================================
