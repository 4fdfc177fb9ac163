------------------------------- MODULE MCPmap -------------------------------
(***************************************************************************)
(* Instances of Pmap for TLC: two cores, two frames, two values.  No       *)
(* action or property tells one core, frame or value from another.         *)
(***************************************************************************)
EXTENDS Pmap, TLC

Symmetric == Permutations(Cpus) \cup Permutations(Frames) \cup Permutations(Values)

=============================================================================
