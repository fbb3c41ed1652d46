---------------------------- MODULE MCConfigStore ----------------------------
(***************************************************************************)
(* Instances of ConfigStore for TLC.  Groups, names and drivers are only   *)
(* compared with each other.                                               *)
(***************************************************************************)
EXTENDS ConfigStore, TLC

Symmetry == Permutations(Groups) \cup Permutations(Drivers)
==============================================================================
