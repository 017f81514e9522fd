------------------------------ MODULE MCTracked ------------------------------
(***************************************************************************)
(* Tracked for TLC.                                                        *)
(***************************************************************************)
EXTENDS Tracked, TLC

Symmetry == Permutations(Values) \cup Permutations(Wrappers)
=============================================================================
