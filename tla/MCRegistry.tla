------------------------------ MODULE MCRegistry ------------------------------
(***************************************************************************)
(* Registry for TLC.  Threads, sites, names and samples are                *)
(* interchangeable.                                                        *)
(***************************************************************************)
EXTENDS Registry

Symmetry == Permutations(Threads) \cup Permutations(Sites)
              \cup Permutations(Names) \cup Permutations(Samples)
=============================================================================
