------------------------------ MODULE MCMeasure ------------------------------
(***************************************************************************)
(* Measure for TLC: a source, and a bench that dumps under its own name or *)
(* under that of its executable.                                           *)
(***************************************************************************)
EXTENDS Measure

CONSTANTS f, b, b_hash

OneSource == {f}
OneBench == {b}
BothNames == {b, b_hash}
UnderItsOwn == [x \in OneBench |-> b]
UnderItsFile == [x \in OneBench |-> b_hash]
=============================================================================
