--------------------------- MODULE MCTensorGraph ---------------------------
(***************************************************************************)
(* Instances of TensorGraph for TLC.                                       *)
(***************************************************************************)
EXTENDS TensorGraph, TLC

\* The string "n0": what the first unnamed node is called.
ClashingName == {AutoName(0)}
NoName       == {}

\* Builders, and value names, are interchangeable.
Symmetry == Permutations(Builders) \cup Permutations(Names)
=============================================================================
