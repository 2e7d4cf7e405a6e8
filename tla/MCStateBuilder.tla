--------------------------- MODULE MCStateBuilder ---------------------------
(* StateBuilder for TLC: the builders are interchangeable.                *)
EXTENDS StateBuilder, TLC

Symmetry == Permutations(Builder)
=============================================================================
