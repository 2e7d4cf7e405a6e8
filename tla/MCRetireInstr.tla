---------------------------- MODULE MCRetireInstr ----------------------------
(***************************************************************************)
(* RetireInstr with one location of every kind, so that the second of two  *)
(* instructions meets what the first one left in the buffers, and with two *)
(* effects per instruction, so that one can overwrite the other.           *)
(***************************************************************************)
EXTENDS RetireInstr
=============================================================================
