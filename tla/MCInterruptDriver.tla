-------------------------- MODULE MCInterruptDriver --------------------------
(***************************************************************************)
(* InterruptDriver with a small machine and a budget small enough that the *)
(* number of steps before the interrupt can reach it.                      *)
(***************************************************************************)
EXTENDS InterruptDriver
=============================================================================
