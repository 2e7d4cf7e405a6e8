------------------------------ MODULE MCDriver ------------------------------
(***************************************************************************)
(* Driver with a small machine: what its instructions do to the other      *)
(* kinds of locations is the subject of MCRetireInstr.                     *)
(***************************************************************************)
EXTENDS Driver
=============================================================================
