---------------------------- MODULE MCIsaString ----------------------------
(***************************************************************************)
(* IsaString with the composites that nest, the extensions the rule for C  *)
(* looks at, and strings with letters out of order and unknown names.      *)
(***************************************************************************)
EXTENDS IsaString

\* Up to date, or built with lists that end behind zvkng and shvstvecd.
MCKnownSizes ==
    {InitSizes, [ZExtSize |-> 25, SExtSize |-> 7, XExtSize |-> 1]}
=============================================================================
