------------------------- MODULE MCCharacterScreen -------------------------
(* CharacterScreen for TLC.  One character that is created, renamed,        *)
(* deleted and entered with; two requests let the second meet what the      *)
(* first left behind, two unrelated packets exceed the limit of one.  Three *)
(* steps of the realm list are the first choice, a query and the choice     *)
(* that waits for it.                                                       *)
EXTENDS CharacterScreen

CONSTANTS c1
=============================================================================
