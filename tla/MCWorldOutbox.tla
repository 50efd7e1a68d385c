---------------------------- MODULE MCWorldOutbox ----------------------------
(* Two worlds, a writer of one command and four requests; tutorial flags wait as
   logout requests do. *)
EXTENDS WorldOutbox, TLC

MCMaxAsked == [movement |-> 2, corpse |-> 1, logout |-> 3, death |-> 1, tutorial |-> 0]
=============================================================================
