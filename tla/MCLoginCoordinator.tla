------------------------- MODULE MCLoginCoordinator -------------------------
(* LoginCoordinator for TLC.  Three requests let a cancelled query's answer *)
(* meet two later ones; two logins let state of the first leak into the     *)
(* second.  The one backdrop is missing from the archives; the other scene, *)
(* like the Death Knight's, is there and is asked for by the character      *)
(* screens only.                                                            *)
EXTENDS LoginCoordinator

CONSTANTS human, deathKnight

MCScenes == {human, deathKnight}
MCMissing == {human}
MCBackdrops == <<human>>
=============================================================================
