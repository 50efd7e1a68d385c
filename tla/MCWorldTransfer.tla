--------------------------- MODULE MCWorldTransfer ---------------------------
(* WorldTransfer for TLC: a tiled map and one that is a single world model. *)
(* Neighbouring tiles are TerrainLoop's subject; one tile suffices here.    *)
EXTENDS WorldTransfer

CONSTANTS tiled, global, t1
=============================================================================
