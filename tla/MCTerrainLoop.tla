---------------------------- MODULE MCTerrainLoop ----------------------------
(* TerrainLoop for TLC: one tiled map of two tiles and one map that is a    *)
(* single world model.                                                      *)
EXTENDS TerrainGpu

CONSTANTS tiled, global, t1, t2
=============================================================================
