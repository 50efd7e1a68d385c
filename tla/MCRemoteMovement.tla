--------------------------- MODULE MCRemoteMovement ---------------------------
(* A short clock that wraps, few samples, and snapshots that arrive at once or late. *)
EXTENDS RemoteMovement, TLC
MCLags == {0, 3}
MCMovements == {[stance |-> "still", pathed |-> FALSE], [stance |-> "moving", pathed |-> FALSE],
                [stance |-> "moving", pathed |-> TRUE]}
=============================================================================
