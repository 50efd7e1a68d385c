------------------------------ MODULE MCCapture ------------------------------
(* Model-checking instance of Capture. *)
EXTENDS Capture
=============================================================================
