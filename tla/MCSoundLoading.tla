---------------------------- MODULE MCSoundLoading ----------------------------
(* A sample and a streamed file, a few reservations and fewer tracks. *)
EXTENDS SoundLoading, TLC
=============================================================================
