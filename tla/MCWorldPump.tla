---------------------------- MODULE MCWorldPump ----------------------------
(* Instance of  WorldPump: channels of one entry, so that every sender     *)
(* meets a full queue within a short script.  A malformed data packet ends *)
(* the client as a malformed sync does, so one of the two is enough.       *)
EXTENDS WorldPump

MixedKinds == {"data", "newWorld", "sync", "badSync"}
=============================================================================
